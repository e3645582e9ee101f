--------------------------- MODULE SemanticProofs ---------------------------
(***************************************************************************)
(* The analyser of semantic.c keeps its counters and its scope chain in    *)
(* step with the nesting of the program, for programs of any size.         *)
(***************************************************************************)
EXTENDS NestingProofs

(* The inductive invariant.  The nesting is not inductive alone: returning *)
(* from a function restores what its frame saved, returning from the walk  *)
(* needs the bottom frame to be the unit and the bottom scope to be empty. *)
Shape ==
  /\ result = "running" =>
       /\ frames # << >>
       /\ frames[1].kind = "unit"
       /\ Balanced(frames, Len(symtab), loop_depth, switch_depth,
                   current_func_return)
       /\ symtab[1] = EmptyScope("GLOBAL")
  /\ result # "running" =>
       /\ frames = << >>
       /\ symtab = symbol_table_create
       /\ loop_depth = 0 /\ switch_depth = 0
       /\ current_func_return = NoType
  /\ UniqueNames(symtab)

IInv == TypeOK /\ Shape

-----------------------------------------------------------------------------
(***************************************************************************)
(* Tables and collectors the handlers produce.                             *)
(***************************************************************************)

(* A table of n scopes over an empty global one, and its collector.        *)
Sound(st, n) ==
  /\ st.table \in Table
  /\ BoundedCollector(st.diag)
  /\ UniqueNames(st.table)
  /\ Len(st.table) = n
  /\ st.table[1] = EmptyScope("GLOBAL")

LEMMA SoundState ==
  ASSUME NEW table \in Table, NEW d, BoundedCollector(d), UniqueNames(table),
         table[1] = EmptyScope("GLOBAL")
  PROVE  Sound(State(table, d), Len(table))
BY DEF Sound, State

LEMMA SoundError ==
  ASSUME NEW st, NEW n, Sound(st, n)
  PROVE  Sound(State(st.table, diag_error(st.diag)), n)
BY DiagErrorBounded DEF Sound, State

LEMMA SoundAdd ==
  ASSUME NEW st, NEW n, n > 1, Sound(st, n),
         NEW name \in Names, NEW kind \in SymbolKinds
  PROVE  Sound(symbol_add(st, name, kind), n)
<1> DEFINE new == symbol_add(st, name, kind)
<1>1. /\ new.table \in Table
      /\ BoundedCollector(new.diag)
      /\ UniqueNames(new.table)
      /\ Len(new.table) = Len(st.table)
      /\ Len(st.table) > 1 => new.table[1] = st.table[1]
  BY SymbolAddProperties DEF Sound
<1> HIDE DEF new
<1>2. Sound(new, n)
  BY <1>1 DEF Sound
<1>3. QED
  BY <1>2 DEF new

LEMMA SoundReads ==
  ASSUME NEW st, NEW n, Sound(st, n), NEW reads
  PROVE  Sound(analyze_reads(st, reads), n)
BY SoundError DEF analyze_reads

LEMMA SoundPush ==
  ASSUME NEW st, NEW n, Sound(st, n), NEW kind \in ScopeKinds
  PROVE  Sound(State(scope_push(st.table, kind), st.diag), n + 1)
BY ScopePushProperties DEF Sound, State

-----------------------------------------------------------------------------
(***************************************************************************)
(* Steps.                                                                  *)
(***************************************************************************)
Running == IInv /\ result = "running"

(* A node may be visited from the last frame.                              *)
CanConsume == Top.kind \in ListKinds \/ Top.left > 0

LEMMA RunningFacts ==
  ASSUME Running
  PROVE  /\ frames \in Seq(Frame) /\ frames # << >>
         /\ Len(frames) \in Nat \ {0}
         /\ Top \in Frame
         /\ Len(symtab) \in Nat /\ Len(symtab) > 1
         /\ Sound(Here, Len(symtab))
<1>1. frames \in Seq(Frame) /\ frames # << >> /\ symtab \in Table
  BY DEF Running, IInv, TypeOK, Shape
<1>2. Len(frames) \in Nat \ {0}
  BY <1>1, EmptySeq
<1>3. Top \in Frame
  BY <1>1, <1>2, ElementOfSeq DEF Top
<1>4. Cardinality(OpenIn(frames, ScopedKinds)) \in Nat
  BY <1>1, OpenFinite
<1>5. Len(symtab) \in Nat /\ Len(symtab) > 1
  BY <1>4 DEF Running, IInv, Shape, Balanced
<1>6. Sound(Here, Len(symtab))
  BY <1>1, SoundState
     DEF Running, IInv, Shape, TypeOK, BoundedCollector, Here
<1>7. QED
  BY <1>1, <1>2, <1>3, <1>5, <1>6

LEMMA TopReplaced ==
  ASSUME Running, NEW f \in Frame, f.prev_return = Top.prev_return
  PROVE  /\ SetTop(f) \in Seq(Frame)
         /\ SetTop(f) # << >>
         /\ f.kind = Top.kind => SameShape(frames, SetTop(f))
         /\ Len(SetTop(f)) = Len(frames)
         /\ (Top.kind = "unit" => f.kind = "unit") => SetTop(f)[1].kind = "unit"
<1>1. /\ frames \in Seq(Frame) /\ frames # << >>
      /\ Len(frames) \in Nat \ {0}
      /\ frames[1].kind = "unit"
  BY RunningFacts DEF Running, IInv, Shape
<1> DEFINE gs == [frames EXCEPT ![Len(frames)] = f]
<1>2. /\ gs \in Seq(Frame)
      /\ Len(gs) = Len(frames)
      /\ gs # << >>
      /\ \A i \in 1 .. Len(frames) : gs[i] = IF i = Len(frames) THEN f
                                                                ELSE frames[i]
  BY <1>1, ReplaceTop
<1>3. SetTop(f) = gs
  BY DEF SetTop
<1> HIDE DEF gs
<1>4. f.kind = Top.kind => SameShape(frames, gs)
  BY <1>1, <1>2 DEF SameShape, Top
<1>5. QED
  BY <1>1, <1>2, <1>3, <1>4 DEF Top

LEMMA ConsumedShape ==
  ASSUME Running, CanConsume
  PROVE  /\ Consumed \in Seq(Frame)
         /\ Consumed # << >>
         /\ SameShape(frames, Consumed)
         /\ Consumed[1].kind = "unit"
<1>1. /\ frames \in Seq(Frame) /\ frames # << >>
      /\ frames[1].kind = "unit"
      /\ Top \in Frame
  BY RunningFacts DEF Running, IInv, Shape
<1>2. CASE Top.kind \in ListKinds
  BY <1>1, <1>2 DEF Consumed, SameShape
<1>3. CASE Top.kind \notin ListKinds
  <2> DEFINE f == [Top EXCEPT !.left = @ - 1]
  <2>1. Top.left > 0 /\ Consumed = SetTop(f)
    BY <1>3 DEF CanConsume, Consumed
  <2>2. f \in Frame /\ f.kind = Top.kind /\ f.prev_return = Top.prev_return
    BY <1>1, <2>1 DEF Frame
  <2> HIDE DEF f
  <2>3. QED
    BY <2>1, <2>2, TopReplaced
<1>4. QED
  BY <1>2, <1>3

(* The invariant after a step, from its parts.                             *)
LEMMA StillRunning ==
  ASSUME Running, result' = result,
         NEW st, Sound(st, Len(st.table)), symtab' = st.table, diag' = st.diag,
         loop_depth' \in Nat, switch_depth' \in Nat,
         current_func_return' \in ReturnTypes \cup {NoType},
         frames' \in Seq(Frame), frames' # << >>, frames'[1].kind = "unit",
         Balanced(frames', Len(st.table), loop_depth', switch_depth',
                  current_func_return'),
         node' \in Node,
         visited' \in 0 .. MaxNodes
  PROVE  IInv'
<1>1. TypeOK'
  BY DEF Running, IInv, TypeOK, Sound, BoundedCollector
<1>2. Shape'
  BY DEF Running, Shape, Sound
<1>3. QED
  BY <1>1, <1>2 DEF IInv

LEMMA VisitTypes ==
  ASSUME Running, NEW c, NEW names \in SUBSET Names, NEW sizes \in SUBSET Names,
         NEW reads \in SUBSET Names, Visit(c, names, sizes, reads)
  PROVE  /\ result' = result
         /\ node' \in Node
         /\ visited' \in 0 .. MaxNodes
BY BoundsAssumption DEF Running, IInv, TypeOK, Visit, Node

LEMMA SizedLeafPreserves ==
  ASSUME Running, CanConsume, NEW c, NEW names \in SUBSET Names,
         NEW sizes \in SUBSET Names, NEW reads \in SUBSET Names,
         NEW st, Sound(st, Len(symtab)), SizedLeaf(c, names, sizes, reads, st)
  PROVE  IInv'
<1> DEFINE new == IF Unwalked THEN Here ELSE st
<1>1. /\ Visit(c, names, sizes, reads)
      /\ frames' = Consumed
      /\ Report(st)
      /\ loop_depth' = loop_depth
      /\ switch_depth' = switch_depth
      /\ current_func_return' = current_func_return
  BY DEF SizedLeaf, Counters
<1>2. symtab' = new.table /\ diag' = new.diag /\ Sound(new, Len(symtab))
  BY <1>1, RunningFacts DEF Report, Here, State
<1>3. Balanced(frames, Len(symtab), loop_depth, switch_depth,
               current_func_return)
  BY DEF Running, IInv, Shape
<1>4. Balanced(frames', Len(symtab), loop_depth', switch_depth',
               current_func_return')
  BY <1>1, <1>3, ConsumedShape, RunningFacts, BalancedSameShape
<1>5. /\ loop_depth \in Nat /\ switch_depth \in Nat
      /\ current_func_return \in ReturnTypes \cup {NoType}
  BY DEF Running, IInv, TypeOK
<1>6. /\ result' = result
      /\ node' \in Node
      /\ visited' \in 0 .. MaxNodes
  BY <1>1, VisitTypes
<1> HIDE DEF new
<1>7. Sound(new, Len(new.table)) /\ Len(new.table) = Len(symtab)
  BY <1>2 DEF Sound
<1>8. frames' \in Seq(Frame) /\ frames' # << >> /\ frames'[1].kind = "unit"
  BY <1>1, ConsumedShape
<1>9. QED
  BY <1>1, <1>2, <1>4, <1>5, <1>6, <1>7, <1>8, StillRunning

LEMMA LeafPreserves ==
  ASSUME Running, CanConsume, NEW c, NEW names \in SUBSET Names,
         NEW reads \in SUBSET Names,
         NEW st, Sound(st, Len(symtab)), Leaf(c, names, reads, st)
  PROVE  IInv'
<1>1. {} \in SUBSET Names /\ SizedLeaf(c, names, {}, reads, st)
  BY DEF Leaf
<1>2. QED
  BY <1>1, SizedLeafPreserves

(* Entering a node from `gs', the frames once its caller has moved on.     *)
LEMMA EnterPreserves ==
  ASSUME Running, NEW c, NEW names \in SUBSET Names, NEW reads \in SUBSET Names, NEW kind \in FrameKinds,
         NEW gs \in Seq(Frame), gs # << >>, SameShape(frames, gs),
         gs[1].kind = "unit",
         NEW st, Sound(st, Len(symtab) + One(kind, ScopedKinds)),
         Visit(c, names, {}, reads), Report(st),
         frames' = Append(gs, NewFrame(kind)),
         loop_depth' = IF Unwalked THEN loop_depth
                                   ELSE loop_depth + One(kind, LoopKinds),
         switch_depth' = IF Unwalked THEN switch_depth
                                     ELSE switch_depth + One(kind, SwitchKinds),
         current_func_return' \in ReturnTypes \cup {NoType},
         Unwalked \/ kind \notin FuncKinds =>
           current_func_return' = current_func_return,
         ~Unwalked /\ kind \in FuncKinds => current_func_return' # NoType
  PROVE  IInv'
<1> DEFINE new == IF Unwalked THEN Here ELSE st
           f == NewFrame(kind)
<1>1. /\ loop_depth \in Nat /\ switch_depth \in Nat
      /\ current_func_return \in ReturnTypes \cup {NoType}
  BY DEF Running, IInv, TypeOK
<1>2. f \in Frame /\ f.kind = kind /\ f.prev_return = current_func_return
  BY <1>1 DEF NewFrame, Frame, Arity
<1>3. /\ symtab' = new.table /\ diag' = new.diag
      /\ Sound(new, Len(symtab) + IF Unwalked THEN 0 ELSE One(kind, ScopedKinds))
  <2>1. Len(symtab) \in Nat
    BY RunningFacts
  <2>2. CASE Unwalked
    BY <2>1, <2>2, RunningFacts DEF Report, Here, State
  <2>3. CASE ~Unwalked
    BY <2>1, <2>3 DEF Report
  <2>4. QED
    BY <2>2, <2>3
<1>4. frames \in Seq(Frame) /\ Len(symtab) \in Nat
  BY RunningFacts
<1>5. /\ Balanced(gs, Len(symtab), loop_depth, switch_depth,
                  current_func_return)
      /\ UnwalkedIn(gs) = Unwalked
  BY <1>4, BalancedSameShape, SameShapeOpen
     DEF Running, IInv, Shape, Unwalked
<1> HIDE DEF new, f
<1>6. Sound(new, Len(new.table))
      /\ Len(new.table) = Len(symtab) + IF Unwalked THEN 0
                                                    ELSE One(kind, ScopedKinds)
  BY <1>3 DEF Sound
<1>7. Balanced(Append(gs, f), Len(new.table), loop_depth', switch_depth',
               current_func_return')
  <2>1. CASE Unwalked
    <3>1. Len(new.table) = Len(symtab)
      BY <1>4, <1>6, <2>1
    <3>2. Balanced(Append(gs, f), Len(symtab), loop_depth, switch_depth,
                   current_func_return)
      BY <1>2, <1>5, <2>1, BalancedUnwalkedPush
    <3>3. QED
      BY <2>1, <3>1, <3>2
  <2>2. CASE ~Unwalked
    <3>1. /\ loop_depth' = loop_depth + One(kind, LoopKinds)
          /\ switch_depth' = switch_depth + One(kind, SwitchKinds)
          /\ Len(new.table) = Len(symtab) + One(kind, ScopedKinds)
          /\ kind \in FuncKinds => current_func_return' # NoType
          /\ kind \notin FuncKinds => current_func_return' = current_func_return
      BY <1>6, <2>2
    <3>2. QED
      BY <1>1, <1>2, <1>4, <1>5, <2>2, <3>1, BalancedPush
  <2>3. QED
    BY <2>1, <2>2
<1>8. loop_depth' \in Nat /\ switch_depth' \in Nat
  BY <1>1 DEF One
<1>9. /\ result' = result
      /\ node' \in Node
      /\ visited' \in 0 .. MaxNodes
  <2>1. {} \in SUBSET Names
    OBVIOUS
  <2>2. QED
    BY <2>1, VisitTypes
<1>10. frames' \in Seq(Frame) /\ frames' # << >> /\ frames'[1].kind = "unit"
  <2>1. Len(gs) \in Nat \ {0}
    BY EmptySeq
  <2>2. /\ Append(gs, f) \in Seq(Frame)
        /\ Len(Append(gs, f)) = Len(gs) + 1
        /\ Append(gs, f)[1] = gs[1]
    BY <1>2, <2>1, AppendProperties
  <2>3. Append(gs, f) # << >>
    BY <2>1, <2>2, EmptySeq
  <2>4. QED
    BY <2>2, <2>3 DEF f
<1>11. QED
  BY <1>3, <1>6, <1>7, <1>8, <1>9, <1>10, StillRunning DEF f

-----------------------------------------------------------------------------
(***************************************************************************)
(* The actions.                                                            *)
(***************************************************************************)
(* Every place a node can be visited from can move on to its sibling.      *)
LEMMA Placement ==
  ASSUME StatementAllowed \/ VarAllowed \/ FuncAllowed \/ TopLevel
           \/ Top.kind \in {"params", "enum"} \/ Top.left > 0
  PROVE  CanConsume
BY DEF StatementAllowed, VarAllowed, FuncAllowed, TopLevel, CanConsume, ListKinds

LEMMA ReadsAreNames == {} \in SUBSET Names /\ Reads \subseteq SUBSET Names
BY DEF Reads

(* A variable is added as any symbol is, once its sizes have been read.    *)
LEMMA DeclareAdds ==
  ASSUME NEW n, NEW z
  PROVE  declare(n, z) = symbol_add(analyze_reads(Here, z), n, "VARIABLE")
<1>1. analyze_reads(Here, z).table = symtab
  BY DEF analyze_reads, Here, State
<1>2. QED
  BY <1>1 DEF declare, symbol_add

LEMMA SoundDeclare ==
  ASSUME Running, NEW n \in Names, NEW z
  PROVE  Sound(declare(n, z), Len(symtab))
<1>1. Sound(analyze_reads(Here, z), Len(symtab)) /\ Len(symtab) > 1
  BY RunningFacts, SoundReads
<1>2. QED
  BY <1>1, DeclareAdds, SoundAdd DEF SymbolKinds

LEMMA VariableLeaves ==
  ASSUME Running, NEW n \in Names, NEW z \in Reads, NEW r \in Reads,
         VarDecl(n, z, r) \/ ListDecl(n, z, r)
  PROVE  IInv'
<1>1. Sound(declare(n, z), Len(symtab))
  BY SoundDeclare
<1>2. /\ r \in SUBSET Names /\ z \in SUBSET Names /\ {n} \in SUBSET Names
  BY ReadsAreNames
<1>3. CASE VarDecl(n, z, r)
  BY <1>1, <1>2, <1>3, SoundReads, Placement, SizedLeafPreserves DEF VarDecl
<1>4. CASE ListDecl(n, z, r)
  BY <1>1, <1>2, <1>4, Placement, SizedLeafPreserves DEF ListDecl
<1>5. QED
  BY <1>3, <1>4

LEMMA DeclarationLeaves ==
  ASSUME Running, NEW n \in Names,
         \/ FuncPrototype(n)
         \/ Param(n)
         \/ Enumerator(n)
         \/ LabelStmt(n)
         \/ Define(n)
  PROVE  IInv'
<1>1. Sound(Here, Len(symtab)) /\ Len(symtab) > 1
  BY RunningFacts
<1>2. \A kind \in SymbolKinds : Sound(symbol_add(Here, n, kind), Len(symtab))
  BY <1>1, SoundAdd
<1>3. {} \in SUBSET Names
  BY ReadsAreNames
<1>4. CASE Define(n)
  BY <1>1, <1>3, <1>4, Placement, LeafPreserves DEF Define
<1>5. CASE FuncPrototype(n)
  BY <1>2, <1>3, <1>5, Placement, LeafPreserves DEF FuncPrototype, SymbolKinds
<1>6. CASE Param(n)
  BY <1>2, <1>3, <1>6, Placement, LeafPreserves DEF Param, SymbolKinds
<1>7. CASE Enumerator(n)
  BY <1>2, <1>3, <1>7, Placement, LeafPreserves DEF Enumerator, SymbolKinds
<1>8. CASE LabelStmt(n)
  BY <1>2, <1>3, <1>8, Placement, LeafPreserves DEF LabelStmt, SymbolKinds
<1>9. QED
  BY <1>4, <1>5, <1>6, <1>7, <1>8

LEMMA StatementLeaves ==
  ASSUME Running, NEW r \in Reads,
         \/ ExprStmt(r)
         \/ ThrowStmt(r) \/ CallExpr(r) \/ SizeofExpr(r)
         \/ ForInitExpr(r)
         \/ GotoStmt
         \/ BreakStmt
         \/ ContinueStmt
  PROVE  IInv'
<1>1. Sound(Here, Len(symtab))
  BY RunningFacts
<1>2. Sound(State(symtab, diag_error(diag)), Len(symtab))
  BY <1>1, SoundError DEF Here, State
<1>3. Sound(State(symtab, diag_warning(diag)), Len(symtab))
  BY <1>1, DiagWarningBounded DEF Sound, Here, State
<1>4. Sound(analyze_reads(Here, r), Len(symtab))
  BY <1>1, SoundReads
<1>5. r \in SUBSET Names /\ {} \in SUBSET Names
  BY ReadsAreNames
<1>6. CASE ExprStmt(r)
  BY <1>4, <1>5, <1>6, Placement, LeafPreserves DEF ExprStmt
<1>7. CASE ThrowStmt(r) \/ CallExpr(r) \/ SizeofExpr(r)
  BY <1>1, <1>5, <1>7, Placement, LeafPreserves DEF ThrowStmt, CallExpr, SizeofExpr
<1>8. CASE ForInitExpr(r)
  BY <1>1, <1>5, <1>8, Placement, LeafPreserves DEF ForInitExpr
<1>9. CASE GotoStmt
  BY <1>1, <1>5, <1>9, Placement, LeafPreserves DEF GotoStmt
<1>10. CASE BreakStmt
  <2>1. StatementAllowed /\ (Leaf("break", {}, {}, State(symtab, diag_error(diag)))
                               \/ Leaf("break", {}, {}, Here))
    BY <1>10 DEF BreakStmt
  <2>2. QED
    BY <1>1, <1>2, <1>5, <2>1, Placement, LeafPreserves
<1>11. CASE ContinueStmt
  <2>1. StatementAllowed
        /\ (Leaf("continue", {}, {}, State(symtab, diag_error(diag)))
              \/ Leaf("continue", {}, {}, State(symtab, diag_warning(diag))))
    BY <1>11 DEF ContinueStmt
  <2>2. QED
    BY <1>2, <1>3, <1>5, <2>1, Placement, LeafPreserves
<1>12. QED
  BY <1>6, <1>7, <1>8, <1>9, <1>10, <1>11

(* Entering a construct that opens no function, from a place its caller    *)
(* moves on from.                                                          *)
LEMMA EnterConstruct ==
  ASSUME Running, CanConsume, NEW c, NEW names \in SUBSET Names, NEW reads \in SUBSET Names,
         NEW kind \in FrameKinds \ FuncKinds,
         NEW st, Sound(st, Len(symtab) + One(kind, ScopedKinds)),
         Enter(c, names, reads, kind, st),
         loop_depth' = IF Unwalked THEN loop_depth
                                   ELSE loop_depth + One(kind, LoopKinds),
         switch_depth' = IF Unwalked THEN switch_depth
                                     ELSE switch_depth + One(kind, SwitchKinds),
         current_func_return' = current_func_return
  PROVE  IInv'
<1>1. current_func_return \in ReturnTypes \cup {NoType}
  BY DEF Running, IInv, TypeOK
<1>2. /\ Visit(c, names, {}, reads)
      /\ Report(st)
      /\ frames' = Append(Consumed, NewFrame(kind))
  BY DEF Enter
<1>3. QED
  BY <1>1, <1>2, ConsumedShape, EnterPreserves

(* A construct that only nests leaves every counter alone.                 *)
LEMMA EnterPlain ==
  ASSUME Running, CanConsume, NEW c, NEW names \in SUBSET Names, NEW reads \in SUBSET Names,
         NEW kind \in FrameKinds \ FuncKinds,
         kind \notin LoopKinds, kind \notin SwitchKinds,
         NEW st, Sound(st, Len(symtab) + One(kind, ScopedKinds)),
         Enter(c, names, reads, kind, st), UNCHANGED Counters
  PROVE  IInv'
<1>1. loop_depth \in Nat /\ switch_depth \in Nat
  BY DEF Running, IInv, TypeOK
<1>2. One(kind, LoopKinds) = 0 /\ One(kind, SwitchKinds) = 0
  BY DEF One
<1>3. /\ loop_depth' = loop_depth
      /\ switch_depth' = switch_depth
      /\ current_func_return' = current_func_return
  BY DEF Counters
<1>4. QED
  BY <1>1, <1>2, <1>3, EnterConstruct

LEMMA PlainConstructs ==
  ASSUME Running, NEW r \in Reads,
         \/ \E n \in Names : StructDecl(n) \/ EnumDecl(n)
         \/ NamelessClass \/ NamelessEnum(r)
         \/ Include
         \/ IfStmt(r)
         \/ DoWhileStmt
         \/ TryStmt
         \/ Block
         \/ ForStmt
  PROVE  IInv'
<1>1. Sound(Here, Len(symtab)) /\ Len(symtab) > 1 /\ Len(symtab) \in Nat
  BY RunningFacts
<1>2. \A n \in Names, kind \in SymbolKinds :
        Sound(symbol_add(Here, n, kind), Len(symtab))
  BY <1>1, SoundAdd
<1>3. Sound(analyze_reads(Here, r), Len(symtab))
  BY <1>1, SoundReads
<1>4. r \in SUBSET Names /\ {} \in SUBSET Names
  BY ReadsAreNames
<1>5. /\ {"class", "enum", "include", "if", "do", "try", "block", "forinit"}
           \subseteq (FrameKinds \ FuncKinds) \ (LoopKinds \cup SwitchKinds)
      /\ \A kind \in {"class", "enum", "include", "if", "do", "try"} :
           Len(symtab) + One(kind, ScopedKinds) = Len(symtab)
      /\ \A kind \in {"block", "forinit"} : One(kind, ScopedKinds) = 1
  BY <1>1 DEF FrameKinds, ListKinds, FuncKinds, LoopKinds, SwitchKinds,
              ScopedKinds, One
<1>6. CASE \E n \in Names : StructDecl(n)
  BY <1>2, <1>4, <1>5, <1>6, Placement, EnterPlain DEF StructDecl, SymbolKinds
<1>7. CASE \E n \in Names : EnumDecl(n)
  BY <1>2, <1>4, <1>5, <1>7, Placement, EnterPlain DEF EnumDecl, SymbolKinds
<1>8. CASE Include
  BY <1>1, <1>4, <1>5, <1>8, Placement, EnterPlain DEF Include
<1>9. CASE IfStmt(r)
  BY <1>3, <1>4, <1>5, <1>9, Placement, EnterPlain DEF IfStmt
<1>10. CASE DoWhileStmt
  BY <1>1, <1>4, <1>5, <1>10, Placement, EnterPlain DEF DoWhileStmt
<1>11. CASE TryStmt
  BY <1>1, <1>4, <1>5, <1>11, Placement, EnterPlain DEF TryStmt
<1>12. Sound(State(scope_push(symtab, "BLOCK"), diag), Len(symtab) + 1)
  <2>1. Here.table = symtab /\ Here.diag = diag
    BY DEF Here, State
  <2>2. QED
    BY <1>1, <2>1, SoundPush DEF ScopeKinds
<1>13. CASE Block
  BY <1>4, <1>5, <1>12, <1>13, Placement, EnterPlain DEF Block
<1>14. CASE ForStmt
  BY <1>4, <1>5, <1>12, <1>14, Placement, EnterPlain DEF ForStmt
<1>15. CASE NamelessClass \/ NamelessEnum(r)
  BY <1>1, <1>4, <1>5, <1>15, Placement, EnterPlain DEF NamelessClass, NamelessEnum
<1>16. QED
  BY <1>6, <1>7, <1>8, <1>9, <1>10, <1>11, <1>13, <1>14, <1>15

LEMMA CountedConstructs ==
  ASSUME Running, NEW r \in Reads,
         WhileStmt(r) \/ SwitchStmt(r)
  PROVE  IInv'
<1>1. Sound(analyze_reads(Here, r), Len(symtab)) /\ Len(symtab) \in Nat
  BY RunningFacts, SoundReads
<1>2. r \in SUBSET Names
  BY ReadsAreNames
<1>3. /\ loop_depth \in Nat /\ switch_depth \in Nat
  BY DEF Running, IInv, TypeOK
<1>4. /\ "while" \in FrameKinds \ FuncKinds /\ "switch" \in FrameKinds \ FuncKinds
      /\ One("while", LoopKinds) = 1 /\ One("while", SwitchKinds) = 0
      /\ One("switch", LoopKinds) = 0 /\ One("switch", SwitchKinds) = 1
      /\ One("while", ScopedKinds) = 0 /\ One("switch", ScopedKinds) = 0
  BY DEF FrameKinds, ListKinds, FuncKinds, LoopKinds, SwitchKinds, ScopedKinds, One
<1>5. CASE WhileStmt(r)
  <2>1. /\ CanConsume
        /\ Enter("while", {}, r, "while", analyze_reads(Here, r))
        /\ current_func_return' = current_func_return
    BY <1>5, Placement DEF WhileStmt
  <2>2. /\ loop_depth' = IF Unwalked THEN loop_depth ELSE loop_depth + 1
        /\ switch_depth' = IF Unwalked THEN switch_depth ELSE switch_depth + 0
        /\ Len(symtab) + 0 = Len(symtab)
    BY <1>1, <1>3, <1>5 DEF WhileStmt
  <2>3. QED
    BY <1>1, <1>2, <1>4, <2>1, <2>2, EnterConstruct
<1>6. CASE SwitchStmt(r)
  <2>1. /\ CanConsume
        /\ Enter("switch", {}, r, "switch", analyze_reads(Here, r))
        /\ current_func_return' = current_func_return
    BY <1>6, Placement DEF SwitchStmt
  <2>2. /\ loop_depth' = IF Unwalked THEN loop_depth ELSE loop_depth + 0
        /\ switch_depth' = IF Unwalked THEN switch_depth ELSE switch_depth + 1
        /\ Len(symtab) + 0 = Len(symtab)
    BY <1>1, <1>3, <1>6 DEF SwitchStmt
  <2>3. QED
    BY <1>1, <1>2, <1>4, <2>1, <2>2, EnterConstruct
<1>7. QED
  BY <1>5, <1>6

LEMMA FunctionEntered ==
  ASSUME Running, NEW n \in Names, NEW t \in ReturnTypes, FuncDecl(n, t)
  PROVE  IInv'
<1> DEFINE added == symbol_add(Here, n, "FUNCTION")
           st == State(scope_push(added.table, "FUNCTION"), added.diag)
<1>1. Sound(st, Len(symtab) + 1)
  <2>1. Sound(added, Len(symtab))
    BY RunningFacts, SoundAdd DEF SymbolKinds
  <2> HIDE DEF added
  <2>2. QED
    BY <2>1, SoundPush DEF ScopeKinds
<1>2. /\ CanConsume
      /\ Enter("func", {n}, {}, "params", st)
      /\ current_func_return' = IF Unwalked THEN current_func_return ELSE t
      /\ loop_depth' = loop_depth /\ switch_depth' = switch_depth
  BY Placement DEF FuncDecl
<1> HIDE DEF st
<1>3. /\ loop_depth \in Nat /\ switch_depth \in Nat
      /\ current_func_return \in ReturnTypes \cup {NoType}
  BY DEF Running, IInv, TypeOK
<1>4. /\ "params" \in FrameKinds /\ "params" \in FuncKinds
      /\ One("params", LoopKinds) = 0 /\ One("params", SwitchKinds) = 0
      /\ One("params", ScopedKinds) = 1
  BY DEF FrameKinds, ListKinds, FuncKinds, LoopKinds, SwitchKinds, ScopedKinds, One
<1>5. /\ Visit("func", {n}, {}, {}) /\ Report(st)
      /\ frames' = Append(Consumed, NewFrame("params"))
  BY <1>2 DEF Enter
<1>6. /\ loop_depth' = IF Unwalked THEN loop_depth ELSE loop_depth + 0
      /\ switch_depth' = IF Unwalked THEN switch_depth ELSE switch_depth + 0
      /\ current_func_return' \in ReturnTypes \cup {NoType}
      /\ Unwalked => current_func_return' = current_func_return
      /\ ~Unwalked => current_func_return' # NoType
  BY <1>2, <1>3, TypesAssumption
<1>7. QED
  BY <1>1, <1>2, <1>4, <1>5, <1>6, ReadsAreNames, ConsumedShape, EnterPreserves

LEMMA CaseEntered ==
  ASSUME Running, NEW r \in Reads, CaseStmt(r)
  PROVE  IInv'
<1> DEFINE f == [Top EXCEPT !.left = 0]
<1>1. f \in Frame /\ f.kind = Top.kind /\ f.prev_return = Top.prev_return
  BY RunningFacts DEF Frame
<1>2. /\ Visit("case", {}, {}, r)
      /\ frames' = Append(SetTop(f), NewFrame("case"))
      /\ Report(analyze_reads(Here, r))
      /\ loop_depth' = loop_depth /\ switch_depth' = switch_depth
      /\ current_func_return' = current_func_return
  BY DEF CaseStmt, Counters
<1> HIDE DEF f
<1>3. /\ SetTop(f) \in Seq(Frame) /\ SetTop(f) # << >>
      /\ SameShape(frames, SetTop(f)) /\ SetTop(f)[1].kind = "unit"
  BY <1>1, TopReplaced
<1>4. /\ loop_depth \in Nat /\ switch_depth \in Nat
      /\ current_func_return \in ReturnTypes \cup {NoType}
  BY DEF Running, IInv, TypeOK
<1>5. /\ "case" \in FrameKinds /\ "case" \notin FuncKinds
      /\ One("case", LoopKinds) = 0 /\ One("case", SwitchKinds) = 0
      /\ One("case", ScopedKinds) = 0
  BY DEF FrameKinds, ListKinds, FuncKinds, LoopKinds, SwitchKinds, ScopedKinds, One
<1>6. Sound(analyze_reads(Here, r), Len(symtab)) /\ Len(symtab) + 0 = Len(symtab)
  BY RunningFacts, SoundReads
<1>7. /\ loop_depth' = IF Unwalked THEN loop_depth ELSE loop_depth + 0
      /\ switch_depth' = IF Unwalked THEN switch_depth ELSE switch_depth + 0
  BY <1>2, <1>4
<1>8. r \in SUBSET Names
  BY ReadsAreNames
<1>9. QED
  BY <1>2, <1>3, <1>4, <1>5, <1>6, <1>7, <1>8, EnterPreserves

(* Going on within the last frame: to the body of a function and of a for. *)
LEMMA BodyEntered ==
  ASSUME Running, FuncBody
  PROVE  IInv'
<1> DEFINE f == [Top EXCEPT !.kind = "func"]
<1>1. /\ Top \in Frame /\ Top.kind = "params"
      /\ frames \in Seq(Frame) /\ frames # << >>
      /\ Sound(Here, Len(symtab)) /\ Len(symtab) \in Nat
  BY RunningFacts DEF FuncBody
<1>2. f \in Frame /\ f.kind = "func" /\ f.prev_return = Top.prev_return
  BY <1>1 DEF Frame, FrameKinds, ListKinds
<1>3. /\ frames' = SetTop(f)
      /\ UNCHANGED << analyser, result, visited >>
      /\ node' = NoNode
  BY DEF FuncBody
<1> HIDE DEF f
<1>4. /\ loop_depth \in Nat /\ switch_depth \in Nat
      /\ current_func_return \in ReturnTypes \cup {NoType}
      /\ visited \in 0 .. MaxNodes
      /\ Balanced(frames, Len(symtab), loop_depth, switch_depth,
                  current_func_return)
  BY DEF Running, IInv, TypeOK, Shape
<1>5. One("func", LoopKinds) = 0
  BY DEF One, LoopKinds
<1>6. Balanced(SetTop(f), Len(symtab), loop_depth, switch_depth,
               current_func_return)
  <2>1. /\ frames[Len(frames)].kind \notin UnwalkedKinds
        /\ f.prev_return = frames[Len(frames)].prev_return
        /\ f.kind \in FuncKinds <=> frames[Len(frames)].kind \in FuncKinds
        /\ f.kind \in SwitchKinds <=> frames[Len(frames)].kind \in SwitchKinds
        /\ f.kind \in ScopedKinds <=> frames[Len(frames)].kind \in ScopedKinds
        /\ frames[Len(frames)].kind \notin LoopKinds
    BY <1>1, <1>2 DEF Top, UnwalkedKinds, FuncKinds, SwitchKinds, ScopedKinds,
                      LoopKinds
  <2>2. loop_depth = IF UnwalkedIn(frames) THEN loop_depth
                     ELSE loop_depth + One(f.kind, LoopKinds)
    BY <1>2, <1>4, <1>5
  <2>3. QED
    BY <1>1, <1>2, <1>4, <2>1, <2>2, BalancedReplaceTop DEF SetTop
<1>7. /\ symtab' = Here.table /\ diag' = Here.diag
      /\ loop_depth' = loop_depth /\ switch_depth' = switch_depth
      /\ current_func_return' = current_func_return
      /\ result' = result /\ visited' = visited
      /\ Here.table = symtab
  BY <1>3 DEF analyser, Here, State
<1>8. node' \in Node
  BY <1>3 DEF NoNode, Node
<1>9. SetTop(f) \in Seq(Frame) /\ SetTop(f) # << >> /\ SetTop(f)[1].kind = "unit"
  BY <1>1, <1>2, TopReplaced
<1>10. QED
  BY <1>1, <1>3, <1>4, <1>6, <1>7, <1>8, <1>9, StillRunning

LEMMA ForBodyFrame ==
  ASSUME NEW frame \in Frame
  PROVE  LET f == [frame EXCEPT !.kind = "forbody", !.left = 1] IN
         f \in Frame /\ f.kind = "forbody" /\ f.prev_return = frame.prev_return
<1> DEFINE g == [frame EXCEPT !.kind = "forbody"]
           f == [frame EXCEPT !.kind = "forbody", !.left = 1]
<1>1. g \in Frame /\ g.kind = "forbody" /\ g.prev_return = frame.prev_return
  BY DEF Frame, FrameKinds, ListKinds
<1>2. f = [g EXCEPT !.left = 1]
  BY DEF Frame
<1> HIDE DEF f, g
<1>3. f \in Frame /\ f.kind = "forbody" /\ f.prev_return = frame.prev_return
  BY <1>1, <1>2 DEF Frame
<1>4. QED
  BY <1>3 DEF f

LEMMA LoopEntered ==
  ASSUME Running, NEW r \in Reads, ForBody(r)
  PROVE  IInv'
<1> DEFINE f == [Top EXCEPT !.kind = "forbody", !.left = 1]
           st == analyze_reads(Here, r)
           new == IF Unwalked THEN Here ELSE st
<1>1. /\ Top \in Frame /\ Top.kind = "forinit"
      /\ frames \in Seq(Frame) /\ frames # << >>
      /\ Sound(Here, Len(symtab)) /\ Len(symtab) \in Nat
      /\ Sound(st, Len(symtab))
  BY RunningFacts, SoundReads DEF ForBody
<1>2. f \in Frame /\ f.kind = "forbody" /\ f.prev_return = Top.prev_return
  BY <1>1, ForBodyFrame
<1>3. /\ Visit("for", {}, {}, r)
      /\ frames' = SetTop(f)
      /\ Report(st)
      /\ loop_depth' = IF Unwalked THEN loop_depth ELSE loop_depth + 1
      /\ switch_depth' = switch_depth
      /\ current_func_return' = current_func_return
  BY DEF ForBody
<1>4. symtab' = new.table /\ diag' = new.diag /\ Sound(new, Len(symtab))
  BY <1>1, <1>3 DEF Report, Here, State
<1> HIDE DEF f, st, new
<1>5. /\ loop_depth \in Nat /\ switch_depth \in Nat
      /\ current_func_return \in ReturnTypes \cup {NoType}
      /\ Balanced(frames, Len(symtab), loop_depth, switch_depth,
                  current_func_return)
  BY DEF Running, IInv, TypeOK, Shape
<1>6. One("forbody", LoopKinds) = 1
  BY DEF One, LoopKinds
<1>7. Balanced(SetTop(f), Len(symtab), loop_depth', switch_depth',
               current_func_return')
  <2>1. /\ frames[Len(frames)].kind \notin UnwalkedKinds
        /\ f.prev_return = frames[Len(frames)].prev_return
        /\ f.kind \in FuncKinds <=> frames[Len(frames)].kind \in FuncKinds
        /\ f.kind \in SwitchKinds <=> frames[Len(frames)].kind \in SwitchKinds
        /\ f.kind \in ScopedKinds <=> frames[Len(frames)].kind \in ScopedKinds
        /\ frames[Len(frames)].kind \notin LoopKinds
    BY <1>1, <1>2 DEF Top, UnwalkedKinds, FuncKinds, SwitchKinds, ScopedKinds,
                      LoopKinds
  <2>2. loop_depth' = IF UnwalkedIn(frames) THEN loop_depth
                      ELSE loop_depth + One(f.kind, LoopKinds)
    BY <1>2, <1>3, <1>6 DEF Unwalked
  <2>3. QED
    BY <1>1, <1>2, <1>3, <1>5, <2>1, <2>2, BalancedReplaceTop DEF SetTop
<1>8. Sound(new, Len(new.table)) /\ Len(new.table) = Len(symtab)
  BY <1>4 DEF Sound
<1>9. /\ result' = result
      /\ node' \in Node
      /\ visited' \in 0 .. MaxNodes
  BY <1>3, ReadsAreNames, VisitTypes
<1>10. SetTop(f) \in Seq(Frame) /\ SetTop(f) # << >> /\ SetTop(f)[1].kind = "unit"
  BY <1>1, <1>2, TopReplaced
<1>11. loop_depth' \in Nat
  BY <1>3, <1>5
<1>12. QED
  BY <1>3, <1>4, <1>5, <1>7, <1>8, <1>9, <1>10, <1>11, StillRunning

(* Returning undoes exactly what entering did.                             *)
LEMMA NodeLeft ==
  ASSUME Running, Leave
  PROVE  IInv'
<1> DEFINE n == Len(frames)
           new == State(symtab', diag')
<1>1. /\ frames \in Seq(Frame) /\ frames # << >> /\ n \in Nat \ {0}
      /\ Top \in Frame /\ Top = frames[n]
      /\ Len(symtab) \in Nat /\ Len(symtab) > 1
      /\ Sound(Here, Len(symtab))
  BY RunningFacts DEF Top
<1>2. /\ MayLeave
      /\ frames' = SubSeq(frames, 1, n - 1)
      /\ node' = NoNode
      /\ result' = result /\ visited' = visited
  BY DEF Leave, Popped
<1>3. /\ loop_depth \in Nat /\ switch_depth \in Nat
      /\ current_func_return \in ReturnTypes \cup {NoType}
      /\ visited \in 0 .. MaxNodes
      /\ frames[1].kind = "unit"
      /\ Balanced(frames, Len(symtab), loop_depth, switch_depth,
                  current_func_return)
  BY DEF Running, IInv, TypeOK, Shape
<1>4. Top.kind \notin {"unit", "params", "forinit"}
  BY <1>2 DEF MayLeave
<1>5. n - 1 \in Nat \ {0}
  BY <1>1, <1>3, <1>4
<1>6. /\ frames' \in Seq(Frame) /\ frames' # << >> /\ frames'[1].kind = "unit"
  <2>1. LoopKinds \in WalkedSets
    BY DEF WalkedSets
  <2>2. /\ SubSeq(frames, 1, n - 1) \in Seq(Frame)
        /\ Len(SubSeq(frames, 1, n - 1)) = n - 1
        /\ SubSeq(frames, 1, n - 1)[1] = frames[1]
    BY <1>1, <1>5, <2>1, PopOpen
  <2>3. SubSeq(frames, 1, n - 1) # << >>
    BY <1>5, <2>2, EmptySeq
  <2>4. QED
    BY <1>2, <1>3, <2>2, <2>3
<1>7. /\ Sound(new, Len(symtab'))
      /\ loop_depth' \in Nat /\ switch_depth' \in Nat
      /\ current_func_return' \in ReturnTypes \cup {NoType}
      /\ Balanced(frames', Len(symtab'), loop_depth', switch_depth',
                  current_func_return')
  <2>1. CASE Unwalked
    <3>1. UNCHANGED << symtab, diag, loop_depth, switch_depth,
                       current_func_return >>
      BY <2>1 DEF Leave, analyser
    <3>2. Balanced(SubSeq(frames, 1, n - 1), Len(symtab), loop_depth,
                   switch_depth, current_func_return)
      BY <1>1, <1>3, <2>1, BalancedUnwalkedPop DEF Unwalked
    <3>3. QED
      BY <1>1, <1>2, <1>3, <3>1, <3>2 DEF Here
  <2>2. CASE ~Unwalked
    <3>1. /\ symtab' = IF Top.kind \in {"func", "block", "forbody"}
                       THEN scope_pop(symtab) ELSE symtab
          /\ loop_depth' = IF Top.kind \in {"while", "forbody"}
                           THEN loop_depth - 1 ELSE loop_depth
          /\ switch_depth' = IF Top.kind = "switch"
                             THEN switch_depth - 1 ELSE switch_depth
          /\ current_func_return' = IF Top.kind = "func"
                                    THEN Top.prev_return ELSE current_func_return
          /\ diag' = diag
      BY <2>2 DEF Leave
    <3>2. /\ scope_pop(symtab) \in Table
          /\ Len(scope_pop(symtab)) = Len(symtab) - 1
          /\ scope_pop(symtab)[1] = symtab[1]
          /\ UniqueNames(scope_pop(symtab))
      BY <1>1, ScopePopProperties DEF Sound, Here, State
    <3>3. /\ loop_depth' = loop_depth - One(Top.kind, LoopKinds)
          /\ switch_depth' = switch_depth - One(Top.kind, SwitchKinds)
          /\ Len(symtab') = Len(symtab) - One(Top.kind, ScopedKinds)
          /\ current_func_return' = IF Top.kind \in FuncKinds
                                    THEN Top.prev_return ELSE current_func_return
      <4>1. /\ Top.kind \in LoopKinds <=> Top.kind \in {"while", "forbody"}
            /\ Top.kind \in SwitchKinds <=> Top.kind = "switch"
            /\ Top.kind \in ScopedKinds <=> Top.kind \in {"func", "block", "forbody"}
            /\ Top.kind \in FuncKinds <=> Top.kind = "func"
        BY <1>4 DEF LoopKinds, SwitchKinds, ScopedKinds, FuncKinds
      <4>2. loop_depth' = loop_depth - One(Top.kind, LoopKinds)
        BY <1>3, <3>1, <4>1 DEF One
      <4>3. switch_depth' = switch_depth - One(Top.kind, SwitchKinds)
        BY <1>3, <3>1, <4>1 DEF One
      <4>4. Len(symtab') = Len(symtab) - One(Top.kind, ScopedKinds)
        <5>1. CASE Top.kind \in ScopedKinds
          BY <3>1, <3>2, <4>1, <5>1 DEF One
        <5>2. CASE Top.kind \notin ScopedKinds
          BY <1>1, <3>1, <4>1, <5>2 DEF One
        <5>3. QED
          BY <5>1, <5>2
      <4>5. QED
        BY <3>1, <4>1, <4>2, <4>3, <4>4
    <3>4. /\ Balanced(SubSeq(frames, 1, n - 1), Len(symtab'), loop_depth',
                      switch_depth', current_func_return')
          /\ loop_depth' \in Nat /\ switch_depth' \in Nat
      BY <1>1, <1>3, <2>2, <3>3, BalancedPop DEF Unwalked
    <3>5. Sound(new, Len(symtab'))
      BY <1>1, <3>1, <3>2 DEF Sound, Here, State
    <3>6. current_func_return' \in ReturnTypes \cup {NoType}
      BY <1>1, <1>3, <3>1 DEF Frame
    <3>7. QED
      BY <1>2, <3>4, <3>5, <3>6
  <2>3. QED
    BY <2>1, <2>2
<1>8. /\ new.table = symtab' /\ new.diag = diag'
      /\ node' \in Node
  BY <1>2 DEF State, NoNode, Node
<1> HIDE DEF new
<1>9. QED
  BY <1>2, <1>3, <1>6, <1>7, <1>8, StillRunning

LEMMA WalkBegun ==
  ASSUME IInv, Begin
  PROVE  IInv'
<1>1. /\ symtab = symbol_table_create /\ UniqueNames(symtab)
      /\ loop_depth = 0 /\ switch_depth = 0 /\ current_func_return = NoType
      /\ BoundedCollector(diag) /\ symtab \in Table /\ visited \in 0 .. MaxNodes
  BY DEF IInv, TypeOK, Shape, Begin, BoundedCollector
<1>2. /\ symtab' = scope_push(symtab, "GLOBAL")
      /\ frames' = << NewFrame("unit") >>
      /\ result' = "running" /\ node' = NoNode
      /\ UNCHANGED << diag, loop_depth, switch_depth, current_func_return, visited >>
  BY DEF Begin, Counters
<1>3. /\ Len(symtab) = 1 /\ symtab[1] = EmptyScope("GLOBAL")
  BY <1>1 DEF symbol_table_create
<1>4. /\ symtab' \in Table /\ Len(symtab') = 2
      /\ symtab'[1] = EmptyScope("GLOBAL") /\ UniqueNames(symtab')
  <2>1. /\ scope_push(symtab, "GLOBAL") \in Table
        /\ Len(scope_push(symtab, "GLOBAL")) = Len(symtab) + 1
        /\ scope_push(symtab, "GLOBAL")[1] = symtab[1]
        /\ UniqueNames(scope_push(symtab, "GLOBAL"))
    BY <1>1, ScopePushProperties DEF ScopeKinds
  <2>2. QED
    BY <1>2, <1>3, <2>1
<1> DEFINE fs == << NewFrame("unit") >>
<1>5. /\ fs \in Seq(Frame) /\ fs # << >> /\ fs[1].kind = "unit" /\ Len(fs) = 1
  BY <1>1 DEF NewFrame, Frame, FrameKinds, ListKinds, Arity
<1>6. \A K \in WalkedSets : OpenIn(fs, K) = {}
  BY <1>5 DEF OpenIn, WalkedSets, LoopKinds, SwitchKinds, FuncKinds, ScopedKinds
<1> HIDE DEF fs
<1>7. Balanced(fs, 2, 0, 0, NoType)
  BY <1>6, FS_EmptySet DEF Balanced, WalkedSets
<1>8. TypeOK'
  BY <1>1, <1>2, <1>4, <1>5 DEF TypeOK, BoundedCollector, NoNode, Node, fs
<1>9. Shape'
  BY <1>1, <1>2, <1>4, <1>5, <1>7 DEF Shape, fs
<1>10. QED
  BY <1>8, <1>9 DEF IInv

(* At the end the bottom frame is the unit, so that nothing is open and    *)
(* the scope popped last leaves the table as it was created.               *)
LEMMA WalkFinished ==
  ASSUME IInv, Finish
  PROVE  IInv'
<1>1. /\ Running /\ Len(frames) = 1
      /\ symtab' = scope_pop(symtab) /\ frames' = << >>
      /\ result' \in {"rejected", "accepted"} /\ node' = NoNode
      /\ UNCHANGED << diag, loop_depth, switch_depth, current_func_return, visited >>
  BY DEF Finish, Running, Counters
<1>2. /\ frames \in Seq(Frame) /\ frames[1].kind = "unit"
      /\ Balanced(frames, Len(symtab), loop_depth, switch_depth,
                  current_func_return)
      /\ symtab[1] = EmptyScope("GLOBAL") /\ UniqueNames(symtab)
      /\ symtab \in Table
  BY <1>1 DEF Running, IInv, TypeOK, Shape
<1>3. ASSUME NEW K \in WalkedSets
      PROVE  OpenIn(frames, K) = {}
  <2>1. "unit" \notin K
    <3>1. /\ "unit" \notin LoopKinds /\ "unit" \notin SwitchKinds
          /\ "unit" \notin FuncKinds /\ "unit" \notin ScopedKinds
      BY DEF LoopKinds, SwitchKinds, FuncKinds, ScopedKinds
    <3>2. QED
      BY <3>1 DEF WalkedSets
  <2>2. OpenIn(frames, K) \subseteq 1 .. 1
    BY <1>1, <1>2, OpenFinite
  <2>3. \A i \in OpenIn(frames, K) : i = 1
    BY <2>2
  <2>4. \A i \in OpenIn(frames, K) : frames[i].kind \in K
    BY DEF OpenIn
  <2>5. QED
    BY <1>2, <2>1, <2>3, <2>4
<1>4. /\ loop_depth = 0 /\ switch_depth = 0 /\ Len(symtab) = 2
      /\ current_func_return = NoType
  <2>1. /\ OpenIn(frames, LoopKinds) = {} /\ OpenIn(frames, SwitchKinds) = {}
        /\ OpenIn(frames, FuncKinds) = {} /\ OpenIn(frames, ScopedKinds) = {}
    BY <1>3 DEF WalkedSets
  <2>2. QED
    BY <1>2, <2>1, FS_EmptySet DEF Balanced
<1>5. /\ symtab' \in Table /\ Len(symtab') = 1
      /\ symtab'[1] = EmptyScope("GLOBAL") /\ UniqueNames(symtab')
  <2>1. Len(symtab) > 1
    BY <1>4
  <2>2. /\ scope_pop(symtab) \in Table
        /\ Len(scope_pop(symtab)) = Len(symtab) - 1
        /\ scope_pop(symtab)[1] = symtab[1]
        /\ UniqueNames(scope_pop(symtab))
    BY <1>2, <2>1, ScopePopProperties
  <2>3. QED
    BY <1>1, <1>2, <1>4, <2>2
<1>6. symtab' = symbol_table_create
  <2>1. symtab' \in Seq(Scope)
    BY <1>5 DEF Table
  <2>2. /\ symbol_table_create \in Seq(Scope)
        /\ Len(symbol_table_create) = 1
        /\ symbol_table_create[1] = EmptyScope("GLOBAL")
    BY DEF symbol_table_create, EmptyScope, Scope, ScopeKinds
  <2>3. QED
    BY <1>5, <2>1, <2>2, SeqEqual
<1>7. TypeOK'
  BY <1>1, <1>5, EmptySeq DEF Running, IInv, TypeOK, NoNode, Node
<1>8. Shape'
  BY <1>1, <1>4, <1>5, <1>6 DEF Shape
<1>9. QED
  BY <1>7, <1>8 DEF IInv

-----------------------------------------------------------------------------
(***************************************************************************)
(* Theorems.                                                               *)
(***************************************************************************)
LEMMA InitEstablishes ==
  ASSUME Init
  PROVE  IInv
<1>1. symbol_table_create \in Table
  BY DEF symbol_table_create, Table, EmptyScope, Scope, ScopeKinds
<1>2. UniqueNames(symbol_table_create)
  BY DEF symbol_table_create, UniqueNames, EmptyScope
<1>3. TypeOK
  BY <1>1, EmptySeq, MaxDiagnosticsAssumption, BoundsAssumption
     DEF Init, TypeOK, diagnostics_create, Collector, NoNode, Node
<1>4. QED
  BY <1>2, <1>3 DEF Init, IInv, Shape

(* Every step of the analyser preserves the inductive invariant.           *)
THEOREM StepPreserves ==
  ASSUME IInv, [Next]_vars
  PROVE  IInv'
<1>1. CASE UNCHANGED vars
  <2>1. TypeOK'
    BY <1>1 DEF IInv, TypeOK, vars, analyser
  <2>2. Shape'
    BY <1>1 DEF IInv, Shape, vars, analyser
  <2>3. QED
    BY <2>1, <2>2 DEF IInv
<1>2. CASE VisitNode
  <2> Declarable \subseteq Names
    BY DEF Declarable
  <2>1. ASSUME NEW n \in Declarable,
               \/ FuncPrototype(n)
               \/ Param(n)
               \/ Enumerator(n)
               \/ LabelStmt(n)
               \/ Define(n)
        PROVE  IInv'
    <3>1. Running
      BY <2>1 DEF Running, FuncPrototype, Param, Enumerator, LabelStmt, Define,
                  Leaf, SizedLeaf, Visit
    <3>2. QED
      BY <2>1, <3>1, DeclarationLeaves
  <2>1a. ASSUME NEW n \in Declarable, NEW z \in Reads, NEW r \in Reads,
                VarDecl(n, z, r) \/ ListDecl(n, z, r)
         PROVE  IInv'
    <3>1. Running
      BY <2>1a DEF Running, VarDecl, ListDecl, SizedLeaf, Visit
    <3>2. QED
      BY <2>1a, <3>1, VariableLeaves
  <2>2. ASSUME \/ \E n \in Declarable : StructDecl(n) \/ EnumDecl(n)
               \/ NamelessClass
               \/ \E first \in {{}} \cup {{n} : n \in Declarable} : NamelessEnum(first)
               \/ \E r \in Reads : IfStmt(r)
               \/ Include \/ Block \/ DoWhileStmt \/ TryStmt \/ ForStmt
        PROVE  IInv'
    <3>1. PICK r \in Reads : \/ \E n \in Names : StructDecl(n) \/ EnumDecl(n)
                             \/ NamelessClass \/ NamelessEnum(r)
                             \/ IfStmt(r) \/ Include \/ Block \/ DoWhileStmt
                             \/ TryStmt \/ ForStmt
      BY <2>2 DEF Reads
    <3>2. Running
      BY <3>1 DEF Running, StructDecl, EnumDecl, NamelessClass, NamelessEnum, IfStmt,
                  Include, Block, DoWhileStmt, TryStmt, ForStmt, Enter, Visit
    <3>3. QED
      BY <3>1, <3>2, PlainConstructs
  <2>3. ASSUME NEW n \in Declarable, NEW t \in ReturnTypes, FuncDecl(n, t)
        PROVE  IInv'
    <3>1. n \in Names
      BY DEF Declarable
    <3>2. Running
      BY <2>3 DEF Running, FuncDecl, Enter, Visit
    <3>3. QED
      BY <2>3, <3>1, <3>2, FunctionEntered
  <2>4. ASSUME \/ \E r \in Reads : \/ ExprStmt(r) \/ ThrowStmt(r) \/ CallExpr(r)
                                   \/ SizeofExpr(r) \/ ForInitExpr(r)
               \/ GotoStmt \/ BreakStmt \/ ContinueStmt
        PROVE  IInv'
    <3>1. PICK r \in Reads : \/ ExprStmt(r) \/ ThrowStmt(r) \/ CallExpr(r)
                             \/ SizeofExpr(r) \/ ForInitExpr(r)
                             \/ GotoStmt \/ BreakStmt \/ ContinueStmt
      BY <2>4 DEF Reads
    <3>2. Running
      BY <3>1 DEF Running, ExprStmt, ThrowStmt, CallExpr, SizeofExpr, ForInitExpr,
                  GotoStmt, BreakStmt, ContinueStmt, Leaf, SizedLeaf, Visit
    <3>3. QED
      BY <3>1, <3>2, StatementLeaves
  <2>5. ASSUME NEW r \in Reads, WhileStmt(r) \/ SwitchStmt(r)
        PROVE  IInv'
    <3>1. Running
      BY <2>5 DEF Running, WhileStmt, SwitchStmt, Enter, Visit
    <3>2. QED
      BY <2>5, <3>1, CountedConstructs
  <2>6. ASSUME NEW r \in Reads, ForBody(r)
        PROVE  IInv'
    BY <2>6, LoopEntered DEF Running, ForBody, Visit
  <2>7. ASSUME NEW r \in Reads, CaseStmt(r)
        PROVE  IInv'
    BY <2>7, CaseEntered DEF Running, CaseStmt, Visit
  <2>8. QED
    BY <1>2, <2>1, <2>1a, <2>2, <2>3, <2>4, <2>5, <2>6, <2>7 DEF VisitNode
<1>3. CASE FuncBody
  BY <1>3, BodyEntered DEF Running, FuncBody
<1>4. CASE Leave
  BY <1>4, NodeLeft DEF Running, Leave
<1>5. CASE Begin
  BY <1>5, WalkBegun
<1>6. CASE Finish
  BY <1>6, WalkFinished
<1>7. QED
  BY <1>1, <1>2, <1>3, <1>4, <1>5, <1>6 DEF Next

LEMMA Invariance == Spec => []IInv
<1>1. Init => IInv
  BY InitEstablishes
<1>2. IInv /\ [Next]_vars => IInv'
  BY StepPreserves
<1>3. QED
  BY <1>1, <1>2, PTL DEF Spec

(* Every variable of the analyser keeps its type, and the collector its    *)
(* capacity, for any names, types and bounds.                              *)
THEOREM TypeCorrect == Spec => []TypeOK
BY Invariance, PTL DEF IInv

(* On every path through the recursion the depth counters count the walked *)
(* loops and switches around the current node, and the scope chain has one *)
(* scope per construct around it that opens one: every increment and push  *)
(* of semantic_analyze_stmt is undone by the handler that made it.         *)
THEOREM NestingCorrect == Spec => []DepthsMatchNesting
<1>1. IInv => DepthsMatchNesting
  BY DEF IInv, Shape, Balanced, DepthsMatchNesting, Open
<1>2. QED
  BY <1>1, Invariance, PTL

(* current_func_return is set exactly inside functions, nested functions   *)
(* included: each handler restores the value it saved.                     *)
THEOREM ReturnTypeCorrect == Spec => []ReturnTypeMatchesNesting
<1>1. IInv => ReturnTypeMatchesNesting
  BY DEF IInv, Shape, Balanced, ReturnTypeMatchesNesting, Open
<1>2. QED
  BY <1>1, Invariance, PTL

(* No scope ever holds two symbols of one name, whatever declarations of   *)
(* whatever kinds the program makes.                                       *)
THEOREM NamesStayUnique == Spec => []ScopesHaveUniqueNames
<1>1. IInv => ScopesHaveUniqueNames
  BY DEF IInv, Shape, ScopesHaveUniqueNames
<1>2. QED
  BY <1>1, Invariance, PTL

(* semantic_analyze returns with the analyser as it found it: no scope, no *)
(* symbol and no count is left over from the program it walked.            *)
THEOREM AnalyserRestored == Spec => []RestoredAtEnd
<1>1. IInv => RestoredAtEnd
  BY DEF IInv, Shape, RestoredAtEnd
<1>2. QED
  BY <1>1, Invariance, PTL

-----------------------------------------------------------------------------
(***************************************************************************)
(* What is reported.                                                       *)
(***************************************************************************)
(* The last frame does not become unwalked by visiting what follows it.    *)
LEMMA LeafSameShape ==
  ASSUME Running, CanConsume, NEW c, NEW names, NEW sizes, NEW reads, NEW st,
         SizedLeaf(c, names, sizes, reads, st)
  PROVE  /\ frames' \in Seq(Frame) /\ SameShape(frames, frames')
         /\ Unwalked' = Unwalked
         /\ node' = [construct |-> c, names |-> names, sizes |-> sizes,
                    reads |-> reads]
         /\ ~Unwalked => diag' = st.diag
<1>1. frames' = Consumed
  BY DEF SizedLeaf
<1>2. frames \in Seq(Frame) /\ frames' \in Seq(Frame) /\ SameShape(frames, frames')
  BY <1>1, RunningFacts, ConsumedShape
<1>3. Unwalked' = Unwalked
  BY <1>2, SameShapeOpen DEF Unwalked
<1>4. QED
  BY <1>2, <1>3 DEF SizedLeaf, Visit, Report

(* A jump that nothing around it takes finds the depth counter at zero,    *)
(* unless what is counted is around its function.                          *)
LEMMA JumpLeafReported ==
  ASSUME Running, CanConsume, NEW c \in {"break", "continue"}, NEW st,
         Leaf(c, {}, {}, st),
         loop_depth = 0 /\ (c = "break" => switch_depth = 0)
           => st = State(symtab, diag_error(diag))
  PROVE  WalkedJumpsReported'
<1> DEFINE all == LoopKinds \cup SwitchKinds
<1>1. SUFFICES ASSUME StrayJump', ~Unwalked', OpenIn(frames', all) \subseteq OwnFrames'
               PROVE  diag'.had_error
  BY DEF WalkedJumpsReported, Open
<1>2. /\ frames \in Seq(Frame) /\ frames' \in Seq(Frame) /\ SameShape(frames, frames')
      /\ node'.construct = c
      /\ diag' = st.diag
  BY <1>1, LeafSameShape, RunningFacts DEF Leaf
<1>3. OpenIn(frames', LoopKinds) = {}
  <2>1. ~InsideLoop'
    BY <1>1 DEF StrayJump
  <2>2. \A i \in OpenIn(frames', LoopKinds) :
          i \in OwnFrames' /\ frames'[i].kind \in {"while", "forbody", "do"}
    BY <1>1 DEF OpenIn, LoopKinds
  <2>3. QED
    BY <2>1, <2>2 DEF InsideLoop
<1>4. c = "break" => OpenIn(frames', SwitchKinds) = {}
  <2>1. SUFFICES ASSUME c = "break", ~InsideSwitch'
                 PROVE  OpenIn(frames', SwitchKinds) = {}
    BY <1>1, <1>2 DEF StrayJump
  <2>2. \A i \in OpenIn(frames', SwitchKinds) :
          i \in OwnFrames' /\ frames'[i].kind = "switch"
    BY <1>1 DEF OpenIn, SwitchKinds
  <2>3. QED
    BY <2>1, <2>2 DEF InsideSwitch
<1>5. /\ OpenIn(frames, LoopKinds) = {}
      /\ c = "break" => OpenIn(frames, SwitchKinds) = {}
  BY <1>2, <1>3, <1>4, SameShapeOpen
<1>6. /\ loop_depth = 0
      /\ c = "break" => switch_depth = 0
  BY <1>5, FS_EmptySet DEF Running, IInv, Shape, Balanced
<1>7. st = State(symtab, diag_error(diag))
  BY <1>6
<1>8. BoundedCollector(diag)
  BY DEF Running, IInv, TypeOK, BoundedCollector
<1>9. QED
  BY <1>2, <1>7, <1>8, DiagErrorBounded DEF State

LEMMA JumpReported ==
  ASSUME Running, BreakStmt \/ ContinueStmt
  PROVE  WalkedJumpsReported'
<1>1. CanConsume
  BY Placement DEF BreakStmt, ContinueStmt
<1>2. CASE BreakStmt
  <2> DEFINE st == IF loop_depth = 0 /\ switch_depth = 0
                   THEN State(symtab, diag_error(diag)) ELSE Here
  <2>1. Leaf("break", {}, {}, st)
    BY <1>2 DEF BreakStmt
  <2>2. QED
    BY <1>1, <2>1, JumpLeafReported
<1>3. CASE ContinueStmt
  <2> DEFINE st == IF loop_depth = 0 THEN State(symtab, diag_error(diag))
                                     ELSE State(symtab, diag_warning(diag))
  <2>1. Leaf("continue", {}, {}, st)
    BY <1>3 DEF ContinueStmt
  <2>2. QED
    BY <1>1, <2>1, JumpLeafReported
<1>4. QED
  BY <1>2, <1>3

(* No name that the program declares nowhere is ever in a scope.           *)
NothingUndeclared == \A n \in Undeclared : ~symbol_lookup(symtab, n)

LEMMA ReadsReported ==
  ASSUME NEW st, BoundedCollector(st.diag), NEW r, r \cap Undeclared # {},
         \A n \in Undeclared : ~symbol_lookup(st.table, n)
  PROVE  analyze_reads(st, r).diag.had_error
BY DiagErrorBounded DEF analyze_reads, State

(* What is inside an unwalked node is unwalked.                            *)
LEMMA StillUnwalked ==
  ASSUME NEW fs \in Seq(Frame), NEW gs \in Seq(Frame), SameShape(fs, gs),
         UnwalkedIn(fs), NEW kind \in FrameKinds, 
         current_func_return \in ReturnTypes \cup {NoType}
  PROVE  UnwalkedIn(Append(gs, NewFrame(kind)))
<1>1. UnwalkedIn(gs)
  BY SameShapeOpen
<1>2. NewFrame(kind) \in Frame
  BY DEF NewFrame, Frame, Arity
<1>3. /\ DOMAIN gs = 1 .. Len(gs) /\ Len(gs) \in Nat
      /\ DOMAIN Append(gs, NewFrame(kind)) = 1 .. Len(gs) + 1
      /\ \A i \in 1 .. Len(gs) : Append(gs, NewFrame(kind))[i] = gs[i]
  BY <1>2, AppendProperties, LenProperties
<1>4. QED
  BY <1>1, <1>3 DEF UnwalkedIn

(* The sizes and the initialiser of a variable are analysed.               *)
LEMMA VariableReported ==
  ASSUME Running, NothingUndeclared, NEW n \in Declarable, NEW z \in Reads,
         NEW r \in Reads, VarDecl(n, z, r) \/ ListDecl(n, z, r)
  PROVE  WalkedReadsReported'
<1>1. SUFFICES ASSUME ~Unwalked',
                      \/ node'.sizes \cap Undeclared # {}
                      \/ /\ node'.reads \cap Undeclared # {}
                         /\ node'.construct \notin UnreadConstructs
               PROVE  diag'.had_error
  BY DEF WalkedReadsReported
<1> DEFINE sized == analyze_reads(Here, z)
           added == symbol_add(sized, n, "VARIABLE")
<1>2. /\ Sound(Here, Len(symtab)) /\ Here.table = symtab /\ Len(symtab) > 1
      /\ BoundedCollector(diag) /\ Here.diag = diag
      /\ n \in Names /\ n \notin Undeclared
  BY RunningFacts DEF Here, State, Sound, Declarable
<1>3. Sound(sized, Len(symtab)) /\ sized.table = symtab
  BY <1>2, SoundReads DEF analyze_reads, State
<1>4. z \cap Undeclared # {} => sized.diag.had_error = TRUE
  BY <1>2, ReadsReported DEF NothingUndeclared
<1> HIDE DEF sized
<1>5. /\ Sound(added, Len(symtab))
      /\ sized.diag.had_error = TRUE => added.diag.had_error = TRUE
      /\ \A m \in Undeclared : ~symbol_lookup(added.table, m)
  <2>1. Sound(added, Len(symtab))
    BY <1>2, <1>3, SoundAdd DEF SymbolKinds
  <2>2. BoundedCollector(sized.diag)
    BY <1>3 DEF Sound
  <2>3. sized.diag.had_error = TRUE => added.diag.had_error = TRUE
    BY <2>2, DiagErrorBounded, DiagNoteBounded DEF symbol_add, State
  <2>4. \A m \in Undeclared : ~symbol_lookup(added.table, m)
    BY <1>2, <1>3, SymbolAddLookup DEF NothingUndeclared, Sound, SymbolKinds
  <2>5. QED
    BY <2>1, <2>3, <2>4
<1> HIDE DEF added
<1>6. declare(n, z) = added
  BY DeclareAdds DEF added, sized
<1>7. CASE VarDecl(n, z, r)
  <2>1. CanConsume /\ SizedLeaf("var", {n}, z, r, analyze_reads(added, r))
    BY <1>6, <1>7, Placement DEF VarDecl
  <2>2. /\ diag' = analyze_reads(added, r).diag
        /\ node'.sizes = z /\ node'.reads = r
    BY <1>1, <2>1, LeafSameShape
  <2>3. BoundedCollector(added.diag)
    BY <1>5 DEF Sound
  <2>4. r \cap Undeclared # {} => analyze_reads(added, r).diag.had_error
    BY <1>5, <2>3, ReadsReported
  <2>5. added.diag.had_error = TRUE => analyze_reads(added, r).diag.had_error
    BY <2>3, DiagErrorBounded DEF analyze_reads, State
  <2>6. QED
    BY <1>1, <1>4, <1>5, <2>2, <2>4, <2>5
<1>8. CASE ListDecl(n, z, r)
  <2>1. CanConsume /\ SizedLeaf("list", {n}, z, r, added)
    BY <1>6, <1>8, Placement DEF ListDecl
  <2>2. /\ diag' = added.diag
        /\ node'.sizes = z /\ node'.construct = "list"
    BY <1>1, <2>1, LeafSameShape
  <2>3. z \cap Undeclared # {}
    BY <1>1, <2>2 DEF UnreadConstructs
  <2>4. QED
    BY <1>4, <1>5, <2>2, <2>3
<1>9. QED
  BY <1>7, <1>8

(* A node whose expressions are analysed, entered or not.                  *)
LEMMA ReadReported ==
  ASSUME Running, NothingUndeclared, NEW r \in Reads,
         \/ ExprStmt(r) \/ IfStmt(r) \/ WhileStmt(r) \/ ForBody(r) \/ SwitchStmt(r)
         \/ CaseStmt(r)
  PROVE  WalkedReadsReported'
<1>0. node'.reads = r /\ node'.sizes = {}
  BY DEF ExprStmt, IfStmt, WhileStmt, ForBody, SwitchStmt, CaseStmt, Leaf, SizedLeaf,
         Enter, Visit
<1>1. SUFFICES ASSUME node'.reads \cap Undeclared # {}, ~Unwalked'
               PROVE  diag'.had_error
  BY <1>0 DEF WalkedReadsReported
<1>2. Sound(Here, Len(symtab)) /\ Here.table = symtab /\ Len(symtab) > 1
  BY RunningFacts DEF Here, State
<1>4. frames \in Seq(Frame) /\ Len(frames) \in Nat \ {0} /\ DOMAIN frames = 1 .. Len(frames)
  BY RunningFacts, LenProperties
<1>5. analyze_reads(Here, r).diag.had_error
  BY <1>0, <1>1, <1>2, ReadsReported DEF NothingUndeclared, Sound
<1>5a. current_func_return \in ReturnTypes \cup {NoType}
  BY DEF Running, IInv, TypeOK
<1>7. CASE ExprStmt(r)
  BY <1>1, <1>5, <1>7, Placement, LeafSameShape DEF ExprStmt, Leaf
<1>8. Report(analyze_reads(Here, r)) /\ ~Unwalked => diag'.had_error
  BY <1>5 DEF Report
<1>9. CASE IfStmt(r) \/ WhileStmt(r) \/ SwitchStmt(r)
  <2>1. CanConsume /\ Report(analyze_reads(Here, r))
        /\ \E kind \in {"if", "while", "switch"} : frames' = Append(Consumed, NewFrame(kind))
    BY <1>9, Placement DEF IfStmt, WhileStmt, SwitchStmt, Enter
  <2>2. Consumed \in Seq(Frame) /\ SameShape(frames, Consumed)
    BY <2>1, ConsumedShape
  <2>3. ~Unwalked
    <3>1. PICK kind \in {"if", "while", "switch"} :
            frames' = Append(Consumed, NewFrame(kind))
      BY <2>1
    <3>2. kind \in FrameKinds
      BY DEF FrameKinds, ListKinds
    <3>3. QED
      BY <1>1, <1>4, <1>5a, <2>2, <3>1, <3>2, StillUnwalked DEF Unwalked
  <2>4. QED
    BY <1>8, <2>1, <2>3
<1>10. CASE CaseStmt(r)
  <2> DEFINE f == [Top EXCEPT !.left = 0]
  <2>1. f \in Frame /\ f.kind = Top.kind /\ f.prev_return = Top.prev_return
    BY RunningFacts DEF Frame
  <2>2. Report(analyze_reads(Here, r)) /\ frames' = Append(SetTop(f), NewFrame("case"))
    BY <1>10 DEF CaseStmt
  <2> HIDE DEF f
  <2>3. SetTop(f) \in Seq(Frame) /\ SameShape(frames, SetTop(f))
    BY <2>1, TopReplaced
  <2>4. ~Unwalked
    <3>1. "case" \in FrameKinds
      BY DEF FrameKinds, ListKinds
    <3>2. QED
      BY <1>1, <1>4, <1>5a, <2>2, <2>3, <3>1, StillUnwalked DEF Unwalked
  <2>5. QED
    BY <1>8, <2>2, <2>4
<1>11. CASE ForBody(r)
  <2> DEFINE f == [Top EXCEPT !.kind = "forbody", !.left = 1]
  <2>1. Top.kind = "forinit" /\ Report(analyze_reads(Here, r)) /\ frames' = SetTop(f)
    BY <1>11 DEF ForBody
  <2> HIDE DEF f
  <2>2. /\ DOMAIN frames' = DOMAIN frames
        /\ \A i \in 1 .. Len(frames) - 1 : frames'[i] = frames[i]
    <3>1. f \in Frame
      BY RunningFacts, ForBodyFrame DEF f
    <3>2. frames # << >> /\ frames' = [frames EXCEPT ![Len(frames)] = f]
      BY <2>1, RunningFacts DEF SetTop
    <3>3. /\ frames' \in Seq(Frame) /\ Len(frames') = Len(frames)
          /\ \A i \in 1 .. Len(frames) :
               frames'[i] = IF i = Len(frames) THEN f ELSE frames[i]
      BY <1>4, <3>1, <3>2, ReplaceTop
    <3>4. DOMAIN frames' = 1 .. Len(frames')
      BY <3>3, LenProperties
    <3>5. \A n \in Nat : \A i \in 1 .. n - 1 : i # n /\ i \in 1 .. n
      OBVIOUS
    <3>6. QED
      BY <1>4, <3>3, <3>4, <3>5
  <2>3. frames[Len(frames)].kind \notin UnwalkedKinds
    BY <2>1 DEF Top, UnwalkedKinds
  <2>4. ~Unwalked
    BY <1>1, <1>4, <2>2, <2>3 DEF Unwalked, UnwalkedIn
  <2>5. QED
    BY <1>8, <2>1, <2>4
<1>12. QED
  BY <1>7, <1>9, <1>10, <1>11

(* The other nodes read nothing, or are not analysed.                      *)
QuietNode ==
  /\ node.sizes = {}
  /\ node.construct \in UnreadConstructs \/ node.reads = {}
NoJump == node.construct \notin {"break", "continue"}

LEMMA OtherNodes ==
  ASSUME VisitNode
  PROVE  /\ NoJump' \/ BreakStmt \/ ContinueStmt
         /\ \/ QuietNode'
            \/ \E r \in Reads :
                 \/ \E n \in Declarable, z \in Reads : VarDecl(n, z, r) \/ ListDecl(n, z, r)
                 \/ ExprStmt(r) \/ IfStmt(r) \/ WhileStmt(r) \/ ForBody(r)
                 \/ SwitchStmt(r) \/ CaseStmt(r)
<1>1. ASSUME NEW n \in Declarable,
             \/ FuncPrototype(n) \/ Param(n) \/ StructDecl(n) \/ EnumDecl(n)
             \/ Enumerator(n) \/ LabelStmt(n) \/ Define(n)
             \/ \E t \in ReturnTypes : FuncDecl(n, t)
      PROVE  NoJump' /\ QuietNode'
  <2>1. PICK c \in {"prototype", "func", "class", "enum", "label", "define"} :
          node' = [construct |-> c, names |-> {n}, sizes |-> {}, reads |-> {}]
    BY <1>1 DEF FuncPrototype, Param, StructDecl, EnumDecl, Enumerator, LabelStmt,
                Define, FuncDecl, Leaf, SizedLeaf, Enter, Visit
  <2>2. node'.construct = c /\ node'.reads = {} /\ node'.sizes = {}
    BY <2>1
  <2>3. QED
    BY <2>2 DEF NoJump, QuietNode
<1>2. ASSUME NEW r \in Reads,
             ThrowStmt(r) \/ CallExpr(r) \/ SizeofExpr(r) \/ ForInitExpr(r)
      PROVE  NoJump' /\ QuietNode'
  <2>1. PICK c \in {"throw", "call", "sizeof", "for expression"} :
          node' = [construct |-> c, names |-> {}, sizes |-> {}, reads |-> r]
    BY <1>2 DEF ThrowStmt, CallExpr, SizeofExpr, ForInitExpr, Leaf, SizedLeaf, Visit
  <2>2. node'.construct = c /\ node'.sizes = {}
    BY <2>1
  <2>3. QED
    BY <2>2 DEF NoJump, QuietNode, UnreadConstructs
<1>3. ASSUME NEW r \in Reads,
             \/ \E n \in Declarable, z \in Reads : VarDecl(n, z, r) \/ ListDecl(n, z, r)
             \/ ExprStmt(r) \/ IfStmt(r) \/ WhileStmt(r) \/ ForBody(r) \/ SwitchStmt(r)
             \/ CaseStmt(r)
      PROVE  NoJump'
  BY <1>3 DEF VarDecl, ListDecl, ExprStmt, IfStmt, WhileStmt, ForBody, SwitchStmt,
              CaseStmt, Leaf, SizedLeaf, Enter, Visit, NoJump
<1>4. ASSUME \/ NamelessClass \/ \E first : NamelessEnum(first)
             \/ Include \/ GotoStmt \/ Block \/ DoWhileStmt \/ TryStmt \/ ForStmt
      PROVE  NoJump' /\ QuietNode'
  <2>1. PICK c \in {"class", "nameless", "include", "goto", "block", "do", "try", "for"} :
          \E names : node' = [construct |-> c, names |-> names, sizes |-> {}, reads |-> {}]
    BY <1>4 DEF NamelessClass, NamelessEnum, Include, GotoStmt, Block, DoWhileStmt,
                TryStmt, ForStmt, Leaf, SizedLeaf, Enter, Visit
  <2>2. node'.construct = c /\ node'.reads = {} /\ node'.sizes = {}
    BY <2>1
  <2>3. QED
    BY <2>2 DEF NoJump, QuietNode
<1>5. ASSUME BreakStmt \/ ContinueStmt
      PROVE  QuietNode'
  <2>1. PICK c \in {"break", "continue"} :
          node' = [construct |-> c, names |-> {}, sizes |-> {}, reads |-> {}]
    BY <1>5 DEF BreakStmt, ContinueStmt, Leaf, SizedLeaf, Visit
  <2>2. node'.reads = {} /\ node'.sizes = {}
    BY <2>1
  <2>3. QED
    BY <2>2 DEF QuietNode
<1>6. QED
  BY <1>1, <1>2, <1>3, <1>4, <1>5 DEF VisitNode

(* What a visited node may add to a scope is declared somewhere.           *)
LEMMA OnlyDeclared ==
  ASSUME IInv, NothingUndeclared, [Next]_vars
  PROVE  NothingUndeclared'
<1> SUFFICES ASSUME NEW m \in Undeclared
             PROVE  ~symbol_lookup(symtab', m)
  BY DEF NothingUndeclared
<1>1. symtab \in Table /\ ~symbol_lookup(symtab, m) /\ m \notin Declarable
  BY DEF IInv, TypeOK, NothingUndeclared, Declarable
<1> DEFINE Grown(t) ==
      \/ t = symtab \/ \E kind \in ScopeKinds : t = scope_push(symtab, kind)
      \/ t = scope_pop(symtab)
<1>2. \A t : Grown(t) => ~symbol_lookup(t, m)
  BY <1>1, ScopePushLookup, ScopePopLookup
<1>3. \A st : Report(st) => symtab' = symtab \/ symtab' = st.table
  BY DEF Report
<1>4. Here.table = symtab /\ \A r : analyze_reads(Here, r).table = symtab
  BY DEF Here, analyze_reads, State
<1>5. \A n \in Declarable, kind \in SymbolKinds :
        ~symbol_lookup(symbol_add(Here, n, kind).table, m)
  BY <1>1, <1>4, SymbolAddLookup DEF Declarable
<1>5a. \A n \in Declarable : \A z : ~symbol_lookup(declare(n, z).table, m)
  <2>2. ASSUME NEW n \in Declarable, NEW z
        PROVE  declare(n, z).table = symbol_add(Here, n, "VARIABLE").table
    <3>1. analyze_reads(Here, z).table = symtab
      BY <1>4
    <3>2. QED
      BY <1>4, <3>1, DeclareAdds DEF symbol_add, AppendSymbol, State
  <2>3. QED
    BY <1>5, <2>2 DEF SymbolKinds
<1>6. CASE frames # << >> /\ VisitNode
  <2>1. ASSUME NEW n \in Declarable,
               \/ FuncPrototype(n) \/ Param(n) \/ StructDecl(n) \/ EnumDecl(n)
               \/ Enumerator(n) \/ LabelStmt(n)
        PROVE  ~symbol_lookup(symtab', m)
    <3>1. PICK kind \in SymbolKinds : Report(symbol_add(Here, n, kind))
      BY <2>1 DEF FuncPrototype, Param, StructDecl, EnumDecl, Enumerator, LabelStmt,
                  Leaf, SizedLeaf, Enter, SymbolKinds
    <3>2. QED
      BY <1>1, <1>3, <1>5, <3>1
  <2>2. ASSUME NEW n \in Declarable, NEW z \in Reads, NEW r \in Reads,
               VarDecl(n, z, r) \/ ListDecl(n, z, r)
        PROVE  ~symbol_lookup(symtab', m)
    <3>1. Report(declare(n, z)) \/ Report(analyze_reads(declare(n, z), r))
      BY <2>2 DEF VarDecl, ListDecl, SizedLeaf
    <3>2. analyze_reads(declare(n, z), r).table = declare(n, z).table
      BY DEF analyze_reads, State
    <3>3. QED
      BY <1>1, <1>3, <1>5a, <3>1, <3>2
  <2>3. ASSUME NEW n \in Declarable, NEW t \in ReturnTypes, FuncDecl(n, t)
        PROVE  ~symbol_lookup(symtab', m)
    <3> DEFINE added == symbol_add(Here, n, "FUNCTION")
    <3>1. Report(State(scope_push(added.table, "FUNCTION"), added.diag))
      BY <2>3 DEF FuncDecl, Enter
    <3>2. ~symbol_lookup(added.table, m) /\ added.table \in Table
      <4>1. result = "running" /\ n \in Names
        BY <2>3 DEF FuncDecl, Enter, Visit, Declarable
      <4>2. Sound(Here, Len(symtab)) /\ Len(symtab) > 1
        BY <4>1, RunningFacts DEF Running
      <4>3. QED
        BY <1>5, <4>1, <4>2, SoundAdd DEF SymbolKinds, Sound
    <3> HIDE DEF added
    <3>3. ~symbol_lookup(scope_push(added.table, "FUNCTION"), m)
      BY <3>2, ScopePushLookup DEF ScopeKinds
    <3>4. QED
      BY <1>1, <1>3, <3>1, <3>3 DEF State
  <2>4. ASSUME NEW r \in Reads,
               \/ ExprStmt(r) \/ ThrowStmt(r) \/ CallExpr(r) \/ SizeofExpr(r)
               \/ IfStmt(r) \/ WhileStmt(r)
               \/ ForInitExpr(r) \/ ForBody(r) \/ SwitchStmt(r) \/ CaseStmt(r)
        PROVE  ~symbol_lookup(symtab', m)
    <3>1. Report(analyze_reads(Here, r)) \/ Report(Here)
      BY <2>4 DEF ExprStmt, ThrowStmt, CallExpr, SizeofExpr, IfStmt, WhileStmt,
                  ForInitExpr, ForBody, SwitchStmt, CaseStmt, Leaf, SizedLeaf, Enter
    <3>2. QED
      BY <1>1, <1>3, <1>4, <3>1
  <2>5. ASSUME \/ NamelessClass \/ \E first : NamelessEnum(first)
               \/ \E n : Define(n)
               \/ Include \/ GotoStmt \/ BreakStmt \/ ContinueStmt \/ Block
               \/ DoWhileStmt \/ TryStmt \/ ForStmt
        PROVE  ~symbol_lookup(symtab', m)
    <3>1. \/ Report(Here)
          \/ Report(State(symtab, diag_error(diag)))
          \/ Report(State(symtab, diag_warning(diag)))
          \/ Report(State(scope_push(symtab, "BLOCK"), diag))
      BY <2>5 DEF NamelessClass, NamelessEnum, Define, Include, GotoStmt, BreakStmt,
                  ContinueStmt, Block, DoWhileStmt, TryStmt, ForStmt, Leaf, SizedLeaf,
                  Enter
    <3>2. symtab' = symtab \/ symtab' = scope_push(symtab, "BLOCK")
      BY <1>3, <1>4, <3>1 DEF State
    <3>3. QED
      BY <1>2, <3>2 DEF ScopeKinds
  <2>6. QED
    BY <1>6, <2>1, <2>2, <2>3, <2>4, <2>5 DEF VisitNode
<1>7. CASE FuncBody \/ Leave \/ Begin \/ Finish \/ UNCHANGED vars
  <2>1. Grown(symtab')
    BY <1>7 DEF FuncBody, Leave, Begin, Finish, analyser, vars, ScopeKinds
  <2>2. QED
    BY <1>2, <2>1
<1>8. QED
  BY <1>6, <1>7 DEF Next

LEMMA VisitsRun ==
  ASSUME VisitNode
  PROVE  result = "running"
BY DEF VisitNode, FuncPrototype, Param, StructDecl, EnumDecl, Enumerator, LabelStmt,
       Define, VarDecl, ListDecl, FuncDecl, ExprStmt, ThrowStmt, CallExpr, SizeofExpr,
       IfStmt, WhileStmt, ForInitExpr, ForBody, SwitchStmt, CaseStmt, NamelessClass,
       NamelessEnum, Include, GotoStmt, BreakStmt, ContinueStmt, Block, DoWhileStmt,
       TryStmt, ForStmt, Leaf, SizedLeaf, Enter, Visit

LEMMA StepReports ==
  ASSUME IInv, NothingUndeclared, [Next]_vars
  PROVE  /\ WalkedJumpsReported => WalkedJumpsReported'
         /\ WalkedReadsReported => WalkedReadsReported'
<1>1. CASE frames # << >> /\ VisitNode
  <2>1. Running
    BY <1>1, VisitsRun DEF Running
  <2>2. NoJump' => WalkedJumpsReported'
    BY DEF NoJump, WalkedJumpsReported, StrayJump
  <2>3. QuietNode' => WalkedReadsReported'
    BY DEF QuietNode, WalkedReadsReported
  <2>4. QED
    BY <1>1, <2>1, <2>2, <2>3, OtherNodes, JumpReported, ReadReported,
       VariableReported
<1>2. CASE FuncBody \/ Leave \/ Begin \/ Finish
  <2>1. node' = NoNode
    BY <1>2 DEF FuncBody, Leave, Begin, Finish
  <2>2. QED
    BY <2>1 DEF NoNode, WalkedJumpsReported, StrayJump, WalkedReadsReported
<1>3. CASE UNCHANGED vars
  <2>1. UNCHANGED << diag, node, frames >>
    BY <1>3 DEF vars, analyser
  <2>2. QED
    BY <2>1 DEF WalkedJumpsReported, WalkedReadsReported, StrayJump, InsideLoop,
                InsideSwitch, OwnFrames, Open, Unwalked
<1>4. QED
  BY <1>1, <1>2, <1>3 DEF Next

LEMMA ReportsInitially ==
  ASSUME Init
  PROVE  NothingUndeclared /\ WalkedJumpsReported /\ WalkedReadsReported
<1>1. DOMAIN << EmptyScope("GLOBAL") >> = {1}
  OBVIOUS
<1>2. ~\E i \in DOMAIN << >> : TRUE
  OBVIOUS
<1>3. NothingUndeclared
  BY <1>1, <1>2 DEF Init, NothingUndeclared, symbol_lookup, symbol_table_create,
                    EmptyScope, Declares
<1>4. QED
  BY <1>3 DEF Init, NoNode, WalkedJumpsReported, WalkedReadsReported, StrayJump

LEMMA Reporting ==
  Spec => [](NothingUndeclared /\ WalkedJumpsReported /\ WalkedReadsReported)
<1>1. Init => NothingUndeclared /\ WalkedJumpsReported /\ WalkedReadsReported
  BY ReportsInitially
<1>2. /\ IInv /\ [Next]_vars
      /\ NothingUndeclared /\ WalkedJumpsReported /\ WalkedReadsReported
      => (NothingUndeclared /\ WalkedJumpsReported /\ WalkedReadsReported)'
  BY OnlyDeclared, StepReports
<1>3. QED
  BY <1>1, <1>2, Invariance, PTL DEF Spec

(* A break or continue with nothing around it to leave, in the text that   *)
(* the analyser walks, raises an error at once, unless a loop or switch is *)
(* open around its function: the depth counters, raised and lowered by     *)
(* hand in five handlers, are zero exactly then.                           *)
THEOREM StrayJumpsAreReported == Spec => []WalkedJumpsReported
BY Reporting, PTL

(* A name that no declaration of the program declares is an error wherever *)
(* the analyser reads it: no scope ever holds it, however names of other   *)
(* declarations came and went.                                             *)
THEOREM UndeclaredReadsAreReported == Spec => []WalkedReadsReported
BY Reporting, PTL

-----------------------------------------------------------------------------
(***************************************************************************)
(* The rules, in terms of the analyser: what the contexts stand for.       *)
(***************************************************************************)
LEMMA WalkedRunning ==
  ASSUME Running, ~Unwalked
  PROVE  /\ WalkedChain(frames, symtab)
         /\ DOMAIN Contexts = 1 .. Len(frames)
         /\ Len(Contexts) = Len(frames)
         /\ \A i \in 1 .. Len(frames) : Contexts[i] = ContextOf(frames, symtab, i)
<1>1. WalkedChain(frames, symtab)
  BY RunningFacts DEF Running, IInv, Shape, Balanced, WalkedChain, Unwalked
<1>2. QED
  BY <1>1, WalkedContexts DEF Contexts

LEMMA RunningContexts ==
  ASSUME Running
  PROVE  Contexts # << >>
<1>1. /\ frames \in Seq(Frame) /\ Len(frames) \in Nat \ {0} /\ DOMAIN frames = 1 .. Len(frames)
      /\ frames[1].kind = "unit"
  BY RunningFacts, LenProperties DEF Running, IInv, Shape
<1>2. 1 \in OpenIn(frames, FrameKinds)
  BY <1>1 DEF OpenIn, FrameKinds, ListKinds, UnwalkedKinds
<1>3. 1 \in DOMAIN Contexts
  BY <1>2 DEF Contexts, ContextsOf
<1>4. QED
  BY <1>3

LEMMA RuleScopes ==
  ASSUME Running, ~Unwalked, NEW i \in DOMAIN Contexts
  PROVE  Rules!IsScope(i) <=> Scoped(frames, i) /\ ScopeOf(frames, i) = Len(symtab)
<1>1. /\ WalkedChain(frames, symtab)
      /\ i \in 1 .. Len(frames) /\ Len(Contexts) = Len(frames)
      /\ \A j \in 1 .. Len(frames) : Contexts[j].scoped = Scoped(frames, j)
  BY WalkedRunning DEF ContextOf, Scoped
<1>2. (\A j \in i + 1 .. Len(frames) : frames[j].kind \notin ScopedKinds)
        <=> ScopeOf(frames, i) = Len(symtab)
  BY <1>1, ChainEnd
<1>3. \A j \in i + 1 .. Len(frames) :
        j \in 1 .. Len(frames) /\ (Scoped(frames, j) <=> frames[j].kind \in ScopedKinds)
  BY <1>1, ChainEnd DEF Scoped
<1>4. QED
  BY <1>1, <1>2, <1>3 DEF Rules!IsScope

(* A name is declared twice when the current scope has it.                 *)
LEMMA RuleDuplicate ==
  ASSUME Running, ~Unwalked, NEW names
  PROVE  Rules!Duplicate(names) <=> NamesIn(symtab[Len(symtab)]) \cap names # {}
<1>1. /\ WalkedChain(frames, symtab) /\ DOMAIN Contexts = 1 .. Len(frames)
      /\ Len(symtab) \in 2 .. Len(symtab)
  BY WalkedRunning, RunningFacts
<1>2. \A i \in 1 .. Len(frames) : Rules!IsScope(i) =>
        Contexts[i].names = NamesIn(symtab[Len(symtab)])
  <2>1. \A i \in 1 .. Len(frames) : Scoped(frames, i) =>
          Contexts[i].names = NamesIn(symtab[ScopeOf(frames, i)])
    BY WalkedRunning DEF ContextOf, Scoped
  <2>2. QED
    BY <1>1, <2>1, RuleScopes
<1>3. \E i \in 1 .. Len(frames) : Rules!IsScope(i)
  <2>1. PICK i \in 1 .. Len(frames) : Scoped(frames, i) /\ ScopeOf(frames, i) = Len(symtab)
    BY <1>1, ChainEnd
  <2>2. QED
    BY <1>1, <2>1, RuleScopes
<1>4. QED
  BY <1>1, <1>2, <1>3 DEF Rules!Duplicate

(* A name is unknown when no scope of the chain has it.                    *)
LEMMA RuleUnknown ==
  ASSUME Running, ~Unwalked, NEW names, NEW reads
  PROVE  Rules!Unknown(names, reads) <=>
           \E n \in reads : n \notin names /\ ~symbol_lookup(symtab, n)
<1>1. /\ WalkedChain(frames, symtab) /\ DOMAIN Contexts = 1 .. Len(frames)
      /\ symtab \in Table /\ symtab[1] = EmptyScope("GLOBAL")
      /\ Len(symtab) \in Nat /\ Len(symtab) > 1
  BY WalkedRunning, RunningFacts DEF Running, IInv, TypeOK, Shape
<1>2. DOMAIN symtab = 1 .. Len(symtab)
  BY <1>1, LenProperties DEF Table
<1>3. NamesIn(symtab[1]) = {}
  BY <1>1 DEF NamesIn, EmptyScope
<1>4. \A i \in 1 .. Len(frames) :
        /\ ScopeOf(frames, i) \in 2 .. Len(symtab)
        /\ Contexts[i].names = IF Scoped(frames, i)
                               THEN NamesIn(symtab[ScopeOf(frames, i)]) ELSE {}
  <2>1. \A i \in 1 .. Len(frames) : ScopeOf(frames, i) \in 2 .. Len(symtab)
    BY <1>1, ChainEnd
  <2>2. \A i \in 1 .. Len(frames) : Contexts[i] = ContextOf(frames, symtab, i)
    BY WalkedRunning
  <2>3. \A i : ContextOf(frames, symtab, i).names =
                 IF Scoped(frames, i) THEN NamesIn(symtab[ScopeOf(frames, i)]) ELSE {}
    BY DEF ContextOf, Scoped
  <2>4. QED
    BY <2>1, <2>2, <2>3
<1>5. ASSUME NEW n
      PROVE  (\A i \in DOMAIN Contexts : n \notin Contexts[i].names)
               <=> ~symbol_lookup(symtab, n)
  <2>1. symbol_lookup(symtab, n) <=> \E d \in 1 .. Len(symtab) : n \in NamesIn(symtab[d])
    BY <1>2, DeclaresNames DEF symbol_lookup
  <2>2. ASSUME NEW d \in 1 .. Len(symtab), n \in NamesIn(symtab[d])
        PROVE  \E i \in DOMAIN Contexts : n \in Contexts[i].names
    <3>1. d \in 2 .. Len(symtab)
      BY <1>1, <1>3, <2>2
    <3>2. PICK i \in 1 .. Len(frames) : Scoped(frames, i) /\ ScopeOf(frames, i) = d
      BY <1>1, <3>1, ChainEnd
    <3>3. QED
      BY <1>1, <1>4, <2>2, <3>2
  <2>3. ASSUME NEW i \in DOMAIN Contexts, n \in Contexts[i].names
        PROVE  \E d \in 1 .. Len(symtab) : n \in NamesIn(symtab[d])
    <3>1. ScopeOf(frames, i) \in 1 .. Len(symtab)
      BY <1>1, <1>4, <2>3
    <3>2. n \in NamesIn(symtab[ScopeOf(frames, i)])
      BY <1>1, <1>4, <2>3
    <3>3. QED
      BY <3>1, <3>2
  <2>4. QED
    BY <2>1, <2>2, <2>3
<1>6. QED
  BY <1>5 DEF Rules!Unknown

(* The roles around the current point are what the depths count.           *)
LEMMA RuleRoles ==
  ASSUME Running, ~Unwalked
  PROVE  /\ Rules!InRole({"loop", "switch"}) <=> loop_depth # 0 \/ switch_depth # 0
         /\ Rules!InRole({"loop"}) <=> loop_depth # 0
<1>1. /\ WalkedChain(frames, symtab) /\ DOMAIN Contexts = 1 .. Len(frames)
      /\ \A i \in 1 .. Len(frames) : Contexts[i].role = RoleOf(frames[i].kind)
  BY WalkedRunning DEF ContextOf
<1>2. \A kind : /\ RoleOf(kind) = "loop" <=> kind \in LoopKinds
                /\ RoleOf(kind) = "switch" <=> kind \in SwitchKinds
  BY DEF RoleOf, LoopKinds, SwitchKinds
<1>3. \A K : OpenIn(frames, K) = {i \in 1 .. Len(frames) : frames[i].kind \in K}
  BY <1>1, WalkedOpen DEF WalkedChain
<1>4. ASSUME NEW K
      PROVE  Cardinality(OpenIn(frames, K)) # 0 <=>
               \E i \in 1 .. Len(frames) : frames[i].kind \in K
  <2>1. IsFiniteSet(OpenIn(frames, K))
    BY RunningFacts, OpenFinite
  <2>2. Cardinality(OpenIn(frames, K)) = 0 <=> OpenIn(frames, K) = {}
    BY <2>1, FS_EmptySet
  <2>3. QED
    BY <1>3, <2>2
<1>5. /\ loop_depth = Cardinality(OpenIn(frames, LoopKinds))
      /\ switch_depth = Cardinality(OpenIn(frames, SwitchKinds))
  BY DEF Running, IInv, Shape, Balanced
<1>6. QED
  BY <1>1, <1>2, <1>4, <1>5 DEF Rules!InRole

(* Names added to the current scope are declared in the innermost scope of *)
(* the contexts.                                                           *)
LEMMA RuleDeclared ==
  ASSUME Running, ~Unwalked, NEW table, NEW names,
         \A d \in 1 .. Len(symtab) - 1 : table[d] = symtab[d],
         NamesIn(table[Len(symtab)]) = NamesIn(symtab[Len(symtab)]) \cup names
  PROVE  ContextsOf(frames, table) = Rules!Declared(names)
<1>1. /\ WalkedChain(frames, symtab) /\ DOMAIN Contexts = 1 .. Len(frames)
      /\ \A i \in 1 .. Len(frames) : Contexts[i] = ContextOf(frames, symtab, i)
      /\ Len(symtab) \in Nat
  BY WalkedRunning, RunningFacts
<1>2. ContextsOf(frames, table) = [i \in 1 .. Len(frames) |-> ContextOf(frames, table, i)]
  BY <1>1, WalkedOpen DEF WalkedChain, ContextsOf
<1>3. ASSUME NEW i \in 1 .. Len(frames)
      PROVE  ContextOf(frames, table, i) =
               IF Rules!IsScope(i) THEN [Contexts[i] EXCEPT !.names = @ \cup names]
                                   ELSE Contexts[i]
  <2> DEFINE scoped == i = 1 \/ frames[i].kind \in ScopedKinds
             role   == RoleOf(frames[i].kind)
             now    == IF scoped THEN NamesIn(symtab[ScopeOf(frames, i)]) ELSE {}
             next   == IF scoped THEN NamesIn(table[ScopeOf(frames, i)]) ELSE {}
  <2>1. /\ Contexts[i] = [scoped |-> scoped, role |-> role, names |-> now]
        /\ ContextOf(frames, table, i) = [scoped |-> scoped, role |-> role, names |-> next]
    BY <1>1 DEF ContextOf
  <2>2. ScopeOf(frames, i) \in 2 .. Len(symtab)
    BY <1>1, ChainEnd
  <2>3. Rules!IsScope(i) => next = now \cup names
    <3>1. SUFFICES ASSUME Rules!IsScope(i)
                   PROVE  next = now \cup names
      OBVIOUS
    <3>2. scoped /\ ScopeOf(frames, i) = Len(symtab)
      BY <1>1, <3>1, RuleScopes DEF Scoped
    <3>3. QED
      BY <3>2
  <2>4. ~Rules!IsScope(i) => next = now
    <3>1. CASE scoped
      <4>1. SUFFICES ASSUME ~Rules!IsScope(i)
                     PROVE  ScopeOf(frames, i) \in 1 .. Len(symtab) - 1
        BY <3>1
      <4>2. ScopeOf(frames, i) # Len(symtab)
        BY <1>1, <3>1, <4>1, RuleScopes DEF Scoped
      <4>3. QED
        BY <1>1, <2>2, <4>2
    <3>2. CASE ~scoped
      BY <3>2
    <3>3. QED
      BY <3>1, <3>2
  <2> HIDE DEF scoped, role, now, next
  <2>5. CASE Rules!IsScope(i)
    <3>1. Contexts[i].names = now
      BY <2>1
    <3>2. [Contexts[i] EXCEPT !.names = next] = ContextOf(frames, table, i)
      BY <2>1
    <3>3. [Contexts[i] EXCEPT !.names = @ \cup names] = [Contexts[i] EXCEPT !.names = next]
      BY <2>3, <2>5, <3>1
    <3>4. QED
      BY <2>5, <3>2, <3>3
  <2>6. CASE ~Rules!IsScope(i)
    BY <2>1, <2>4, <2>6
  <2>7. QED
    BY <2>5, <2>6
<1>4. QED
  BY <1>1, <1>2, <1>3 DEF Rules!Declared

-----------------------------------------------------------------------------
(***************************************************************************)
(* What the handlers do to the table and the collector is what the rules   *)
(* say of a statement that declares `names', has `sizes' before them and   *)
(* reads `reads' behind them.                                              *)
(***************************************************************************)
Applied(st, names, sizes, reads) ==
  /\ Sound(st, Len(symtab))
  /\ \A d \in 1 .. Len(symtab) - 1 : st.table[d] = symtab[d]
  /\ NamesIn(st.table[Len(symtab)]) = NamesIn(symtab[Len(symtab)]) \cup names
  /\ st.diag.had_error = (diag.had_error \/ Rules!Broken(names, sizes, reads))

LEMMA ApplyNothing ==
  ASSUME Running, ~Unwalked
  PROVE  Applied(Here, {}, {}, {})
<1>1. Sound(Here, Len(symtab)) /\ Here.table = symtab /\ Here.diag = diag
  BY RunningFacts DEF Here, State
<1>2. ~Rules!Duplicate({}) /\ ~Rules!Unknown({}, {})
  BY RuleDuplicate, RuleUnknown
<1>3. ~Rules!Broken({}, {}, {})
  BY <1>2 DEF Rules!Broken
<1>4. diag.had_error \in BOOLEAN
  BY DEF Running, IInv, TypeOK, Collector
<1>5. QED
  BY <1>1, <1>3, <1>4 DEF Applied

(* A name is added to a table in which only sizes have been read.          *)
LEMMA ApplySized ==
  ASSUME Running, ~Unwalked, NEW n \in Names, NEW kind \in SymbolKinds,
         NEW sizes, NEW st, Applied(st, {}, sizes, {}), st.table = symtab
  PROVE  Applied(symbol_add(st, n, kind), {n}, sizes, {})
<1> DEFINE new == symbol_add(st, n, kind)
<1>1. /\ Sound(st, Len(symtab)) /\ Len(symtab) > 1
      /\ BoundedCollector(st.diag) /\ symtab \in Table
      /\ diag.had_error \in BOOLEAN
      /\ st.diag.had_error = (diag.had_error \/ Rules!Broken({}, sizes, {}))
  BY RunningFacts DEF Applied, Sound, Running, IInv, TypeOK, Collector
<1>2. Sound(new, Len(symtab))
  BY <1>1, SoundAdd
<1>3. /\ \A d \in 1 .. Len(symtab) - 1 : new.table[d] = symtab[d]
      /\ NamesIn(new.table[Len(symtab)]) = NamesIn(symtab[Len(symtab)]) \cup {n}
      /\ n \in NamesIn(symtab[Len(symtab)]) => new.diag.had_error = TRUE
      /\ n \notin NamesIn(symtab[Len(symtab)]) => new.diag.had_error = st.diag.had_error
  BY <1>1, SymbolAddNames, ZenonT(40)
<1> HIDE DEF new
<1>4. Rules!Broken({n}, sizes, {}) <=>
        n \in NamesIn(symtab[Len(symtab)]) \/ Rules!Broken({}, sizes, {})
  BY RuleDuplicate, RuleUnknown DEF Rules!Broken
<1>5. new.diag.had_error = (diag.had_error \/ Rules!Broken({n}, sizes, {}))
  BY <1>1, <1>3, <1>4
<1>6. QED
  BY <1>2, <1>3, <1>5 DEF Applied, new

LEMMA ApplySymbol ==
  ASSUME Running, ~Unwalked, NEW n \in Names, NEW kind \in SymbolKinds
  PROVE  Applied(symbol_add(Here, n, kind), {n}, {}, {})
<1>1. Here.table = symtab
  BY DEF Here, State
<1>2. QED
  BY <1>1, ApplyNothing, ApplySized

(* The names just declared can be read.                                    *)
LEMMA ApplyReads ==
  ASSUME Running, ~Unwalked, NEW names, NEW sizes, NEW reads, NEW st,
         Applied(st, names, sizes, {})
  PROVE  Applied(analyze_reads(st, reads), names, sizes, reads)
<1> DEFINE new == analyze_reads(st, reads)
           all == \A n \in reads : symbol_lookup(st.table, n)
<1>1. /\ Sound(st, Len(symtab)) /\ st.table \in Table /\ Len(st.table) = Len(symtab)
      /\ BoundedCollector(st.diag)
      /\ symtab \in Table /\ Len(symtab) \in Nat /\ Len(symtab) > 1
  BY RunningFacts DEF Applied, Sound, Running, IInv, TypeOK
<1>2. ASSUME NEW n
      PROVE  symbol_lookup(st.table, n) <=> n \in names \/ symbol_lookup(symtab, n)
  <2>1. DOMAIN st.table = 1 .. Len(symtab) /\ DOMAIN symtab = 1 .. Len(symtab)
    BY <1>1, LenProperties DEF Table
  <2>2. \A d \in 1 .. Len(symtab) : d \in 1 .. Len(symtab) - 1 \/ d = Len(symtab)
    BY <1>1
  <2>3. Len(symtab) \in 1 .. Len(symtab)
    BY <1>1
  <2>4. \A d \in 1 .. Len(symtab) :
          n \in NamesIn(st.table[d]) <=>
            n \in NamesIn(symtab[d]) \/ (d = Len(symtab) /\ n \in names)
    <3>1. ASSUME NEW d \in 1 .. Len(symtab) - 1
          PROVE  d # Len(symtab) /\ st.table[d] = symtab[d]
      BY <1>1 DEF Applied
    <3>2. QED
      BY <2>2, <3>1 DEF Applied
  <2>5. QED
    BY <2>1, <2>3, <2>4, DeclaresNames DEF symbol_lookup
<1>3. all <=> ~Rules!Unknown(names, reads)
  BY <1>2, RuleUnknown
<1>4. Rules!Broken(names, sizes, reads) <=>
        Rules!Broken(names, sizes, {}) \/ Rules!Unknown(names, reads)
  BY RuleUnknown DEF Rules!Broken
<1>5. CASE all
  <2>1. new = st
    BY <1>5 DEF analyze_reads
  <2>2. Rules!Broken(names, sizes, reads) <=> Rules!Broken(names, sizes, {})
    BY <1>3, <1>4, <1>5
  <2> HIDE DEF new, all
  <2>3. QED
    BY <2>1, <2>2 DEF Applied, new
<1>6. CASE ~all
  <2>1. new = State(st.table, diag_error(st.diag))
    BY <1>6 DEF analyze_reads
  <2>2. new.table = st.table /\ new.diag.had_error = TRUE
    <3>1. diag_error(st.diag).had_error = TRUE
      BY <1>1, DiagErrorBounded
    <3>2. new.table = st.table /\ new.diag = diag_error(st.diag)
      BY <2>1 DEF State
    <3>3. QED
      BY <3>1, <3>2
  <2>3. Rules!Broken(names, sizes, reads)
    BY <1>3, <1>4, <1>6
  <2>4. Sound(new, Len(symtab))
    BY <1>1, SoundReads
  <2> HIDE DEF new, all
  <2>5. QED
    BY <2>2, <2>3, <2>4 DEF Applied, new
<1>7. QED
  BY <1>5, <1>6

LEMMA ApplyVariable ==
  ASSUME Running, ~Unwalked, NEW n \in Names, NEW sizes
  PROVE  Applied(declare(n, sizes), {n}, sizes, {})
<1> DEFINE sized == analyze_reads(Here, sizes)
<1>1. sized.table = symtab
  BY DEF analyze_reads, Here, State
<1>2. Applied(sized, {}, {}, sizes)
  BY ApplyNothing, ApplyReads
<1> HIDE DEF sized
<1>3. Rules!Broken({}, {}, sizes) <=> Rules!Broken({}, sizes, {})
  BY RuleUnknown DEF Rules!Broken
<1>4. Applied(sized, {}, sizes, {})
  BY <1>2, <1>3 DEF Applied
<1>5. Applied(symbol_add(sized, n, "VARIABLE"), {n}, sizes, {})
  BY <1>1, <1>4, ApplySized DEF SymbolKinds
<1>6. QED
  BY <1>5, DeclareAdds DEF sized

-----------------------------------------------------------------------------
(***************************************************************************)
(* What the rules hear of a step.                                          *)
(***************************************************************************)
ToldReads(c, reads) == IF c \in UnreadConstructs THEN {} ELSE reads
ToldNames(c, names) == IF c \in UndeclaredConstructs THEN {} ELSE names
ToldKind(c) == IF c \in {"break", "continue"} THEN c ELSE "other"

LEMMA HeardTold ==
  ASSUME NEW c, NEW names, NEW sizes, NEW reads,
         node' = [construct |-> c, names |-> names, sizes |-> sizes, reads |-> reads],
         Heard', c # "none"
  PROVE  StatementHeard' = Rules!Statement(ToldKind(c), ToldNames(c, names), sizes,
                                           ToldReads(c, reads))
<1>1. /\ node'.construct = c /\ node'.names = names /\ node'.sizes = sizes
      /\ node'.reads = reads
  OBVIOUS
<1>2. QED
  BY <1>1 DEF StatementHeard, Rules!Statement, ToldKind, ToldNames, ToldReads

LEMMA NothingTold ==
  ASSUME ~Heard' \/ node' = NoNode
  PROVE  StatementHeard' = Rules!None
<1>1. /\ NoNode.construct = "none" /\ NoNode.names = {} /\ NoNode.sizes = {}
      /\ NoNode.reads = {}
  BY DEF NoNode
<1>2. node' = NoNode => /\ node'.construct = "none" /\ node'.names = {}
                        /\ node'.sizes = {} /\ node'.reads = {}
  BY <1>1
<1>3. QED
  BY <1>2 DEF StatementHeard, Rules!None, Rules!Statement

LEMMA VerdictKept ==
  ASSUME result' = result
  PROVE  Verdict' = Verdict
BY DEF Verdict

(* Text that goes by changes nothing the rules speak of.                   *)
LEMMA PassedOver ==
  ASSUME Running, result' = result, ~Heard' \/ node' = NoNode,
         Contexts' = Contexts, diag'.had_error = diag.had_error
  PROVE  Rules!PassOver
<1>1. Contexts # << >> /\ StatementHeard' = Rules!None /\ Verdict' = Verdict
  BY RunningContexts, NothingTold, VerdictKept
<1>2. QED
  BY <1>1 DEF Rules!PassOver

(* A statement that nests nothing, where it is walked and where it is not. *)
LEMMA LeafTold ==
  ASSUME Running, CanConsume, NEW c, c \notin UnwalkedKinds, c # "none",
         NEW names, NEW sizes, NEW reads, NEW st, SizedLeaf(c, names, sizes, reads, st)
  PROVE  /\ Unwalked => Rules!PassOver
         /\ ~Unwalked =>
              /\ StatementHeard' =
                   Rules!Statement(ToldKind(c), ToldNames(c, names), sizes,
                                   ToldReads(c, reads))
              /\ Contexts' = ContextsOf(frames, st.table)
              /\ diag' = st.diag
              /\ Verdict' = Verdict
<1>1. /\ frames' \in Seq(Frame) /\ SameShape(frames, frames')
      /\ Unwalked' = Unwalked
      /\ node' = [construct |-> c, names |-> names, sizes |-> sizes, reads |-> reads]
      /\ frames \in Seq(Frame)
  BY LeafSameShape, RunningFacts
<1>2. /\ result' = result
      /\ symtab' = IF Unwalked THEN symtab ELSE st.table
      /\ diag' = IF Unwalked THEN diag ELSE st.diag
  BY DEF SizedLeaf, Visit, Report
<1>3. node'.construct = c
  BY <1>1
<1>4. Contexts' = ContextsOf(frames, symtab')
  BY <1>1, SameShapeContexts DEF Contexts
<1>5. ASSUME Unwalked
      PROVE  Rules!PassOver
  <2>1. Contexts' = Contexts /\ diag' = diag
    BY <1>2, <1>4, <1>5 DEF Contexts
  <2>2. ~Heard'
    BY <1>1, <1>3, <1>5 DEF Heard
  <2>3. QED
    BY <1>2, <2>1, <2>2, PassedOver
<1>6. ASSUME ~Unwalked
      PROVE  /\ StatementHeard' =
                   Rules!Statement(ToldKind(c), ToldNames(c, names), sizes,
                                   ToldReads(c, reads))
             /\ Contexts' = ContextsOf(frames, st.table)
             /\ diag' = st.diag
             /\ Verdict' = Verdict
  <2>1. Heard'
    BY <1>1, <1>6 DEF Heard
  <2>2. QED
    BY <1>1, <1>2, <1>4, <1>6, <2>1, HeardTold, VerdictKept
<1>7. QED
  BY <1>5, <1>6

LEMMA SimpleTold ==
  ASSUME Running, ~Unwalked, NEW names, NEW sizes, NEW reads, NEW st,
         Applied(st, names, sizes, reads),
         StatementHeard' = Rules!Statement("other", names, sizes, reads),
         Contexts' = ContextsOf(frames, st.table), diag' = st.diag, Verdict' = Verdict
  PROVE  Rules!Simple(names, sizes, reads)
<1>1. Contexts' = Rules!Declared(names)
  BY RuleDeclared DEF Applied
<1>2. diag'.had_error = (diag.had_error \/ Rules!Broken(names, sizes, reads))
  BY DEF Applied
<1>3. Contexts # << >>
  BY RunningContexts
<1>4. QED
  BY <1>1, <1>2, <1>3 DEF Rules!Simple, Rules!Read

-----------------------------------------------------------------------------
(***************************************************************************)
(* The steps of the rules that the analyser's steps are.                   *)
(***************************************************************************)
LEMMA RuleNames ==
  Rules!NameSets = Reads /\ {} \in Reads /\ \A n \in Names : {n} \in Reads
BY DEF Rules!NameSets, Reads

LEMMA SizedLeafNext ==
  ASSUME Running, CanConsume, NEW c,
         c \notin UnwalkedKinds, c \notin {"none", "break", "continue"},
         NEW names \in Reads, NEW sizes \in Reads, NEW reads \in Reads, NEW st,
         SizedLeaf(c, names, sizes, reads, st),
         ~Unwalked => Applied(st, ToldNames(c, names), sizes, ToldReads(c, reads))
  PROVE  Rules!Next
<1>1. /\ ToldKind(c) = "other"
      /\ ToldNames(c, names) \in Reads /\ ToldReads(c, reads) \in Reads
  BY RuleNames DEF ToldKind, ToldNames, ToldReads
<1>2. CASE Unwalked
  BY <1>2, LeafTold DEF Rules!Next
<1>3. CASE ~Unwalked
  <2>1. Rules!Simple(ToldNames(c, names), sizes, ToldReads(c, reads))
    BY <1>1, <1>3, LeafTold, SimpleTold
  <2>2. QED
    BY <1>1, <2>1, RuleNames DEF Rules!Next
<1>4. QED
  BY <1>2, <1>3

LEMMA LeafNext ==
  ASSUME Running, CanConsume, NEW c,
         c \notin UnwalkedKinds, c \notin {"none", "break", "continue"},
         NEW names \in Reads, NEW reads \in Reads, NEW st,
         Leaf(c, names, reads, st),
         ~Unwalked => Applied(st, ToldNames(c, names), {}, ToldReads(c, reads))
  PROVE  Rules!Next
<1>1. {} \in Reads /\ SizedLeaf(c, names, {}, reads, st)
  BY RuleNames DEF Leaf
<1>2. QED
  BY <1>1, SizedLeafNext

LEMMA VariablesImplement ==
  ASSUME Running, NEW n \in Names, NEW z \in Reads, NEW r \in Reads,
         VarDecl(n, z, r) \/ ListDecl(n, z, r)
  PROVE  Rules!Next
<1>1. {n} \in Reads
  BY RuleNames
<1>2. /\ ToldReads("var", r) = r /\ ToldReads("list", r) = {}
      /\ \A c \in {"var", "list"} : ToldNames(c, {n}) = {n}
      /\ {"var", "list"} \cap UnwalkedKinds = {}
  BY DEF ToldReads, ToldNames, UnreadConstructs, UndeclaredConstructs, UnwalkedKinds
<1>3. ~Unwalked => /\ Applied(declare(n, z), {n}, z, {})
                   /\ Applied(analyze_reads(declare(n, z), r), {n}, z, r)
  BY ApplyVariable, ApplyReads
<1>4. CASE VarDecl(n, z, r)
  <2>1. CanConsume /\ SizedLeaf("var", {n}, z, r, analyze_reads(declare(n, z), r))
    BY <1>4, Placement DEF VarDecl
  <2>2. QED
    BY <1>1, <1>2, <1>3, <2>1, SizedLeafNext
<1>5. CASE ListDecl(n, z, r)
  <2>1. CanConsume /\ SizedLeaf("list", {n}, z, r, declare(n, z))
    BY <1>5, Placement DEF ListDecl
  <2>2. QED
    BY <1>1, <1>2, <1>3, <2>1, SizedLeafNext
<1>6. QED
  BY <1>4, <1>5

LEMMA DeclarationsImplement ==
  ASSUME Running, NEW n \in Names,
         \/ FuncPrototype(n)
         \/ Param(n)
         \/ Enumerator(n)
         \/ LabelStmt(n)
         \/ Define(n)
  PROVE  Rules!Next
<1>1. /\ ~Unwalked => Applied(Here, {}, {}, {})
      /\ \A kind \in SymbolKinds :
           ~Unwalked => Applied(symbol_add(Here, n, kind), {n}, {}, {})
  BY ApplyNothing, ApplySymbol
<1>2. {n} \in Reads /\ {} \in Reads
  BY RuleNames
<1>3. /\ \A c : ToldReads(c, {}) = {}
      /\ \A c \in {"prototype", "func", "enum", "label"} : ToldNames(c, {n}) = {n}
      /\ ToldNames("define", {n}) = {}
      /\ {"prototype", "func", "enum", "label", "define"} \cap UnwalkedKinds = {}
      /\ {"VARIABLE", "FUNCTION", "CONSTANT", "LABEL"} \subseteq SymbolKinds
  BY DEF ToldReads, ToldNames, UndeclaredConstructs, UnwalkedKinds, SymbolKinds
<1>4. CASE Define(n)
  BY <1>1, <1>2, <1>3, <1>4, Placement, LeafNext DEF Define
<1>5. CASE FuncPrototype(n)
  BY <1>1, <1>2, <1>3, <1>5, Placement, LeafNext DEF FuncPrototype
<1>6. CASE Param(n)
  BY <1>1, <1>2, <1>3, <1>6, Placement, LeafNext DEF Param
<1>7. CASE Enumerator(n)
  BY <1>1, <1>2, <1>3, <1>7, Placement, LeafNext DEF Enumerator
<1>8. CASE LabelStmt(n)
  BY <1>1, <1>2, <1>3, <1>8, Placement, LeafNext DEF LabelStmt
<1>9. QED
  BY <1>4, <1>5, <1>6, <1>7, <1>8

LEMMA StatementsImplement ==
  ASSUME Running, NEW r \in Reads,
         \/ ExprStmt(r) \/ ThrowStmt(r) \/ CallExpr(r) \/ SizeofExpr(r)
         \/ ForInitExpr(r) \/ GotoStmt
  PROVE  Rules!Next
<1>1. ~Unwalked => Applied(Here, {}, {}, {}) /\ Applied(analyze_reads(Here, r), {}, {}, r)
  BY ApplyNothing, ApplyReads
<1>2. /\ {} \in Reads
      /\ ToldReads("expr", r) = r
      /\ \A c \in {"throw", "call", "sizeof", "for expression"} : ToldReads(c, r) = {}
      /\ ToldReads("goto", {}) = {} /\ \A c : ToldNames(c, {}) = {}
      /\ {"expr", "throw", "call", "sizeof", "for expression", "goto"}
           \cap UnwalkedKinds = {}
  BY DEF Reads, ToldReads, ToldNames, UnreadConstructs, UnwalkedKinds
<1>3. CASE ExprStmt(r)
  BY <1>1, <1>2, <1>3, Placement, LeafNext DEF ExprStmt
<1>4. CASE ThrowStmt(r)
  BY <1>1, <1>2, <1>4, Placement, LeafNext DEF ThrowStmt
<1>4a. CASE CallExpr(r)
  BY <1>1, <1>2, <1>4a, Placement, LeafNext DEF CallExpr
<1>4b. CASE SizeofExpr(r)
  BY <1>1, <1>2, <1>4b, Placement, LeafNext DEF SizeofExpr
<1>5. CASE ForInitExpr(r)
  BY <1>1, <1>2, <1>5, Placement, LeafNext DEF ForInitExpr
<1>6. CASE GotoStmt
  BY <1>1, <1>2, <1>6, Placement, LeafNext DEF GotoStmt
<1>7. QED
  BY <1>3, <1>4, <1>4a, <1>4b, <1>5, <1>6

(* A jump is rejected exactly when the depths it depends on are zero.      *)
LEMMA JumpsImplement ==
  ASSUME Running, BreakStmt \/ ContinueStmt
  PROVE  Rules!Next
<1>1. /\ CanConsume /\ BoundedCollector(diag) /\ diag.had_error \in BOOLEAN
      /\ loop_depth \in Nat /\ switch_depth \in Nat
  BY Placement DEF BreakStmt, ContinueStmt, Running, IInv, TypeOK, BoundedCollector,
                   Collector
<1>2. /\ diag_error(diag).had_error = TRUE
      /\ diag_warning(diag).had_error = diag.had_error
  BY <1>1, DiagErrorBounded, DiagEmitBounded DEF diag_warning, Levels
<1>3. /\ {"break", "continue"} \cap UnwalkedKinds = {}
      /\ ToldKind("break") = "break" /\ ToldKind("continue") = "continue"
      /\ \A c : ToldReads(c, {}) = {} /\ ToldNames(c, {}) = {}
  BY DEF UnwalkedKinds, ToldKind, ToldReads, ToldNames
<1>4. CASE BreakStmt
  <2> DEFINE st == IF loop_depth = 0 /\ switch_depth = 0
                   THEN State(symtab, diag_error(diag)) ELSE Here
  <2>1. SizedLeaf("break", {}, {}, {}, st)
    BY <1>4 DEF BreakStmt, Leaf
  <2>2. st.table = symtab
    BY DEF Here, State
  <2>3. ~Unwalked =>
          st.diag.had_error = (diag.had_error \/ ~Rules!InRole({"loop", "switch"}))
    <3>1. CASE loop_depth = 0 /\ switch_depth = 0
      BY <1>2, <3>1, RuleRoles DEF State
    <3>2. CASE ~(loop_depth = 0 /\ switch_depth = 0)
      BY <1>1, <3>2, RuleRoles DEF State, Here
    <3>3. QED
      BY <3>1, <3>2
  <2> HIDE DEF st
  <2>4. CASE Unwalked
    BY <1>1, <1>3, <2>1, <2>4, LeafTold DEF Rules!Next
  <2>5. CASE ~Unwalked
    <3>1. /\ StatementHeard' = Rules!Statement("break", {}, {}, {})
          /\ Contexts' = Contexts /\ diag' = st.diag /\ Verdict' = Verdict
      BY <1>1, <1>3, <2>1, <2>2, <2>5, LeafTold DEF Contexts
    <3>2. Rules!Break
      BY <2>3, <2>5, <3>1, RunningContexts DEF Rules!Break, Rules!Read
    <3>3. QED
      BY <3>2 DEF Rules!Next
  <2>6. QED
    BY <2>4, <2>5
<1>5. CASE ContinueStmt
  <2> DEFINE st == IF loop_depth = 0 THEN State(symtab, diag_error(diag))
                                     ELSE State(symtab, diag_warning(diag))
  <2>1. SizedLeaf("continue", {}, {}, {}, st)
    BY <1>5 DEF ContinueStmt, Leaf
  <2>2. st.table = symtab
    BY DEF State
  <2>3. ~Unwalked => st.diag.had_error = (diag.had_error \/ ~Rules!InRole({"loop"}))
    <3>1. CASE loop_depth = 0
      BY <1>2, <3>1, RuleRoles DEF State
    <3>2. CASE loop_depth # 0
      BY <1>1, <1>2, <3>2, RuleRoles DEF State
    <3>3. QED
      BY <3>1, <3>2
  <2> HIDE DEF st
  <2>4. CASE Unwalked
    BY <1>1, <1>3, <2>1, <2>4, LeafTold DEF Rules!Next
  <2>5. CASE ~Unwalked
    <3>1. /\ StatementHeard' = Rules!Statement("continue", {}, {}, {})
          /\ Contexts' = Contexts /\ diag' = st.diag /\ Verdict' = Verdict
      BY <1>1, <1>3, <2>1, <2>2, <2>5, LeafTold DEF Contexts
    <3>2. Rules!Continue
      BY <2>3, <2>5, <3>1, RunningContexts DEF Rules!Continue, Rules!Read
    <3>3. QED
      BY <3>2 DEF Rules!Next
  <2>6. QED
    BY <2>4, <2>5
<1>6. QED
  BY <1>4, <1>5

LEMMA PoppedAppend ==
  ASSUME NEW gs \in Seq(Frame), NEW f \in Frame
  PROVE  SubSeq(Append(gs, f), 1, Len(Append(gs, f)) - 1) = gs
<1> DEFINE hs    == Append(gs, f)
           front == SubSeq(hs, 1, Len(hs) - 1)
<1>1. /\ hs \in Seq(Frame) /\ Len(hs) = Len(gs) + 1 /\ Len(gs) \in Nat
      /\ \A i \in 1 .. Len(gs) : hs[i] = gs[i]
  BY AppendProperties
<1> HIDE DEF hs
<1>2. hs # << >>
  BY <1>1, EmptySeq
<1>3. /\ front \in Seq(Frame) /\ Len(front) = Len(gs)
      /\ \A i \in 1 .. Len(gs) : front[i] = gs[i]
  <2>1. /\ front \in Seq(Frame) /\ Len(front) = Len(hs) - 1
        /\ \A i \in 1 .. Len(hs) - 1 : front[i] = hs[i]
    BY <1>1, <1>2, FrontAndTop
  <2>2. Len(hs) - 1 = Len(gs)
    BY <1>1
  <2>3. QED
    BY <1>1, <2>1, <2>2
<1>4. front = gs
  BY <1>3, SeqEqual
<1>5. QED
  BY <1>4 DEF hs

(* What the caller's frames look like once it has moved on to the sibling  *)
(* of a node that nests others, and what the frame of that node adds.      *)
LEMMA Pushed ==
  ASSUME Running, NEW kind \in FrameKinds, NEW gs \in Seq(Frame), gs # << >>,
         SameShape(frames, gs), frames' = Append(gs, NewFrame(kind))
  PROVE  /\ UnwalkedIn(Popped') = Unwalked
         /\ Unwalked' = (Unwalked \/ kind \in UnwalkedKinds)
         /\ \A table : ContextsOf(gs, table) = ContextsOf(frames, table)
         /\ Unwalked \/ kind \in UnwalkedKinds =>
              Contexts' = ContextsOf(frames, symtab')
         /\ NewFrame(kind) \in Frame /\ NewFrame(kind).kind = kind
<1> DEFINE f == NewFrame(kind)
<1>1. f \in Frame /\ f.kind = kind
  BY DEF Running, IInv, TypeOK, NewFrame, Frame, Arity
<1> HIDE DEF f
<1>2. frames \in Seq(Frame) /\ frames' = Append(gs, f)
  BY RunningFacts DEF f
<1>3. Popped' = gs
  BY <1>1, <1>2, PoppedAppend DEF Popped
<1>4. UnwalkedIn(gs) = Unwalked
  BY <1>2, SameShapeOpen DEF Unwalked
<1>5. Unwalked' = (Unwalked \/ kind \in UnwalkedKinds)
  <2>1. UnwalkedIn(Append(gs, f)) <=> UnwalkedIn(gs) \/ f.kind \in UnwalkedKinds
    BY <1>1, UnwalkedPush
  <2>2. UnwalkedIn(Append(gs, f)) \in BOOLEAN
    BY DEF UnwalkedIn
  <2>3. QED
    BY <1>1, <1>2, <1>4, <2>1, <2>2 DEF Unwalked
<1>6. \A table : ContextsOf(gs, table) = ContextsOf(frames, table)
  BY <1>2, SameShapeContexts
<1>7. ASSUME Unwalked \/ kind \in UnwalkedKinds
      PROVE  Contexts' = ContextsOf(frames, symtab')
  <2>1. ContextsOf(Append(gs, f), symtab') = ContextsOf(gs, symtab')
    BY <1>1, <1>4, <1>7, UnwalkedPushContexts
  <2>2. QED
    BY <1>2, <1>6, <2>1 DEF Contexts
<1>8. QED
  BY <1>1, <1>3, <1>4, <1>5, <1>6, <1>7 DEF f

(* A node that nests others opens a context where it is walked, and is a   *)
(* statement like any other where what it nests is not.                    *)
LEMMA NestTold ==
  ASSUME Running, ~Unwalked, NEW c, ToldKind(c) = "other", c # "none",
         NEW names, NEW reads, ToldReads(c, reads) = reads,
         NEW kind \in FrameKinds, kind \in UnwalkedKinds => c = kind,
         NEW gs \in Seq(Frame), gs # << >>, SameShape(frames, gs),
         frames' = Append(gs, NewFrame(kind)),
         Visit(c, names, {}, reads)
  PROVE  StatementHeard' = Rules!Statement("other", ToldNames(c, names), {}, reads)
<1>1. node' = [construct |-> c, names |-> names, sizes |-> {}, reads |-> reads]
  BY DEF Visit
<1>2. node'.construct = c
  BY <1>1
<1>3. Heard'
  BY <1>2, Pushed DEF Heard
<1>4. QED
  BY <1>1, <1>3, HeardTold

(* The table and the collector as a handler leaves them before it visits   *)
(* what the node nests: as after `st0', and with a scope more if need be.  *)
Entered(st0, st, kind) ==
  /\ st.diag = st0.diag
  /\ kind \notin ScopedKinds => st.table = st0.table
  /\ kind \in ScopedKinds => \E k \in ScopeKinds : st.table = scope_push(st0.table, k)

LEMMA OpenTold ==
  ASSUME Running, ~Unwalked, NEW names, NEW reads,
         NEW kind \in FrameKinds \ UnwalkedKinds,
         NEW gs \in Seq(Frame), gs # << >>, SameShape(frames, gs),
         frames' = Append(gs, NewFrame(kind)),
         NEW st0, Applied(st0, names, {}, reads), NEW st, Entered(st0, st, kind),
         symtab' = st.table
  PROVE  \E scoped \in BOOLEAN :
           Contexts' = Append(Rules!Declared(names),
                              [scoped |-> scoped, role |-> RoleOf(kind), names |-> {}])
<1> DEFINE f      == NewFrame(kind)
           scoped == kind \in ScopedKinds
           added  == IF scoped THEN NamesIn(st.table[Len(st0.table) + 1]) ELSE {}
<1>1. f \in Frame /\ f.kind = kind /\ ContextsOf(gs, st0.table) = ContextsOf(frames, st0.table)
  BY Pushed
<1>2. /\ st0.table \in Table /\ Len(st0.table) = Len(symtab) /\ Len(symtab) \in Nat
      /\ frames \in Seq(Frame)
  BY RunningFacts DEF Applied, Sound
<1>3. WalkedChain(gs, st0.table)
  <2>1. WalkedChain(frames, symtab) /\ 1 \in 1 .. Len(frames)
    BY WalkedRunning, RunningFacts
  <2>2. gs[1].kind = frames[1].kind
    BY <2>1 DEF SameShape
  <2>3. OpenIn(gs, ScopedKinds) = OpenIn(frames, ScopedKinds) /\ ~UnwalkedIn(gs)
    BY <1>2, SameShapeOpen DEF Unwalked
  <2>4. QED
    BY <1>2, <2>1, <2>2, <2>3 DEF WalkedChain
<1>4. \A d \in 2 .. Len(st0.table) : NamesIn(st.table[d]) = NamesIn(st0.table[d])
  <2>1. CASE scoped
    <3>1. PICK k \in ScopeKinds : st.table = scope_push(st0.table, k)
      BY <2>1 DEF Entered
    <3>2. \A d \in 1 .. Len(st0.table) : st.table[d] = st0.table[d]
      BY <1>2, <3>1, ScopeNames
    <3>3. \A d \in 2 .. Len(st0.table) : d \in 1 .. Len(st0.table)
      BY <1>2
    <3>4. QED
      BY <3>2, <3>3
  <2>2. CASE ~scoped
    BY <2>2 DEF Entered
  <2>3. QED
    BY <2>1, <2>2
<1>5. added = {}
  <2>1. CASE scoped
    <3>1. PICK k \in ScopeKinds : st.table = scope_push(st0.table, k)
      BY <2>1 DEF Entered
    <3>2. NamesIn(st.table[Len(st0.table) + 1]) = {}
      BY <1>2, <3>1, ScopeNames
    <3>3. QED
      BY <3>2
  <2>2. CASE ~scoped
    BY <2>2
  <2>3. QED
    BY <2>1, <2>2
<1> HIDE DEF f
<1>6. ContextsOf(Append(gs, f), st.table) =
        Append(ContextsOf(gs, st0.table),
               [scoped |-> scoped, role |-> RoleOf(kind), names |-> added])
  <2>1. f.kind \notin UnwalkedKinds
    BY <1>1
  <2> HIDE DEF added, scoped
  <2>2. ContextsOf(Append(gs, f), st.table) =
          Append(ContextsOf(gs, st0.table), NewContext(f.kind, Len(st0.table), st.table))
    BY <1>1, <1>3, <1>4, <2>1, PushContexts, SMTT(20)
  <2>3. NewContext(f.kind, Len(st0.table), st.table) =
          [scoped |-> scoped, role |-> RoleOf(kind), names |-> added]
    BY <1>1 DEF NewContext, added, scoped
  <2>4. QED
    BY <2>2, <2>3
<1>7. ContextsOf(frames, st0.table) = Rules!Declared(names)
  BY RuleDeclared DEF Applied
<1>8. Contexts' = ContextsOf(Append(gs, f), st.table)
  BY DEF Contexts, f
<1>9. scoped \in BOOLEAN
  OBVIOUS
<1> HIDE DEF added, scoped
<1>10. QED
  BY <1>1, <1>5, <1>6, <1>7, <1>8, <1>9

LEMMA EnterNext ==
  ASSUME Running, NEW c, c \notin {"none", "break", "continue"} \cup UnreadConstructs,
         NEW names \in Reads, NEW reads \in Reads,
         NEW kind \in FrameKinds, kind \in UnwalkedKinds => c = kind,
         NEW gs \in Seq(Frame), gs # << >>, SameShape(frames, gs),
         frames' = Append(gs, NewFrame(kind)),
         NEW st0, ~Unwalked => Applied(st0, ToldNames(c, names), {}, reads),
         NEW st, ~Unwalked => Entered(st0, st, kind),
         Visit(c, names, {}, reads), Report(st)
  PROVE  Rules!Next
<1>1. /\ ToldKind(c) = "other" /\ ToldReads(c, reads) = reads
      /\ ToldNames(c, names) \in Reads
      /\ Contexts # << >> /\ result' = result
  BY RunningContexts, RuleNames DEF ToldKind, ToldReads, ToldNames, Visit
<1>2. CASE Unwalked
  <2>1. symtab' = symtab /\ diag' = diag
    BY <1>2 DEF Report
  <2>2. Contexts' = Contexts
    BY <1>2, <2>1, Pushed DEF Contexts
  <2>3. ~Heard'
    BY <1>2, Pushed DEF Heard
  <2>4. QED
    BY <1>1, <2>1, <2>2, <2>3, PassedOver DEF Rules!Next
<1>3. CASE ~Unwalked
  <2>1. /\ StatementHeard' = Rules!Statement("other", ToldNames(c, names), {}, reads)
        /\ Verdict' = Verdict /\ symtab' = st.table /\ diag' = st0.diag
        /\ Applied(st0, ToldNames(c, names), {}, reads)
    BY <1>1, <1>3, NestTold, VerdictKept DEF Report, Entered
  <2>2. CASE kind \in UnwalkedKinds
    <3>1. symtab' = st0.table
      BY <1>3, <2>1, <2>2 DEF Entered, UnwalkedKinds, ScopedKinds, FuncKinds
    <3>2. Contexts' = ContextsOf(frames, st0.table)
      BY <2>2, <3>1, Pushed
    <3>3. Rules!Simple(ToldNames(c, names), {}, reads)
      BY <1>3, <2>1, <3>2, SimpleTold
    <3>4. QED
      BY <1>1, <3>3, RuleNames DEF Rules!Next
  <2>3. CASE kind \notin UnwalkedKinds
    <3>1. PICK scoped \in BOOLEAN :
            Contexts' = Append(Rules!Declared(ToldNames(c, names)),
                               [scoped |-> scoped, role |-> RoleOf(kind), names |-> {}])
      BY <1>3, <2>1, <2>3, OpenTold
    <3>2. diag'.had_error = (diag.had_error \/ Rules!Broken(ToldNames(c, names), {}, reads))
      BY <2>1 DEF Applied
    <3>3. Rules!Read("other", ToldNames(c, names), {}, reads,
                   Rules!Broken(ToldNames(c, names), {}, reads))
      BY <1>1, <2>1, <3>2 DEF Rules!Read
    <3>4. Rules!Open(ToldNames(c, names), reads, scoped, RoleOf(kind))
      BY <3>1, <3>3 DEF Rules!Open
    <3>5. RoleOf(kind) \in Rules!Roles
      BY DEF RoleOf, Rules!Roles
    <3>6. QED
      BY <1>1, <3>4, <3>5, RuleNames DEF Rules!Next
  <2>4. QED
    BY <2>2, <2>3
<1>4. QED
  BY <1>2, <1>3

(* Entering from where the caller moves on to the node's sibling.          *)
LEMMA NestNext ==
  ASSUME Running, CanConsume,
         NEW c, c \notin {"none", "break", "continue"} \cup UnreadConstructs,
         NEW names \in Reads, NEW reads \in Reads,
         NEW kind \in FrameKinds, kind \in UnwalkedKinds => c = kind,
         NEW st0, ~Unwalked => Applied(st0, ToldNames(c, names), {}, reads),
         NEW st, ~Unwalked => Entered(st0, st, kind),
         Enter(c, names, reads, kind, st)
  PROVE  Rules!Next
<1>1. /\ Visit(c, names, {}, reads) /\ Report(st)
      /\ frames' = Append(Consumed, NewFrame(kind))
  BY DEF Enter
<1>2. QED
  BY <1>1, ConsumedShape, EnterNext

LEMMA NestsImplement ==
  ASSUME Running, NEW r \in Reads,
         \/ \E n \in Names : StructDecl(n) \/ EnumDecl(n)
         \/ NamelessClass \/ NamelessEnum(r)
         \/ Include \/ DoWhileStmt \/ TryStmt
         \/ IfStmt(r) \/ WhileStmt(r) \/ SwitchStmt(r)
  PROVE  Rules!Next
<1> DEFINE nests == {"class", "enum", "include", "if", "while", "switch", "do", "try"}
<1>1. /\ ~Unwalked => /\ Applied(Here, {}, {}, {})
                      /\ Applied(analyze_reads(Here, r), {}, {}, r)
      /\ \A n \in Names, kind \in SymbolKinds :
           ~Unwalked => Applied(symbol_add(Here, n, kind), {n}, {}, {})
  BY ApplyNothing, ApplyReads, ApplySymbol
<1>2. {} \in Reads /\ \A n \in Names : {n} \in Reads
  BY RuleNames
<1>3. /\ nests \subseteq FrameKinds
      /\ (nests \cup {"nameless"}) \cap ({"none", "break", "continue"} \cup UnreadConstructs)
           = {}
      /\ {"STRUCT", "ENUM"} \subseteq SymbolKinds
      /\ \A c \in nests : \A names : ToldNames(c, names) = names
      /\ \A names : ToldNames("nameless", names) = {}
  BY DEF FrameKinds, ListKinds, SymbolKinds, UnreadConstructs, ToldNames,
         UndeclaredConstructs
<1>4. ASSUME NEW kind \in nests, NEW st
      PROVE  Entered(st, st, kind)
  BY DEF Entered, ScopedKinds, FuncKinds
<1>5. CASE \E n \in Names : StructDecl(n)
  BY <1>1, <1>2, <1>3, <1>4, <1>5, Placement, NestNext DEF StructDecl
<1>6. CASE \E n \in Names : EnumDecl(n)
  <2>1. PICK n \in Names : TopLevel /\ Enter("enum", {n}, {}, "enum", symbol_add(Here, n, "ENUM"))
    BY <1>6 DEF EnumDecl
  <2>2. CanConsume
    BY <2>1, Placement
  <2> DEFINE st == symbol_add(Here, n, "ENUM")
  <2>3. /\ ~Unwalked => Applied(st, ToldNames("enum", {n}), {}, {})
        /\ Entered(st, st, "enum") /\ {n} \in Reads
    BY <1>1, <1>2, <1>3, <1>4
  <2> HIDE DEF st
  <2>4. QED
    BY <1>2, <1>3, <2>1, <2>2, <2>3, NestNext DEF st
<1>7. CASE NamelessClass
  BY <1>1, <1>2, <1>3, <1>4, <1>7, Placement, NestNext DEF NamelessClass
<1>7a. CASE NamelessEnum(r)
  <2>1. TopLevel /\ Enter("nameless", r, {}, "enum", Here)
    BY <1>7a DEF NamelessEnum
  <2>2. CanConsume /\ "enum" \notin UnwalkedKinds
    BY <2>1, Placement DEF UnwalkedKinds
  <2>3. /\ ~Unwalked => Applied(Here, ToldNames("nameless", r), {}, {})
        /\ Entered(Here, Here, "enum")
    BY <1>1, <1>3, <1>4
  <2>4. "enum" \in FrameKinds /\ "nameless" \notin {"none", "break", "continue"} \cup UnreadConstructs
    BY <1>3
  <2>5. QED
    BY <1>2, <2>1, <2>2, <2>3, <2>4, NestNext
<1>8. CASE Include
  BY <1>1, <1>2, <1>3, <1>4, <1>8, Placement, NestNext DEF Include
<1>9. CASE DoWhileStmt
  BY <1>1, <1>2, <1>3, <1>4, <1>9, Placement, NestNext DEF DoWhileStmt
<1>10. CASE TryStmt
  BY <1>1, <1>2, <1>3, <1>4, <1>10, Placement, NestNext DEF TryStmt
<1>11. CASE IfStmt(r)
  BY <1>1, <1>2, <1>3, <1>4, <1>11, Placement, NestNext DEF IfStmt
<1>12. CASE WhileStmt(r)
  BY <1>1, <1>2, <1>3, <1>4, <1>12, Placement, NestNext DEF WhileStmt
<1>13. CASE SwitchStmt(r)
  BY <1>1, <1>2, <1>3, <1>4, <1>13, Placement, NestNext DEF SwitchStmt
<1>14. QED
  BY <1>5, <1>6, <1>7, <1>7a, <1>8, <1>9, <1>10, <1>11, <1>12, <1>13

(* The nodes that open a scope: blocks, for statements and functions.      *)
LEMMA ScopesImplement ==
  ASSUME Running, Block \/ ForStmt \/ \E n \in Names, t \in ReturnTypes : FuncDecl(n, t)
  PROVE  Rules!Next
<1>1. ~Unwalked => Applied(Here, {}, {}, {})
  BY ApplyNothing
<1>2. {} \in Reads /\ \A n \in Names : {n} \in Reads
  BY RuleNames
<1>3. /\ {"block", "forinit", "params"} \subseteq FrameKinds
      /\ {"block", "forinit", "params"} \subseteq ScopedKinds
      /\ {"block", "forinit", "params"} \cap UnwalkedKinds = {}
      /\ {"BLOCK", "FUNCTION"} \subseteq ScopeKinds /\ "FUNCTION" \in SymbolKinds
      /\ \A c \in {"block", "for", "func"} :
           /\ \A names : ToldNames(c, names) = names
           /\ c \notin {"none", "break", "continue"} \cup UnreadConstructs
  BY DEF FrameKinds, ListKinds, ScopedKinds, FuncKinds, UnwalkedKinds, ScopeKinds,
         SymbolKinds, ToldNames, UndeclaredConstructs, UnreadConstructs
<1>4. ASSUME NEW st0, NEW kind \in {"block", "forinit", "params"},
             NEW k \in {"BLOCK", "FUNCTION"}
      PROVE  Entered(st0, State(scope_push(st0.table, k), st0.diag), kind)
  BY <1>3 DEF Entered, State
<1>5. Here.table = symtab /\ Here.diag = diag
  BY DEF Here, State
<1>6. \A kind \in {"block", "forinit"} :
        Entered(Here, State(scope_push(symtab, "BLOCK"), diag), kind)
  BY <1>4, <1>5
<1>7. CASE Block
  BY <1>1, <1>2, <1>3, <1>6, <1>7, Placement, NestNext DEF Block
<1>8. CASE ForStmt
  BY <1>1, <1>2, <1>3, <1>6, <1>8, Placement, NestNext DEF ForStmt
<1>9. ASSUME NEW n \in Names, NEW t \in ReturnTypes, FuncDecl(n, t)
      PROVE  Rules!Next
  <2> DEFINE st0 == symbol_add(Here, n, "FUNCTION")
             st  == State(scope_push(st0.table, "FUNCTION"), st0.diag)
  <2>1. ~Unwalked => Applied(st0, {n}, {}, {})
    BY <1>3, ApplySymbol
  <2>2. Entered(st0, st, "params")
    BY <1>4
  <2>3. CanConsume /\ Enter("func", {n}, {}, "params", st)
    BY <1>9, Placement DEF FuncDecl
  <2> HIDE DEF st0, st
  <2>4. QED
    BY <1>2, <1>3, <2>1, <2>2, <2>3, NestNext
<1>10. QED
  BY <1>7, <1>8, <1>9

LEMMA CaseImplements ==
  ASSUME Running, NEW r \in Reads, CaseStmt(r)
  PROVE  Rules!Next
<1> DEFINE f  == [Top EXCEPT !.left = 0]
           st == analyze_reads(Here, r)
<1>1. f \in Frame /\ f.kind = Top.kind /\ f.prev_return = Top.prev_return
  BY RunningFacts DEF Frame
<1>2. /\ Visit("case", {}, {}, r) /\ Report(st)
      /\ frames' = Append(SetTop(f), NewFrame("case"))
  BY DEF CaseStmt
<1> HIDE DEF f
<1>3. SetTop(f) \in Seq(Frame) /\ SetTop(f) # << >> /\ SameShape(frames, SetTop(f))
  BY <1>1, TopReplaced
<1>4. ~Unwalked => Applied(st, {}, {}, r)
  BY ApplyNothing, ApplyReads
<1>5. /\ "case" \in FrameKinds \ UnwalkedKinds
      /\ \A s : Entered(s, s, "case")
      /\ "case" \notin {"none", "break", "continue"} \cup UnreadConstructs
      /\ ToldNames("case", {}) = {}
  BY DEF FrameKinds, ListKinds, UnwalkedKinds, Entered, ScopedKinds, FuncKinds,
         UnreadConstructs, ToldNames
<1> HIDE DEF st
<1>6. QED
  BY <1>2, <1>3, <1>4, <1>5, RuleNames, EnterNext

(* The clauses of a for are over: what follows is the body of the loop.    *)
LEMMA LoopImplements ==
  ASSUME Running, NEW r \in Reads, ForBody(r)
  PROVE  Rules!Next
<1> DEFINE f  == [Top EXCEPT !.kind = "forbody", !.left = 1]
           st == analyze_reads(Here, r)
<1>1. /\ Top \in Frame /\ Top = frames[Len(frames)] /\ Top.kind = "forinit"
      /\ frames \in Seq(Frame) /\ frames # << >> /\ Contexts # << >>
      /\ Visit("for", {}, {}, r) /\ Report(st) /\ frames' = [frames EXCEPT ![Len(frames)] = f]
  BY RunningFacts, RunningContexts DEF ForBody, SetTop, Top
<1>2. f \in Frame /\ f.kind = "forbody"
  BY <1>1, ForBodyFrame
<1> HIDE DEF f
<1>3. /\ node' = [construct |-> "for", names |-> {}, sizes |-> {}, reads |-> r]
      /\ result' = result
      /\ symtab' = symtab
  <2>1. st.table = symtab
    BY DEF analyze_reads, Here, State
  <2>2. QED
    BY <1>1, <2>1 DEF Visit, Report
<1> HIDE DEF st
<1>4. CASE Unwalked
  <2>1. Top.kind \notin UnwalkedKinds
    BY <1>1 DEF UnwalkedKinds
  <2>2. Contexts' = Contexts /\ Unwalked'
    BY <1>1, <1>2, <1>3, <1>4, <2>1, UnwalkedReplaceTopContexts DEF Contexts, Unwalked
  <2>3. ~Heard'
    <3>1. node'.construct = "for"
      BY <1>3
    <3>2. QED
      BY <2>2, <3>1 DEF Heard, UnwalkedKinds
  <2>4. diag' = diag
    BY <1>1, <1>4 DEF Report
  <2>5. QED
    BY <1>3, <2>2, <2>3, <2>4, PassedOver DEF Rules!Next
<1>5. CASE ~Unwalked
  <2>1. /\ f.kind \notin UnwalkedKinds /\ Top.kind # "unit"
        /\ f.kind \in ScopedKinds <=> Top.kind \in ScopedKinds
        /\ RoleOf(f.kind) = "loop"
    <3>1. f.kind \notin UnwalkedKinds /\ Top.kind # "unit"
      BY <1>1, <1>2 DEF UnwalkedKinds
    <3>2. f.kind \in ScopedKinds /\ Top.kind \in ScopedKinds
      BY <1>1, <1>2 DEF ScopedKinds
    <3>3. RoleOf("forbody") = "loop"
      BY DEF RoleOf, LoopKinds, SwitchKinds
    <3>4. QED
      BY <1>2, <3>1, <3>2, <3>3
  <2>2. WalkedChain(frames, symtab)
    BY <1>5, WalkedRunning
  <2>3. Contexts' = [Contexts EXCEPT ![Len(Contexts)].role = "loop"]
    <3>1. Contexts' = ContextsOf([frames EXCEPT ![Len(frames)] = f], symtab)
      BY <1>1, <1>3 DEF Contexts
    <3>2. ContextsOf([frames EXCEPT ![Len(frames)] = f], symtab) =
            WithRole(ContextsOf(frames, symtab), RoleOf(f.kind))
      BY <1>1, <1>2, <2>1, <2>2, ReplaceTopContexts, ZenonT(40)
    <3>3. QED
      BY <2>1, <3>1, <3>2 DEF Contexts, WithRole
  <2>4. ~Unwalked'
    <3>1. \A i \in 1 .. Len(frames) :
            frames'[i] = IF i = Len(frames) THEN f ELSE frames[i]
      BY <1>1, <1>2, ReplaceTop
    <3>2. DOMAIN frames = 1 .. Len(frames) /\ DOMAIN frames' = 1 .. Len(frames)
      BY <1>1, LenProperties
    <3>3. QED
      BY <1>5, <2>1, <3>1, <3>2 DEF Unwalked, UnwalkedIn
  <2>5. StatementHeard' = Rules!Statement("other", {}, {}, r)
    <3>1. Heard' /\ "for" # "none"
      BY <2>4 DEF Heard
    <3>2. ToldKind("for") = "other" /\ ToldReads("for", r) = r
          /\ ToldNames("for", {}) = {}
      BY DEF ToldKind, ToldReads, ToldNames, UnreadConstructs
    <3>3. QED
      BY <1>3, <3>1, <3>2, HeardTold
  <2>6. diag'.had_error = (diag.had_error \/ Rules!Broken({}, {}, r))
    <3>1. Applied(st, {}, {}, r)
      BY <1>5, ApplyNothing, ApplyReads DEF st
    <3>2. diag' = st.diag
      BY <1>1, <1>5 DEF Report
    <3>3. QED
      BY <3>1, <3>2 DEF Applied
  <2>7. Verdict' = Verdict
    BY <1>3, VerdictKept
  <2>8. Rules!LoopBody(r)
    BY <1>1, <2>3, <2>5, <2>6, <2>7 DEF Rules!LoopBody, Rules!Read
  <2>9. QED
    BY <2>8, RuleNames DEF Rules!Next
<1>6. QED
  BY <1>4, <1>5

(* The parameters of a function are over and its body follows.             *)
LEMMA BodyImplements ==
  ASSUME Running, FuncBody
  PROVE  Rules!Next
<1> DEFINE f == [Top EXCEPT !.kind = "func"]
<1>1. /\ Top \in Frame /\ Top = frames[Len(frames)] /\ Top.kind = "params"
      /\ frames \in Seq(Frame) /\ frames # << >>
      /\ frames' = [frames EXCEPT ![Len(frames)] = f]
      /\ node' = NoNode /\ result' = result /\ symtab' = symtab /\ diag' = diag
  BY RunningFacts DEF FuncBody, SetTop, Top, analyser
<1>2. f \in Frame /\ f.kind = "func"
  BY <1>1 DEF Frame, FrameKinds, ListKinds
<1> HIDE DEF f
<1>3. /\ f.kind \notin UnwalkedKinds /\ Top.kind # "unit"
      /\ Top.kind \notin UnwalkedKinds
      /\ f.kind \in ScopedKinds <=> Top.kind \in ScopedKinds
      /\ RoleOf(f.kind) = "none"
      /\ RoleOf(Top.kind) = "none"
  BY <1>1, <1>2 DEF UnwalkedKinds, ScopedKinds, FuncKinds, RoleOf, LoopKinds, SwitchKinds
<1>4. Contexts' = ContextsOf([frames EXCEPT ![Len(frames)] = f], symtab)
  BY <1>1 DEF Contexts
<1>5. CASE Unwalked
  BY <1>1, <1>2, <1>3, <1>4, <1>5, UnwalkedReplaceTopContexts, PassedOver
     DEF Contexts, Unwalked, Rules!Next
<1>6. CASE ~Unwalked
  <2>1. /\ WalkedChain(frames, symtab)
        /\ DOMAIN Contexts = 1 .. Len(frames) /\ Len(Contexts) = Len(frames)
        /\ Contexts[Len(frames)].role = "none"
    <3>1. /\ WalkedChain(frames, symtab)
          /\ DOMAIN Contexts = 1 .. Len(frames) /\ Len(Contexts) = Len(frames)
          /\ \A i \in 1 .. Len(frames) : Contexts[i] = ContextOf(frames, symtab, i)
      BY <1>6, WalkedRunning
    <3>2. Len(frames) \in 1 .. Len(frames)
      BY RunningFacts
    <3>3. \A i : ContextOf(frames, symtab, i).role = RoleOf(frames[i].kind)
      BY DEF ContextOf
    <3>4. QED
      BY <1>1, <1>3, <3>1, <3>2, <3>3
  <2>2. Contexts' = WithRole(Contexts, "none")
    <3>1. /\ frames[Len(frames)].kind # "unit"
          /\ f.kind \in ScopedKinds <=> frames[Len(frames)].kind \in ScopedKinds
      BY <1>1, <1>3
    <3>2. ContextsOf([frames EXCEPT ![Len(frames)] = f], symtab) =
            WithRole(ContextsOf(frames, symtab), RoleOf(f.kind))
      BY <1>2, <1>3, <2>1, <3>1, ReplaceTopContexts
    <3>3. QED
      BY <1>3, <1>4, <3>2 DEF Contexts
  <2>3. WithRole(Contexts, "none") = Contexts
    <3> DEFINE n == Len(frames)
               c == Contexts[n]
    <3>1. [c EXCEPT !.role = "none"] = c
      <4>1. c = ContextOf(frames, symtab, n)
        BY <1>6, WalkedRunning, RunningFacts
      <4>2. DOMAIN c = {"scoped", "role", "names"} /\ c = [x \in DOMAIN c |-> c[x]]
        BY <4>1 DEF ContextOf
      <4>3. c.role = "none"
        BY <2>1
      <4> HIDE DEF c
      <4>4. QED
        BY <4>2, <4>3
    <3>2. Contexts = [i \in DOMAIN Contexts |-> Contexts[i]]
      BY DEF Contexts, ContextsOf
    <3>3. [Contexts EXCEPT ![n].role = "none"] =
            [Contexts EXCEPT ![n] = [c EXCEPT !.role = "none"]]
      OBVIOUS
    <3>4. [Contexts EXCEPT ![n] = c] = Contexts
      BY <3>2
    <3>5. QED
      BY <2>1, <3>1, <3>3, <3>4 DEF WithRole
  <2>4. QED
    BY <1>1, <1>3, <2>2, <2>3, PassedOver DEF Rules!Next
<1>7. QED
  BY <1>5, <1>6

(* Leaving a node leaves its context, and the scope it opened.             *)
LEMMA LeaveImplements ==
  ASSUME Running, Leave
  PROVE  Rules!Next
<1>1. /\ frames \in Seq(Frame) /\ frames # << >> /\ Contexts # << >>
      /\ Top = frames[Len(frames)] /\ MayLeave
      /\ frames' = SubSeq(frames, 1, Len(frames) - 1)
      /\ node' = NoNode /\ result' = result
  BY RunningFacts, RunningContexts DEF Leave, Popped, Top
<1>2. Top.kind \notin {"unit", "params", "forinit"}
  BY <1>1 DEF MayLeave
<1>3. CASE Unwalked
  <2>1. symtab' = symtab /\ diag' = diag
    BY <1>3 DEF Leave, analyser
  <2>2. ContextsOf(SubSeq(frames, 1, Len(frames) - 1), symtab) = ContextsOf(frames, symtab)
    BY <1>1, <1>3, UnwalkedPopContexts DEF Unwalked
  <2>3. Contexts' = Contexts
    BY <1>1, <2>1, <2>2 DEF Contexts
  <2>4. QED
    BY <1>1, <2>1, <2>3, PassedOver DEF Rules!Next
<1>4. CASE ~Unwalked
  <2>1. /\ symtab' = IF Top.kind \in {"func", "block", "forbody"}
                     THEN scope_pop(symtab) ELSE symtab
        /\ diag' = diag
    BY <1>4 DEF Leave
  <2>2. /\ WalkedChain(frames, symtab) /\ symtab \in Table
        /\ Len(symtab) \in Nat /\ Len(symtab) > 1
    BY <1>4, WalkedRunning, RunningFacts DEF Running, IInv, TypeOK
  <2>3. Top.kind \in ScopedKinds <=> Top.kind \in {"func", "block", "forbody"}
    BY <1>2 DEF ScopedKinds, FuncKinds
  <2>4. /\ Len(symtab') = Len(symtab) - One(Top.kind, ScopedKinds)
        /\ \A d \in 2 .. Len(symtab') : NamesIn(symtab[d]) = NamesIn(symtab'[d])
    <3>1. CASE Top.kind \in ScopedKinds
      <4>1. /\ Len(scope_pop(symtab)) = Len(symtab) - 1
            /\ \A d \in 1 .. Len(symtab) - 1 : scope_pop(symtab)[d] = symtab[d]
        BY <2>2, ScopePopProperties, ScopeNames
      <4>2. symtab' = scope_pop(symtab) /\ One(Top.kind, ScopedKinds) = 1
        BY <2>1, <2>3, <3>1 DEF One
      <4>3. \A d \in 2 .. Len(symtab) - 1 : d \in 1 .. Len(symtab) - 1
        BY <2>2
      <4>4. QED
        BY <4>1, <4>2, <4>3
    <3>2. CASE Top.kind \notin ScopedKinds
      BY <2>1, <2>2, <2>3, <3>2 DEF One
    <3>3. QED
      BY <3>1, <3>2
  <2>5. ContextsOf(SubSeq(frames, 1, Len(frames) - 1), symtab') =
          SubSeq(ContextsOf(frames, symtab), 1, Len(ContextsOf(frames, symtab)) - 1)
    <3>1. /\ frames[Len(frames)].kind # "unit"
          /\ Len(symtab') = Len(symtab) - One(frames[Len(frames)].kind, ScopedKinds)
      BY <1>1, <1>2, <2>4
    <3>2. QED
      BY <2>2, <2>4, <3>1, PopContexts
  <2>6. Contexts' = SubSeq(Contexts, 1, Len(Contexts) - 1)
    BY <1>1, <2>5 DEF Contexts
  <2>7. StatementHeard' = Rules!None /\ Verdict' = Verdict
    BY <1>1, NothingTold, VerdictKept
  <2>8. QED
    BY <1>1, <2>1, <2>6, <2>7 DEF Rules!Close, Rules!Next
<1>5. QED
  BY <1>3, <1>4

LEMMA NoContexts ==
  ASSUME NEW table
  PROVE  ContextsOf(<< >>, table) = << >>
<1>1. OpenIn(<< >>, FrameKinds) = {}
  BY DEF OpenIn
<1>2. QED
  BY <1>1 DEF ContextsOf

LEMMA BeginImplements ==
  ASSUME IInv, Begin
  PROVE  Rules!Next
<1> DEFINE unit == [scoped |-> TRUE, role |-> "none", names |-> {}]
           fs   == << NewFrame("unit") >>
           tc   == scope_push(symtab, "GLOBAL")
<1>1. /\ IInv' /\ result = "idle" /\ result' = "running"
      /\ frames = << >> /\ frames' = fs
      /\ symtab = symbol_table_create /\ symtab' = tc /\ symtab \in Table
      /\ diag' = diag /\ node' = NoNode
  BY WalkBegun DEF Begin, IInv, Shape, TypeOK
<1>2. Contexts = << >> /\ Verdict = "open"
  BY <1>1, NoContexts DEF Contexts, Verdict
<1>3. StatementHeard' = Rules!None /\ Verdict' = "open"
  BY <1>1, NothingTold DEF Verdict
<1>4. Len(symtab) = 1
  BY <1>1 DEF symbol_table_create
<1>5. /\ Len(fs) = 1 /\ fs[1].kind = "unit" /\ fs # << >> /\ DOMAIN fs = {1}
  BY DEF NewFrame
<1>6. WalkedChain(fs, tc)
  <2>1. fs \in Seq(Frame) /\ Len(tc) = 2 + Cardinality(OpenIn(fs, ScopedKinds))
    BY <1>1 DEF IInv, TypeOK, Shape, Balanced
  <2>2. ~UnwalkedIn(fs)
    BY <1>5 DEF UnwalkedIn, UnwalkedKinds
  <2>3. QED
    BY <1>5, <2>1, <2>2 DEF WalkedChain
<1>7. NamesIn(tc[2]) = {}
  <2>1. NamesIn(tc[Len(symtab) + 1]) = {}
    BY <1>1, ScopeNames DEF ScopeKinds
  <2>2. QED
    BY <1>4, <2>1
<1> HIDE DEF fs, tc
<1>8. ScopeOf(fs, 1) = 2
  BY <1>5, ScopeSteps
<1>9. RoleOf("unit") = "none"
  BY DEF RoleOf, LoopKinds, SwitchKinds
<1>10. ContextOf(fs, tc, 1) = unit
  BY <1>5, <1>7, <1>8, <1>9 DEF ContextOf
<1> HIDE DEF unit
<1>11. ContextsOf(fs, tc) = << unit >>
  <2>1. ContextsOf(fs, tc) = [i \in 1 .. 1 |-> ContextOf(fs, tc, i)]
    BY <1>5, <1>6, WalkedContexts
  <2>2. [i \in 1 .. 1 |-> ContextOf(fs, tc, i)] = [i \in 1 .. 1 |-> unit]
    BY <1>10
  <2>3. QED
    BY <2>1, <2>2
<1>12. Contexts' = << unit >>
  BY <1>1, <1>11 DEF Contexts
<1>13. QED
  BY <1>1, <1>2, <1>3, <1>12 DEF Rules!Begin, Rules!Next, unit

LEMMA FinishImplements ==
  ASSUME IInv, Finish
  PROVE  Rules!Next
<1>1. /\ Running /\ Len(frames) = 1 /\ frames' = << >> /\ diag' = diag /\ node' = NoNode
      /\ result' = IF diag.had_error THEN "rejected" ELSE "accepted"
  BY DEF Finish, Running
<1>2. frames[1].kind = "unit" /\ DOMAIN frames = 1 .. Len(frames)
  BY <1>1, RunningFacts, LenProperties DEF Running, IInv, Shape
<1>3. ~Unwalked
  BY <1>1, <1>2 DEF Unwalked, UnwalkedIn, UnwalkedKinds
<1>4. Len(Contexts) = 1
  BY <1>1, <1>3, WalkedRunning
<1>5. Contexts' = << >>
  BY <1>1, NoContexts DEF Contexts
<1>6. StatementHeard' = Rules!None
  BY <1>1, NothingTold
<1>7. Verdict' = IF diag.had_error THEN "rejected" ELSE "accepted"
  BY <1>1 DEF Verdict
<1>8. QED
  BY <1>1, <1>4, <1>5, <1>6, <1>7 DEF Rules!End, Rules!Next

LEMMA InitImplements ==
  ASSUME Init
  PROVE  Rules!Init
<1>1. /\ frames = << >> /\ node = NoNode /\ result = "idle"
      /\ diag.had_error = FALSE
  BY DEF Init, diagnostics_create
<1>2. Contexts = << >> /\ Verdict = "open"
  BY <1>1, NoContexts DEF Contexts, Verdict
<1>3. /\ NoNode.construct = "none" /\ NoNode.names = {} /\ NoNode.sizes = {}
      /\ NoNode.reads = {}
  BY DEF NoNode
<1>4. StatementHeard = Rules!None
  BY <1>1, <1>3 DEF StatementHeard, Rules!None, Rules!Statement
<1>5. QED
  BY <1>1, <1>2, <1>4 DEF Rules!Init

LEMMA VisitsImplement ==
  ASSUME Running, VisitNode
  PROVE  Rules!Next
<1>1. {} \in Reads /\ Declarable \subseteq Names /\ \A n \in Names : {n} \in Reads
  BY RuleNames DEF Declarable
<1>2. ASSUME NEW n \in Declarable,
             \/ FuncPrototype(n) \/ Param(n) \/ Enumerator(n) \/ LabelStmt(n) \/ Define(n)
             \/ StructDecl(n) \/ EnumDecl(n)
             \/ \E z, r \in Reads : VarDecl(n, z, r) \/ ListDecl(n, z, r)
             \/ \E t \in ReturnTypes : FuncDecl(n, t)
      PROVE  Rules!Next
  BY <1>1, <1>2, DeclarationsImplement, NestsImplement, VariablesImplement,
     ScopesImplement
<1>3. ASSUME NEW r \in Reads,
             \/ ExprStmt(r) \/ ThrowStmt(r) \/ CallExpr(r) \/ SizeofExpr(r)
             \/ ForInitExpr(r) \/ IfStmt(r) \/ WhileStmt(r) \/ SwitchStmt(r)
             \/ ForBody(r) \/ CaseStmt(r)
      PROVE  Rules!Next
  BY <1>3, StatementsImplement, NestsImplement, LoopImplements, CaseImplements
<1>4. ASSUME \/ GotoStmt \/ BreakStmt \/ ContinueStmt
             \/ NamelessClass \/ Include \/ DoWhileStmt \/ TryStmt
             \/ Block \/ ForStmt
      PROVE  Rules!Next
  BY <1>1, <1>4, StatementsImplement, JumpsImplement, NestsImplement, ScopesImplement
<1>5. ASSUME NEW first \in {{}} \cup {{n} : n \in Declarable}, NamelessEnum(first)
      PROVE  Rules!Next
  <2>1. first \in Reads
    BY <1>1
  <2>2. QED
    BY <1>5, <2>1, NestsImplement
<1>6. QED
  BY <1>2, <1>3, <1>4, <1>5 DEF VisitNode

LEMMA StepImplements ==
  ASSUME IInv, [Next]_vars
  PROVE  [Rules!Next]_(Rules!vars)
<1>1. CASE UNCHANGED vars
  <2>1. UNCHANGED << symtab, diag, frames, result, node >>
    BY <1>1 DEF vars, analyser
  <2>2. /\ Contexts' = Contexts /\ StatementHeard' = StatementHeard
        /\ Verdict' = Verdict /\ diag'.had_error = diag.had_error
    BY <2>1 DEF Contexts, StatementHeard, Heard, Unwalked, Popped, Verdict
  <2>3. QED
    BY <2>2 DEF Rules!vars
<1>2. CASE VisitNode
  <2>1. Running
    BY <1>2, VisitsRun DEF Running
  <2>2. QED
    BY <1>2, <2>1, VisitsImplement
<1>3. CASE FuncBody
  BY <1>3, BodyImplements DEF Running, FuncBody
<1>4. CASE Leave
  BY <1>4, LeaveImplements DEF Running, Leave
<1>5. CASE Begin
  BY <1>5, BeginImplements
<1>6. CASE Finish
  BY <1>6, FinishImplements
<1>7. QED
  BY <1>1, <1>2, <1>3, <1>4, <1>5, <1>6 DEF Next

(* For any names, types, constructs and bounds, the analyser implements    *)
(* the rules of scoping and of break and continue in what it walks of any  *)
(* program: the contexts it is in are those its recursion and its scope    *)
(* chain stand for, an error is raised at the node that breaks a rule and  *)
(* at no other, and the verdict is that of the rules (semantic.c:121-592,  *)
(* symbol.c:26-131).  The rules are not told the reads of UnreadConstructs *)
(* and the names of UndeclaredConstructs, which the analyser ignores, and  *)
(* they do not reach beyond those of LexicalRules.                         *)
THEOREM AnalyserImplementsRules == Spec => ImplementsLexicalRules
<1>1. Init => Rules!Init
  BY InitImplements
<1>2. IInv /\ [Next]_vars => [Rules!Next]_(Rules!vars)
  BY StepImplements
<1>3. QED
  BY <1>1, <1>2, Invariance, PTL DEF Spec, ImplementsLexicalRules, Rules!Spec
=============================================================================
