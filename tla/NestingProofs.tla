--------------------------- MODULE NestingProofs ---------------------------
(***************************************************************************)
(* The lemmas SemanticProofs rests on, for scope chains and frame          *)
(* sequences of any length: what the operations on symbol tables preserve, *)
(* and how the nesting recorded in a sequence of frames changes when a     *)
(* frame is pushed, popped or replaced.  No state, no steps.               *)
(***************************************************************************)
EXTENDS Semantic, DiagnosticsProofs, FiniteSetTheorems, WellFoundedInduction

-----------------------------------------------------------------------------
(***************************************************************************)
(* Scope chains.                                                           *)
(***************************************************************************)

(* A fresh scope on the chain declares nothing, and hides nothing below.   *)
LEMMA ScopePushProperties ==
  ASSUME NEW table \in Table, NEW kind \in ScopeKinds
  PROVE  /\ scope_push(table, kind) \in Table
         /\ Len(scope_push(table, kind)) = Len(table) + 1
         /\ scope_push(table, kind)[1] = table[1]
         /\ UniqueNames(table) => UniqueNames(scope_push(table, kind))
<1>1. table \in Seq(Scope) /\ table # << >> /\ Len(table) \in Nat \ {0}
  BY EmptySeq DEF Table
<1>2. EmptyScope(kind) \in Scope /\ EmptyScope(kind).symbols = << >>
  BY EmptySeq DEF EmptyScope, Scope
<1>3. /\ scope_push(table, kind) \in Seq(Scope)
      /\ scope_push(table, kind) # << >>
      /\ Len(scope_push(table, kind)) = Len(table) + 1
      /\ \A i \in 1 .. Len(table) : scope_push(table, kind)[i] = table[i]
      /\ scope_push(table, kind)[Len(table) + 1] = EmptyScope(kind)
  BY <1>1, <1>2, AppendProperties DEF scope_push
<1>4. ASSUME UniqueNames(table)
      PROVE  UniqueNames(scope_push(table, kind))
  <2>1. DOMAIN table = 1 .. Len(table)
        /\ DOMAIN scope_push(table, kind) = 1 .. Len(table) + 1
    BY <1>1, <1>3, LenProperties
  <2>2. DOMAIN EmptyScope(kind).symbols = {}
    BY <1>2
  <2>3. QED
    BY <1>1, <1>3, <1>4, <2>1, <2>2 DEF UniqueNames
<1>5. QED
  BY <1>1, <1>3, <1>4 DEF Table

(* Popping restores the chain below the current scope.                     *)
LEMMA ScopePopProperties ==
  ASSUME NEW table \in Table, Len(table) > 1
  PROVE  /\ scope_pop(table) \in Table
         /\ Len(scope_pop(table)) = Len(table) - 1
         /\ scope_pop(table)[1] = table[1]
         /\ UniqueNames(table) => UniqueNames(scope_pop(table))
<1>1. table \in Seq(Scope) /\ Len(table) \in Nat /\ DOMAIN table = 1 .. Len(table)
  BY LenProperties DEF Table
<1>2. scope_pop(table) = SubSeq(table, 1, Len(table) - 1)
  BY <1>1 DEF scope_pop
<1>3. \A i \in 1 .. Len(table) - 1 : table[i] \in Scope
  BY <1>1, ElementOfSeq
<1>4. /\ scope_pop(table) \in Seq(Scope)
      /\ Len(scope_pop(table)) = Len(table) - 1
      /\ \A i \in 1 .. Len(table) - 1 : scope_pop(table)[i] = table[i]
  BY <1>1, <1>2, <1>3, SubSeqProperties
<1>5. scope_pop(table) # << >>
  BY <1>1, <1>4
<1>6. DOMAIN scope_pop(table) = 1 .. Len(table) - 1
  BY <1>4, LenProperties
<1>7. QED
  BY <1>1, <1>4, <1>5, <1>6 DEF Table, UniqueNames

(* Adding a symbol reports a duplicate or extends the current scope, and   *)
(* either way leaves the chain, the scopes below and the uniqueness of     *)
(* names as they were (symbol.c:73-106).                                   *)
LEMMA SymbolAddProperties ==
  ASSUME NEW st, st.table \in Table, BoundedCollector(st.diag),
         UniqueNames(st.table), NEW name \in Names, NEW kind \in SymbolKinds
  PROVE  LET new == symbol_add(st, name, kind) IN
         /\ new.table \in Table
         /\ BoundedCollector(new.diag)
         /\ UniqueNames(new.table)
         /\ Len(new.table) = Len(st.table)
         /\ Len(st.table) > 1 => new.table[1] = st.table[1]
<1> DEFINE table  == st.table
           top    == Len(table)
           symbol == [name |-> name, kind |-> kind]
           syms   == table[top].symbols
           new    == symbol_add(st, name, kind)
<1>1. table \in Seq(Scope) /\ top \in Nat \ {0} /\ DOMAIN table = 1 .. top
  BY EmptySeq, LenProperties DEF Table
<1>2. table[top] \in Scope /\ syms \in Seq(Symbol) /\ symbol \in Symbol
  <2>1. symbol \in Symbol
    BY DEF Symbol
  <2>2. table[top] \in Scope
    <3> HIDE DEF table, top
    <3>1. QED
      BY <1>1, ElementOfSeq
  <2>3. \A scope \in Scope : scope.symbols \in Seq(Symbol)
    BY DEF Scope
  <2>4. QED
    BY <2>1, <2>2, <2>3
<1>3. CASE Declares(table[top], name)
  <2>1. new = State(table, diag_note(diag_error(st.diag)))
    BY <1>3 DEF symbol_add, symbol_lookup_current_scope, current_scope
  <2>2. BoundedCollector(diag_note(diag_error(st.diag)))
    BY DiagErrorBounded, DiagNoteBounded
  <2>3. QED
    BY <2>1, <2>2 DEF State
<1>4. CASE ~Declares(table[top], name)
  <2> DEFINE scope == [table[top] EXCEPT !.symbols = Append(syms, symbol)]
  <2>1. new = State([table EXCEPT ![top] = scope], st.diag)
    BY <1>1, <1>4 DEF symbol_add, symbol_lookup_current_scope, current_scope,
                      AppendSymbol
  <2>2. /\ Append(syms, symbol) \in Seq(Symbol)
        /\ Len(Append(syms, symbol)) = Len(syms) + 1
        /\ \A i \in 1 .. Len(syms) : Append(syms, symbol)[i] = syms[i]
        /\ Append(syms, symbol)[Len(syms) + 1] = symbol
    <3> HIDE DEF syms, symbol
    <3>1. QED
      BY <1>2, AppendProperties
  <2>3. scope \in Scope /\ scope.symbols = Append(syms, symbol)
    BY <1>2, <2>2 DEF Scope
  <2>4. /\ [table EXCEPT ![top] = scope] \in Seq(Scope)
        /\ Len([table EXCEPT ![top] = scope]) = top
        /\ \A i \in 1 .. top : [table EXCEPT ![top] = scope][i]
                                 = IF i = top THEN scope ELSE table[i]
    <3> HIDE DEF scope
    <3>1. QED
      BY <1>1, <2>3, ExceptSeq
  <2>5. new.table = [table EXCEPT ![top] = scope] /\ new.diag = st.diag
    BY <2>1 DEF State
  <2>6. new.table \in Table
    BY <1>1, <2>4, <2>5 DEF Table
  <2>7. UniqueNames(new.table)
    <3>1. DOMAIN new.table = 1 .. top
      BY <2>4, <2>5, LenProperties
    <3>2. \A i \in DOMAIN syms : syms[i].name # name
      BY <1>4 DEF Declares
    <3>3. DOMAIN syms = 1 .. Len(syms) /\ Len(syms) \in Nat
          /\ DOMAIN Append(syms, symbol) = 1 .. Len(syms) + 1
      BY <1>2, <2>2, LenProperties
    <3>4. ASSUME NEW i \in DOMAIN scope.symbols, NEW j \in DOMAIN scope.symbols,
                 scope.symbols[i].name = scope.symbols[j].name
          PROVE  i = j
      <4> HIDE DEF scope, syms
      <4>1. \A a, b \in DOMAIN syms : syms[a].name = syms[b].name => a = b
        BY <1>1 DEF UniqueNames, syms
      <4>2. symbol.name = name
        OBVIOUS
      <4> HIDE DEF symbol
      <4>3. QED
        BY <2>2, <2>3, <3>2, <3>3, <3>4, <4>1, <4>2
    <3> HIDE DEF scope, new
    <3>5. QED
      BY <1>1, <2>4, <2>5, <3>1, <3>4 DEF UniqueNames
  <2>8. QED
    BY <1>1, <2>4, <2>5, <2>6, <2>7
<1>5. QED
  BY <1>3, <1>4

-----------------------------------------------------------------------------
(***************************************************************************)
(* What a lookup along the chain can find.                                 *)
(***************************************************************************)
LEMMA ScopePushLookup ==
  ASSUME NEW table \in Table, NEW kind \in ScopeKinds, NEW name,
         ~symbol_lookup(table, name)
  PROVE  ~symbol_lookup(scope_push(table, kind), name)
<1>1. table \in Seq(Scope) /\ Len(table) \in Nat /\ DOMAIN table = 1 .. Len(table)
  BY LenProperties DEF Table
<1>2. EmptyScope(kind) \in Scope /\ ~Declares(EmptyScope(kind), name)
  BY EmptySeq DEF EmptyScope, Scope, Declares
<1>3. /\ DOMAIN scope_push(table, kind) = 1 .. Len(table) + 1
      /\ \A i \in 1 .. Len(table) : scope_push(table, kind)[i] = table[i]
      /\ scope_push(table, kind)[Len(table) + 1] = EmptyScope(kind)
  BY <1>1, <1>2, AppendProperties, LenProperties DEF scope_push
<1>4. \A i \in 1 .. Len(table) : ~Declares(table[i], name)
  BY <1>1 DEF symbol_lookup
<1>5. QED
  BY <1>1, <1>2, <1>3, <1>4 DEF symbol_lookup

LEMMA ScopePopLookup ==
  ASSUME NEW table \in Table, NEW name, ~symbol_lookup(table, name)
  PROVE  ~symbol_lookup(scope_pop(table), name)
<1>1. table \in Seq(Scope) /\ Len(table) \in Nat /\ DOMAIN table = 1 .. Len(table)
  BY LenProperties DEF Table
<1>2. CASE Len(table) = 1
  BY <1>2 DEF scope_pop
<1>3. CASE Len(table) # 1
  <2>1. \A i \in 1 .. Len(table) - 1 : table[i] \in Scope
    BY <1>1, ElementOfSeq
  <2>2. Len(table) - 1 \in Nat
    BY <1>1, EmptySeq DEF Table
  <2>3. /\ scope_pop(table) \in Seq(Scope)
        /\ Len(scope_pop(table)) = Len(table) - 1
        /\ \A i \in 1 .. Len(table) - 1 : scope_pop(table)[i] = table[i]
    BY <1>1, <1>3, <2>1, <2>2, SubSeqProperties DEF scope_pop
  <2>4. DOMAIN scope_pop(table) = 1 .. Len(table) - 1
    BY <2>3, LenProperties
  <2>5. QED
    BY <1>1, <2>3, <2>4 DEF symbol_lookup
<1>4. QED
  BY <1>2, <1>3

LEMMA SymbolAddLookup ==
  ASSUME NEW st, st.table \in Table, NEW name \in Names, NEW kind \in SymbolKinds,
         NEW other, other # name, ~symbol_lookup(st.table, other)
  PROVE  ~symbol_lookup(symbol_add(st, name, kind).table, other)
<1> DEFINE table  == st.table
           top    == Len(table)
           symbol == [name |-> name, kind |-> kind]
           syms   == table[top].symbols
           scope  == [table[top] EXCEPT !.symbols = Append(@, symbol)]
<1>1. \/ symbol_add(st, name, kind).table = table
      \/ symbol_add(st, name, kind).table = [table EXCEPT ![top] = scope]
  BY DEF symbol_add, AppendSymbol, State
<1>2. table \in Seq(Scope) /\ top \in Nat \ {0} /\ DOMAIN table = 1 .. top
  BY EmptySeq, LenProperties DEF Table
<1>3. table[top] \in Scope
  <2> HIDE DEF table, top
  <2>1. QED
    BY <1>2, ElementOfSeq
<1>4. syms \in Seq(Symbol) /\ scope.symbols = Append(syms, symbol)
  BY <1>3 DEF Scope
<1>5. symbol \in Symbol /\ symbol.name = name
  BY DEF Symbol
<1>6. \A i \in DOMAIN syms : syms[i].name # other
  <2>1. ~Declares(table[top], other)
    <3> HIDE DEF top
    <3>1. QED
      BY <1>2 DEF symbol_lookup
  <2>2. QED
    BY <2>1 DEF Declares
<1> HIDE DEF symbol, syms, scope
<1>7. /\ DOMAIN syms = 1 .. Len(syms) /\ Len(syms) \in Nat
      /\ DOMAIN scope.symbols = 1 .. Len(syms) + 1
      /\ \A i \in 1 .. Len(syms) : scope.symbols[i] = syms[i]
      /\ scope.symbols[Len(syms) + 1] = symbol
  BY <1>4, <1>5, AppendProperties, LenProperties
<1>8. ~Declares(scope, other)
  BY <1>5, <1>6, <1>7 DEF Declares
<1> HIDE DEF table, top
<1>9. ~symbol_lookup([table EXCEPT ![top] = scope], other)
  BY <1>2, <1>8 DEF symbol_lookup, table
<1>10. QED
  BY <1>1, <1>9 DEF table

-----------------------------------------------------------------------------
(***************************************************************************)
(* Sequences of frames.                                                    *)
(***************************************************************************)

(* The sets of kinds whose open frames the analyser counts.                *)
WalkedSets == {LoopKinds, SwitchKinds, FuncKinds, ScopedKinds}

(* Two recursions of the same shape: frame by frame, of the same kinds and *)
(* with the same saved return types.                                       *)
SameShape(fs, gs) ==
  /\ Len(gs) = Len(fs)
  /\ \A i \in 1 .. Len(fs) : /\ gs[i].kind = fs[i].kind
                             /\ gs[i].prev_return = fs[i].prev_return

(* The nesting as the analyser's variables record it.                      *)
Balanced(fs, scopes, loops, switches, ret) ==
  /\ loops = Cardinality(OpenIn(fs, LoopKinds))
  /\ switches = Cardinality(OpenIn(fs, SwitchKinds))
  /\ scopes = 2 + Cardinality(OpenIn(fs, ScopedKinds))
  /\ ret = NoType <=> OpenIn(fs, FuncKinds) = {}
  /\ \A i \in OpenIn(fs, FuncKinds) :
       fs[i].prev_return = NoType <=> \A j \in OpenIn(fs, FuncKinds) : i <= j

LEMMA WalkedSetsAreWalked ==
  \A K \in WalkedSets : \A k \in K : k \notin UnwalkedKinds
BY DEF WalkedSets, LoopKinds, SwitchKinds, FuncKinds, ScopedKinds, UnwalkedKinds

LEMMA OpenFinite ==
  ASSUME NEW fs \in Seq(Frame), NEW K
  PROVE  /\ OpenIn(fs, K) \subseteq 1 .. Len(fs)
         /\ IsFiniteSet(OpenIn(fs, K))
         /\ Cardinality(OpenIn(fs, K)) \in Nat
<1>1. Len(fs) \in Nat /\ DOMAIN fs = 1 .. Len(fs)
  BY LenProperties
<1>2. OpenIn(fs, K) \subseteq 1 .. Len(fs)
  BY <1>1 DEF OpenIn
<1>3. IsFiniteSet(1 .. Len(fs))
  BY <1>1, FS_Interval
<1>4. IsFiniteSet(OpenIn(fs, K))
  BY <1>2, <1>3, FS_Subset
<1>5. QED
  BY <1>2, <1>4, FS_CardinalityType

(* Nothing is open at the end of a recursion that is in an unwalked node.  *)
LEMMA UnwalkedEnd ==
  ASSUME NEW fs \in Seq(Frame), UnwalkedIn(fs), NEW K
  PROVE  Len(fs) \notin OpenIn(fs, K)
<1>1. Len(fs) \in Nat /\ DOMAIN fs = 1 .. Len(fs)
  BY LenProperties
<1>2. PICK i \in 1 .. Len(fs) : fs[i].kind \in UnwalkedKinds
  BY <1>1 DEF UnwalkedIn
<1>3. QED
  BY <1>1, <1>2 DEF OpenIn

LEMMA SameShapeOpen ==
  ASSUME NEW fs \in Seq(Frame), NEW gs \in Seq(Frame), SameShape(fs, gs), NEW K
  PROVE  /\ OpenIn(gs, K) = OpenIn(fs, K)
         /\ UnwalkedIn(gs) = UnwalkedIn(fs)
<1>1. /\ Len(fs) \in Nat
      /\ DOMAIN fs = 1 .. Len(fs)
      /\ DOMAIN gs = 1 .. Len(fs)
      /\ \A i \in 1 .. Len(fs) : gs[i].kind = fs[i].kind
  BY LenProperties DEF SameShape
<1>2. ASSUME NEW i \in 1 .. Len(fs)
      PROVE  i \in OpenIn(gs, K) <=> i \in OpenIn(fs, K)
  <2>1. \A j \in 1 .. i : gs[j].kind = fs[j].kind
    BY <1>1
  <2>2. gs[i].kind = fs[i].kind /\ i \in DOMAIN gs /\ i \in DOMAIN fs
    BY <1>1
  <2>3. QED
    BY <2>1, <2>2 DEF OpenIn
<1>3. OpenIn(gs, K) = OpenIn(fs, K)
  <2>1. OpenIn(gs, K) \subseteq 1 .. Len(fs) /\ OpenIn(fs, K) \subseteq 1 .. Len(fs)
    BY <1>1 DEF OpenIn
  <2>2. QED
    BY <1>2, <2>1
<1>4. QED
  BY <1>1, <1>3 DEF UnwalkedIn

LEMMA BalancedSameShape ==
  ASSUME NEW fs \in Seq(Frame), NEW gs \in Seq(Frame), SameShape(fs, gs),
         NEW scopes, NEW loops, NEW switches, NEW ret,
         Balanced(fs, scopes, loops, switches, ret)
  PROVE  Balanced(gs, scopes, loops, switches, ret)
<1>1. \A K : OpenIn(gs, K) = OpenIn(fs, K)
  BY SameShapeOpen
<1>2. \A i \in OpenIn(fs, FuncKinds) : gs[i].prev_return = fs[i].prev_return
  BY OpenFinite DEF SameShape
<1>3. QED
  BY <1>1, <1>2 DEF Balanced

(* A new frame at the end opens itself, unless it or a frame around it is  *)
(* unwalked.                                                               *)
LEMMA PushOpen ==
  ASSUME NEW fs \in Seq(Frame), NEW f \in Frame, NEW K \in WalkedSets
  PROVE  LET gs == Append(fs, f) IN
         /\ gs \in Seq(Frame)
         /\ OpenIn(gs, K) = IF ~UnwalkedIn(fs) /\ f.kind \in K
                            THEN OpenIn(fs, K) \cup {Len(fs) + 1}
                            ELSE OpenIn(fs, K)
         /\ Cardinality(OpenIn(gs, K)) =
              IF ~UnwalkedIn(fs) /\ f.kind \in K
              THEN Cardinality(OpenIn(fs, K)) + 1
              ELSE Cardinality(OpenIn(fs, K))
<1> DEFINE gs == Append(fs, f)
           n  == Len(fs)
<1>1. /\ n \in Nat
      /\ DOMAIN fs = 1 .. n
      /\ gs \in Seq(Frame)
      /\ DOMAIN gs = 1 .. n + 1
      /\ \A i \in 1 .. n : gs[i] = fs[i]
      /\ gs[n + 1] = f
  BY LenProperties, AppendProperties
<1> HIDE DEF gs, n
<1>2. OpenIn(fs, K) \subseteq 1 .. n
  BY OpenFinite DEF n
<1>3. \A i \in 1 .. n : i \in OpenIn(gs, K) <=> i \in OpenIn(fs, K)
  <2>1. SUFFICES ASSUME NEW i \in 1 .. n
                 PROVE  i \in OpenIn(gs, K) <=> i \in OpenIn(fs, K)
    OBVIOUS
  <2>2. \A j \in 1 .. i : gs[j] = fs[j]
    BY <1>1
  <2>3. gs[i] = fs[i] /\ i \in DOMAIN gs /\ i \in DOMAIN fs
    BY <1>1
  <2>4. QED
    BY <2>2, <2>3 DEF OpenIn
<1>4. n + 1 \in OpenIn(gs, K) <=> ~UnwalkedIn(fs) /\ f.kind \in K
  <2>1. f.kind \in K => f.kind \notin UnwalkedKinds
    BY WalkedSetsAreWalked
  <2>2. n + 1 \in OpenIn(gs, K) <=>
          /\ f.kind \in K
          /\ \A j \in 1 .. n + 1 : gs[j].kind \notin UnwalkedKinds
    BY <1>1 DEF OpenIn
  <2>3. (\A j \in 1 .. n + 1 : gs[j].kind \notin UnwalkedKinds) <=>
          f.kind \notin UnwalkedKinds /\ ~UnwalkedIn(fs)
    BY <1>1 DEF UnwalkedIn
  <2>4. QED
    BY <2>1, <2>2, <2>3
<1>5. OpenIn(gs, K) \subseteq 1 .. n + 1
  BY <1>1 DEF OpenIn
<1>6. OpenIn(gs, K) = IF ~UnwalkedIn(fs) /\ f.kind \in K
                      THEN OpenIn(fs, K) \cup {n + 1}
                      ELSE OpenIn(fs, K)
  <2>1. 1 .. n + 1 = (1 .. n) \cup {n + 1}
    BY <1>1
  <2>2. \A i : i \in OpenIn(gs, K) <=> \/ i \in OpenIn(fs, K)
                                       \/ i = n + 1 /\ n + 1 \in OpenIn(gs, K)
    BY <1>2, <1>3, <1>5, <2>1
  <2>3. QED
    BY <1>4, <2>2
<1>7. n + 1 \notin OpenIn(fs, K)
  BY <1>1, <1>2
<1>8. Cardinality(OpenIn(fs, K) \cup {n + 1}) = Cardinality(OpenIn(fs, K)) + 1
  BY <1>7, OpenFinite, FS_AddElement
<1>9. QED
  BY <1>1, <1>6, <1>8 DEF gs, n

(* Popping the last frame closes it.                                       *)
LEMMA PopOpen ==
  ASSUME NEW fs \in Seq(Frame), fs # << >>, NEW K \in WalkedSets
  PROVE  LET gs == SubSeq(fs, 1, Len(fs) - 1) IN
         /\ gs \in Seq(Frame)
         /\ Len(gs) = Len(fs) - 1
         /\ \A i \in 1 .. Len(fs) - 1 : gs[i] = fs[i]
         /\ OpenIn(gs, K) = OpenIn(fs, K) \ {Len(fs)}
         /\ Cardinality(OpenIn(gs, K)) =
              IF Len(fs) \in OpenIn(fs, K)
              THEN Cardinality(OpenIn(fs, K)) - 1
              ELSE Cardinality(OpenIn(fs, K))
<1> DEFINE gs == SubSeq(fs, 1, Len(fs) - 1)
           n  == Len(fs)
<1>1. /\ n \in Nat \ {0}
      /\ DOMAIN fs = 1 .. n
      /\ \A i \in 1 .. n - 1 : fs[i] \in Frame
  BY LenProperties, EmptySeq, ElementOfSeq
<1>2. /\ gs \in Seq(Frame)
      /\ Len(gs) = n - 1
      /\ \A i \in 1 .. n - 1 : gs[i] = fs[i]
  BY <1>1, SubSeqProperties
<1>3. DOMAIN gs = 1 .. n - 1
  BY <1>2, LenProperties
<1> HIDE DEF gs, n
<1>4. OpenIn(fs, K) \subseteq 1 .. n
  BY OpenFinite DEF n
<1>5. \A i \in 1 .. n - 1 : i \in OpenIn(gs, K) <=> i \in OpenIn(fs, K)
  <2>1. SUFFICES ASSUME NEW i \in 1 .. n - 1
                 PROVE  i \in OpenIn(gs, K) <=> i \in OpenIn(fs, K)
    OBVIOUS
  <2>2. \A j \in 1 .. i : gs[j] = fs[j]
    BY <1>1, <1>2
  <2>3. gs[i] = fs[i] /\ i \in DOMAIN gs /\ i \in DOMAIN fs
    BY <1>1, <1>2, <1>3
  <2>4. QED
    BY <2>2, <2>3 DEF OpenIn
<1>6. OpenIn(gs, K) \subseteq 1 .. n - 1
  BY <1>3 DEF OpenIn
<1>7. OpenIn(gs, K) = OpenIn(fs, K) \ {n}
  BY <1>1, <1>4, <1>5, <1>6
<1>8. Cardinality(OpenIn(fs, K) \ {n}) = IF n \in OpenIn(fs, K)
                                         THEN Cardinality(OpenIn(fs, K)) - 1
                                         ELSE Cardinality(OpenIn(fs, K))
  BY OpenFinite, FS_RemoveElement
<1>9. QED
  BY <1>2, <1>7, <1>8 DEF gs, n

-----------------------------------------------------------------------------
(* Visiting a node that nests: whatever its kind, the counters it raises   *)
(* keep the balance.                                                       *)
One(kind, K) == IF kind \in K THEN 1 ELSE 0

LEMMA BalancedPush ==
  ASSUME NEW fs \in Seq(Frame), NEW f \in Frame, ~UnwalkedIn(fs),
         NEW scopes, NEW loops, NEW switches, NEW ret,
         NEW scopes1, NEW loops1, NEW switches1, NEW ret1,
         scopes \in Nat, loops \in Nat, switches \in Nat,
         Balanced(fs, scopes, loops, switches, ret),
         f.kind \in FuncKinds => f.prev_return = ret,
         loops1 = loops + One(f.kind, LoopKinds),
         switches1 = switches + One(f.kind, SwitchKinds),
         scopes1 = scopes + One(f.kind, ScopedKinds),
         f.kind \in FuncKinds => ret1 # NoType,
         f.kind \notin FuncKinds => ret1 = ret
  PROVE  Balanced(Append(fs, f), scopes1, loops1, switches1, ret1)
<1> DEFINE gs == Append(fs, f)
           n  == Len(fs)
<1>1. /\ LoopKinds \in WalkedSets /\ SwitchKinds \in WalkedSets
      /\ FuncKinds \in WalkedSets /\ ScopedKinds \in WalkedSets
  BY DEF WalkedSets
<1>2. \A K \in WalkedSets : /\ Cardinality(OpenIn(fs, K)) \in Nat
                            /\ Cardinality(OpenIn(gs, K)) =
                                 Cardinality(OpenIn(fs, K)) + One(f.kind, K)
  BY OpenFinite, PushOpen DEF One
<1>3. n \in Nat /\ gs[n + 1] = f /\ \A i \in 1 .. n : gs[i] = fs[i]
  BY LenProperties, AppendProperties
<1>4. OpenIn(gs, FuncKinds) = IF f.kind \in FuncKinds
                              THEN OpenIn(fs, FuncKinds) \cup {n + 1}
                              ELSE OpenIn(fs, FuncKinds)
  BY <1>1, PushOpen
<1> HIDE DEF gs, n
<1>5. OpenIn(fs, FuncKinds) \subseteq 1 .. n
  BY OpenFinite DEF n
<1>6. /\ loops1 = Cardinality(OpenIn(gs, LoopKinds))
      /\ switches1 = Cardinality(OpenIn(gs, SwitchKinds))
      /\ scopes1 = 2 + Cardinality(OpenIn(gs, ScopedKinds))
  <2>1. /\ loops = Cardinality(OpenIn(fs, LoopKinds))
        /\ switches = Cardinality(OpenIn(fs, SwitchKinds))
        /\ scopes = 2 + Cardinality(OpenIn(fs, ScopedKinds))
    BY DEF Balanced
  <2>2. loops1 = Cardinality(OpenIn(gs, LoopKinds))
    BY <1>1, <1>2, <2>1
  <2>3. switches1 = Cardinality(OpenIn(gs, SwitchKinds))
    BY <1>1, <1>2, <2>1
  <2>4. /\ One(f.kind, ScopedKinds) \in Nat /\ Cardinality(OpenIn(fs, ScopedKinds)) \in Nat
        /\ Cardinality(OpenIn(gs, ScopedKinds)) =
             Cardinality(OpenIn(fs, ScopedKinds)) + One(f.kind, ScopedKinds)
    BY <1>1, <1>2 DEF One
  <2>5. scopes1 = 2 + Cardinality(OpenIn(gs, ScopedKinds))
    <3>1. PICK c \in Nat, one \in Nat, d \in Int :
            /\ c = Cardinality(OpenIn(fs, ScopedKinds)) /\ one = One(f.kind, ScopedKinds)
            /\ d = Cardinality(OpenIn(gs, ScopedKinds))
      BY <2>4
    <3>2. d = c + one /\ scopes = 2 + c /\ scopes1 = scopes + one
      BY <2>1, <2>4, <3>1
    <3>3. scopes1 = 2 + d
      BY <3>2
    <3>4. QED
      BY <3>1, <3>3
  <2>6. QED
    BY <2>2, <2>3, <2>5
<1>7. ret1 = NoType <=> OpenIn(gs, FuncKinds) = {}
  BY <1>4 DEF Balanced
<1>8. ASSUME NEW i \in OpenIn(gs, FuncKinds)
      PROVE  gs[i].prev_return = NoType <=>
               \A j \in OpenIn(gs, FuncKinds) : i <= j
  <2>1. CASE i \in OpenIn(fs, FuncKinds)
    <3>1. i \in 1 .. n /\ gs[i] = fs[i]
      BY <1>3, <1>5, <2>1
    <3>2. (\A j \in OpenIn(gs, FuncKinds) : i <= j) <=>
            \A j \in OpenIn(fs, FuncKinds) : i <= j
      BY <1>3, <1>4, <3>1
    <3>3. QED
      BY <2>1, <3>1, <3>2 DEF Balanced
  <2>2. CASE i = n + 1 /\ f.kind \in FuncKinds
    <3>1. (\A j \in OpenIn(gs, FuncKinds) : i <= j) <=> OpenIn(fs, FuncKinds) = {}
      BY <1>3, <1>4, <1>5, <2>2
    <3>2. QED
      BY <1>3, <2>2, <3>1 DEF Balanced
  <2>3. QED
    BY <1>4, <2>1, <2>2
<1>9. QED
  BY <1>6, <1>7, <1>8 DEF Balanced, gs

(* A node that is itself unwalked, or is inside one, disturbs nothing.     *)
LEMMA BalancedUnwalkedPush ==
  ASSUME NEW fs \in Seq(Frame), NEW f \in Frame, UnwalkedIn(fs),
         NEW scopes, NEW loops, NEW switches, NEW ret,
         Balanced(fs, scopes, loops, switches, ret)
  PROVE  Balanced(Append(fs, f), scopes, loops, switches, ret)
<1> DEFINE gs == Append(fs, f)
<1>1. \A K \in WalkedSets : OpenIn(gs, K) = OpenIn(fs, K)
  BY PushOpen
<1>2. \A i \in 1 .. Len(fs) : gs[i] = fs[i]
  BY AppendProperties
<1>3. OpenIn(fs, FuncKinds) \subseteq 1 .. Len(fs)
  BY OpenFinite
<1> HIDE DEF gs
<1>4. QED
  BY <1>1, <1>2, <1>3 DEF Balanced, WalkedSets, gs

(* Returning from a node: what it undoes restores the balance.             *)
LEMMA BalancedPop ==
  ASSUME NEW fs \in Seq(Frame), fs # << >>, ~UnwalkedIn(fs),
         NEW scopes, NEW loops, NEW switches, NEW ret,
         NEW scopes1, NEW loops1, NEW switches1, NEW ret1,
         scopes \in Nat, loops \in Nat, switches \in Nat,
         Balanced(fs, scopes, loops, switches, ret),
         LET f == fs[Len(fs)] IN
         /\ loops1 = loops - One(f.kind, LoopKinds)
         /\ switches1 = switches - One(f.kind, SwitchKinds)
         /\ scopes1 = scopes - One(f.kind, ScopedKinds)
         /\ ret1 = IF f.kind \in FuncKinds THEN f.prev_return ELSE ret
  PROVE  /\ Balanced(SubSeq(fs, 1, Len(fs) - 1), scopes1, loops1, switches1, ret1)
         /\ loops1 \in Nat /\ switches1 \in Nat /\ scopes1 >= 2
<1> DEFINE gs == SubSeq(fs, 1, Len(fs) - 1)
           n  == Len(fs)
           f  == fs[n]
<1>1. /\ LoopKinds \in WalkedSets /\ SwitchKinds \in WalkedSets
      /\ FuncKinds \in WalkedSets /\ ScopedKinds \in WalkedSets
  BY DEF WalkedSets
<1>2. n \in Nat \ {0} /\ DOMAIN fs = 1 .. n
  BY LenProperties, EmptySeq
<1>3. \A K \in WalkedSets : n \in OpenIn(fs, K) <=> f.kind \in K
  <2>1. \A j \in 1 .. n : fs[j].kind \notin UnwalkedKinds
    BY <1>2 DEF UnwalkedIn
  <2>2. QED
    BY <1>2, <2>1 DEF OpenIn
<1>4. /\ gs \in Seq(Frame)
      /\ \A i \in 1 .. n - 1 : gs[i] = fs[i]
      /\ OpenIn(gs, FuncKinds) = OpenIn(fs, FuncKinds) \ {n}
  BY <1>1, PopOpen
<1>5. \A K \in WalkedSets : /\ Cardinality(OpenIn(fs, K)) \in Nat
                            /\ Cardinality(OpenIn(gs, K)) =
                                 Cardinality(OpenIn(fs, K)) - One(f.kind, K)
  <2>1. ASSUME NEW K \in WalkedSets
        PROVE  /\ Cardinality(OpenIn(fs, K)) \in Nat
               /\ Cardinality(OpenIn(gs, K)) =
                    IF n \in OpenIn(fs, K)
                    THEN Cardinality(OpenIn(fs, K)) - 1
                    ELSE Cardinality(OpenIn(fs, K))
    BY PopOpen, OpenFinite
  <2> HIDE DEF gs, n, f
  <2>2. QED
    BY <1>3, <2>1 DEF One
<1>6. \A K : Cardinality(OpenIn(gs, K)) \in Nat
  BY <1>4, OpenFinite
<1>7. /\ loops1 = loops - One(f.kind, LoopKinds)
      /\ switches1 = switches - One(f.kind, SwitchKinds)
      /\ scopes1 = scopes - One(f.kind, ScopedKinds)
      /\ ret1 = IF f.kind \in FuncKinds THEN f.prev_return ELSE ret
  OBVIOUS
<1> HIDE DEF gs, n, f
<1>8. OpenIn(fs, FuncKinds) \subseteq 1 .. n
  BY OpenFinite DEF n
<1>9. /\ loops1 = Cardinality(OpenIn(gs, LoopKinds))
      /\ switches1 = Cardinality(OpenIn(gs, SwitchKinds))
      /\ scopes1 = 2 + Cardinality(OpenIn(gs, ScopedKinds))
  <2>1. /\ loops = Cardinality(OpenIn(fs, LoopKinds))
        /\ switches = Cardinality(OpenIn(fs, SwitchKinds))
        /\ scopes = 2 + Cardinality(OpenIn(fs, ScopedKinds))
    BY DEF Balanced
  <2>2. loops1 = Cardinality(OpenIn(gs, LoopKinds))
    BY <1>1, <1>5, <1>7, <2>1
  <2>3. switches1 = Cardinality(OpenIn(gs, SwitchKinds))
    BY <1>1, <1>5, <1>7, <2>1
  <2>4. /\ One(f.kind, ScopedKinds) \in Nat /\ Cardinality(OpenIn(fs, ScopedKinds)) \in Nat
        /\ Cardinality(OpenIn(gs, ScopedKinds)) =
             Cardinality(OpenIn(fs, ScopedKinds)) - One(f.kind, ScopedKinds)
    BY <1>1, <1>5, OpenFinite DEF One
  <2>5. scopes1 = 2 + Cardinality(OpenIn(gs, ScopedKinds))
    <3>1. PICK c \in Nat, one \in Nat, d \in Int :
            /\ c = Cardinality(OpenIn(fs, ScopedKinds)) /\ one = One(f.kind, ScopedKinds)
            /\ d = Cardinality(OpenIn(gs, ScopedKinds))
      BY <2>4
    <3>2. d = c - one /\ scopes = 2 + c /\ scopes1 = scopes - one
      BY <1>7, <2>1, <2>4, <3>1
    <3>3. scopes1 = 2 + d
      BY <3>2
    <3>4. QED
      BY <3>1, <3>3
  <2>6. QED
    BY <2>2, <2>3, <2>5
<1>10. ret1 = NoType <=> OpenIn(gs, FuncKinds) = {}
  <2>1. CASE f.kind \in FuncKinds
    <3>1. n \in OpenIn(fs, FuncKinds)
      BY <1>1, <1>3, <2>1
    <3>2. ret1 = NoType <=> \A j \in OpenIn(fs, FuncKinds) : n <= j
      BY <1>7, <2>1, <3>1 DEF Balanced, f
    <3>3. QED
      BY <1>2, <1>4, <1>8, <3>1, <3>2
  <2>2. CASE f.kind \notin FuncKinds
    BY <1>1, <1>3, <1>4, <1>7, <2>2 DEF Balanced
  <2>3. QED
    BY <2>1, <2>2
<1>11. ASSUME NEW i \in OpenIn(gs, FuncKinds)
       PROVE  gs[i].prev_return = NoType <=>
                \A j \in OpenIn(gs, FuncKinds) : i <= j
  <2>1. i \in OpenIn(fs, FuncKinds) /\ i \in 1 .. n - 1 /\ gs[i] = fs[i]
    BY <1>2, <1>4, <1>8
  <2>2. (\A j \in OpenIn(gs, FuncKinds) : i <= j) <=>
          \A j \in OpenIn(fs, FuncKinds) : i <= j
    BY <1>2, <1>4, <2>1
  <2>3. QED
    BY <2>1, <2>2 DEF Balanced
<1>12. Balanced(gs, scopes1, loops1, switches1, ret1)
  BY <1>9, <1>10, <1>11 DEF Balanced
<1>13. loops1 \in Nat /\ switches1 \in Nat /\ scopes1 >= 2
  BY <1>6, <1>9
<1>14. QED
  BY <1>12, <1>13 DEF gs

LEMMA BalancedUnwalkedPop ==
  ASSUME NEW fs \in Seq(Frame), fs # << >>, UnwalkedIn(fs),
         NEW scopes, NEW loops, NEW switches, NEW ret,
         Balanced(fs, scopes, loops, switches, ret)
  PROVE  Balanced(SubSeq(fs, 1, Len(fs) - 1), scopes, loops, switches, ret)
<1> DEFINE gs == SubSeq(fs, 1, Len(fs) - 1)
           n  == Len(fs)
<1>1. n \in Nat \ {0}
  BY LenProperties, EmptySeq
<1>2. ASSUME NEW K \in WalkedSets
      PROVE  OpenIn(gs, K) = OpenIn(fs, K)
  <2>1. OpenIn(gs, K) = OpenIn(fs, K) \ {n}
    BY PopOpen
  <2>2. n \notin OpenIn(fs, K)
    BY UnwalkedEnd
  <2> HIDE DEF gs, n
  <2>3. QED
    BY <2>1, <2>2
<1>3. \A i \in 1 .. n - 1 : gs[i] = fs[i]
  <2>1. LoopKinds \in WalkedSets
    BY DEF WalkedSets
  <2>2. QED
    BY <2>1, PopOpen
<1>4. OpenIn(fs, FuncKinds) \subseteq 1 .. n /\ n \notin OpenIn(fs, FuncKinds)
  BY OpenFinite, UnwalkedEnd
<1> HIDE DEF gs, n
<1>5. \A i \in OpenIn(fs, FuncKinds) : gs[i] = fs[i]
  BY <1>1, <1>3, <1>4
<1>6. QED
  BY <1>2, <1>5 DEF Balanced, WalkedSets, gs

(* A for that goes on from its clauses to its body, and a function from    *)
(* its parameters to its body, changes the kind of the last frame.         *)
LEMMA ReplaceTop ==
  ASSUME NEW fs \in Seq(Frame), fs # << >>, NEW f \in Frame
  PROVE  LET gs == [fs EXCEPT ![Len(fs)] = f] IN
         /\ gs \in Seq(Frame)
         /\ Len(gs) = Len(fs)
         /\ gs # << >>
         /\ \A i \in 1 .. Len(fs) : gs[i] = IF i = Len(fs) THEN f ELSE fs[i]
         /\ gs = Append(SubSeq(fs, 1, Len(fs) - 1), f)
<1> DEFINE n  == Len(fs)
           gs == [fs EXCEPT ![n] = f]
           front == SubSeq(fs, 1, n - 1)
<1>1. n \in Nat \ {0}
  BY LenProperties, EmptySeq
<1>2. /\ gs \in Seq(Frame)
      /\ Len(gs) = n
      /\ \A i \in 1 .. n : gs[i] = IF i = n THEN f ELSE fs[i]
  BY <1>1, ExceptSeq
<1>3. \A i \in 1 .. n - 1 : fs[i] \in Frame
  BY <1>1, ElementOfSeq
<1>4. /\ front \in Seq(Frame)
      /\ Len(front) = n - 1
      /\ \A i \in 1 .. n - 1 : front[i] = fs[i]
  <2>1. /\ front \in Seq(Frame)
        /\ Len(front) = IF 1 <= n - 1 THEN n - 1 - 1 + 1 ELSE 0
        /\ \A i \in 1 .. n - 1 - 1 + 1 : front[i] = fs[1 + i - 1]
    <3>1. 1 \in Int /\ n - 1 \in Int
      BY <1>1
    <3> HIDE DEF n
    <3>2. QED
      BY <1>3, <3>1, SubSeqProperties
  <2> HIDE DEF n, front
  <2>2. QED
    BY <1>1, <2>1
<1> HIDE DEF front
<1>5. /\ Append(front, f) \in Seq(Frame)
      /\ Len(Append(front, f)) = n
      /\ \A i \in 1 .. n - 1 : Append(front, f)[i] = fs[i]
      /\ Append(front, f)[n] = f
  BY <1>1, <1>4, AppendProperties
<1> HIDE DEF gs, n
<1>6. \A i \in 1 .. Len(gs) : gs[i] = Append(front, f)[i]
  BY <1>1, <1>2, <1>5
<1>7. gs = Append(front, f)
  BY <1>2, <1>5, <1>6, SeqEqual
<1>8. gs # << >>
  BY <1>1, <1>2, EmptySeq
<1>9. QED
  BY <1>2, <1>7, <1>8 DEF gs, n, front

LEMMA BalancedReplaceTop ==
  ASSUME NEW fs \in Seq(Frame), fs # << >>, NEW f \in Frame,
         NEW scopes \in Nat, NEW loops \in Nat, NEW switches \in Nat, NEW ret,
         NEW loops1,
         Balanced(fs, scopes, loops, switches, ret),
         LET g == fs[Len(fs)] IN
         /\ g.kind \notin UnwalkedKinds
         /\ f.prev_return = g.prev_return
         /\ f.kind \in FuncKinds <=> g.kind \in FuncKinds
         /\ f.kind \in SwitchKinds <=> g.kind \in SwitchKinds
         /\ f.kind \in ScopedKinds <=> g.kind \in ScopedKinds
         /\ g.kind \notin LoopKinds
         /\ loops1 = IF UnwalkedIn(fs) THEN loops
                                       ELSE loops + One(f.kind, LoopKinds)
  PROVE  Balanced([fs EXCEPT ![Len(fs)] = f], scopes, loops1, switches, ret)
<1> DEFINE n == Len(fs)
           g == fs[n]
           front == SubSeq(fs, 1, n - 1)
<1>1. [fs EXCEPT ![Len(fs)] = f] = Append(front, f)
  BY ReplaceTop
<1>2. n \in Nat \ {0} /\ DOMAIN fs = 1 .. n
  BY LenProperties, EmptySeq
<1>3. /\ front \in Seq(Frame)
      /\ DOMAIN front = 1 .. n - 1
      /\ \A i \in 1 .. n - 1 : front[i] = fs[i]
  <2>1. LoopKinds \in WalkedSets
    BY DEF WalkedSets
  <2>2. QED
    BY <2>1, PopOpen, LenProperties
<1>4. UnwalkedIn(front) <=> UnwalkedIn(fs)
  <2>1. fs[n].kind \notin UnwalkedKinds
    OBVIOUS
  <2> HIDE DEF front, n
  <2>2. QED
    BY <1>2, <1>3, <2>1 DEF UnwalkedIn
<1>5. CASE UnwalkedIn(fs)
  <2>1. Balanced(front, scopes, loops, switches, ret)
    BY <1>5, BalancedUnwalkedPop
  <2>2. Balanced(Append(front, f), scopes, loops, switches, ret)
    BY <1>3, <1>4, <1>5, <2>1, BalancedUnwalkedPush
  <2>3. QED
    BY <1>1, <1>5, <2>2
<1>6. CASE ~UnwalkedIn(fs)
  <2> DEFINE scopes0 == scopes - One(g.kind, ScopedKinds)
             switches0 == switches - One(g.kind, SwitchKinds)
             ret0 == IF g.kind \in FuncKinds THEN g.prev_return ELSE ret
  <2>1. loops = loops - One(g.kind, LoopKinds)
    BY DEF One
  <2>2. /\ Balanced(front, scopes0, loops, switches0, ret0)
        /\ scopes0 >= 2 /\ switches0 \in Nat
    BY <1>6, <2>1, BalancedPop
  <2>3. f.kind \in FuncKinds => ret # NoType
    <3>1. SUFFICES ASSUME f.kind \in FuncKinds
                   PROVE  OpenIn(fs, FuncKinds) # {}
      BY DEF Balanced
    <3>2. n \in OpenIn(fs, FuncKinds)
      BY <1>2, <1>6, <3>1 DEF OpenIn, UnwalkedIn
    <3>3. QED
      BY <3>2
  <2>4. /\ scopes = scopes0 + One(f.kind, ScopedKinds)
        /\ switches = switches0 + One(f.kind, SwitchKinds)
        /\ loops1 = loops + One(f.kind, LoopKinds)
        /\ scopes0 \in Nat
        /\ f.kind \in FuncKinds => f.prev_return = ret0
        /\ f.kind \notin FuncKinds => ret = ret0
    BY <1>6, <2>2 DEF One
  <2> HIDE DEF scopes0, switches0, ret0, front
  <2>5. Balanced(Append(front, f), scopes, loops1, switches, ret)
    BY <1>3, <1>4, <1>6, <2>2, <2>3, <2>4, BalancedPush
  <2>6. QED
    BY <1>1, <2>5
<1>7. QED
  BY <1>5, <1>6

-----------------------------------------------------------------------------
(***************************************************************************)
(* The scopes that the frames of a walked recursion declare in.            *)
(***************************************************************************)
Scoped(fs, i) == i = 1 \/ fs[i].kind \in ScopedKinds

(* The scopes opened by the first i frames.                                *)
Opened(fs, i) == {j \in 1 .. i : fs[j].kind \in ScopedKinds}

LEMMA OpenedFinite ==
  ASSUME NEW fs, NEW i \in Nat
  PROVE  /\ IsFiniteSet(Opened(fs, i))
         /\ Cardinality(Opened(fs, i)) \in Nat
         /\ ScopeOf(fs, i) = 2 + Cardinality(Opened(fs, i))
<1>1. IsFiniteSet(1 .. i)
  BY FS_Interval
<1>2. IsFiniteSet(Opened(fs, i))
  BY <1>1, FS_Subset DEF Opened
<1>3. QED
  BY <1>2, FS_CardinalityType DEF ScopeOf, Opened

(* The program's scope is the second; a frame that opens one is one        *)
(* further along the chain than the frame around it.                       *)
LEMMA ScopeSteps ==
  ASSUME NEW fs, fs[1].kind = "unit"
  PROVE  /\ ScopeOf(fs, 1) = 2
         /\ \A i \in Nat :
              /\ ScopeOf(fs, i) \in Nat /\ ScopeOf(fs, i) >= 2
              /\ ScopeOf(fs, i + 1) =
                   ScopeOf(fs, i) + One(fs[i + 1].kind, ScopedKinds)
<1>1. ASSUME NEW i \in Nat
      PROVE  /\ ScopeOf(fs, i) \in Nat /\ ScopeOf(fs, i) >= 2
             /\ ScopeOf(fs, i + 1) =
                  ScopeOf(fs, i) + One(fs[i + 1].kind, ScopedKinds)
  <2>1. /\ IsFiniteSet(Opened(fs, i)) /\ Cardinality(Opened(fs, i)) \in Nat
        /\ ScopeOf(fs, i) = 2 + Cardinality(Opened(fs, i))
        /\ ScopeOf(fs, i + 1) = 2 + Cardinality(Opened(fs, i + 1))
    BY OpenedFinite
  <2>2. 1 .. i + 1 = (1 .. i) \cup {i + 1} /\ i + 1 \notin 1 .. i
    OBVIOUS
  <2>3. CASE fs[i + 1].kind \in ScopedKinds
    <3>1. Opened(fs, i + 1) = Opened(fs, i) \cup {i + 1} /\ i + 1 \notin Opened(fs, i)
      BY <2>2, <2>3 DEF Opened
    <3>2. Cardinality(Opened(fs, i + 1)) = Cardinality(Opened(fs, i)) + 1
      BY <2>1, <3>1, FS_AddElement
    <3>3. QED
      BY <2>1, <2>3, <3>2 DEF One
  <2>4. CASE fs[i + 1].kind \notin ScopedKinds
    <3>1. Opened(fs, i + 1) = Opened(fs, i)
      BY <2>2, <2>4 DEF Opened
    <3>2. QED
      BY <2>1, <2>4, <3>1 DEF One
  <2>5. QED
    BY <2>1, <2>3, <2>4
<1>2. Opened(fs, 1) = {}
  BY DEF Opened, ScopedKinds, FuncKinds
<1>3. ScopeOf(fs, 1) = 2
  BY <1>2, OpenedFinite, FS_EmptySet
<1>4. QED
  BY <1>1, <1>3

(* Frames further in declare in scopes further along, and strictly so when *)
(* one between them opens a scope.                                         *)
LEMMA ScopeRises ==
  ASSUME NEW fs, NEW i \in Nat, NEW j \in Nat, i <= j
  PROVE  /\ ScopeOf(fs, i) <= ScopeOf(fs, j)
         /\ (\E k \in i + 1 .. j : fs[k].kind \in ScopedKinds)
              => ScopeOf(fs, i) < ScopeOf(fs, j)
<1>1. /\ IsFiniteSet(Opened(fs, i)) /\ IsFiniteSet(Opened(fs, j))
      /\ Cardinality(Opened(fs, i)) \in Nat /\ Cardinality(Opened(fs, j)) \in Nat
      /\ ScopeOf(fs, i) = 2 + Cardinality(Opened(fs, i))
      /\ ScopeOf(fs, j) = 2 + Cardinality(Opened(fs, j))
  BY OpenedFinite
<1>2. Opened(fs, i) \subseteq Opened(fs, j)
  BY DEF Opened
<1>3. Cardinality(Opened(fs, i)) <= Cardinality(Opened(fs, j))
  BY <1>1, <1>2, FS_Subset
<1>4. ASSUME NEW k \in i + 1 .. j, fs[k].kind \in ScopedKinds
      PROVE  Cardinality(Opened(fs, i)) < Cardinality(Opened(fs, j))
  <2>1. k \in Opened(fs, j) /\ k \notin Opened(fs, i)
    BY <1>4 DEF Opened
  <2>2. QED
    BY <1>1, <1>2, <2>1, FS_Subset
<1>5. QED
  BY <1>1, <1>3, <1>4

LEMMA ScopeByKinds ==
  ASSUME NEW fs, NEW gs, NEW i \in Nat,
         \A j \in 1 .. i : gs[j].kind \in ScopedKinds <=> fs[j].kind \in ScopedKinds
  PROVE  ScopeOf(gs, i) = ScopeOf(fs, i)
<1>1. {j \in 1 .. i : gs[j].kind \in ScopedKinds}
        = {j \in 1 .. i : fs[j].kind \in ScopedKinds}
  OBVIOUS
<1>2. QED
  BY <1>1 DEF ScopeOf

LEMMA LeastNumber ==
  ASSUME NEW T, T \subseteq Nat, T # {}
  PROVE  \E x \in T : \A y \in T : x <= y
<1> DEFINE R == OpToRel(<, Nat)
<1>1. PICK x \in T : \A y \in T : << y, x >> \notin R
  <2>1. IsWellFoundedOn(R, Nat)
    BY NatLessThanWellFounded
  <2> HIDE DEF R
  <2>2. QED
    BY <2>1, WFMin
<1>2. \A y \in T : << y, x >> \in Nat \X Nat
  OBVIOUS
<1>3. \A y \in T : ~(y < x)
  BY <1>1, <1>2 DEF OpToRel
<1>4. QED
  BY <1>3

(* Every scope of the chain but the global one is some frame's own.        *)
LEMMA ScopeReached ==
  ASSUME NEW fs, fs[1].kind = "unit", NEW n \in Nat \ {0},
         NEW d \in 2 .. ScopeOf(fs, n)
  PROVE  \E i \in 1 .. n : Scoped(fs, i) /\ ScopeOf(fs, i) = d
<1> DEFINE T == {i \in 1 .. n : ScopeOf(fs, i) >= d}
<1>1. \A i \in Nat : /\ ScopeOf(fs, i) \in Nat
                     /\ ScopeOf(fs, i + 1) =
                          ScopeOf(fs, i) + One(fs[i + 1].kind, ScopedKinds)
  BY ScopeSteps
<1>2. n \in T /\ T \subseteq Nat
  BY <1>1
<1>3. PICK x \in T : \A y \in T : x <= y
  <2> HIDE DEF T
  <2>1. QED
    BY <1>2, LeastNumber
<1>4. CASE x = 1
  BY <1>3, <1>4, ScopeSteps DEF Scoped
<1>5. CASE x # 1
  <2> DEFINE w == x - 1
  <2>1. w \in 1 .. n /\ w \in Nat /\ w + 1 = x
    BY <1>5
  <2>2. w \notin T
    BY <1>3, <2>1
  <2> HIDE DEF w
  <2>3. ScopeOf(fs, w) < d /\ ScopeOf(fs, w) \in Nat
    BY <1>1, <2>1, <2>2
  <2>4. ScopeOf(fs, x) = ScopeOf(fs, w) + One(fs[x].kind, ScopedKinds)
    BY <1>1, <2>1
  <2>5. fs[x].kind \in ScopedKinds /\ ScopeOf(fs, x) = d
    BY <1>3, <2>3, <2>4 DEF One
  <2>6. QED
    BY <2>5 DEF Scoped
<1>6. QED
  BY <1>4, <1>5

-----------------------------------------------------------------------------
(***************************************************************************)
(* The contexts a recursion and its scope chain stand for.                 *)
(***************************************************************************)
(* The scopes of a walked recursion: those of its frames, the last of      *)
(* which declares in the current one.                                      *)
WalkedChain(fs, table) ==
  /\ fs \in Seq(Frame) /\ fs # << >> /\ fs[1].kind = "unit"
  /\ ~UnwalkedIn(fs)
  /\ Len(table) = 2 + Cardinality(OpenIn(fs, ScopedKinds))

LEMMA WalkedOpen ==
  ASSUME NEW fs \in Seq(Frame), ~UnwalkedIn(fs)
  PROVE  /\ OpenIn(fs, FrameKinds) = 1 .. Len(fs)
         /\ \A K : OpenIn(fs, K) = {i \in 1 .. Len(fs) : fs[i].kind \in K}
<1>1. DOMAIN fs = 1 .. Len(fs) /\ Len(fs) \in Nat
  BY LenProperties
<1>2. \A i \in 1 .. Len(fs) : fs[i].kind \notin UnwalkedKinds
  BY <1>1 DEF UnwalkedIn
<1>3. \A i \in 1 .. Len(fs) : fs[i].kind \in FrameKinds
  <2>1. \A f \in Frame : f.kind \in FrameKinds
    BY DEF Frame
  <2>2. \A i \in 1 .. Len(fs) : fs[i] \in Frame
    BY ElementOfSeq
  <2>3. QED
    BY <2>1, <2>2
<1>4. \A i \in 1 .. Len(fs) : \A j \in 1 .. i : j \in 1 .. Len(fs)
  BY <1>1
<1>5. \A K : OpenIn(fs, K) = {i \in 1 .. Len(fs) : fs[i].kind \in K}
  BY <1>1, <1>2, <1>4 DEF OpenIn
<1>6. QED
  BY <1>3, <1>5

LEMMA ChainEnd ==
  ASSUME NEW fs, NEW table, WalkedChain(fs, table)
  PROVE  /\ Len(fs) \in Nat \ {0}
         /\ ScopeOf(fs, Len(fs)) = Len(table)
         /\ \A i \in 1 .. Len(fs) : ScopeOf(fs, i) \in 2 .. Len(table)
         /\ \A i \in 1 .. Len(fs) :
              (\A j \in i + 1 .. Len(fs) : fs[j].kind \notin ScopedKinds)
                <=> ScopeOf(fs, i) = Len(table)
         /\ \A d \in 2 .. Len(table) :
              \E i \in 1 .. Len(fs) : Scoped(fs, i) /\ ScopeOf(fs, i) = d
<1> DEFINE n == Len(fs)
<1>1. n \in Nat \ {0} /\ fs[1].kind = "unit"
  BY LenProperties, EmptySeq DEF WalkedChain
<1>2. OpenIn(fs, ScopedKinds) = Opened(fs, n)
  BY WalkedOpen DEF WalkedChain, Opened
<1>3. ScopeOf(fs, n) = Len(table)
  BY <1>1, <1>2, OpenedFinite DEF WalkedChain
<1>4. \A i \in Nat : /\ ScopeOf(fs, i) \in Nat /\ ScopeOf(fs, i) >= 2
                     /\ ScopeOf(fs, i + 1) =
                          ScopeOf(fs, i) + One(fs[i + 1].kind, ScopedKinds)
  BY <1>1, ScopeSteps
<1> HIDE DEF n
<1>5. ASSUME NEW i \in 1 .. n
      PROVE  /\ ScopeOf(fs, i) \in 2 .. Len(table)
             /\ (\A j \in i + 1 .. n : fs[j].kind \notin ScopedKinds)
                  <=> ScopeOf(fs, i) = Len(table)
  <2>1. i \in Nat /\ n \in Nat /\ i <= n
    BY <1>1
  <2>2. ScopeOf(fs, i) <= ScopeOf(fs, n)
    BY <2>1, ScopeRises
  <2>3. (\E j \in i + 1 .. n : fs[j].kind \in ScopedKinds) => ScopeOf(fs, i) < ScopeOf(fs, n)
    BY <2>1, ScopeRises
  <2>4. ASSUME \A j \in i + 1 .. n : fs[j].kind \notin ScopedKinds
        PROVE  ScopeOf(fs, i) = ScopeOf(fs, n)
    <3>1. Opened(fs, i) = Opened(fs, n)
      <4>1. \A j \in 1 .. n : j \in 1 .. i \/ j \in i + 1 .. n
        BY <2>1
      <4>2. \A j \in 1 .. i : j \in 1 .. n
        BY <2>1
      <4>3. QED
        BY <2>4, <4>1, <4>2 DEF Opened
    <3>2. QED
      BY <2>1, <3>1, OpenedFinite
  <2>5. (\A j \in i + 1 .. n : fs[j].kind \notin ScopedKinds)
          <=> ScopeOf(fs, i) = Len(table)
    <3>1. ScopeOf(fs, i) \in Nat /\ ScopeOf(fs, n) \in Nat
      BY <1>4, <2>1
    <3>2. QED
      BY <1>3, <2>3, <2>4, <3>1
  <2>6. ScopeOf(fs, i) \in 2 .. Len(table)
    BY <1>3, <1>4, <2>1, <2>2
  <2>7. QED
    BY <2>5, <2>6
<1>6. ASSUME NEW d \in 2 .. Len(table)
      PROVE  \E i \in 1 .. n : Scoped(fs, i) /\ ScopeOf(fs, i) = d
  <2>1. d \in 2 .. ScopeOf(fs, n)
    BY <1>3
  <2>2. QED
    BY <1>1, <2>1, ScopeReached
<1>7. QED
  BY <1>1, <1>3, <1>5, <1>6 DEF n

(* Frames of the same kinds and scopes of the same names give the same     *)
(* contexts.                                                               *)
LEMMA SameContexts ==
  ASSUME NEW fs \in Seq(Frame), NEW gs, NEW table, NEW tc,
         OpenIn(gs, FrameKinds) = OpenIn(fs, FrameKinds),
         \A i \in OpenIn(fs, FrameKinds) :
           /\ \A j \in 1 .. i : gs[j].kind = fs[j].kind
           /\ NamesIn(tc[ScopeOf(fs, i)]) = NamesIn(table[ScopeOf(fs, i)])
  PROVE  ContextsOf(gs, tc) = ContextsOf(fs, table)
<1>1. OpenIn(fs, FrameKinds) \subseteq 1 .. Len(fs) /\ Len(fs) \in Nat
  BY OpenFinite, LenProperties
<1>2. ASSUME NEW i \in OpenIn(fs, FrameKinds)
      PROVE  ContextOf(gs, tc, i) = ContextOf(fs, table, i)
  <2>1. i \in Nat /\ i \in 1 .. i
    BY <1>1
  <2>2. gs[i].kind = fs[i].kind
    BY <2>1
  <2>3. ScopeOf(gs, i) = ScopeOf(fs, i)
    BY <2>1, ScopeByKinds
  <2>4. QED
    BY <2>2, <2>3 DEF ContextOf
<1>3. QED
  BY <1>2 DEF ContextsOf

LEMMA SameShapeContexts ==
  ASSUME NEW fs \in Seq(Frame), NEW gs \in Seq(Frame), SameShape(fs, gs), NEW table
  PROVE  ContextsOf(gs, table) = ContextsOf(fs, table)
<1>1. OpenIn(gs, FrameKinds) = OpenIn(fs, FrameKinds)
  BY SameShapeOpen
<1>2. OpenIn(fs, FrameKinds) \subseteq 1 .. Len(fs) /\ Len(fs) \in Nat
  BY OpenFinite, LenProperties
<1>3. \A i \in OpenIn(fs, FrameKinds) : \A j \in 1 .. i : gs[j].kind = fs[j].kind
  BY <1>2 DEF SameShape
<1>4. QED
  BY <1>1, <1>3, SameContexts

(* What is pushed under an unwalked node, or is one, is in no context.     *)
LEMMA UnwalkedPushContexts ==
  ASSUME NEW fs \in Seq(Frame), NEW f \in Frame, NEW table,
         UnwalkedIn(fs) \/ f.kind \in UnwalkedKinds
  PROVE  ContextsOf(Append(fs, f), table) = ContextsOf(fs, table)
<1> DEFINE gs == Append(fs, f)
           n  == Len(fs)
<1>1. /\ n \in Nat /\ DOMAIN fs = 1 .. n
      /\ gs \in Seq(Frame) /\ DOMAIN gs = 1 .. n + 1
      /\ \A i \in 1 .. n : gs[i] = fs[i]
      /\ gs[n + 1] = f
  BY LenProperties, AppendProperties
<1> HIDE DEF gs, n
<1>2. \E j \in 1 .. n + 1 : gs[j].kind \in UnwalkedKinds
  <2>1. CASE UnwalkedIn(fs)
    <3>1. PICK j \in 1 .. n : fs[j].kind \in UnwalkedKinds
      BY <1>1, <2>1 DEF UnwalkedIn
    <3>2. j \in 1 .. n + 1 /\ gs[j].kind \in UnwalkedKinds
      BY <1>1, <3>1
    <3>3. QED
      BY <3>2
  <2>2. CASE f.kind \in UnwalkedKinds
    BY <1>1, <2>2
  <2>3. QED
    BY <2>1, <2>2
<1>3. n + 1 \notin OpenIn(gs, FrameKinds)
  BY <1>2 DEF OpenIn
<1>4. \A i \in 1 .. n : i \in OpenIn(gs, FrameKinds) <=> i \in OpenIn(fs, FrameKinds)
  <2>1. SUFFICES ASSUME NEW i \in 1 .. n
                 PROVE  i \in OpenIn(gs, FrameKinds) <=> i \in OpenIn(fs, FrameKinds)
    OBVIOUS
  <2>2. \A j \in 1 .. i : gs[j] = fs[j]
    BY <1>1
  <2>3. gs[i] = fs[i] /\ i \in DOMAIN gs /\ i \in DOMAIN fs
    BY <1>1
  <2>4. QED
    BY <2>2, <2>3 DEF OpenIn
<1>5. OpenIn(gs, FrameKinds) \subseteq 1 .. n + 1 /\ OpenIn(fs, FrameKinds) \subseteq 1 .. n
  BY <1>1 DEF OpenIn
<1>6. OpenIn(gs, FrameKinds) = OpenIn(fs, FrameKinds)
  BY <1>1, <1>3, <1>4, <1>5
<1>7. \A i \in OpenIn(fs, FrameKinds) : \A j \in 1 .. i : gs[j].kind = fs[j].kind
  BY <1>1, <1>5
<1>8. ContextsOf(gs, table) = ContextsOf(fs, table)
  BY <1>6, <1>7, SameContexts
<1>9. QED
  BY <1>8 DEF gs

LEMMA UnwalkedPush ==
  ASSUME NEW fs \in Seq(Frame), NEW f \in Frame
  PROVE  UnwalkedIn(Append(fs, f)) <=> UnwalkedIn(fs) \/ f.kind \in UnwalkedKinds
<1> DEFINE gs == Append(fs, f)
           n  == Len(fs)
<1>1. /\ n \in Nat /\ DOMAIN fs = 1 .. n /\ DOMAIN gs = 1 .. n + 1
      /\ \A i \in 1 .. n : gs[i] = fs[i]
      /\ gs[n + 1] = f
  BY LenProperties, AppendProperties
<1> HIDE DEF gs, n
<1>2. 1 .. n + 1 = (1 .. n) \cup {n + 1}
  BY <1>1
<1>3. UnwalkedIn(gs) <=> UnwalkedIn(fs) \/ f.kind \in UnwalkedKinds
  BY <1>1, <1>2 DEF UnwalkedIn
<1>4. QED
  BY <1>3 DEF gs

(* A recursion is its last frame on top of the others.                     *)
LEMMA FrontAndTop ==
  ASSUME NEW fs \in Seq(Frame), fs # << >>
  PROVE  LET front == SubSeq(fs, 1, Len(fs) - 1) IN
         /\ front \in Seq(Frame) /\ Len(front) = Len(fs) - 1
         /\ \A i \in 1 .. Len(fs) - 1 : front[i] = fs[i]
         /\ fs[Len(fs)] \in Frame
         /\ fs = Append(front, fs[Len(fs)])
<1> DEFINE n == Len(fs)
           front == SubSeq(fs, 1, n - 1)
<1>1. n \in Nat \ {0} /\ fs[n] \in Frame
  BY EmptySeq, LenProperties, ElementOfSeq
<1>2. /\ front \in Seq(Frame) /\ Len(front) = n - 1
      /\ \A i \in 1 .. n - 1 : front[i] = fs[i]
  <2>1. LoopKinds \in WalkedSets
    BY DEF WalkedSets
  <2>2. QED
    BY <2>1, PopOpen
<1>3. /\ Append(front, fs[n]) \in Seq(Frame)
      /\ Len(Append(front, fs[n])) = n
      /\ \A i \in 1 .. n - 1 : Append(front, fs[n])[i] = fs[i]
      /\ Append(front, fs[n])[n] = fs[n]
  <2> HIDE DEF front, n
  <2>1. QED
    BY <1>1, <1>2, AppendProperties
<1> HIDE DEF front, n
<1>4. \A i \in 1 .. n : Append(front, fs[n])[i] = fs[i]
  BY <1>1, <1>3
<1>5. fs = Append(front, fs[n])
  BY <1>3, <1>4, SeqEqual DEF n
<1>6. QED
  BY <1>1, <1>2, <1>5 DEF front, n

LEMMA AppendFunction ==
  ASSUME NEW n \in Nat, NEW S, NEW C \in [1 .. n -> S], NEW D \in [1 .. n + 1 -> S],
         \A i \in 1 .. n : C[i] = D[i]
  PROVE  /\ Len(C) = n /\ Len(D) = n + 1
         /\ D = Append(C, D[n + 1])
         /\ C = SubSeq(D, 1, Len(D) - 1)
<1>1. n + 1 \in Nat /\ D[n + 1] \in S
  <2>1. n + 1 \in 1 .. n + 1
    OBVIOUS
  <2>2. QED
    BY <2>1
<1>2. D \in Seq(S) /\ C \in Seq(S) /\ DOMAIN C = 1 .. n /\ DOMAIN D = 1 .. n + 1
  BY <1>1, SeqDef
<1>3. Len(C) = n /\ Len(D) = n + 1
  BY <1>2, LenProperties
<1>4. /\ Append(C, D[n + 1]) \in Seq(S)
      /\ Len(Append(C, D[n + 1])) = n + 1
      /\ \A i \in 1 .. n : Append(C, D[n + 1])[i] = C[i]
      /\ Append(C, D[n + 1])[n + 1] = D[n + 1]
  BY <1>1, <1>2, <1>3, AppendProperties
<1>5. \A i \in 1 .. n + 1 : i \in 1 .. n \/ i = n + 1
  OBVIOUS
<1>6. \A i \in 1 .. n + 1 : Append(C, D[n + 1])[i] = D[i]
  BY <1>4, <1>5
<1>7. D = Append(C, D[n + 1])
  BY <1>2, <1>3, <1>4, <1>6, SeqEqual
<1>8. /\ SubSeq(D, 1, n) \in Seq(S) /\ Len(SubSeq(D, 1, n)) = n
      /\ \A i \in 1 .. n : SubSeq(D, 1, n)[i] = D[i]
  <2>1. \A i \in 1 .. n : D[i] \in S
    <3>1. \A i \in 1 .. n : i \in 1 .. n + 1
      OBVIOUS
    <3>2. QED
      BY <3>1
  <2>2. /\ SubSeq(D, 1, n) \in Seq(S)
        /\ Len(SubSeq(D, 1, n)) = IF 1 <= n THEN n - 1 + 1 ELSE 0
        /\ \A i \in 1 .. n - 1 + 1 : SubSeq(D, 1, n)[i] = D[1 + i - 1]
    BY <2>1, 1 \in Int, n \in Int, SubSeqProperties
  <2>3. QED
    BY <2>2
<1>9. C = SubSeq(D, 1, n)
  BY <1>2, <1>3, <1>8, SeqEqual
<1>10. QED
  BY <1>3, <1>7, <1>9

LEMMA WalkedContexts ==
  ASSUME NEW fs, NEW table, WalkedChain(fs, table)
  PROVE  /\ ContextsOf(fs, table) = [i \in 1 .. Len(fs) |-> ContextOf(fs, table, i)]
         /\ DOMAIN ContextsOf(fs, table) = 1 .. Len(fs)
         /\ Len(ContextsOf(fs, table)) = Len(fs)
         /\ ContextsOf(fs, table) # << >>
<1> DEFINE n == Len(fs)
           C == ContextsOf(fs, table)
           S == {ContextOf(fs, table, i) : i \in 1 .. n}
<1>1. C = [i \in 1 .. n |-> ContextOf(fs, table, i)]
  BY WalkedOpen DEF WalkedChain, ContextsOf
<1>2. n \in Nat \ {0}
  BY ChainEnd
<1>3. C \in [1 .. n -> S]
  BY <1>1
<1> HIDE DEF n, S, C
<1>4. C \in Seq(S) /\ DOMAIN C = 1 .. n
  BY <1>2, <1>3, SeqDef
<1>5. Len(C) = n
  BY <1>2, <1>4, LenProperties
<1>6. QED
  BY <1>1, <1>2, <1>4, <1>5, EmptySeq DEF n, C

(* A walked frame at the end of a walked recursion is one more context;    *)
(* without it, the others are left.                                        *)
LEMMA OneMoreContext ==
  ASSUME NEW fs, NEW table, WalkedChain(fs, table),
         NEW f \in Frame, f.kind \notin UnwalkedKinds, NEW tc,
         \A d \in 2 .. Len(table) : NamesIn(tc[d]) = NamesIn(table[d])
  PROVE  LET all == ContextsOf(Append(fs, f), tc) IN
         /\ all = Append(ContextsOf(fs, table),
                         ContextOf(Append(fs, f), tc, Len(fs) + 1))
         /\ ContextsOf(fs, table) = SubSeq(all, 1, Len(all) - 1)
<1> DEFINE gs == Append(fs, f)
           n  == Len(fs)
           C  == ContextsOf(fs, table)
           D  == ContextsOf(gs, tc)
<1>1. /\ fs \in Seq(Frame) /\ n \in Nat \ {0} /\ DOMAIN fs = 1 .. n
      /\ fs[1].kind = "unit" /\ ~UnwalkedIn(fs)
  BY LenProperties, EmptySeq DEF WalkedChain
<1>2. /\ gs \in Seq(Frame) /\ Len(gs) = n + 1 /\ ~UnwalkedIn(gs)
      /\ \A i \in 1 .. n : gs[i] = fs[i]
      /\ gs[n + 1] = f
  BY <1>1, AppendProperties, UnwalkedPush
<1> HIDE DEF gs, n
<1>3. C = [i \in 1 .. n |-> ContextOf(fs, table, i)]
  BY WalkedContexts DEF n
<1>4. D = [i \in 1 .. n + 1 |-> ContextOf(gs, tc, i)]
  BY <1>2, WalkedOpen DEF ContextsOf
<1>5. ASSUME NEW i \in 1 .. n
      PROVE  ContextOf(gs, tc, i) = ContextOf(fs, table, i)
  <2>1. i \in Nat /\ \A j \in 1 .. i : j \in 1 .. n
    BY <1>1
  <2>2. ScopeOf(gs, i) = ScopeOf(fs, i)
    BY <1>2, <2>1, ScopeByKinds
  <2>3. ScopeOf(fs, i) \in 2 .. Len(table)
    BY ChainEnd DEF n
  <2>4. gs[i].kind = fs[i].kind
    BY <1>2
  <2>5. QED
    BY <2>2, <2>3, <2>4 DEF ContextOf
<1>6. \A i \in 1 .. n : i \in 1 .. n + 1
  BY <1>1
<1>7. /\ \A i \in 1 .. n : C[i] = D[i]
      /\ D[n + 1] = ContextOf(gs, tc, n + 1)
  <2>1. n + 1 \in 1 .. n + 1
    BY <1>1
  <2> HIDE DEF C, D
  <2>2. QED
    BY <1>3, <1>4, <1>5, <1>6, <2>1
<1>8. D = Append(C, ContextOf(gs, tc, n + 1)) /\ C = SubSeq(D, 1, Len(D) - 1)
  <2> DEFINE S == {D[i] : i \in 1 .. n + 1}
  <2> HIDE DEF C, D
  <2>1. D \in [1 .. n + 1 -> S] /\ C \in [1 .. n -> S]
    <3>1. \A i \in 1 .. n + 1 : D[i] \in S
      OBVIOUS
    <3>2. \A i \in 1 .. n : C[i] \in S
      BY <1>6, <1>7, <3>1
    <3> HIDE DEF S
    <3>3. QED
      BY <1>3, <1>4, <3>1, <3>2
  <2> HIDE DEF S
  <2>2. n \in Nat
    BY <1>1
  <2>3. D = Append(C, D[n + 1]) /\ C = SubSeq(D, 1, Len(D) - 1)
    BY <1>7, <2>1, <2>2, AppendFunction
  <2>4. QED
    BY <1>7, <2>3
<1>9. QED
  BY <1>8 DEF gs, n

(* The context of a frame of kind `kind' pushed on a chain of n scopes.    *)
NewContext(kind, n, tc) ==
  [scoped |-> kind \in ScopedKinds, role |-> RoleOf(kind),
   names  |-> IF kind \in ScopedKinds THEN NamesIn(tc[n + 1]) ELSE {}]

LEMMA PushContexts ==
  ASSUME NEW fs, NEW table, WalkedChain(fs, table),
         NEW f \in Frame, f.kind \notin UnwalkedKinds, NEW tc,
         \A d \in 2 .. Len(table) : NamesIn(tc[d]) = NamesIn(table[d])
  PROVE  ContextsOf(Append(fs, f), tc) =
           Append(ContextsOf(fs, table), NewContext(f.kind, Len(table), tc))
<1> DEFINE gs == Append(fs, f)
           n  == Len(fs)
<1>1. /\ fs \in Seq(Frame) /\ n \in Nat \ {0} /\ fs[1].kind = "unit"
  BY LenProperties, EmptySeq DEF WalkedChain
<1>2. (\A i \in 1 .. n : gs[i] = fs[i]) /\ gs[n + 1] = f
  BY <1>1, AppendProperties
<1> HIDE DEF gs, n
<1>3. ContextsOf(gs, tc) = Append(ContextsOf(fs, table), ContextOf(gs, tc, n + 1))
  BY OneMoreContext DEF gs, n
<1>4. f.kind \in ScopedKinds => ScopeOf(gs, n + 1) = Len(table) + 1
  <2>1. ScopeOf(gs, n) = Len(table)
    <3>1. ScopeOf(fs, n) = Len(table)
      BY ChainEnd DEF n
    <3>2. ScopeOf(gs, n) = ScopeOf(fs, n)
      BY <1>1, <1>2, ScopeByKinds
    <3>3. QED
      BY <3>1, <3>2
  <2>2. gs[1].kind = "unit" /\ n \in Nat
    BY <1>1, <1>2
  <2>3. ScopeOf(gs, n + 1) = ScopeOf(gs, n) + One(f.kind, ScopedKinds)
    BY <1>2, <2>2, ScopeSteps
  <2>4. QED
    BY <2>1, <2>3 DEF One
<1>5. n + 1 # 1
  BY <1>1
<1>6. ContextOf(gs, tc, n + 1) = NewContext(f.kind, Len(table), tc)
  <2>1. (n + 1 = 1 \/ gs[n + 1].kind \in ScopedKinds) = (f.kind \in ScopedKinds)
    BY <1>2, <1>5
  <2>2. gs[n + 1] = f
    BY <1>2
  <2>3. CASE f.kind \in ScopedKinds
    BY <1>4, <2>1, <2>2, <2>3 DEF ContextOf, NewContext
  <2>4. CASE f.kind \notin ScopedKinds
    BY <2>1, <2>2, <2>4 DEF ContextOf, NewContext
  <2>5. QED
    BY <2>3, <2>4
<1>7. QED
  BY <1>3, <1>6 DEF gs

LEMMA UnwalkedPopContexts ==
  ASSUME NEW fs \in Seq(Frame), fs # << >>, UnwalkedIn(fs), NEW table
  PROVE  ContextsOf(SubSeq(fs, 1, Len(fs) - 1), table) = ContextsOf(fs, table)
<1> DEFINE front == SubSeq(fs, 1, Len(fs) - 1)
           top   == fs[Len(fs)]
<1>1. front \in Seq(Frame) /\ top \in Frame /\ fs = Append(front, top)
  BY FrontAndTop
<1> HIDE DEF front, top
<1>2. UnwalkedIn(front) \/ top.kind \in UnwalkedKinds
  BY <1>1, UnwalkedPush
<1>3. ContextsOf(Append(front, top), table) = ContextsOf(front, table)
  BY <1>1, <1>2, UnwalkedPushContexts
<1>4. QED
  BY <1>1, <1>3 DEF front

(* What is left of a walked recursion and its chain when the last frame,   *)
(* and the scope it opened if any, are gone.                               *)
LEMMA PopChain ==
  ASSUME NEW fs, NEW table, WalkedChain(fs, table), fs[Len(fs)].kind # "unit", NEW tc,
         Len(tc) = Len(table) - One(fs[Len(fs)].kind, ScopedKinds)
  PROVE  WalkedChain(SubSeq(fs, 1, Len(fs) - 1), tc)
<1> DEFINE n     == Len(fs)
           front == SubSeq(fs, 1, n - 1)
           top   == fs[n]
<1>1. fs \in Seq(Frame) /\ fs # << >> /\ fs[1].kind = "unit" /\ ~UnwalkedIn(fs)
  BY DEF WalkedChain
<1>2. /\ front \in Seq(Frame) /\ top \in Frame /\ fs = Append(front, top)
      /\ Len(front) = n - 1 /\ \A i \in 1 .. n - 1 : front[i] = fs[i]
  BY <1>1, FrontAndTop
<1>3. n \in Nat \ {0} /\ n # 1
  BY <1>1, EmptySeq
<1>4. ScopedKinds \in WalkedSets
  BY DEF WalkedSets
<1>5. Cardinality(OpenIn(front, ScopedKinds)) =
        IF n \in OpenIn(fs, ScopedKinds) THEN Cardinality(OpenIn(fs, ScopedKinds)) - 1
                                         ELSE Cardinality(OpenIn(fs, ScopedKinds))
  BY <1>1, <1>4, PopOpen
<1>6. n \in OpenIn(fs, ScopedKinds) <=> top.kind \in ScopedKinds
  <2> HIDE DEF n, front
  <2>1. OpenIn(fs, ScopedKinds) = {i \in 1 .. n : fs[i].kind \in ScopedKinds}
    BY <1>1, WalkedOpen DEF n
  <2>2. QED
    BY <1>3, <2>1
<1>7. Cardinality(OpenIn(fs, ScopedKinds)) \in Nat
  BY <1>1, OpenFinite
<1>8. /\ Len(table) = 2 + Cardinality(OpenIn(fs, ScopedKinds))
      /\ Len(tc) = Len(table) - One(top.kind, ScopedKinds)
  BY DEF WalkedChain
<1> HIDE DEF n, front, top
<1>9. Len(tc) = 2 + Cardinality(OpenIn(front, ScopedKinds))
  BY <1>5, <1>6, <1>7, <1>8 DEF One
<1>10. ~UnwalkedIn(front)
  BY <1>1, <1>2, UnwalkedPush
<1>11. front # << >> /\ front[1].kind = "unit"
  BY <1>1, <1>2, <1>3, EmptySeq
<1>12. QED
  BY <1>2, <1>9, <1>10, <1>11 DEF WalkedChain, front, n

LEMMA PopContexts ==
  ASSUME NEW fs, NEW table, WalkedChain(fs, table), fs[Len(fs)].kind # "unit", NEW tc,
         Len(tc) = Len(table) - One(fs[Len(fs)].kind, ScopedKinds),
         \A d \in 2 .. Len(tc) : NamesIn(table[d]) = NamesIn(tc[d])
  PROVE  ContextsOf(SubSeq(fs, 1, Len(fs) - 1), tc) =
           SubSeq(ContextsOf(fs, table), 1, Len(ContextsOf(fs, table)) - 1)
<1> DEFINE front == SubSeq(fs, 1, Len(fs) - 1)
           top   == fs[Len(fs)]
<1>1. fs \in Seq(Frame) /\ fs # << >> /\ ~UnwalkedIn(fs)
  BY DEF WalkedChain
<1>2. front \in Seq(Frame) /\ top \in Frame /\ fs = Append(front, top)
  BY <1>1, FrontAndTop
<1>3. WalkedChain(front, tc)
  BY PopChain
<1> HIDE DEF front, top
<1>4. top.kind \notin UnwalkedKinds
  BY <1>1, <1>2, UnwalkedPush
<1>5. \A d \in 2 .. Len(tc) : NamesIn(table[d]) = NamesIn(tc[d])
  OBVIOUS
<1> DEFINE all == ContextsOf(Append(front, top), table)
<1>6. ContextsOf(front, tc) = SubSeq(all, 1, Len(all) - 1)
  BY <1>2, <1>3, <1>4, <1>5, OneMoreContext
<1>7. QED
  BY <1>2, <1>6 DEF front

(* Going on within the last frame changes what role it has, if any, in the *)
(* last context.                                                           *)
WithRole(all, role) == [all EXCEPT ![Len(all)].role = role]

LEMMA ReplaceTopContexts ==
  ASSUME NEW fs, NEW table, WalkedChain(fs, table), NEW f \in Frame,
         f.kind \notin UnwalkedKinds, fs[Len(fs)].kind # "unit",
         f.kind \in ScopedKinds <=> fs[Len(fs)].kind \in ScopedKinds
  PROVE  ContextsOf([fs EXCEPT ![Len(fs)] = f], table) =
           WithRole(ContextsOf(fs, table), RoleOf(f.kind))
<1> DEFINE n   == Len(fs)
           gs  == [fs EXCEPT ![n] = f]
           all == ContextsOf(fs, table)
<1>1. fs \in Seq(Frame) /\ fs # << >> /\ fs[1].kind = "unit" /\ ~UnwalkedIn(fs)
  BY DEF WalkedChain
<1>2. /\ gs \in Seq(Frame) /\ Len(gs) = n /\ gs # << >>
      /\ \A i \in 1 .. n : gs[i] = IF i = n THEN f ELSE fs[i]
  BY <1>1, ReplaceTop
<1>3. n \in Nat \ {0} /\ n # 1
  BY <1>1, EmptySeq
<1> HIDE DEF n, gs
<1>4. ~UnwalkedIn(gs)
  <2>1. DOMAIN fs = 1 .. n /\ DOMAIN gs = 1 .. n
    BY <1>1, <1>2, LenProperties DEF n
  <2>2. QED
    BY <1>1, <1>2, <2>1 DEF UnwalkedIn
<1>5. ContextsOf(gs, table) = [i \in 1 .. n |-> ContextOf(gs, table, i)]
  BY <1>2, <1>4, WalkedOpen DEF ContextsOf
<1>6. all = [i \in 1 .. n |-> ContextOf(fs, table, i)] /\ Len(all) = n
  BY WalkedContexts DEF n
<1>7. ASSUME NEW i \in 1 .. n
      PROVE  /\ i # n => ContextOf(gs, table, i) = ContextOf(fs, table, i)
             /\ i = n => ContextOf(gs, table, i) =
                           [ContextOf(fs, table, i) EXCEPT !.role = RoleOf(f.kind)]
  <2>1. /\ i \in Nat
        /\ \A j \in 1 .. i : gs[j].kind \in ScopedKinds <=> fs[j].kind \in ScopedKinds
    BY <1>2, <1>3 DEF n
  <2>2. ScopeOf(gs, i) = ScopeOf(fs, i)
    BY <2>1, ScopeByKinds
  <2>3. (i = 1 \/ gs[i].kind \in ScopedKinds) = (i = 1 \/ fs[i].kind \in ScopedKinds)
    BY <2>1, i \in 1 .. i
  <2>4. i # n => gs[i] = fs[i]
    BY <1>2
  <2>5. i = n => gs[i] = f
    BY <1>2
  <2>6. i # n => ContextOf(gs, table, i) = ContextOf(fs, table, i)
    BY <2>2, <2>4 DEF ContextOf
  <2>7. i = n => ContextOf(gs, table, i) =
                   [ContextOf(fs, table, i) EXCEPT !.role = RoleOf(f.kind)]
    <3> DEFINE scoped == i = 1 \/ fs[i].kind \in ScopedKinds
               names  == IF scoped THEN NamesIn(table[ScopeOf(fs, i)]) ELSE {}
    <3>1. ContextOf(fs, table, i) =
            [scoped |-> scoped, role |-> RoleOf(fs[i].kind), names |-> names]
      BY DEF ContextOf
    <3>2. i = n => ContextOf(gs, table, i) =
                     [scoped |-> scoped, role |-> RoleOf(f.kind), names |-> names]
      BY <2>2, <2>3, <2>5 DEF ContextOf
    <3> HIDE DEF scoped, names
    <3>3. QED
      BY <3>1, <3>2
  <2>8. QED
    BY <2>6, <2>7
<1> HIDE DEF all
<1>8. ContextsOf(gs, table) = [all EXCEPT ![n].role = RoleOf(f.kind)]
  BY <1>3, <1>5, <1>6, <1>7
<1>9. QED
  BY <1>6, <1>8 DEF gs, n, all, WithRole

LEMMA UnwalkedReplaceTopContexts ==
  ASSUME NEW fs \in Seq(Frame), fs # << >>, UnwalkedIn(fs), NEW f \in Frame, NEW table,
         fs[Len(fs)].kind \notin UnwalkedKinds
  PROVE  LET gs == [fs EXCEPT ![Len(fs)] = f] IN
         ContextsOf(gs, table) = ContextsOf(fs, table) /\ UnwalkedIn(gs)
<1> DEFINE front == SubSeq(fs, 1, Len(fs) - 1)
           top   == fs[Len(fs)]
           gs    == [fs EXCEPT ![Len(fs)] = f]
<1>1. /\ front \in Seq(Frame) /\ top \in Frame /\ fs = Append(front, top)
      /\ gs = Append(front, f) /\ top.kind \notin UnwalkedKinds
  BY FrontAndTop, ReplaceTop
<1> HIDE DEF front, top, gs
<1>2. UnwalkedIn(front)
  BY <1>1, UnwalkedPush
<1>3. /\ ContextsOf(Append(front, top), table) = ContextsOf(front, table)
      /\ ContextsOf(Append(front, f), table) = ContextsOf(front, table)
      /\ UnwalkedIn(Append(front, f))
  BY <1>1, <1>2, UnwalkedPush, UnwalkedPushContexts
<1>4. QED
  BY <1>1, <1>3 DEF gs

-----------------------------------------------------------------------------
(***************************************************************************)
(* The names in the scopes of a chain.                                     *)
(***************************************************************************)
LEMMA DeclaresNames ==
  \A scope, name : Declares(scope, name) <=> name \in NamesIn(scope)
BY DEF Declares, NamesIn

LEMMA ScopeNames ==
  ASSUME NEW table \in Table
  PROVE  /\ \A kind \in ScopeKinds :
              /\ \A d \in 1 .. Len(table) : scope_push(table, kind)[d] = table[d]
              /\ NamesIn(scope_push(table, kind)[Len(table) + 1]) = {}
         /\ Len(table) > 1 =>
              \A d \in 1 .. Len(table) - 1 : scope_pop(table)[d] = table[d]
<1>1. table \in Seq(Scope) /\ Len(table) \in Nat
  BY LenProperties DEF Table
<1>2. ASSUME NEW kind \in ScopeKinds
      PROVE  /\ \A d \in 1 .. Len(table) : scope_push(table, kind)[d] = table[d]
             /\ NamesIn(scope_push(table, kind)[Len(table) + 1]) = {}
  <2>1. EmptyScope(kind) \in Scope /\ EmptyScope(kind).symbols = << >>
    BY EmptySeq DEF EmptyScope, Scope
  <2>2. NamesIn(EmptyScope(kind)) = {}
    BY <2>1 DEF NamesIn
  <2>3. /\ \A d \in 1 .. Len(table) : scope_push(table, kind)[d] = table[d]
        /\ scope_push(table, kind)[Len(table) + 1] = EmptyScope(kind)
    BY <1>1, <2>1, AppendProperties DEF scope_push
  <2>4. QED
    BY <2>2, <2>3
<1>3. ASSUME Len(table) > 1
      PROVE  \A d \in 1 .. Len(table) - 1 : scope_pop(table)[d] = table[d]
  <2>1. scope_pop(table) = SubSeq(table, 1, Len(table) - 1)
    <3>1. \A l \in Nat : l > 1 => l # 1
      OBVIOUS
    <3>2. Len(table) # 1
      BY <1>1, <1>3, <3>1
    <3>3. QED
      BY <3>2 DEF scope_pop
  <2>2. \A i \in 1 .. Len(table) - 1 : table[i] \in Scope
    BY <1>1, ElementOfSeq
  <2>3. \A i \in 1 .. Len(table) - 1 - 1 + 1 :
          SubSeq(table, 1, Len(table) - 1)[i] = table[1 + i - 1]
    BY <1>1, <2>2, 1 \in Int, Len(table) - 1 \in Int, SubSeqProperties
  <2>4. QED
    BY <1>1, <2>1, <2>3
<1>4. QED
  BY <1>2, <1>3

(* A symbol added joins the names of the current scope, or is reported as  *)
(* one of them already.                                                    *)
LEMMA SymbolAddNames ==
  ASSUME NEW st, st.table \in Table, BoundedCollector(st.diag),
         NEW name \in Names, NEW kind \in SymbolKinds
  PROVE  LET new == symbol_add(st, name, kind)
             top == Len(st.table)
         IN /\ \A d \in 1 .. top - 1 : new.table[d] = st.table[d]
            /\ NamesIn(new.table[top]) = NamesIn(st.table[top]) \cup {name}
            /\ name \in NamesIn(st.table[top]) => new.diag.had_error = TRUE
            /\ name \notin NamesIn(st.table[top]) =>
                 new.diag.had_error = st.diag.had_error
<1> DEFINE table  == st.table
           top    == Len(table)
           symbol == [name |-> name, kind |-> kind]
           syms   == table[top].symbols
           new    == symbol_add(st, name, kind)
<1>1. table \in Seq(Scope) /\ top \in Nat \ {0} /\ DOMAIN table = 1 .. top
  BY EmptySeq, LenProperties DEF Table
<1>2. table[top] \in Scope /\ syms \in Seq(Symbol) /\ symbol \in Symbol
  <2>1. symbol \in Symbol
    BY DEF Symbol
  <2>2. table[top] \in Scope
    <3> HIDE DEF table, top
    <3>1. QED
      BY <1>1, ElementOfSeq
  <2>3. \A scope \in Scope : scope.symbols \in Seq(Symbol)
    BY DEF Scope
  <2>4. QED
    BY <2>1, <2>2, <2>3
<1>3. CASE Declares(table[top], name)
  <2>1. new = State(table, diag_note(diag_error(st.diag)))
    BY <1>3 DEF symbol_add, symbol_lookup_current_scope, current_scope
  <2>2. diag_note(diag_error(st.diag)).had_error = TRUE
    BY DiagErrorBounded, DiagNoteBounded
  <2>3. name \in NamesIn(table[top])
    BY <1>3, DeclaresNames
  <2>4. new.table = table /\ new.diag.had_error = TRUE
    BY <2>1, <2>2 DEF State
  <2>5. QED
    BY <2>3, <2>4
<1>4. CASE ~Declares(table[top], name)
  <2> DEFINE scope == [table[top] EXCEPT !.symbols = Append(syms, symbol)]
  <2>1. new = State([table EXCEPT ![top] = scope], st.diag)
    BY <1>1, <1>4 DEF symbol_add, symbol_lookup_current_scope, current_scope,
                      AppendSymbol
  <2>2. scope.symbols = Append(syms, symbol)
    BY <1>2 DEF Scope
  <2>3. /\ DOMAIN syms = 1 .. Len(syms) /\ Len(syms) \in Nat
        /\ DOMAIN Append(syms, symbol) = 1 .. Len(syms) + 1
        /\ \A i \in 1 .. Len(syms) : Append(syms, symbol)[i] = syms[i]
        /\ Append(syms, symbol)[Len(syms) + 1] = symbol
    <3> HIDE DEF syms, symbol
    <3>1. QED
      BY <1>2, AppendProperties, LenProperties
  <2>4. NamesIn(scope) = NamesIn(table[top]) \cup {name}
    <3>1. symbol.name = name
      OBVIOUS
    <3>2. 1 .. Len(syms) + 1 = (1 .. Len(syms)) \cup {Len(syms) + 1}
      <4>1. \A m \in Nat : 1 .. m + 1 = (1 .. m) \cup {m + 1}
        OBVIOUS
      <4>2. QED
        BY <2>3, <4>1, Zenon
    <3>3. NamesIn(table[top]) = {syms[k].name : k \in 1 .. Len(syms)}
      BY <2>3 DEF NamesIn
    <3> HIDE DEF scope, syms, symbol
    <3>4. NamesIn(scope) =
            {Append(syms, symbol)[k].name : k \in 1 .. Len(syms) + 1}
      BY <2>2, <2>3 DEF NamesIn
    <3>5. QED
      BY <2>3, <3>1, <3>2, <3>3, <3>4
  <2>5. new.table = [table EXCEPT ![top] = scope] /\ new.diag = st.diag
    BY <2>1 DEF State
  <2> HIDE DEF scope, new
  <2>6. new.table[top] = scope /\ \A d \in 1 .. top - 1 : new.table[d] = table[d]
    BY <1>1, <2>5
  <2>7. name \notin NamesIn(table[top])
    BY <1>4, DeclaresNames
  <2>8. QED
    BY <2>4, <2>5, <2>6, <2>7 DEF new
<1>5. QED
  BY <1>3, <1>4
=============================================================================
