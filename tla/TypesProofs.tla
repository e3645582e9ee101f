----------------------------- MODULE TypesProofs -----------------------------
(***************************************************************************)
(* The heap of types of semantic.c and types.c, of any size: what a pass   *)
(* over any program leaves in it.                                          *)
(***************************************************************************)
EXTENDS Types, SequenceTheorems, FiniteSetTheorems, WellFoundedInduction, TLAPS

-----------------------------------------------------------------------------
(***************************************************************************)
(* Heaps.  A type is in use unless its address is to be given out.         *)
(***************************************************************************)
Used(h) == {t \in Addresses : h[t] # Unused}

GoodType(type) ==
  /\ type \in Type /\ PartsFit(type)
  /\ \A i \in DOMAIN type.parts : type.parts[i] \in Addresses \cup {NULL}

HeapOK(h) ==
  /\ h \in [Addresses -> Type]
  /\ \A t \in Addresses : GoodType(h[t]) /\ Parts(h, t) \subseteq Used(h)

LEMMA AddressesAreNumbers == \A t \in Addresses : t \in Nat /\ t # NULL
BY BoundsAssumption DEF Addresses, NULL

(* What can be got at is the least set that holds what it is got at from   *)
(* and the parts of its own members.                                       *)
LEMMA ReachIs ==
  ASSUME NEW h, NEW R
  PROVE  /\ Reach(h, R) \subseteq Addresses
         /\ \A t \in Addresses :
              t \in Reach(h, R)
                <=> \A S \in SUBSET Addresses :
                      R \subseteq S \cup {NULL} /\ Closed(h, S) => t \in S
BY DEF Reach

LEMMA ReachLeast ==
  ASSUME NEW h, NEW R, NEW S \in SUBSET Addresses, R \subseteq S \cup {NULL}, Closed(h, S)
  PROVE  Reach(h, R) \subseteq S
BY ReachIs

LEMMA ReachHolds ==
  ASSUME NEW h, NEW R, R \subseteq Addresses \cup {NULL}
  PROVE  R \subseteq Reach(h, R) \cup {NULL}
BY ReachIs

LEMMA ReachClosed ==
  ASSUME NEW h, NEW R, HeapOK(h)
  PROVE  Closed(h, Reach(h, R))
<1>1. SUFFICES ASSUME NEW t \in Reach(h, R), NEW u \in Parts(h, t)
               PROVE  u \in Reach(h, R)
  BY DEF Closed
<1>2. t \in Addresses
  BY <1>1, ReachIs
<1>3. u \in Addresses
  BY <1>1, <1>2 DEF HeapOK, Used
<1>4. ASSUME NEW S \in SUBSET Addresses, R \subseteq S \cup {NULL}, Closed(h, S)
      PROVE  u \in S
  <2>1. t \in S
    BY <1>1, <1>2, <1>4, ReachIs
  <2>2. QED
    BY <1>1, <1>4, <2>1 DEF Closed
<1>5. QED
  BY <1>3, <1>4, ReachIs

LEMMA UsedClosed ==
  ASSUME NEW h, HeapOK(h)
  PROVE  Used(h) \in SUBSET Addresses /\ Closed(h, Used(h))
BY DEF HeapOK, Closed, Used

LEMMA ReachUsed ==
  ASSUME NEW h, HeapOK(h), NEW R, R \subseteq Used(h) \cup {NULL}
  PROVE  Reach(h, R) \subseteq Used(h)
BY UsedClosed, ReachLeast

LEMMA GoodUnused == GoodType(Unused) /\ Unused.parts = << >> /\ Unused.freed = FALSE
BY DEF GoodType, Unused, New, Type, PartsFit, Kinds

(* What a step leaves of heap h: the types that are still referred to, as  *)
(* they are.                                                               *)
LEMMA Settled ==
  ASSUME NEW h, HeapOK(h), Held' \subseteq Used(h) \cup {NULL}, Settle(h)
  PROVE  /\ HeapOK(types')
         /\ Held' \subseteq Used(types') \cup {NULL}
         /\ \A t \in Addresses : types'[t] = h[t] \/ types'[t] = Unused
         /\ \A t \in Used(types') : types'[t] = h[t]
         /\ \A t \in Held' \ {NULL} : t \in Addresses /\ types'[t] = h[t]
<1> DEFINE reached == Reach(h, Held')
<1>1. types' = [t \in Addresses |-> IF t \in reached THEN h[t] ELSE Unused]
  BY DEF Settle
<1>2. reached \subseteq Used(h) /\ Closed(h, reached) /\ Held' \subseteq reached \cup {NULL}
  <2>1. Used(h) \subseteq Addresses
    BY DEF Used
  <2>2. Held' \subseteq Addresses \cup {NULL}
    BY <2>1
  <2>3. QED
    BY <2>2, ReachUsed, ReachClosed, ReachHolds
<1> HIDE DEF reached
<1>3. h \in [Addresses -> Type] /\ \A t \in Addresses : GoodType(h[t])
  BY DEF HeapOK
<1>4. \A t \in Addresses : GoodType(types'[t]) /\ types'[t] \in Type
  BY <1>1, <1>3, GoodUnused DEF GoodType
<1>5. \A t \in reached : t \in Used(types') /\ types'[t] = h[t]
  BY <1>1, <1>2 DEF Used
<1>6. ASSUME NEW t \in Addresses
      PROVE  Parts(types', t) \subseteq Used(types')
  <2>1. CASE t \in reached
    <3>1. Parts(types', t) = Parts(h, t)
      BY <1>5, <2>1 DEF Parts
    <3>2. Parts(h, t) \subseteq reached
      BY <1>2, <2>1 DEF Closed
    <3>3. QED
      BY <1>5, <3>1, <3>2
  <2>2. CASE t \notin reached
    <3>1. types'[t].parts = << >>
      BY <1>1, <2>2, GoodUnused
    <3>2. QED
      BY <3>1 DEF Parts
  <2>3. QED
    BY <2>1, <2>2
<1>7. types' \in [Addresses -> Type]
  BY <1>1, <1>4
<1>8. QED
  BY <1>1, <1>2, <1>4, <1>5, <1>6, <1>7 DEF HeapOK, Used

(* Less can be got at in what is left of a heap.                           *)
LEMMA ReachShrinks ==
  ASSUME NEW h, HeapOK(h), NEW g, NEW R, R \subseteq Addresses \cup {NULL},
         \A t \in Addresses : g[t] = h[t] \/ g[t] = Unused
  PROVE  Reach(g, R) \subseteq Reach(h, R)
<1>1. Reach(h, R) \in SUBSET Addresses /\ R \subseteq Reach(h, R) \cup {NULL}
      /\ Closed(h, Reach(h, R))
  BY ReachIs, ReachHolds, ReachClosed
<1>2. \A t \in Addresses : Parts(g, t) \subseteq Parts(h, t)
  BY GoodUnused DEF Parts
<1>3. Closed(g, Reach(h, R))
  BY <1>1, <1>2 DEF Closed
<1>4. QED
  BY <1>1, <1>3, ReachLeast

-----------------------------------------------------------------------------
(***************************************************************************)
(* New types.                                                              *)
(***************************************************************************)
LEMMA LeastFound ==
  ASSUME NEW S, S \subseteq Addresses, S # {}
  PROVE  Least(S) \in S
<1> DEFINE R == OpToRel(<, Nat)
<1>1. S \subseteq Nat
  BY AddressesAreNumbers
<1>2. PICK x \in S : \A y \in S : << y, x >> \notin R
  <2>1. IsWellFoundedOn(R, Nat)
    BY NatLessThanWellFounded
  <2> HIDE DEF R
  <2>2. QED
    BY <1>1, <2>1, WFMin
<1>3. \A y \in S : << y, x >> \in Nat \X Nat /\ y \in Nat /\ x \in Nat
  BY <1>1
<1>4. \A y \in S : ~(y < x)
  BY <1>2, <1>3 DEF OpToRel
<1>5. ASSUME NEW y \in S
      PROVE  x <= y
  <2>1. x \in Nat /\ y \in Nat /\ ~(y < x)
    BY <1>3, <1>4
  <2>2. QED
    BY <2>1
<1>6. QED
  BY <1>5 DEF Least

LEMMA SpareFound ==
  /\ Fit(1) => Spare(1) \in Garbage
  /\ Fit(2) => Spare(1) \in Garbage /\ Spare(2) \in Garbage /\ Spare(1) # Spare(2)
<1>1. Garbage \subseteq Addresses /\ IsFiniteSet(Garbage)
  <2>1. IsFiniteSet(Addresses)
    BY BoundsAssumption, FS_Interval DEF Addresses
  <2>2. QED
    BY <2>1, FS_Subset DEF Garbage
<1>2. Cardinality(Garbage) \in Nat
  BY <1>1, FS_CardinalityType
<1>3. Fit(1) \/ Fit(2) => Garbage # {}
  <2>1. Garbage = {} => Cardinality(Garbage) = 0
    BY FS_EmptySet
  <2>2. QED
    BY <1>2, <2>1 DEF Fit
<1>4. Fit(1) \/ Fit(2) => Spare(1) \in Garbage /\ Spare(1) = Least(Garbage)
  BY <1>1, <1>3, LeastFound DEF Spare
<1>5. Fit(2) => Garbage \ {Least(Garbage)} # {}
  <2>1. SUFFICES ASSUME Fit(2), Garbage \subseteq {Least(Garbage)}
                 PROVE  FALSE
    OBVIOUS
  <2>2. Cardinality({Least(Garbage)}) = 1 /\ IsFiniteSet({Least(Garbage)})
    BY FS_Singleton
  <2>3. Cardinality(Garbage) <= 1
    BY <2>1, <2>2, FS_Subset
  <2>4. QED
    BY <1>2, <2>1, <2>3 DEF Fit
<1>6. Fit(2) => Spare(2) \in Garbage \ {Least(Garbage)}
  <2>1. Spare(2) = Least(Garbage \ {Least(Garbage)})
    BY DEF Spare
  <2>2. QED
    BY <1>1, <1>5, <2>1, LeastFound
<1>7. QED
  BY <1>4, <1>6

(* A heap with more types in it.                                           *)
Extends(h) ==
  /\ HeapOK(h) /\ Used(types) \subseteq Used(h)
  /\ \A t \in Used(types) : h[t] = types[t]

LEMMA WithOne ==
  ASSUME HeapOK(types), Fit(1), NEW type, GoodType(type), type # Unused,
         \A i \in DOMAIN type.parts : type.parts[i] \in Used(types) \cup {NULL}
  PROVE  /\ Extends(With(<< type >>))
         /\ Spare(1) \in Used(With(<< type >>)) \ Used(types)
         /\ With(<< type >>)[Spare(1)] = type
         /\ \A t \in Addresses \ {Spare(1)} : With(<< type >>)[t] = types[t]
<1> DEFINE h == [types EXCEPT ![Spare(1)] = type]
<1>1. With(<< type >>) = h
  BY DEF With
<1>2. Spare(1) \in Addresses /\ Spare(1) \notin Used(types)
  BY SpareFound DEF Garbage, Used
<1>3. types \in [Addresses -> Type] /\ type \in Type
  BY DEF HeapOK, GoodType
<1>4. h \in [Addresses -> Type] /\ h[Spare(1)] = type
      /\ \A t \in Addresses \ {Spare(1)} : h[t] = types[t]
  BY <1>2, <1>3
<1> HIDE DEF h
<1>5. Used(h) = Used(types) \cup {Spare(1)}
  BY <1>2, <1>4 DEF Used
<1>6. \A t \in Addresses : GoodType(h[t])
  BY <1>4 DEF HeapOK
<1>7. Parts(h, Spare(1)) \subseteq Used(types)
  BY <1>4 DEF Parts
<1>8. \A t \in Addresses \ {Spare(1)} : Parts(h, t) \subseteq Used(types)
  BY <1>4 DEF HeapOK, Parts
<1>9. HeapOK(h)
  BY <1>4, <1>5, <1>6, <1>7, <1>8 DEF HeapOK
<1>10. QED
  BY <1>1, <1>2, <1>4, <1>5, <1>9 DEF Extends, Used

LEMMA WithTwo ==
  ASSUME HeapOK(types), Fit(2), NEW first, NEW second, GoodType(first), GoodType(second),
         first # Unused, second # Unused,
         \A i \in DOMAIN first.parts : first.parts[i] \in Used(types) \cup {NULL},
         \A i \in DOMAIN second.parts :
           second.parts[i] \in Used(types) \cup {NULL, Spare(1)}
  PROVE  LET h == With(<< first, second >>) IN
         /\ Extends(h)
         /\ Spare(1) \in Used(h) \ Used(types) /\ Spare(2) \in Used(h) \ Used(types)
         /\ Spare(1) # Spare(2) /\ h[Spare(1)] = first /\ h[Spare(2)] = second
         /\ \A t \in Addresses \ {Spare(1), Spare(2)} : h[t] = types[t]
<1> DEFINE h == [types EXCEPT ![Spare(1)] = first, ![Spare(2)] = second]
<1>1. With(<< first, second >>) = h
  BY DEF With
<1>2. /\ Spare(1) \in Addresses /\ Spare(1) \notin Used(types)
      /\ Spare(2) \in Addresses /\ Spare(2) \notin Used(types) /\ Spare(1) # Spare(2)
  BY SpareFound DEF Garbage, Used
<1>3. types \in [Addresses -> Type] /\ first \in Type /\ second \in Type
  BY DEF HeapOK, GoodType
<1>4. h \in [Addresses -> Type] /\ h[Spare(1)] = first /\ h[Spare(2)] = second
      /\ \A t \in Addresses \ {Spare(1), Spare(2)} : h[t] = types[t]
  BY <1>2, <1>3
<1> HIDE DEF h
<1>5. Used(h) = Used(types) \cup {Spare(1), Spare(2)}
  BY <1>2, <1>4 DEF Used
<1>6. \A t \in Addresses : GoodType(h[t])
  BY <1>4 DEF HeapOK
<1>7. Parts(h, Spare(1)) \subseteq Used(h) /\ Parts(h, Spare(2)) \subseteq Used(h)
  BY <1>4, <1>5 DEF Parts
<1>8. \A t \in Addresses \ {Spare(1), Spare(2)} : Parts(h, t) \subseteq Used(types)
  BY <1>4 DEF HeapOK, Parts
<1>9. HeapOK(h)
  BY <1>4, <1>5, <1>6, <1>7, <1>8 DEF HeapOK
<1>10. QED
  BY <1>1, <1>2, <1>4, <1>5, <1>9 DEF Extends, Used

(* The types a step makes.                                                 *)
LEMMA NewTypes ==
  /\ \A kind \in {"SCALAR", "FLOATING", "AGGREGATE"} :
       GoodType(New(kind, << >>)) /\ New(kind, << >>) # Unused
  /\ \A kind \in {"POINTER", "ARRAY"} : \A t \in Addresses \cup {NULL} :
       GoodType(New(kind, << t >>)) /\ New(kind, << t >>) # Unused
  /\ \A parts \in Seq(Addresses \cup {NULL}) \ {<< >>} :
       GoodType(New("FUNCTION", parts)) /\ New("FUNCTION", parts) # Unused
<1>1. \A kind, parts : kind # "UNUSED" => New(kind, parts) # Unused
  BY DEF New, Unused
<1>2. Addresses \cup {NULL} \subseteq Nat
  BY AddressesAreNumbers DEF NULL
<1>3. ASSUME NEW kind \in {"SCALAR", "FLOATING", "AGGREGATE"}
      PROVE  GoodType(New(kind, << >>))
  BY <1>3 DEF GoodType, New, Type, Kinds, PartsFit
<1>4. ASSUME NEW kind \in {"POINTER", "ARRAY"}, NEW t \in Addresses \cup {NULL}
      PROVE  GoodType(New(kind, << t >>))
  <2>1. << t >> \in Seq(Nat) /\ Len(<< t >>) = 1
    BY <1>2
  <2>2. QED
    BY <1>4, <2>1 DEF GoodType, New, Type, Kinds, PartsFit
<1>5. ASSUME NEW parts \in Seq(Addresses \cup {NULL}), parts # << >>
      PROVE  GoodType(New("FUNCTION", parts))
  <2>1. parts \in Seq(Nat) /\ \A i \in DOMAIN parts : parts[i] \in Addresses \cup {NULL}
    BY <1>2, SeqMonotonic, LenProperties, ElementOfSeq
  <2>2. QED
    BY <1>5, <2>1 DEF GoodType, New, Type, Kinds, PartsFit
<1>6. QED
  BY <1>1, <1>3, <1>4, <1>5

-----------------------------------------------------------------------------
(***************************************************************************)
(* Tables of symbols that have a type.                                     *)
(***************************************************************************)
TypedSymbol == [name : Names, kind : SymbolKinds, type : Addresses \cup {NULL}]
TypedScope  == [kind : ScopeKinds, symbols : Seq(TypedSymbol)]
TypedTable  == Seq(TypedScope) \ {<< >>}

SymbolsOf(scope) == {scope.symbols[i] : i \in DOMAIN scope.symbols}
SymbolsIn(scopes) == UNION {SymbolsOf(scopes[d]) : d \in DOMAIN scopes}

LEMMA SymbolsAreThose == Symbols = SymbolsIn(table)
BY DEF Symbols, SymbolsIn, SymbolsOf

LEMMA TableFacts ==
  ASSUME NEW scopes \in TypedTable
  PROVE  /\ scopes \in Seq(TypedScope) /\ Len(scopes) \in Nat \ {0}
         /\ DOMAIN scopes = 1 .. Len(scopes)
         /\ \A d \in 1 .. Len(scopes) :
              /\ scopes[d] \in TypedScope /\ scopes[d].symbols \in Seq(TypedSymbol)
              /\ SymbolsOf(scopes[d]) \subseteq TypedSymbol
         /\ SymbolsIn(scopes) \subseteq TypedSymbol
<1>1. /\ scopes \in Seq(TypedScope) /\ Len(scopes) \in Nat \ {0}
      /\ DOMAIN scopes = 1 .. Len(scopes)
  BY EmptySeq, LenProperties DEF TypedTable
<1>2. ASSUME NEW d \in 1 .. Len(scopes)
      PROVE  /\ scopes[d] \in TypedScope /\ scopes[d].symbols \in Seq(TypedSymbol)
             /\ SymbolsOf(scopes[d]) \subseteq TypedSymbol
  <2>1. scopes[d] \in TypedScope
    BY <1>1, <1>2, ElementOfSeq
  <2>2. scopes[d].symbols \in Seq(TypedSymbol)
    BY <2>1 DEF TypedScope
  <2>3. \A i \in DOMAIN scopes[d].symbols : scopes[d].symbols[i] \in TypedSymbol
    BY <2>2, LenProperties, ElementOfSeq
  <2>4. QED
    BY <2>1, <2>2, <2>3 DEF SymbolsOf
<1>3. QED
  BY <1>1, <1>2 DEF SymbolsIn

(* A lookup finds a symbol of the table.                                   *)
LEMMA FoundIsSymbol ==
  ASSUME table \in TypedTable, NEW n, symbol_lookup(table, n)
  PROVE  found(n) \in Symbols
<1> DEFINE R == OpToRel(<, Nat)
           declaring == {d \in 1 .. Len(table) : Declares(table[d], n)}
           above == {Len(table) - d : d \in declaring}
<1>1. Len(table) \in Nat /\ DOMAIN table = 1 .. Len(table)
  BY TableFacts
<1>2. above \subseteq Nat /\ above # {}
  BY <1>1 DEF symbol_lookup
<1>3. PICK x \in above : \A y \in above : << y, x >> \notin R
  <2>1. IsWellFoundedOn(R, Nat)
    BY NatLessThanWellFounded
  <2> HIDE DEF R
  <2>2. QED
    BY <1>2, <2>1, WFMin
<1>4. PICK d \in declaring : x = Len(table) - d
  BY <1>3
<1>5. ASSUME NEW e \in d + 1 .. Len(table), Declares(table[e], n)
      PROVE  FALSE
  <2>1. e \in Nat /\ d \in Nat /\ d < e /\ e \in 1 .. Len(table)
    BY <1>1, <1>4, <1>5
  <2>2. Len(table) - e \in above
    BY <1>5, <2>1
  <2>3. Len(table) - e \in Nat /\ Len(table) - d \in Nat
        /\ Len(table) - e < Len(table) - d
    BY <1>1, <1>4, <2>1
  <2>4. << Len(table) - e, x >> \in R
    BY <1>4, <2>3 DEF OpToRel
  <2>5. QED
    BY <1>3, <2>2, <2>4
<1> DEFINE innermost == CHOOSE c \in DOMAIN table :
             Declares(table[c], n) /\ \A e \in c + 1 .. Len(table) : ~Declares(table[e], n)
           symbols == table[innermost].symbols
           first == CHOOSE i \in DOMAIN symbols : symbols[i].name = n
<1>6. innermost \in DOMAIN table /\ Declares(table[innermost], n)
  BY <1>1, <1>4, <1>5
<1>7. first \in DOMAIN symbols
  BY <1>6 DEF Declares
<1>8. found(n) = symbols[first]
  BY DEF found
<1> HIDE DEF first
<1>9. symbols[first] \in SymbolsOf(table[innermost])
  BY <1>7 DEF SymbolsOf
<1> HIDE DEF innermost
<1>10. found(n) \in SymbolsIn(table)
  BY <1>6, <1>8, <1>9 DEF SymbolsIn
<1>11. QED
  BY <1>10, SymbolsAreThose

LEMMA ScopePushTyped ==
  ASSUME NEW scopes \in TypedTable, NEW kind \in ScopeKinds
  PROVE  /\ scope_push(scopes, kind) \in TypedTable
         /\ SymbolsIn(scope_push(scopes, kind)) \subseteq SymbolsIn(scopes)
<1>1. scopes \in Seq(TypedScope) /\ Len(scopes) \in Nat /\ DOMAIN scopes = 1 .. Len(scopes)
  BY TableFacts
<1>2. EmptyScope(kind) \in TypedScope /\ SymbolsOf(EmptyScope(kind)) = {}
  BY EmptySeq DEF EmptyScope, TypedScope, SymbolsOf
<1>3. /\ scope_push(scopes, kind) \in TypedTable
      /\ DOMAIN scope_push(scopes, kind) = 1 .. Len(scopes) + 1
      /\ \A i \in 1 .. Len(scopes) : scope_push(scopes, kind)[i] = scopes[i]
      /\ scope_push(scopes, kind)[Len(scopes) + 1] = EmptyScope(kind)
  BY <1>1, <1>2, AppendProperties, LenProperties DEF scope_push, TypedTable
<1>4. ASSUME NEW s \in SymbolsIn(scope_push(scopes, kind))
      PROVE  s \in SymbolsIn(scopes)
  <2>1. PICK d \in 1 .. Len(scopes) + 1 : s \in SymbolsOf(scope_push(scopes, kind)[d])
    BY <1>3 DEF SymbolsIn
  <2>2. d \in 1 .. Len(scopes)
    BY <1>1, <1>2, <1>3, <2>1
  <2>3. QED
    BY <1>1, <1>3, <2>1, <2>2 DEF SymbolsIn
<1>5. QED
  BY <1>3, <1>4

LEMMA ScopePopTyped ==
  ASSUME NEW scopes \in TypedTable
  PROVE  /\ scope_pop(scopes) \in TypedTable
         /\ SymbolsIn(scope_pop(scopes)) \subseteq SymbolsIn(scopes)
<1>1. /\ scopes \in Seq(TypedScope) /\ Len(scopes) \in Nat \ {0}
      /\ DOMAIN scopes = 1 .. Len(scopes)
      /\ \A d \in 1 .. Len(scopes) : scopes[d] \in TypedScope
  BY TableFacts
<1>2. CASE Len(scopes) = 1
  BY <1>2 DEF scope_pop
<1>3. CASE Len(scopes) # 1
  <2>1. Len(scopes) - 1 \in Nat \ {0}
    BY <1>1, <1>3
  <2>2. \A d \in 1 .. Len(scopes) - 1 : scopes[d] \in TypedScope
    BY <1>1
  <2>3. /\ scope_pop(scopes) \in Seq(TypedScope)
        /\ Len(scope_pop(scopes)) = Len(scopes) - 1
        /\ \A d \in 1 .. Len(scopes) - 1 : scope_pop(scopes)[d] = scopes[d]
    <3>1. scope_pop(scopes) = SubSeq(scopes, 1, Len(scopes) - 1)
      BY <1>3 DEF scope_pop
    <3>2. 1 \in Int /\ Len(scopes) - 1 \in Int /\ 1 <= Len(scopes) - 1
          /\ Len(scopes) - 1 - 1 + 1 = Len(scopes) - 1
      BY <1>1, <2>1
    <3>3. QED
      BY <2>2, <3>1, <3>2, SubSeqProperties
  <2>4. DOMAIN scope_pop(scopes) = 1 .. Len(scopes) - 1
    BY <2>3, LenProperties
  <2>5. scope_pop(scopes) # << >>
    BY <2>1, <2>3, EmptySeq
  <2>6. \A d \in 1 .. Len(scopes) - 1 : d \in DOMAIN scopes
    BY <1>1
  <2>7. QED
    BY <2>3, <2>4, <2>5, <2>6 DEF TypedTable, SymbolsIn
<1>4. QED
  BY <1>2, <1>3

LEMMA AddTyped ==
  ASSUME NEW scopes \in TypedTable, NEW symbol \in TypedSymbol
  PROVE  /\ add(scopes, symbol) \in TypedTable
         /\ SymbolsIn(add(scopes, symbol)) \subseteq SymbolsIn(scopes) \cup {symbol}
<1> DEFINE top == Len(scopes)
           symbols == scopes[top].symbols
           scope == [scopes[top] EXCEPT !.symbols = Append(symbols, symbol)]
           new == [scopes EXCEPT ![top] = scope]
<1>1. /\ scopes \in Seq(TypedScope) /\ top \in Nat \ {0} /\ DOMAIN scopes = 1 .. top
      /\ scopes[top] \in TypedScope /\ symbols \in Seq(TypedSymbol)
  BY TableFacts
<1>2. CASE symbol_lookup_current_scope(scopes, symbol.name)
  BY <1>2 DEF add
<1>3. CASE ~symbol_lookup_current_scope(scopes, symbol.name)
  <2>1. add(scopes, symbol) = new
    BY <1>1, <1>3 DEF add, AppendSymbol
  <2>2. /\ Append(symbols, symbol) \in Seq(TypedSymbol)
        /\ DOMAIN symbols = 1 .. Len(symbols) /\ Len(symbols) \in Nat
        /\ DOMAIN Append(symbols, symbol) = 1 .. Len(symbols) + 1
        /\ \A i \in 1 .. Len(symbols) : Append(symbols, symbol)[i] = symbols[i]
        /\ Append(symbols, symbol)[Len(symbols) + 1] = symbol
    <3> HIDE DEF symbols
    <3>1. QED
      BY <1>1, AppendProperties, LenProperties
  <2>3. scope \in TypedScope /\ scope.symbols = Append(symbols, symbol)
    BY <1>1, <2>2 DEF TypedScope
  <2>4. SymbolsOf(scope) \subseteq SymbolsOf(scopes[top]) \cup {symbol}
    <3>1. ASSUME NEW s \in SymbolsOf(scope)
          PROVE  s \in SymbolsOf(scopes[top]) \cup {symbol}
      <4>1. PICK i \in 1 .. Len(symbols) + 1 : s = Append(symbols, symbol)[i]
        BY <2>2, <2>3, <3>1 DEF SymbolsOf
      <4>2. i \in 1 .. Len(symbols) \/ i = Len(symbols) + 1
        BY <2>2
      <4>3. QED
        BY <2>2, <4>1, <4>2 DEF SymbolsOf
    <3>2. QED
      BY <3>1
  <2>5. /\ new \in Seq(TypedScope) /\ Len(new) = top
        /\ \A d \in 1 .. top : new[d] = IF d = top THEN scope ELSE scopes[d]
    <3> HIDE DEF scope
    <3>1. QED
      BY <1>1, <2>3, ExceptSeq
  <2> HIDE DEF scope, new
  <2>6. DOMAIN new = 1 .. top /\ new # << >>
    BY <1>1, <2>5, LenProperties, EmptySeq
  <2>7. ASSUME NEW s \in SymbolsIn(new)
        PROVE  s \in SymbolsIn(scopes) \cup {symbol}
    <3>1. PICK d \in 1 .. top : s \in SymbolsOf(new[d])
      BY <2>6, <2>7 DEF SymbolsIn
    <3>2. s \in SymbolsOf(scopes[d]) \cup {symbol}
      BY <2>4, <2>5, <3>1
    <3>3. QED
      BY <1>1, <3>2 DEF SymbolsIn
  <2>8. QED
    BY <2>1, <2>5, <2>6, <2>7 DEF TypedTable
<1>4. QED
  BY <1>2, <1>3

-----------------------------------------------------------------------------
(***************************************************************************)
(* The inductive invariant.                                                *)
(***************************************************************************)
(* What the walk holds: below an expression lies the base of the array     *)
(* whose size it is part of, or nothing but expressions, and an annotation *)
(* always has a type.                                                      *)
OperandsFit(walk) ==
  /\ walk \in Seq(Operand) /\ Len(walk) <= MaxOperands
  /\ \A i, j \in DOMAIN walk :
       i < j /\ walk[i].of = "expression" => walk[j].of = "expression"
  /\ \A i \in DOMAIN walk : walk[i].of = "annotation" => walk[i].type # NULL

WalkOK ==
  /\ OperandsFit(operands)
  /\ table \in TypedTable
  /\ fault \in {"none", "null", "freed"} /\ sized \in BOOLEAN /\ label_read \in BOOLEAN
  /\ Held \subseteq Used(types) \cup {NULL}
  /\ \A s \in Symbols : TypeFits(s)
  /\ aggregate # NULL => Kind(aggregate) = "AGGREGATE"

(* No type of heap h has a part that is null.                              *)
Whole(h) == \A t \in Addresses : \A i \in DOMAIN h[t].parts : h[t].parts[i] # NULL

NoNull ==
  ~label_read => /\ fault # "null" /\ Whole(types)
                 /\ \A i \in DOMAIN operands : operands[i].type # NULL

(* Type t is at the head of a set of types of its own: a chain of pointers *)
(* that ends in a type without parts.                                      *)
Private(h, S, t) ==
  /\ S \subseteq Used(h) /\ t \in S
  /\ \A u \in S : h[u].kind \in {"SCALAR", "FLOATING", "POINTER"}
  /\ \A u \in S : h[u].kind = "POINTER" => h[u].parts[1] \in S \ {t}
  /\ \A u, v \in S :
       /\ h[u].kind = "POINTER" /\ h[v].kind = "POINTER"
       /\ h[u].parts[1] = h[v].parts[1]
       => u = v
Owns(h, t, lent) == \E S \in SUBSET Addresses : Private(h, S, t) /\ S \cap Reach(h, lent) = {}

Annotation(walk) == {i \in DOMAIN walk : walk[i].of = "annotation"}
LentBy(scopes, walk, class) ==
  {s.type : s \in SymbolsIn(scopes)} \cup {walk[i].type : i \in Annotation(walk)} \cup {class}
(* What declarations refer to, made or about to be made.                   *)
Lent == LentBy(table, operands, aggregate)

Intact(h) == \A t \in Addresses : ~h[t].freed

(* Until the size of an array was of a borrowed type, nothing is freed,    *)
(* and what an expression did not borrow no declaration can reach.         *)
Owned ==
  ~sized =>
    /\ fault # "freed" /\ Intact(types)
    /\ \A i \in DOMAIN operands :
         operands[i].of = "expression" /\ ~operands[i].borrowed
           => Owns(types, operands[i].type, Lent)

TypesInv == HeapOK(types) /\ WalkOK /\ NoNull /\ Owned

-----------------------------------------------------------------------------
(***************************************************************************)
(* The walk.                                                               *)
(***************************************************************************)
LEMMA WalkFacts ==
  ASSUME NEW walk, OperandsFit(walk)
  PROVE  /\ Len(walk) \in Nat /\ DOMAIN walk = 1 .. Len(walk)
         /\ \A i \in 1 .. Len(walk) :
              /\ walk[i] \in Operand /\ walk[i].of \in {"annotation", "expression"}
              /\ walk[i].borrowed \in BOOLEAN
<1>1. walk \in Seq(Operand) /\ Len(walk) \in Nat /\ DOMAIN walk = 1 .. Len(walk)
  BY LenProperties DEF OperandsFit
<1>2. \A i \in 1 .. Len(walk) : walk[i] \in Operand
  BY <1>1, ElementOfSeq
<1>3. QED
  BY <1>1, <1>2 DEF Operand

(* Giving the last n operands for the result of their node.                *)
LEMMA FrontOf ==
  ASSUME NEW S, NEW s \in Seq(S), NEW n \in Nat, n <= Len(s)
  PROVE  LET front == SubSeq(s, 1, n) IN
         /\ front \in Seq(S) /\ Len(front) = n /\ DOMAIN front = 1 .. n
         /\ \A i \in 1 .. n : front[i] = s[i]
<1>1. PICK first, last, front : /\ first = 1 /\ last = n
                                /\ front = SubSeq(s, first, last)
  OBVIOUS
<1>2. first \in Int /\ last \in Int /\ last \in Nat /\ last <= Len(s) /\ Len(s) \in Nat
  BY <1>1, LenProperties
<1>3. \A i \in first .. last : s[i] \in S
  BY <1>1, <1>2, ElementOfSeq
<1>4. /\ front \in Seq(S) /\ Len(front) = IF first <= last THEN last - first + 1 ELSE 0
      /\ \A i \in 1 .. last - first + 1 : front[i] = s[first + i - 1]
  BY <1>1, <1>2, <1>3, SubSeqProperties
<1>5. Len(front) = last
  BY <1>1, <1>2, <1>4
<1>6. ASSUME NEW i \in 1 .. last
      PROVE  front[i] = s[i]
  <2>1. i \in 1 .. last - first + 1 /\ first + i - 1 = i
    BY <1>1, <1>2
  <2>2. QED
    BY <1>4, <2>1
<1>7. DOMAIN front = 1 .. last
  BY <1>4, <1>5, LenProperties
<1>8. QED
  BY <1>1, <1>4, <1>5, <1>6, <1>7

LEMMA Replaced ==
  ASSUME OperandsFit(operands), NEW n \in 0 .. Count, Count - n < MaxOperands,
         NEW r \in Operand,
         r.of = "annotation" => /\ r.type # NULL
                                /\ \A i \in 1 .. Count - n : operands[i].of = "annotation"
  PROVE  LET new == Append(SubSeq(operands, 1, Count - n), r) IN
         /\ OperandsFit(new) /\ DOMAIN new = 1 .. Count - n + 1
         /\ \A i \in 1 .. Count - n : i \in DOMAIN operands /\ new[i] = operands[i]
         /\ new[Count - n + 1] = r
<1> DEFINE rest == SubSeq(operands, 1, Count - n)
           new == Append(rest, r)
           m == Count - n
<1>1. /\ Count \in Nat /\ DOMAIN operands = 1 .. Count /\ operands \in Seq(Operand)
      /\ \A i \in 1 .. Count : operands[i] \in Operand
  BY WalkFacts DEF OperandsFit, Count
<1>2. m \in Nat /\ m <= Count /\ \A i \in 1 .. m : i \in 1 .. Count
  BY <1>1
<1>3. rest \in Seq(Operand) /\ Len(rest) = m /\ \A i \in 1 .. m : rest[i] = operands[i]
  <2> HIDE DEF m
  <2>1. rest = SubSeq(operands, 1, m)
    BY DEF m
  <2>2. QED
    BY <1>1, <1>2, <2>1, FrontOf DEF Count
<1> HIDE DEF rest
<1>4. /\ new \in Seq(Operand) /\ Len(new) = m + 1 /\ DOMAIN new = 1 .. m + 1
      /\ \A i \in 1 .. m : new[i] = rest[i]
      /\ new[m + 1] = r
  BY <1>3, AppendProperties, LenProperties
<1>5. \A i \in 1 .. m : i \in DOMAIN operands /\ new[i] = operands[i]
  BY <1>1, <1>2, <1>3, <1>4
<1> HIDE DEF new
<1>6. Len(new) <= MaxOperands
  BY <1>2, <1>4, BoundsAssumption
<1>7. \A i \in 1 .. m + 1 : i \in 1 .. m \/ i = m + 1
  BY <1>2
<1>8. ASSUME NEW i \in DOMAIN new, NEW j \in DOMAIN new, i < j,
             new[i].of = "expression"
      PROVE  new[j].of = "expression"
  <2>1. i \in 1 .. m
    BY <1>2, <1>4, <1>8
  <2>2. operands[i].of = "expression"
    BY <1>5, <1>8, <2>1
  <2>3. CASE j \in 1 .. m
    BY <1>5, <1>8, <2>1, <2>2, <2>3 DEF OperandsFit
  <2>4. CASE j = m + 1
    BY <1>4, <2>1, <2>2, <2>4 DEF Operand
  <2>5. QED
    BY <1>4, <1>7, <2>3, <2>4
<1>9. ASSUME NEW i \in DOMAIN new, new[i].of = "annotation"
      PROVE  new[i].type # NULL
  BY <1>4, <1>5, <1>7, <1>9 DEF OperandsFit
<1>10. QED
  BY <1>4, <1>5, <1>6, <1>8, <1>9 DEF OperandsFit, new, rest

LEMMA Dropped ==
  ASSUME OperandsFit(operands), Count > 0
  PROVE  LET new == SubSeq(operands, 1, Count - 1) IN
         /\ OperandsFit(new) /\ DOMAIN new = 1 .. Count - 1
         /\ \A i \in 1 .. Count - 1 : i \in DOMAIN operands /\ new[i] = operands[i]
<1> DEFINE m == Count - 1
           new == SubSeq(operands, 1, m)
<1>1. /\ Count \in Nat /\ DOMAIN operands = 1 .. Count
      /\ \A i \in 1 .. Count : operands[i] \in Operand
  BY WalkFacts DEF OperandsFit, Count
<1>2. m \in Nat /\ m <= Count /\ \A i \in 1 .. m : i \in 1 .. Count
  BY <1>1
<1>3. new \in Seq(Operand) /\ Len(new) = m /\ DOMAIN new = 1 .. m
      /\ \A i \in 1 .. m : new[i] = operands[i]
  <2> HIDE DEF m
  <2>1. operands \in Seq(Operand)
    BY DEF OperandsFit
  <2>2. QED
    BY <1>1, <1>2, <2>1, FrontOf DEF Count
<1> HIDE DEF new
<1>4. \A i \in 1 .. m : i \in DOMAIN operands /\ new[i] = operands[i]
  BY <1>1, <1>2, <1>3
<1>5. Len(new) <= MaxOperands
  BY <1>1, <1>3, BoundsAssumption DEF OperandsFit, Count
<1>6. QED
  BY <1>3, <1>4, <1>5 DEF OperandsFit, new

(* The operand of an expression.                                           *)
LEMMA ExpressionOperand ==
  ASSUME TypesInv, NEW k \in {0, 1}, IsExpr(k)
  PROVE  /\ Count - k \in DOMAIN operands /\ Top(k) = operands[Count - k]
         /\ k < Count /\ Count - (k + 1) < MaxOperands /\ k + 1 \in 0 .. Count
         /\ Top(k).of = "expression" /\ Top(k).borrowed \in BOOLEAN
         /\ Top(k).type \in Used(types) \cup {NULL}
         /\ ~label_read => Top(k).type # NULL
         /\ ~sized /\ ~Top(k).borrowed => Owns(types, Top(k).type, Lent)
<1>1. /\ Count \in Nat /\ DOMAIN operands = 1 .. Count /\ Count <= MaxOperands
      /\ \A i \in 1 .. Count : operands[i].borrowed \in BOOLEAN
  BY WalkFacts DEF TypesInv, WalkOK, OperandsFit, Count
<1>2. Top(k) = operands[Count - k] /\ k < Count /\ Top(k).of = "expression"
  BY DEF Top, IsExpr
<1>3. /\ Count - k \in DOMAIN operands /\ Count - (k + 1) < MaxOperands
      /\ k + 1 \in 0 .. Count
  BY <1>1, <1>2, BoundsAssumption
<1>4. \A i \in DOMAIN operands : operands[i].type \in Used(types) \cup {NULL}
  BY DEF TypesInv, WalkOK, Held
<1>5. QED
  BY <1>1, <1>2, <1>3, <1>4 DEF TypesInv, NoNull, Owned

LEMMA LastOperand ==
  ASSUME TypesInv, Count > 0
  PROVE  /\ Count \in DOMAIN operands /\ Top(0) = operands[Count]
         /\ Top(0).type \in Used(types) \cup {NULL}
         /\ ~label_read => Top(0).type # NULL
<1>1. Count \in Nat /\ DOMAIN operands = 1 .. Count
  BY WalkFacts DEF TypesInv, WalkOK, Count
<1>2. Count \in DOMAIN operands /\ Count - 0 = Count
  BY <1>1
<1>3. Top(0) = operands[Count]
  BY <1>2 DEF Top
<1>4. \A i \in DOMAIN operands : operands[i].type \in Used(types) \cup {NULL}
  BY DEF TypesInv, WalkOK, Held
<1>5. QED
  BY <1>2, <1>3, <1>4 DEF TypesInv, NoNull

(* What lies below an annotation are annotations.                          *)
LEMMA BelowAnnotations ==
  ASSUME TypesInv, NEW j \in DOMAIN operands, operands[j].of = "annotation"
  PROVE  \A i \in 1 .. j : i \in DOMAIN operands /\ operands[i].of = "annotation"
<1>1. /\ Count \in Nat /\ DOMAIN operands = 1 .. Count
      /\ \A i \in 1 .. Count : operands[i].of \in {"annotation", "expression"}
  BY WalkFacts DEF TypesInv, WalkOK, Count
<1>2. ASSUME NEW i \in 1 .. j
      PROVE  i \in DOMAIN operands /\ operands[i].of = "annotation"
  <2>1. i \in DOMAIN operands /\ (i < j \/ i = j)
    BY <1>1, <1>2
  <2>2. i < j /\ operands[i].of = "expression" => operands[j].of = "expression"
    BY <2>1 DEF TypesInv, WalkOK, OperandsFit
  <2>3. QED
    BY <1>1, <2>1, <2>2
<1>3. QED
  BY <1>2

(* The type of a symbol.                                                   *)
LEMMA SymbolFacts ==
  ASSUME TypesInv, NEW s \in Symbols
  PROVE  /\ s.type \in Used(types) \cup {NULL} /\ TypeFits(s)
         /\ s \in TypedSymbol
<1>1. s.type \in Held
  BY DEF Held
<1>2. s \in TypedSymbol
  BY TableFacts, SymbolsAreThose DEF TypesInv, WalkOK
<1>3. QED
  BY <1>1, <1>2 DEF TypesInv, WalkOK

(* A part of a type.                                                       *)
LEMMA PartFacts ==
  ASSUME TypesInv, NEW t \in Used(types), NEW i \in DOMAIN types[t].parts
  PROVE  /\ types[t].parts[i] \in Used(types) \cup {NULL}
         /\ ~label_read => types[t].parts[i] # NULL
<1>1. t \in Addresses
  BY DEF Used
<1>2. types[t].parts[i] \in Parts(types, t) \cup {NULL}
  BY DEF Parts
<1>3. QED
  BY <1>1, <1>2 DEF TypesInv, HeapOK, NoNull, Whole

LEMMA BaseFacts ==
  ASSUME TypesInv, NEW t \in Used(types), Kind(t) \in {"POINTER", "ARRAY", "FUNCTION"}
  PROVE  /\ Base(t) \in Used(types) \cup {NULL}
         /\ ~label_read => Base(t) # NULL
<1>1. t \in Addresses /\ GoodType(types[t])
  BY DEF Used, TypesInv, HeapOK
<1>2. types[t].parts \in Seq(Nat)
  BY <1>1 DEF GoodType, Type
<1>3. types[t].parts # << >>
  BY <1>1, EmptySeq DEF GoodType, PartsFit, Kind
<1>4. 1 \in DOMAIN types[t].parts
  BY <1>2, <1>3, EmptySeq, LenProperties
<1>5. QED
  BY <1>4, PartFacts DEF Base

(* Of a type that is owned only pointers have a part, and what they point  *)
(* to is owned.                                                            *)
LEMMA OwnedBase ==
  ASSUME NEW t, NEW lent, Owns(types, t, lent)
  PROVE  /\ Kind(t) \in {"SCALAR", "FLOATING", "POINTER"}
         /\ Kind(t) = "POINTER" => Owns(types, Base(t), lent)
<1>1. PICK S \in SUBSET Addresses : Private(types, S, t) /\ S \cap Reach(types, lent) = {}
  BY DEF Owns
<1>2. Kind(t) \in {"SCALAR", "FLOATING", "POINTER"}
  BY <1>1 DEF Private, Kind
<1>3. ASSUME Kind(t) = "POINTER"
      PROVE  Owns(types, Base(t), lent)
  <2> DEFINE T == S \ {t}
  <2>1. Base(t) \in T /\ t \in S
    BY <1>1, <1>3 DEF Private, Kind, Base
  <2>2. ASSUME NEW u \in T, types[u].kind = "POINTER"
        PROVE  types[u].parts[1] \in T \ {Base(t)}
    <3>1. types[u].parts[1] \in T
      BY <1>1, <2>2 DEF Private
    <3>2. types[u].parts[1] # Base(t)
      BY <1>1, <1>3, <2>1, <2>2 DEF Private, Kind, Base
    <3>3. QED
      BY <3>1, <3>2
  <2>3. T \subseteq S /\ T \in SUBSET Addresses /\ T \cap Reach(types, lent) = {}
    BY <1>1
  <2> HIDE DEF T
  <2>4. Private(types, T, Base(t))
    BY <1>1, <2>1, <2>2, <2>3 DEF Private
  <2>5. QED
    BY <2>3, <2>4 DEF Owns
<1>4. QED
  BY <1>2, <1>3

-----------------------------------------------------------------------------
(***************************************************************************)
(* What is owned stays owned while the heap grows and when it settles.     *)
(***************************************************************************)
LEMMA ReachGrows ==
  ASSUME NEW h, HeapOK(h), NEW R, NEW Q, R \subseteq Q, Q \subseteq Addresses \cup {NULL}
  PROVE  Reach(h, R) \subseteq Reach(h, Q)
<1>1. /\ Reach(h, Q) \in SUBSET Addresses /\ Q \subseteq Reach(h, Q) \cup {NULL}
      /\ Closed(h, Reach(h, Q))
  BY ReachIs, ReachHolds, ReachClosed
<1>2. R \subseteq Reach(h, Q) \cup {NULL}
  BY <1>1
<1>3. QED
  BY <1>1, <1>2, ReachLeast

LEMMA ReachExtends ==
  ASSUME HeapOK(types), NEW h, Extends(h), NEW R, R \subseteq Used(types) \cup {NULL}
  PROVE  Reach(h, R) \subseteq Reach(types, R)
<1>1. R \subseteq Addresses \cup {NULL}
  BY DEF Used
<1>2. /\ Reach(types, R) \in SUBSET Addresses /\ R \subseteq Reach(types, R) \cup {NULL}
      /\ Closed(types, Reach(types, R)) /\ Reach(types, R) \subseteq Used(types)
  BY <1>1, ReachIs, ReachHolds, ReachClosed, ReachUsed
<1>3. \A t \in Reach(types, R) : Parts(h, t) = Parts(types, t)
  BY <1>2 DEF Extends, Parts
<1>4. Closed(h, Reach(types, R))
  BY <1>2, <1>3 DEF Closed
<1>5. QED
  BY <1>2, <1>4, ReachLeast

LEMMA OwnsExtends ==
  ASSUME HeapOK(types), NEW h, Extends(h), NEW lent, lent \subseteq Used(types) \cup {NULL},
         NEW t, Owns(types, t, lent)
  PROVE  Owns(h, t, lent)
<1>1. PICK S \in SUBSET Addresses : Private(types, S, t) /\ S \cap Reach(types, lent) = {}
  BY DEF Owns
<1>2. S \cap Reach(h, lent) = {}
  BY <1>1, ReachExtends
<1>3. S \subseteq Used(h) /\ \A u \in S : h[u] = types[u]
  BY <1>1 DEF Private, Extends
<1>4. Private(h, S, t)
  BY <1>1, <1>3 DEF Private
<1>5. QED
  BY <1>2, <1>4 DEF Owns

LEMMA OwnsSettled ==
  ASSUME NEW h, HeapOK(h), NEW g, HeapOK(g),
         \A u \in Addresses : g[u] = h[u] \/ g[u] = Unused,
         \A u \in Used(g) : g[u] = h[u],
         NEW lent, NEW less, less \subseteq lent, lent \subseteq Addresses \cup {NULL},
         NEW t \in Used(g), Owns(h, t, lent)
  PROVE  Owns(g, t, less)
<1>1. PICK S \in SUBSET Addresses : Private(h, S, t) /\ S \cap Reach(h, lent) = {}
  BY DEF Owns
<1> DEFINE T == S \cap Used(g)
<1>2. Reach(g, less) \subseteq Reach(h, lent)
  <2>1. less \subseteq Addresses \cup {NULL}
    OBVIOUS
  <2>2. Reach(g, less) \subseteq Reach(h, less)
    BY <2>1, ReachShrinks
  <2>3. Reach(h, less) \subseteq Reach(h, lent)
    BY ReachGrows
  <2>4. QED
    BY <2>2, <2>3
<1>3. T \in SUBSET Addresses /\ T \cap Reach(g, less) = {}
  BY <1>1, <1>2
<1>4. T \subseteq Used(g) /\ T \subseteq S /\ t \in T /\ \A u \in T : g[u] = h[u]
  BY <1>1 DEF Private
<1>5. ASSUME NEW u \in T, g[u].kind = "POINTER"
      PROVE  g[u].parts[1] \in T \ {t}
  <2>1. h[u].parts[1] \in S \ {t} /\ g[u] = h[u] /\ u \in Addresses
    BY <1>1, <1>4, <1>5 DEF Private
  <2>2. GoodType(g[u]) /\ Parts(g, u) \subseteq Used(g)
    BY <2>1 DEF HeapOK
  <2>3. 1 \in DOMAIN g[u].parts
    <3>1. g[u].parts \in Seq(Nat) /\ Len(g[u].parts) = 1
      BY <1>5, <2>2 DEF GoodType, Type, PartsFit
    <3>2. QED
      BY <3>1, LenProperties
  <2>4. g[u].parts[1] # NULL
    BY <2>1, AddressesAreNumbers
  <2>5. g[u].parts[1] \in Used(g)
    BY <2>2, <2>3, <2>4 DEF Parts
  <2>6. QED
    BY <2>1, <2>5
<1> HIDE DEF T
<1>6. Private(g, T, t)
  <2>1. \A u \in T : g[u].kind \in {"SCALAR", "FLOATING", "POINTER"}
    BY <1>1, <1>4 DEF Private
  <2>2. \A u, v \in T :
          /\ g[u].kind = "POINTER" /\ g[v].kind = "POINTER"
          /\ g[u].parts[1] = g[v].parts[1]
          => u = v
    BY <1>1, <1>4 DEF Private
  <2>3. QED
    BY <1>4, <1>5, <2>1, <2>2 DEF Private
<1>7. QED
  BY <1>3, <1>6 DEF Owns

-----------------------------------------------------------------------------
(***************************************************************************)
(* Steps.  Every action is a step of one of five forms, each of which      *)
(* leaves the invariant.                                                   *)
(***************************************************************************)
(* A heap in which the types in use are, of the same kinds.                *)
Keeps(h) ==
  /\ HeapOK(h) /\ Used(types) \subseteq Used(h)
  /\ \A t \in Used(types) : h[t].kind = types[t].kind

Fits(h, s) ==
  /\ s.type \in Used(h) \cup {NULL}
  /\ s.kind = "LABEL" <=> s.type = NULL
  /\ s.kind = "FUNCTION" => h[s.type].kind = "FUNCTION"
  /\ s.kind = "STRUCT" => h[s.type].kind = "AGGREGATE"
  /\ s.kind \in {"ENUM", "CONSTANT"} => h[s.type].kind = "SCALAR"

Faulting ==
  \E t \in Used(types) \cup {NULL} : Running /\ Fails(t) /\ (t = NULL => label_read)

Evaluating ==
  \E n \in 0 .. Count, b \in BOOLEAN : \E t, h :
    /\ Running /\ Sound /\ UNCHANGED << table, aggregate, sized >>
    /\ Count - n < MaxOperands
    /\ Replace(n, "expression", t, b) /\ Settle(h)
    /\ label_read' \in BOOLEAN /\ (label_read => label_read')
    /\ Extends(h) /\ t \in Used(h) \cup {NULL}
    /\ ~label_read' => t # NULL /\ Whole(h)
    /\ ~sized => Intact(h) /\ (~b => Owns(h, t, Lent))

Annotating ==
  \E n \in 0 .. Count : \E t, h :
    /\ Running /\ Sound /\ UNCHANGED << table, aggregate, label_read >>
    /\ Count - n < MaxOperands /\ \A i \in 1 .. Count - n : operands[i].of = "annotation"
    /\ Replace(n, "annotation", t, FALSE) /\ Settle(h)
    /\ sized' \in BOOLEAN /\ (sized => sized')
    /\ Keeps(h) /\ t \in Used(h)
    /\ ~label_read => Whole(h)
    /\ ~sized' => Intact(types')

Dropping ==
  /\ Running /\ Sound /\ UNCHANGED << table, aggregate, sized, label_read >>
  /\ IsExpr(0) /\ operands' = SubSeq(operands, 1, Count - 1) /\ Settle(types)

Declaring ==
  \E h :
    /\ Running /\ Sound /\ UNCHANGED << sized, label_read >>
    /\ operands' = << >> /\ Settle(h) /\ Keeps(h)
    /\ table' \in TypedTable
    /\ \A s \in SymbolsIn(table') : s \in Symbols \/ Fits(h, s)
    /\ \/ aggregate' \in {NULL, aggregate}
       \/ aggregate' \in Used(h) /\ h[aggregate'].kind = "AGGREGATE"
    /\ ~label_read => Whole(h)
    /\ ~sized => Intact(h)

(* The types of such a step, and what refers to them.                      *)
LEMMA StepTypes ==
  ASSUME TypesInv, NEW h, Keeps(h), Settle(h),
         OperandsFit(operands'), table' \in TypedTable,
         \A i \in DOMAIN operands' : operands'[i].type \in Used(h) \cup {NULL},
         \A s \in SymbolsIn(table') : s \in Symbols \/ Fits(h, s),
         \/ aggregate' \in {NULL, aggregate}
         \/ aggregate' \in Used(h) /\ h[aggregate'].kind = "AGGREGATE",
         fault' = fault, sized' \in BOOLEAN, label_read' \in BOOLEAN
  PROVE  /\ HeapOK(types') /\ WalkOK'
         /\ \A t \in Addresses : types'[t] = h[t] \/ types'[t] = Unused
         /\ \A t \in Used(types') : types'[t] = h[t]
<1>1. /\ HeapOK(h) /\ Used(types) \subseteq Used(h)
      /\ \A t \in Used(types) : h[t].kind = types[t].kind
  BY DEF Keeps
<1>2. ASSUME NEW s \in SymbolsIn(table')
      PROVE  Fits(h, s)
  <2>1. CASE s \in Symbols
    <3>1. s.type \in Used(types) \cup {NULL} /\ TypeFits(s) /\ s \in TypedSymbol
      BY <2>1, SymbolFacts
    <3>2. CASE s.type = NULL
      BY <3>1, <3>2 DEF TypeFits, Fits
    <3>3. CASE s.type \in Used(types)
      BY <1>1, <3>1, <3>3 DEF TypeFits, Fits, Kind
    <3>4. QED
      BY <3>1, <3>2, <3>3
  <2>2. QED
    BY <1>2, <2>1
<1>3. aggregate' # NULL => aggregate' \in Used(h) /\ h[aggregate'].kind = "AGGREGATE"
  <2>1. aggregate # NULL => aggregate \in Used(types) /\ types[aggregate].kind = "AGGREGATE"
    BY DEF TypesInv, WalkOK, Held, Kind
  <2>2. QED
    BY <1>1, <2>1
<1>4. Symbols' = SymbolsIn(table')
  BY DEF Symbols, SymbolsIn, SymbolsOf
<1>5. Held' = {s.type : s \in SymbolsIn(table')}
              \cup {operands'[i].type : i \in DOMAIN operands'} \cup {aggregate'}
  BY <1>4 DEF Held
<1>6. Held' \subseteq Used(h) \cup {NULL}
  BY <1>2, <1>3, <1>5 DEF Fits
<1>7. /\ HeapOK(types')
      /\ Held' \subseteq Used(types') \cup {NULL}
      /\ \A t \in Addresses : types'[t] = h[t] \/ types'[t] = Unused
      /\ \A t \in Used(types') : types'[t] = h[t]
      /\ \A t \in Held' \ {NULL} : t \in Addresses /\ types'[t] = h[t]
  BY <1>1, <1>6, Settled
<1>8. ASSUME NEW s \in Symbols'
      PROVE  TypeFits(s)'
  <2>1. Fits(h, s) /\ s.type \in Held'
    BY <1>2, <1>4, <1>5
  <2>2. s.type # NULL => types'[s.type] = h[s.type]
    BY <1>7, <2>1
  <2>3. QED
    BY <2>1, <2>2 DEF Fits, TypeFits, Kind
<1>9. aggregate' # NULL => Kind(aggregate)'= "AGGREGATE"
  BY <1>3, <1>5, <1>7 DEF Kind
<1>10. fault' \in {"none", "null", "freed"}
  BY DEF TypesInv, WalkOK
<1>11. WalkOK'
  BY <1>7, <1>8, <1>9, <1>10 DEF WalkOK
<1>12. QED
  BY <1>7, <1>11

(* A heap without null parts stays without them when it settles, as one    *)
(* without freed types does.                                               *)
LEMMA SettledWhole ==
  ASSUME NEW h, NEW g, \A t \in Addresses : g[t] = h[t] \/ g[t] = Unused
  PROVE  /\ Whole(h) => Whole(g)
         /\ Intact(h) => Intact(g)
BY GoodUnused DEF Whole, Intact

LEMMA FaultingPreserves ==
  ASSUME TypesInv, Faulting
  PROVE  TypesInv'
<1>1. PICK t \in Used(types) \cup {NULL} : Fails(t) /\ (t = NULL => label_read)
  BY DEF Faulting
<1>2. /\ types' = types /\ table' = table /\ operands' = operands /\ aggregate' = aggregate
      /\ sized' = sized /\ label_read' = label_read
      /\ fault' = Reading(t) /\ Reading(t) # "none"
  BY <1>1 DEF Fails, heap
<1>3. fault' \in {"null", "freed"} /\ (fault' = "null" => label_read)
  BY <1>1, <1>2 DEF Reading
<1>4. fault' = "freed" => sized
  <2>1. SUFFICES ASSUME fault' = "freed", ~sized
                 PROVE  FALSE
    BY DEF TypesInv, WalkOK
  <2>2. t # NULL /\ types[t].freed
    BY <1>2, <2>1 DEF Reading
  <2>3. t \in Addresses
    BY <2>2 DEF Used
  <2>4. QED
    BY <2>1, <2>2, <2>3 DEF TypesInv, Owned, Intact
<1>5. HeapOK(types')
  BY <1>2 DEF TypesInv
<1>6. WalkOK'
  BY <1>2, <1>3
     DEF TypesInv, WalkOK, OperandsFit, Held, Used, Symbols, TypeFits, Kind
<1>7. NoNull'
  BY <1>2, <1>3 DEF TypesInv, NoNull, Whole
<1>8. Owned'
  <2>1. Lent' = Lent
    BY <1>2 DEF Lent
  <2>2. SUFFICES ASSUME ~sized'
                 PROVE  /\ fault' # "freed" /\ Intact(types')
                        /\ \A i \in DOMAIN operands' :
                             operands'[i].of = "expression" /\ ~operands'[i].borrowed
                               => Owns(types', operands'[i].type, Lent')
    BY DEF Owned
  <2>3. QED
    BY <1>2, <1>4, <2>1, <2>2 DEF TypesInv, Owned
<1>9. QED
  BY <1>5, <1>6, <1>7, <1>8 DEF TypesInv

LEMMA LentAre ==
  ASSUME TypesInv
  PROVE  Lent \subseteq Used(types) \cup {NULL} /\ Lent \subseteq Addresses \cup {NULL}
<1>1. Lent \subseteq Held
  BY SymbolsAreThose DEF Lent, LentBy, Annotation, Held
<1>2. QED
  BY <1>1 DEF TypesInv, WalkOK, Used

LEMMA EvaluatingPreserves ==
  ASSUME TypesInv, Evaluating
  PROVE  TypesInv'
<1>1. PICK n \in 0 .. Count, b \in BOOLEAN : \E t, h :
    /\ Running /\ Sound /\ UNCHANGED << table, aggregate, sized >>
    /\ Count - n < MaxOperands
    /\ Replace(n, "expression", t, b) /\ Settle(h)
    /\ label_read' \in BOOLEAN /\ (label_read => label_read')
    /\ Extends(h) /\ t \in Used(h) \cup {NULL}
    /\ ~label_read' => t # NULL /\ Whole(h)
    /\ ~sized => Intact(h) /\ (~b => Owns(h, t, Lent))
  BY DEF Evaluating
<1>2. PICK t, h :
    /\ Running /\ Sound /\ UNCHANGED << table, aggregate, sized >>
    /\ Count - n < MaxOperands
    /\ Replace(n, "expression", t, b) /\ Settle(h)
    /\ label_read' \in BOOLEAN /\ (label_read => label_read')
    /\ Extends(h) /\ t \in Used(h) \cup {NULL}
    /\ ~label_read' => t # NULL /\ Whole(h)
    /\ ~sized => Intact(h) /\ (~b => Owns(h, t, Lent))
  BY <1>1
<1> DEFINE r == [of |-> "expression", type |-> t, borrowed |-> b]
           m == Count - n
<1>3. Used(h) \subseteq Addresses /\ Addresses \cup {NULL} \subseteq Nat
  BY AddressesAreNumbers DEF Used, NULL
<1>4. r \in Operand /\ r.of = "expression" /\ r.type = t /\ r.borrowed = b
  BY <1>2, <1>3 DEF Operand
<1>5. OperandsFit(operands) /\ table \in TypedTable
  BY DEF TypesInv, WalkOK
<1>6. operands' = Append(SubSeq(operands, 1, Count - n), r)
  BY <1>2 DEF Replace
<1> HIDE DEF r
<1>7. /\ OperandsFit(operands') /\ DOMAIN operands' = 1 .. m + 1
      /\ \A i \in 1 .. m : i \in DOMAIN operands /\ operands'[i] = operands[i]
      /\ operands'[m + 1] = r
  <2>1. r.of = "annotation" => FALSE
    BY <1>4
  <2>2. n \in 0 .. Count /\ Count - n < MaxOperands
    BY <1>2
  <2>3. QED
    BY <1>4, <1>5, <1>6, <2>1, <2>2, Replaced
<1>8. m \in Nat /\ \A i \in 1 .. m + 1 : i \in 1 .. m \/ i = m + 1
  BY <1>5, WalkFacts DEF Count
<1> HIDE DEF m
<1>9. ASSUME NEW i \in DOMAIN operands'
      PROVE  \/ i \in DOMAIN operands /\ operands'[i] = operands[i]
             \/ operands'[i] = r
  BY <1>7, <1>8
<1>10. \A i \in DOMAIN operands : operands[i].type \in Used(types) \cup {NULL}
  BY DEF TypesInv, WalkOK, Held
<1>11. \A i \in DOMAIN operands' : operands'[i].type \in Used(h) \cup {NULL}
  BY <1>2, <1>4, <1>9, <1>10 DEF Extends
<1>12. /\ table' = table /\ aggregate' = aggregate /\ sized' = sized /\ fault' = fault
       /\ fault = "none" /\ sized \in BOOLEAN
  BY <1>2 DEF Sound, Running, TypesInv, WalkOK
<1>13. Keeps(h)
  BY <1>2 DEF Extends, Keeps
<1>14. /\ HeapOK(types') /\ WalkOK'
       /\ \A u \in Addresses : types'[u] = h[u] \/ types'[u] = Unused
       /\ \A u \in Used(types') : types'[u] = h[u]
  <2>1. \A s \in SymbolsIn(table') : s \in Symbols
    BY <1>12, SymbolsAreThose
  <2>2. QED
    BY <1>2, <1>5, <1>7, <1>11, <1>12, <1>13, <2>1, StepTypes
<1>15. NoNull'
  <2>1. SUFFICES ASSUME ~label_read'
                 PROVE  /\ fault' # "null" /\ Whole(types')
                        /\ \A i \in DOMAIN operands' : operands'[i].type # NULL
    BY DEF NoNull
  <2>2. \A i \in DOMAIN operands : operands[i].type # NULL
    BY <1>2, <2>1 DEF TypesInv, NoNull
  <2>3. QED
    BY <1>2, <1>4, <1>9, <1>12, <1>14, <2>1, <2>2, SettledWhole
<1>16. Owned'
  <2>1. SUFFICES ASSUME ~sized'
                 PROVE  /\ fault' # "freed" /\ Intact(types')
                        /\ \A i \in DOMAIN operands' :
                             operands'[i].of = "expression" /\ ~operands'[i].borrowed
                               => Owns(types', operands'[i].type, Lent')
    BY DEF Owned
  <2>2. fault' # "freed" /\ Intact(types')
    BY <1>2, <1>12, <1>14, <2>1, SettledWhole
  <2>3. Lent' \subseteq Lent
    <3>1. ASSUME NEW i \in Annotation(operands')
          PROVE  i \in Annotation(operands) /\ operands'[i] = operands[i]
      BY <1>4, <1>9, <3>1 DEF Annotation
    <3>2. Lent' = LentBy(table, operands', aggregate)
      BY <1>12 DEF Lent
    <3>3. QED
      BY <3>1, <3>2 DEF Lent, LentBy
  <2>4. Lent \subseteq Used(types) \cup {NULL} /\ Lent \subseteq Addresses \cup {NULL}
    BY LentAre
  <2>5. ASSUME NEW i \in DOMAIN operands',
               operands'[i].of = "expression", ~operands'[i].borrowed
        PROVE  Owns(types', operands'[i].type, Lent')
    <3>1. Owns(h, operands'[i].type, Lent)
      <4>1. CASE i \in DOMAIN operands /\ operands'[i] = operands[i]
        <5>1. Owns(types, operands'[i].type, Lent)
          BY <1>12, <2>1, <2>5, <4>1 DEF TypesInv, Owned
        <5>2. HeapOK(types)
          BY DEF TypesInv
        <5>3. QED
          BY <1>2, <2>4, <5>1, <5>2, OwnsExtends
      <4>2. CASE operands'[i] = r
        BY <1>2, <1>4, <1>12, <2>1, <2>5, <4>2
      <4>3. QED
        BY <1>9, <2>5, <4>1, <4>2
    <3>2. operands'[i].type \in Used(types')
      <4>1. operands'[i].type \in Used(types') \cup {NULL}
        BY <1>14, <2>5 DEF WalkOK, Held
      <4>2. operands'[i].type \in Addresses
        BY <3>1 DEF Owns, Private
      <4>3. QED
        BY <4>1, <4>2, AddressesAreNumbers
    <3>3. HeapOK(h)
      BY <1>13 DEF Keeps
    <3>4. QED
      BY <1>14, <2>3, <2>4, <3>1, <3>2, <3>3, OwnsSettled
  <2>6. QED
    BY <2>2, <2>5
<1>17. QED
  BY <1>14, <1>15, <1>16 DEF TypesInv

LEMMA AnnotatingPreserves ==
  ASSUME TypesInv, Annotating
  PROVE  TypesInv'
<1>1. PICK n \in 0 .. Count : \E t, h :
    /\ Running /\ Sound /\ UNCHANGED << table, aggregate, label_read >>
    /\ Count - n < MaxOperands /\ \A i \in 1 .. Count - n : operands[i].of = "annotation"
    /\ Replace(n, "annotation", t, FALSE) /\ Settle(h)
    /\ sized' \in BOOLEAN /\ (sized => sized')
    /\ Keeps(h) /\ t \in Used(h)
    /\ ~label_read => Whole(h)
    /\ ~sized' => Intact(types')
  BY DEF Annotating
<1>2. PICK t, h :
    /\ Running /\ Sound /\ UNCHANGED << table, aggregate, label_read >>
    /\ Count - n < MaxOperands /\ \A i \in 1 .. Count - n : operands[i].of = "annotation"
    /\ Replace(n, "annotation", t, FALSE) /\ Settle(h)
    /\ sized' \in BOOLEAN /\ (sized => sized')
    /\ Keeps(h) /\ t \in Used(h)
    /\ ~label_read => Whole(h)
    /\ ~sized' => Intact(types')
  BY <1>1
<1> DEFINE r == [of |-> "annotation", type |-> t, borrowed |-> FALSE]
           m == Count - n
<1>3. Used(h) \subseteq Addresses /\ t \in Nat /\ t # NULL
  BY <1>2, AddressesAreNumbers DEF Used
<1>4. r \in Operand /\ r.of = "annotation" /\ r.type = t
  BY <1>3 DEF Operand
<1>5. OperandsFit(operands) /\ table \in TypedTable
  BY DEF TypesInv, WalkOK
<1>6. operands' = Append(SubSeq(operands, 1, Count - n), r)
  BY <1>2 DEF Replace
<1> HIDE DEF r
<1>7. /\ OperandsFit(operands') /\ DOMAIN operands' = 1 .. m + 1
      /\ \A i \in 1 .. m : i \in DOMAIN operands /\ operands'[i] = operands[i]
      /\ operands'[m + 1] = r
  BY <1>1, <1>2, <1>3, <1>4, <1>5, <1>6, Replaced
<1>8. m \in Nat /\ \A i \in 1 .. m + 1 : i \in 1 .. m \/ i = m + 1
  BY <1>5, WalkFacts DEF Count
<1>9. ASSUME NEW i \in DOMAIN operands'
      PROVE  /\ operands'[i].of = "annotation"
             /\ \/ i \in DOMAIN operands /\ operands'[i] = operands[i]
                \/ operands'[i] = r
  BY <1>2, <1>4, <1>7, <1>8
<1> HIDE DEF m
<1>10. \A i \in DOMAIN operands : operands[i].type \in Used(types) \cup {NULL}
  BY DEF TypesInv, WalkOK, Held
<1>11. \A i \in DOMAIN operands' : operands'[i].type \in Used(h) \cup {NULL}
  BY <1>2, <1>4, <1>9, <1>10 DEF Keeps
<1>12. /\ table' = table /\ aggregate' = aggregate /\ label_read' = label_read
       /\ fault' = fault /\ fault = "none" /\ label_read \in BOOLEAN
  BY <1>2 DEF Sound, Running, TypesInv, WalkOK
<1>13. /\ HeapOK(types') /\ WalkOK'
       /\ \A u \in Addresses : types'[u] = h[u] \/ types'[u] = Unused
  <2>1. \A s \in SymbolsIn(table') : s \in Symbols
    BY <1>12, SymbolsAreThose
  <2>2. QED
    BY <1>2, <1>5, <1>7, <1>11, <1>12, <2>1, StepTypes
<1>14. NoNull'
  <2>1. SUFFICES ASSUME ~label_read'
                 PROVE  /\ fault' # "null" /\ Whole(types')
                        /\ \A i \in DOMAIN operands' : operands'[i].type # NULL
    BY DEF NoNull
  <2>2. \A i \in DOMAIN operands : operands[i].type # NULL
    BY <1>12, <2>1 DEF TypesInv, NoNull
  <2>3. QED
    BY <1>2, <1>3, <1>4, <1>9, <1>12, <1>13, <2>1, <2>2, SettledWhole
<1>15. Owned'
  <2>1. SUFFICES ASSUME ~sized'
                 PROVE  /\ fault' # "freed" /\ Intact(types')
                        /\ \A i \in DOMAIN operands' :
                             operands'[i].of = "expression" /\ ~operands'[i].borrowed
                               => Owns(types', operands'[i].type, Lent')
    BY DEF Owned
  <2>2. QED
    BY <1>2, <1>9, <1>12, <2>1
<1>16. QED
  BY <1>13, <1>14, <1>15 DEF TypesInv

LEMMA DroppingPreserves ==
  ASSUME TypesInv, Dropping
  PROVE  TypesInv'
<1>1. /\ table' = table /\ aggregate' = aggregate /\ sized' = sized
      /\ label_read' = label_read /\ fault' = fault /\ fault = "none"
      /\ sized \in BOOLEAN /\ label_read \in BOOLEAN /\ table \in TypedTable
      /\ operands' = SubSeq(operands, 1, Count - 1) /\ Settle(types) /\ HeapOK(types)
  BY DEF Dropping, Sound, Running, TypesInv, WalkOK
<1>2. OperandsFit(operands) /\ 0 < Count /\ Count \in Nat
  BY WalkFacts DEF TypesInv, WalkOK, Dropping, IsExpr, Count
<1>3. /\ OperandsFit(operands')
      /\ \A i \in DOMAIN operands' : i \in DOMAIN operands /\ operands'[i] = operands[i]
  BY <1>1, <1>2, Dropped
<1>4. \A i \in DOMAIN operands : operands[i].type \in Used(types) \cup {NULL}
  BY DEF TypesInv, WalkOK, Held
<1>5. \A i \in DOMAIN operands' : operands'[i].type \in Used(types) \cup {NULL}
  BY <1>3, <1>4
<1>6. /\ HeapOK(types') /\ WalkOK'
      /\ \A u \in Addresses : types'[u] = types[u] \/ types'[u] = Unused
      /\ \A u \in Used(types') : types'[u] = types[u]
  <2>1. \A s \in SymbolsIn(table') : s \in Symbols
    BY <1>1, SymbolsAreThose
  <2>2. Keeps(types)
    BY <1>1 DEF Keeps
  <2>3. QED
    BY <1>1, <1>3, <1>5, <2>1, <2>2, StepTypes
<1>7. NoNull'
  <2>1. SUFFICES ASSUME ~label_read'
                 PROVE  /\ fault' # "null" /\ Whole(types')
                        /\ \A i \in DOMAIN operands' : operands'[i].type # NULL
    BY DEF NoNull
  <2>2. Whole(types) /\ \A i \in DOMAIN operands : operands[i].type # NULL
    BY <1>1, <2>1 DEF TypesInv, NoNull
  <2>3. QED
    BY <1>1, <1>3, <1>6, <2>2, SettledWhole
<1>8. Owned'
  <2>1. SUFFICES ASSUME ~sized'
                 PROVE  /\ fault' # "freed" /\ Intact(types')
                        /\ \A i \in DOMAIN operands' :
                             operands'[i].of = "expression" /\ ~operands'[i].borrowed
                               => Owns(types', operands'[i].type, Lent')
    BY DEF Owned
  <2>2. Intact(types) /\ \A i \in DOMAIN operands :
          operands[i].of = "expression" /\ ~operands[i].borrowed
            => Owns(types, operands[i].type, Lent)
    BY <1>1, <2>1 DEF TypesInv, Owned
  <2>3. Lent' \subseteq Lent
    <3>1. Annotation(operands') \subseteq Annotation(operands)
      BY <1>3 DEF Annotation
    <3>2. Lent' = LentBy(table, operands', aggregate)
      BY <1>1 DEF Lent
    <3>3. \A i \in Annotation(operands') : operands'[i] = operands[i]
      BY <1>3 DEF Annotation
    <3>4. QED
      BY <3>1, <3>2, <3>3 DEF Lent, LentBy
  <2>4. Lent \subseteq Addresses \cup {NULL}
    BY LentAre
  <2>5. ASSUME NEW i \in DOMAIN operands',
               operands'[i].of = "expression", ~operands'[i].borrowed
        PROVE  Owns(types', operands'[i].type, Lent')
    <3>1. Owns(types, operands'[i].type, Lent)
      BY <1>3, <2>2, <2>5
    <3>2. operands'[i].type \in Used(types')
      <4>1. operands'[i].type \in Used(types') \cup {NULL}
        BY <1>6, <2>5 DEF WalkOK, Held
      <4>2. operands'[i].type \in Addresses
        BY <3>1 DEF Owns, Private
      <4>3. QED
        BY <4>1, <4>2, AddressesAreNumbers
    <3>3. /\ HeapOK(types) /\ HeapOK(types')
          /\ \A u \in Addresses : types'[u] = types[u] \/ types'[u] = Unused
          /\ \A u \in Used(types') : types'[u] = types[u]
      BY <1>1, <1>6
    <3>4. QED
      BY <2>3, <2>4, <3>1, <3>2, <3>3, OwnsSettled
  <2>6. QED
    BY <1>1, <1>6, <2>2, <2>5, SettledWhole
<1>9. QED
  BY <1>6, <1>7, <1>8 DEF TypesInv

LEMMA DeclaringPreserves ==
  ASSUME TypesInv, Declaring
  PROVE  TypesInv'
<1>1. PICK h :
    /\ Running /\ Sound /\ UNCHANGED << sized, label_read >>
    /\ operands' = << >> /\ Settle(h) /\ Keeps(h)
    /\ table' \in TypedTable
    /\ \A s \in SymbolsIn(table') : s \in Symbols \/ Fits(h, s)
    /\ \/ aggregate' \in {NULL, aggregate}
       \/ aggregate' \in Used(h) /\ h[aggregate'].kind = "AGGREGATE"
    /\ ~label_read => Whole(h)
    /\ ~sized => Intact(h)
  BY DEF Declaring
<1>2. /\ sized' = sized /\ label_read' = label_read /\ fault' = fault /\ fault = "none"
      /\ sized \in BOOLEAN /\ label_read \in BOOLEAN
  BY <1>1 DEF Sound, Running, TypesInv, WalkOK
<1>3. DOMAIN operands' = {} /\ OperandsFit(operands')
  <2>1. operands' = << >> /\ DOMAIN << >> = {}
    BY <1>1
  <2>2. 0 <= MaxOperands
    BY BoundsAssumption
  <2>3. QED
    BY <2>1, <2>2, EmptySeq DEF OperandsFit
<1>4. /\ HeapOK(types') /\ WalkOK'
      /\ \A u \in Addresses : types'[u] = h[u] \/ types'[u] = Unused
  BY <1>1, <1>2, <1>3, StepTypes
<1>5. NoNull'
  <2>1. SUFFICES ASSUME ~label_read'
                 PROVE  /\ fault' # "null" /\ Whole(types')
                        /\ \A i \in DOMAIN operands' : operands'[i].type # NULL
    BY DEF NoNull
  <2>2. QED
    BY <1>1, <1>2, <1>3, <1>4, <2>1, SettledWhole
<1>6. Owned'
  <2>1. SUFFICES ASSUME ~sized'
                 PROVE  /\ fault' # "freed" /\ Intact(types')
                        /\ \A i \in DOMAIN operands' :
                             operands'[i].of = "expression" /\ ~operands'[i].borrowed
                               => Owns(types', operands'[i].type, Lent')
    BY DEF Owned
  <2>2. QED
    BY <1>1, <1>2, <1>3, <1>4, <2>1, SettledWhole
<1>7. QED
  BY <1>4, <1>5, <1>6 DEF TypesInv

-----------------------------------------------------------------------------
(***************************************************************************)
(* Results of expressions.                                                 *)
(***************************************************************************)
LEMMA SameEvaluates ==
  ASSUME TypesInv, Visit, Sound, sized' = sized,
         NEW n \in 0 .. Count, Count - n < MaxOperands, NEW t, NEW b \in BOOLEAN,
         Same(n, t, b), t \in Used(types) \cup {NULL},
         label_read' \in BOOLEAN, label_read => label_read', ~label_read' => t # NULL,
         ~sized /\ ~b => Owns(types, t, Lent)
  PROVE  Evaluating
<1>1. Running /\ UNCHANGED << table, aggregate, sized >>
  BY DEF Visit
<1>2. Replace(n, "expression", t, b) /\ Settle(types)
  BY DEF Same, Return
<1>3. HeapOK(types) /\ (~label_read => Whole(types)) /\ (~sized => Intact(types))
  BY DEF TypesInv, NoNull, Owned
<1>4. Extends(types)
  BY <1>3 DEF Extends
<1>5. QED
  BY <1>1, <1>2, <1>3, <1>4 DEF Evaluating

(* The result is a new type, which no declaration can reach.               *)
LEMMA NewEvaluates ==
  ASSUME TypesInv, Visit, Sound, UNCHANGED << sized, label_read >>,
         NEW n \in 0 .. Count, Count - n < MaxOperands, NEW new, NEW b \in BOOLEAN,
         Create(n, "expression", new, b),
         Extends(With(new)), Spare(Len(new)) \in Used(With(new)) \ Used(types),
         ~label_read => Whole(With(new)),
         ~sized => Intact(With(new)) /\ (~b => Owns(With(new), Spare(Len(new)), Lent))
  PROVE  Evaluating
<1>1. Running /\ UNCHANGED << table, aggregate, sized >>
  BY DEF Visit
<1>2. Replace(n, "expression", Spare(Len(new)), b) /\ Settle(With(new))
  BY DEF Create
<1>3. label_read' \in BOOLEAN /\ label_read' = label_read
  BY DEF TypesInv, WalkOK
<1>4. Spare(Len(new)) # NULL
  BY AddressesAreNumbers DEF Used
<1>5. QED
  BY <1>1, <1>2, <1>3, <1>4 DEF Evaluating

LEMMA LentReach ==
  ASSUME TypesInv, NEW h, Extends(h)
  PROVE  Reach(h, Lent) \subseteq Used(types)
<1>1. Lent \subseteq Used(types) \cup {NULL} /\ HeapOK(types)
  BY LentAre DEF TypesInv
<1>2. Reach(h, Lent) \subseteq Reach(types, Lent)
  BY <1>1, ReachExtends
<1>3. QED
  BY <1>1, <1>2, ReachUsed

LEMMA FreshEvaluates ==
  ASSUME TypesInv, Visit, Sound, UNCHANGED << sized, label_read >>,
         NEW n \in 0 .. Count, Count - n < MaxOperands,
         NEW kind \in {"SCALAR", "FLOATING"}, Fresh(n, << New(kind, << >>) >>)
  PROVE  Evaluating
<1> DEFINE type == New(kind, << >>)
           new == << type >>
           h == With(new)
<1>1. Create(n, "expression", new, FALSE) /\ Fit(1) /\ Len(new) = 1
  BY DEF Fresh, Create
<1>2. GoodType(type) /\ type # Unused /\ type.parts = << >> /\ type.kind = kind
      /\ type.freed = FALSE
  BY NewTypes DEF New
<1>3. /\ HeapOK(types) /\ (~label_read => Whole(types)) /\ (~sized => Intact(types))
      /\ sized \in BOOLEAN /\ label_read \in BOOLEAN
  BY DEF TypesInv, NoNull, Owned, WalkOK
<1>4. /\ Extends(h) /\ Spare(1) \in Used(h) \ Used(types) /\ h[Spare(1)] = type
      /\ \A t \in Addresses \ {Spare(1)} : h[t] = types[t]
  BY <1>1, <1>2, <1>3, WithOne
<1>5. Reach(h, Lent) \subseteq Used(types)
  BY <1>4, LentReach
<1> HIDE DEF type, h
<1>6. Whole(types) => Whole(h)
  BY <1>2, <1>4 DEF Whole
<1>7. Intact(types) => Intact(h)
  BY <1>2, <1>4 DEF Intact
<1>8. Owns(h, Spare(1), Lent)
  <2>1. Private(h, {Spare(1)}, Spare(1))
    BY <1>2, <1>4 DEF Private
  <2>2. {Spare(1)} \in SUBSET Addresses /\ {Spare(1)} \cap Reach(h, Lent) = {}
    BY <1>4, <1>5 DEF Used
  <2>3. QED
    BY <2>1, <2>2 DEF Owns
<1>9. /\ Extends(With(new)) /\ Spare(Len(new)) \in Used(With(new)) \ Used(types)
      /\ ~label_read => Whole(With(new))
      /\ ~sized => Intact(With(new)) /\ Owns(With(new), Spare(Len(new)), Lent)
  BY <1>1, <1>3, <1>4, <1>6, <1>7, <1>8 DEF h
<1> HIDE DEF new
<1>10. QED
  BY <1>1, <1>9, NewEvaluates

LEMMA AppendPair ==
  ASSUME NEW a, NEW b
  PROVE  Append(<< a >>, b) = << a, b >>
<1> DEFINE S == {a, b}
<1>1. << a >> \in Seq(S) /\ << a, b >> \in Seq(S) /\ b \in S
      /\ Len(<< a >>) = 1 /\ Len(<< a, b >>) = 2
  OBVIOUS
<1> HIDE DEF S
<1>2. /\ Append(<< a >>, b) \in Seq(S) /\ Len(Append(<< a >>, b)) = 2
      /\ Append(<< a >>, b)[1] = a /\ Append(<< a >>, b)[2] = b
  BY <1>1, AppendProperties
<1>3. \A i \in 1 .. 2 : Append(<< a >>, b)[i] = << a, b >>[i]
  BY <1>2
<1>4. QED
  BY <1>1, <1>2, <1>3, SeqEqual

LEMMA FreshPointerEvaluates ==
  ASSUME TypesInv, Visit, Sound, UNCHANGED << sized, label_read >>,
         NEW n \in 0 .. Count, Count - n < MaxOperands, Fit(2),
         Fresh(n, Append(Scalar, New("POINTER", << Spare(1) >>)))
  PROVE  Evaluating
<1> DEFINE first == New("SCALAR", << >>)
           second == New("POINTER", << Spare(1) >>)
           new == << first, second >>
           h == With(new)
<1>1. Append(Scalar, second) = new /\ Len(new) = 2
  <2>1. Scalar = << first >>
    BY DEF Scalar
  <2> HIDE DEF first, second
  <2>2. QED
    BY <2>1, AppendPair
<1>2. Create(n, "expression", new, FALSE)
  BY <1>1 DEF Fresh
<1>3. Spare(1) \in Addresses /\ Spare(1) # NULL
  BY SpareFound, AddressesAreNumbers DEF Garbage
<1>4. /\ GoodType(first) /\ first # Unused /\ first.parts = << >> /\ first.kind = "SCALAR"
      /\ GoodType(second) /\ second # Unused /\ second.parts = << Spare(1) >>
      /\ second.kind = "POINTER" /\ first.freed = FALSE /\ second.freed = FALSE
  BY <1>3, NewTypes DEF New
<1>5. /\ HeapOK(types) /\ (~label_read => Whole(types)) /\ (~sized => Intact(types))
      /\ sized \in BOOLEAN /\ label_read \in BOOLEAN
  BY DEF TypesInv, NoNull, Owned, WalkOK
<1>6. /\ DOMAIN << Spare(1) >> = {1} /\ << Spare(1) >>[1] = Spare(1)
  OBVIOUS
<1>7. /\ \A i \in DOMAIN first.parts : first.parts[i] \in Used(types) \cup {NULL}
      /\ \A i \in DOMAIN second.parts : second.parts[i] \in Used(types) \cup {NULL, Spare(1)}
  BY <1>4, <1>6
<1> HIDE DEF first, second
<1>8. /\ Extends(h) /\ Spare(1) \in Used(h) \ Used(types) /\ Spare(2) \in Used(h) \ Used(types)
      /\ Spare(1) # Spare(2) /\ h[Spare(1)] = first /\ h[Spare(2)] = second
      /\ \A t \in Addresses \ {Spare(1), Spare(2)} : h[t] = types[t]
  BY <1>4, <1>5, <1>7, WithTwo
<1>9. Reach(h, Lent) \subseteq Used(types)
  BY <1>8, LentReach
<1> HIDE DEF h
<1>10. Whole(types) => Whole(h)
  BY <1>3, <1>4, <1>6, <1>8 DEF Whole
<1>11. Intact(types) => Intact(h)
  BY <1>4, <1>8 DEF Intact
<1>12. Owns(h, Spare(2), Lent)
  <2> DEFINE S == {Spare(1), Spare(2)}
  <2>1. h[Spare(1)].kind = "SCALAR" /\ h[Spare(2)].kind = "POINTER"
        /\ h[Spare(2)].parts[1] = Spare(1)
    BY <1>4, <1>6, <1>8
  <2>2. Private(h, S, Spare(2))
    BY <1>8, <2>1 DEF Private
  <2>3. S \in SUBSET Addresses /\ S \cap Reach(h, Lent) = {}
    BY <1>8, <1>9 DEF Used
  <2>4. QED
    BY <2>2, <2>3 DEF Owns
<1>13. /\ Extends(With(new)) /\ Spare(Len(new)) \in Used(With(new)) \ Used(types)
       /\ ~label_read => Whole(With(new))
       /\ ~sized => Intact(With(new)) /\ Owns(With(new), Spare(Len(new)), Lent)
  BY <1>1, <1>5, <1>8, <1>10, <1>11, <1>12 DEF h
<1> HIDE DEF new
<1>14. QED
  BY <1>2, <1>13, NewEvaluates

LEMMA AddressEvaluates ==
  ASSUME TypesInv, AddressOf
  PROVE  Evaluating
<1> DEFINE x == Top(0)
           type == New("POINTER", << x.type >>)
           new == << type >>
           h == With(new)
<1>1. /\ IsExpr(0) /\ Visit /\ Sound /\ UNCHANGED << sized, label_read >>
      /\ Create(1, "expression", new, x.borrowed) /\ Fit(1) /\ Len(new) = 1
  BY DEF AddressOf, Expression, Create
<1>2. /\ 1 \in 0 .. Count /\ Count - 1 < MaxOperands /\ x.borrowed \in BOOLEAN
      /\ x.type \in Used(types) \cup {NULL} /\ (~label_read => x.type # NULL)
      /\ (~sized /\ ~x.borrowed => Owns(types, x.type, Lent))
  <2>1. 0 \in {0, 1} /\ 0 + 1 = 1
    OBVIOUS
  <2>2. QED
    BY <1>1, <2>1, ExpressionOperand
<1> HIDE DEF x
<1>3. x.type \in Addresses \cup {NULL}
  BY <1>2 DEF Used
<1>4. /\ GoodType(type) /\ type # Unused /\ type.parts = << x.type >>
      /\ type.kind = "POINTER" /\ type.freed = FALSE
  BY <1>3, NewTypes DEF New
<1>5. /\ HeapOK(types) /\ (~label_read => Whole(types)) /\ (~sized => Intact(types))
      /\ sized \in BOOLEAN /\ label_read \in BOOLEAN
  BY DEF TypesInv, NoNull, Owned, WalkOK
<1>6. DOMAIN << x.type >> = {1} /\ << x.type >>[1] = x.type
  OBVIOUS
<1>7. \A i \in DOMAIN type.parts : type.parts[i] \in Used(types) \cup {NULL}
  BY <1>2, <1>4, <1>6
<1> HIDE DEF type
<1>8. /\ Extends(h) /\ Spare(1) \in Used(h) \ Used(types) /\ h[Spare(1)] = type
      /\ \A t \in Addresses \ {Spare(1)} : h[t] = types[t]
  BY <1>1, <1>4, <1>5, <1>7, WithOne
<1>9. Reach(h, Lent) \subseteq Used(types)
  BY <1>8, LentReach
<1> HIDE DEF h
<1>10. ~label_read => Whole(h)
  BY <1>2, <1>4, <1>5, <1>6, <1>8 DEF Whole
<1>11. Intact(types) => Intact(h)
  BY <1>4, <1>8 DEF Intact
<1>12. ASSUME ~sized, ~x.borrowed
       PROVE  Owns(h, Spare(1), Lent)
  <2>1. Owns(h, x.type, Lent)
    BY <1>2, <1>5, <1>8, <1>12, LentAre, OwnsExtends
  <2>2. Owns(types, x.type, Lent)
    BY <1>2, <1>12
  <2>3. PICK S \in SUBSET Addresses : Private(types, S, x.type) /\ S \cap Reach(types, Lent) = {}
    BY <2>2 DEF Owns
  <2>4. S \subseteq Used(types) /\ x.type \in S /\ \A u \in S : h[u] = types[u]
    BY <1>8, <2>3 DEF Private, Extends
  <2> DEFINE T == S \cup {Spare(1)}
  <2>5. Reach(h, Lent) \subseteq Reach(types, Lent)
    BY <1>5, <1>8, LentAre, ReachExtends
  <2>6. T \in SUBSET Addresses /\ T \subseteq Used(h) /\ T \cap Reach(h, Lent) = {}
    BY <1>8, <1>9, <2>3, <2>4, <2>5 DEF Used, Extends
  <2>7. h[Spare(1)].kind = "POINTER" /\ h[Spare(1)].parts[1] = x.type
        /\ x.type # Spare(1) /\ Spare(1) \notin S
    BY <1>4, <1>6, <1>8, <2>4
  <2>8. ASSUME NEW u \in S
        PROVE  /\ h[u].kind \in {"SCALAR", "FLOATING", "POINTER"}
               /\ h[u].kind = "POINTER" => h[u].parts[1] \in S \ {x.type}
    BY <2>3, <2>4, <2>8 DEF Private
  <2>9. \A u, v \in S :
          /\ h[u].kind = "POINTER" /\ h[v].kind = "POINTER"
          /\ h[u].parts[1] = h[v].parts[1]
          => u = v
    BY <2>3, <2>4 DEF Private
  <2>10. Private(h, T, Spare(1))
    <3>1. \A u \in T : h[u].kind \in {"SCALAR", "FLOATING", "POINTER"}
      BY <2>7, <2>8
    <3>2. \A u \in T : h[u].kind = "POINTER" => h[u].parts[1] \in T \ {Spare(1)}
      BY <2>4, <2>7, <2>8
    <3>3. ASSUME NEW u \in T, NEW v \in T,
                 h[u].kind = "POINTER", h[v].kind = "POINTER",
                 h[u].parts[1] = h[v].parts[1]
          PROVE  u = v
      BY <2>7, <2>8, <2>9, <3>3
    <3>4. QED
      BY <2>6, <3>1, <3>2, <3>3 DEF Private
  <2>11. QED
    BY <2>6, <2>10 DEF Owns
<1>13. /\ Extends(With(new)) /\ Spare(Len(new)) \in Used(With(new)) \ Used(types)
       /\ ~label_read => Whole(With(new))
       /\ ~sized => /\ Intact(With(new))
                    /\ ~x.borrowed => Owns(With(new), Spare(Len(new)), Lent)
  BY <1>1, <1>5, <1>8, <1>10, <1>11, <1>12 DEF h
<1> HIDE DEF new
<1>14. QED
  BY <1>1, <1>2, <1>13, NewEvaluates

-----------------------------------------------------------------------------
(***************************************************************************)
(* Expressions, case by case.  A type may be returned when it is in use or *)
(* a label's, and owned unless it is borrowed.                             *)
(***************************************************************************)
Returnable(t, borrowed) ==
  /\ t \in Used(types) \cup {NULL} /\ borrowed \in BOOLEAN
  /\ ~label_read => t # NULL
  /\ ~sized /\ ~borrowed => Owns(types, t, Lent)

LEMMA ReturnEvaluates ==
  ASSUME TypesInv, Expression, Sound, NEW n \in 0 .. Count, Count - n < MaxOperands,
         NEW t, NEW b, Returnable(t, b), Same(n, t, b)
  PROVE  Evaluating
<1>1. Visit /\ sized' = sized /\ label_read' = label_read /\ label_read \in BOOLEAN
  BY DEF Expression, TypesInv, WalkOK
<1>2. QED
  BY <1>1, SameEvaluates DEF Returnable

LEMMA ScalarEvaluates ==
  ASSUME TypesInv, Visit, Sound, UNCHANGED << sized, label_read >>,
         NEW n \in 0 .. Count, Count - n < MaxOperands, Fresh(n, Scalar)
  PROVE  Evaluating
BY FreshEvaluates DEF Scalar

LEMMA FailsFaults ==
  ASSUME TypesInv, Running, NEW t, Fails(t), t \in Used(types) \cup {NULL},
         ~label_read => t # NULL
  PROVE  Faulting
BY DEF Faulting

LEMMA OperandReturnable ==
  ASSUME TypesInv, NEW k \in {0, 1}, IsExpr(k)
  PROVE  /\ Returnable(Top(k).type, Top(k).borrowed)
         /\ k + 1 \in 0 .. Count /\ Count - (k + 1) < MaxOperands
BY ExpressionOperand DEF Returnable

LEMMA BaseReturnable ==
  ASSUME TypesInv, NEW t, NEW b, Returnable(t, b), t # NULL,
         Kind(t) \in {"POINTER", "ARRAY", "FUNCTION"}
  PROVE  Returnable(Base(t), b)
<1>1. t \in Used(types) /\ b \in BOOLEAN
  BY DEF Returnable
<1>2. Base(t) \in Used(types) \cup {NULL} /\ (~label_read => Base(t) # NULL)
  BY <1>1, BaseFacts
<1>3. ~sized /\ ~b => Owns(types, Base(t), Lent)
  BY OwnedBase DEF Returnable
<1>4. QED
  BY <1>1, <1>2, <1>3 DEF Returnable

LEMMA PartReturnable ==
  ASSUME TypesInv, NEW t, NEW b, Returnable(t, b), t # NULL, Kind(t) = "AGGREGATE",
         NEW i \in DOMAIN types[t].parts
  PROVE  Returnable(types[t].parts[i], b)
<1>1. t \in Used(types) /\ b \in BOOLEAN
  BY DEF Returnable
<1>2. /\ types[t].parts[i] \in Used(types) \cup {NULL}
      /\ ~label_read => types[t].parts[i] # NULL
  BY <1>1, PartFacts
<1>3. sized \/ b
  BY <1>1, OwnedBase DEF Returnable, TypesInv, WalkOK
<1>4. QED
  BY <1>1, <1>2, <1>3 DEF Returnable

LEMMA ReadingNone ==
  ASSUME NEW t, Reading(t) = "none"
  PROVE  t # NULL
BY DEF Reading

LEMMA CountIs == TypesInv => Count \in Nat /\ 0 \in 0 .. Count /\ Count - 0 = Count
BY WalkFacts DEF TypesInv, WalkOK, Count

LEMMA LiteralStep ==
  ASSUME TypesInv, Literal
  PROVE  Evaluating
<1>1. /\ Visit /\ Sound /\ UNCHANGED << sized, label_read >>
      /\ 0 \in 0 .. Count /\ Count - 0 < MaxOperands
  BY CountIs DEF Literal, Expression, MayExpress
<1>2. CASE \E kind \in {"SCALAR", "FLOATING"} : Fresh(0, << New(kind, << >>) >>)
  BY <1>1, <1>2, FreshEvaluates
<1>3. CASE Fit(2) /\ Fresh(0, Append(Scalar, New("POINTER", << Spare(1) >>)))
  BY <1>1, <1>3, FreshPointerEvaluates
<1>4. QED
  BY <1>2, <1>3 DEF Literal

LEMMA IdentifierStep ==
  ASSUME TypesInv, NEW n, Identifier(n)
  PROVE  Evaluating
<1>1. /\ Visit /\ Sound /\ sized' = sized /\ label_read \in BOOLEAN
      /\ 0 \in 0 .. Count /\ Count - 0 < MaxOperands
  BY CountIs DEF Identifier, MayExpress, TypesInv, WalkOK
<1>2. CASE symbol_lookup(table, n)
  <2> DEFINE sym == found(n)
  <2>1. sym \in Symbols
    BY <1>2, FoundIsSymbol DEF TypesInv, WalkOK
  <2>2. Same(0, sym.type, TRUE) /\ label_read' = (label_read \/ sym.kind = "LABEL")
    BY <1>2 DEF Identifier
  <2> HIDE DEF sym
  <2>3. sym.type \in Used(types) \cup {NULL} /\ (sym.kind = "LABEL" <=> sym.type = NULL)
    BY <2>1, SymbolFacts DEF TypeFits
  <2>4. label_read' \in BOOLEAN /\ (label_read => label_read')
        /\ (~label_read' => sym.type # NULL)
    BY <1>1, <2>2, <2>3
  <2>5. QED
    BY <1>1, <2>2, <2>3, <2>4, SameEvaluates
<1>3. CASE ~symbol_lookup(table, n)
  <2>1. Fresh(0, Scalar) /\ label_read' = label_read
    BY <1>3 DEF Identifier
  <2>2. QED
    BY <1>1, <2>1, ScalarEvaluates
<1>4. QED
  BY <1>2, <1>3

LEMMA DereferenceStep ==
  ASSUME TypesInv, Dereference
  PROVE  Evaluating \/ Faulting
<1> DEFINE x == Top(0)
<1>1. Returnable(x.type, x.borrowed) /\ 1 \in 0 .. Count /\ Count - 1 < MaxOperands
  <2>1. 0 \in {0, 1} /\ 0 + 1 = 1 /\ IsExpr(0)
    BY DEF Dereference
  <2>2. QED
    BY <2>1, OperandReturnable
<1>2. CASE Running /\ Fails(x.type)
  BY <1>1, <1>2, FailsFaults DEF Returnable
<1>3. CASE Reading(x.type) = "none" /\ Expression /\ Sound
           /\ IF Kind(x.type) = "POINTER" THEN Same(1, Base(x.type), x.borrowed)
              ELSE Fresh(1, Scalar)
  <2>1. x.type # NULL
    BY <1>3, ReadingNone
  <2>2. CASE Kind(x.type) = "POINTER"
    <3>1. Returnable(Base(x.type), x.borrowed)
      BY <1>1, <2>1, <2>2, BaseReturnable
    <3>2. QED
      BY <1>1, <1>3, <2>2, <3>1, ReturnEvaluates
  <2>3. CASE Kind(x.type) # "POINTER"
    BY <1>1, <1>3, <2>3, ScalarEvaluates DEF Expression
  <2>4. QED
    BY <2>2, <2>3
<1>4. QED
  BY <1>2, <1>3 DEF Dereference

LEMMA NegationStep ==
  ASSUME TypesInv, Negation
  PROVE  Evaluating
<1>1. 0 \in {0, 1} /\ 0 + 1 = 1 /\ IsExpr(0)
  BY DEF Negation
<1>2. 1 \in 0 .. Count /\ Count - 1 < MaxOperands
  BY <1>1, OperandReturnable
<1>3. QED
  BY <1>2, ScalarEvaluates DEF Negation, Expression

(* Both operands of a binary operator.                                     *)
LEMMA TwoOperands ==
  ASSUME TypesInv, IsExpr(0), IsExpr(1)
  PROVE  /\ Returnable(Top(0).type, Top(0).borrowed)
         /\ Returnable(Top(1).type, Top(1).borrowed)
         /\ 2 \in 0 .. Count /\ Count - 2 < MaxOperands
<1>1. 0 \in {0, 1} /\ 1 \in {0, 1} /\ 1 + 1 = 2
  OBVIOUS
<1>2. QED
  BY <1>1, OperandReturnable

LEMMA ComparisonStep ==
  ASSUME TypesInv, Comparison
  PROVE  Evaluating
BY TwoOperands, ScalarEvaluates DEF Comparison, Expression

LEMMA AssignmentStep ==
  ASSUME TypesInv, Assignment
  PROVE  Evaluating
<1>1. IsExpr(0) /\ IsExpr(1) /\ Expression /\ Sound
      /\ Same(2, Top(1).type, Top(1).borrowed)
  BY DEF Assignment
<1>2. Returnable(Top(1).type, Top(1).borrowed) /\ 2 \in 0 .. Count /\ Count - 2 < MaxOperands
  BY <1>1, TwoOperands
<1>3. QED
  BY <1>1, <1>2, ReturnEvaluates

LEMMA ArithmeticStep ==
  ASSUME TypesInv, Arithmetic
  PROVE  Evaluating \/ Faulting
<1> DEFINE left == Top(1)
           right == Top(0)
           LeftFloats == Reading(left.type) = "none" /\ Kind(left.type) = "FLOATING"
<1>1. /\ Returnable(left.type, left.borrowed) /\ Returnable(right.type, right.borrowed)
      /\ 2 \in 0 .. Count /\ Count - 2 < MaxOperands
  BY TwoOperands DEF Arithmetic
<1>2. CASE Running /\ Fails(left.type)
  BY <1>1, <1>2, FailsFaults DEF Returnable
<1>3. CASE Running /\ Reading(left.type) = "none" /\ ~LeftFloats /\ Fails(right.type)
  BY <1>1, <1>3, FailsFaults DEF Returnable
<1>4. CASE /\ Expression /\ Sound
           /\ IF LeftFloats \/ Kind(right.type) = "FLOATING"
              THEN Fresh(2, << New("FLOATING", << >>) >>)
              ELSE Same(2, left.type, left.borrowed)
  <2>1. CASE LeftFloats \/ Kind(right.type) = "FLOATING"
    <3>1. Fresh(2, << New("FLOATING", << >>) >>) /\ "FLOATING" \in {"SCALAR", "FLOATING"}
      BY <1>4, <2>1
    <3>2. Visit /\ Sound /\ UNCHANGED << sized, label_read >>
      BY <1>4 DEF Expression
    <3>3. QED
      BY <1>1, <3>1, <3>2, FreshEvaluates
  <2>2. CASE ~(LeftFloats \/ Kind(right.type) = "FLOATING")
    BY <1>1, <1>4, <2>2, ReturnEvaluates
  <2>3. QED
    BY <2>1, <2>2
<1>5. QED
  BY <1>2, <1>3, <1>4 DEF Arithmetic

LEMMA IndexStep ==
  ASSUME TypesInv, Index
  PROVE  Evaluating \/ Faulting
<1> DEFINE x == Top(1)
<1>1. Returnable(x.type, x.borrowed) /\ 2 \in 0 .. Count /\ Count - 2 < MaxOperands
  BY TwoOperands DEF Index
<1>2. CASE Running /\ Fails(x.type)
  BY <1>1, <1>2, FailsFaults DEF Returnable
<1>3. CASE Reading(x.type) = "none" /\ Expression /\ Sound
           /\ IF Kind(x.type) \in {"POINTER", "ARRAY"}
              THEN Same(2, Base(x.type), x.borrowed) ELSE Fresh(2, Scalar)
  <2>1. x.type # NULL
    BY <1>3, ReadingNone
  <2>2. CASE Kind(x.type) \in {"POINTER", "ARRAY"}
    <3>1. Returnable(Base(x.type), x.borrowed)
      BY <1>1, <2>1, <2>2, BaseReturnable
    <3>2. QED
      BY <1>1, <1>3, <2>2, <3>1, ReturnEvaluates
  <2>3. CASE Kind(x.type) \notin {"POINTER", "ARRAY"}
    BY <1>1, <1>3, <2>3, ScalarEvaluates DEF Expression
  <2>4. QED
    BY <2>2, <2>3
<1>4. QED
  BY <1>2, <1>3 DEF Index

LEMMA CallStep ==
  ASSUME TypesInv, NEW n, Call(n)
  PROVE  Evaluating \/ Faulting
<1> DEFINE sym == found(n)
<1>1. PICK args \in {0, 1} :
        /\ IF args = 0 THEN MayExpress ELSE IsExpr(0)
        /\ IF symbol_lookup(table, n) /\ sym.type # NULL
           THEN \/ Running /\ Fails(sym.type)
                \/ /\ Reading(sym.type) = "none" /\ Expression /\ Sound
                   /\ IF Kind(sym.type) = "FUNCTION"
                      THEN Same(args, Base(sym.type), TRUE) ELSE Fresh(args, Scalar)
           ELSE Expression /\ Sound /\ Fresh(args, Scalar)
  BY DEF Call
<1>2. args \in 0 .. Count /\ Count - args < MaxOperands
  <2>1. CASE args = 0
    BY <1>1, <2>1, CountIs DEF MayExpress
  <2>2. CASE args = 1
    <3>1. 0 \in {0, 1} /\ 0 + 1 = 1 /\ IsExpr(0)
      BY <1>1, <2>2
    <3>2. QED
      BY <2>2, <3>1, OperandReturnable
  <2>3. QED
    BY <1>1, <2>1, <2>2
<1>3. CASE symbol_lookup(table, n) /\ sym.type # NULL
  <2>1. sym \in Symbols
    BY <1>3, FoundIsSymbol DEF TypesInv, WalkOK
  <2> HIDE DEF sym
  <2>2. sym.type \in Used(types)
    BY <1>3, <2>1, SymbolFacts
  <2>3. CASE Running /\ Fails(sym.type)
    BY <1>3, <2>2, <2>3, FailsFaults
  <2>4. CASE Expression /\ Sound /\ Kind(sym.type) = "FUNCTION"
             /\ Same(args, Base(sym.type), TRUE)
    <3>1. Returnable(Base(sym.type), TRUE)
      BY <2>2, <2>4, BaseFacts DEF Returnable
    <3>2. QED
      BY <1>2, <2>4, <3>1, ReturnEvaluates
  <2>5. CASE Expression /\ Sound /\ Fresh(args, Scalar)
    BY <1>2, <2>5, ScalarEvaluates DEF Expression
  <2>6. QED
    BY <1>1, <1>3, <2>3, <2>4, <2>5
<1>4. CASE ~(symbol_lookup(table, n) /\ sym.type # NULL)
  <2>1. Expression /\ Sound /\ Fresh(args, Scalar)
    BY <1>1, <1>4
  <2>2. QED
    BY <1>2, <2>1, ScalarEvaluates DEF Expression
<1>5. QED
  BY <1>3, <1>4

LEMMA FieldEvaluates ==
  ASSUME TypesInv, Expression, Sound, 1 \in 0 .. Count, Count - 1 < MaxOperands,
         NEW t, NEW b, Returnable(t, b), t # NULL, FieldOf(t, b)
  PROVE  Evaluating
<1>1. CASE Kind(t) = "AGGREGATE" /\ \E i \in DOMAIN types[t].parts : Same(1, types[t].parts[i], b)
  <2>1. PICK i \in DOMAIN types[t].parts : Same(1, types[t].parts[i], b)
    BY <1>1
  <2>2. Returnable(types[t].parts[i], b)
    BY <1>1, PartReturnable
  <2>3. QED
    BY <2>1, <2>2, ReturnEvaluates
<1>2. CASE Fresh(1, Scalar)
  BY <1>2, ScalarEvaluates DEF Expression
<1>3. QED
  BY <1>1, <1>2 DEF FieldOf

LEMMA MemberStep ==
  ASSUME TypesInv, Member
  PROVE  Evaluating \/ Faulting
<1> DEFINE x == Top(0)
<1>1. Returnable(x.type, x.borrowed) /\ 1 \in 0 .. Count /\ Count - 1 < MaxOperands
  <2>1. 0 \in {0, 1} /\ 0 + 1 = 1 /\ IsExpr(0)
    BY DEF Member
  <2>2. QED
    BY <2>1, OperandReturnable
<1>2. CASE Running /\ Fails(x.type)
  BY <1>1, <1>2, FailsFaults DEF Returnable
<1>3. CASE Expression /\ Sound
           /\ IF x.type = NULL THEN Fresh(1, Scalar) ELSE FieldOf(x.type, x.borrowed)
  <2>1. CASE x.type = NULL
    BY <1>1, <1>3, <2>1, ScalarEvaluates DEF Expression
  <2>2. CASE x.type # NULL
    BY <1>1, <1>3, <2>2, FieldEvaluates
  <2>3. QED
    BY <2>1, <2>2
<1>4. QED
  BY <1>2, <1>3 DEF Member

LEMMA PointerMemberStep ==
  ASSUME TypesInv, PointerMember
  PROVE  Evaluating \/ Faulting
<1> DEFINE x == Top(0)
           deref == IF x.type # NULL /\ Reading(x.type) = "none" /\ Kind(x.type) = "POINTER"
                    THEN Base(x.type) ELSE NULL
<1>1. Returnable(x.type, x.borrowed) /\ 1 \in 0 .. Count /\ Count - 1 < MaxOperands
  <2>1. 0 \in {0, 1} /\ 0 + 1 = 1 /\ IsExpr(0)
    BY DEF PointerMember
  <2>2. QED
    BY <2>1, OperandReturnable
<1>2. deref # NULL => Returnable(deref, x.borrowed)
  BY <1>1, BaseReturnable
<1>3. CASE Running /\ Fails(x.type)
  BY <1>1, <1>3, FailsFaults DEF Returnable
<1>4. CASE deref # NULL /\ Running /\ Fails(deref)
  <2> HIDE DEF deref
  <2>1. QED
    BY <1>2, <1>4, FailsFaults DEF Returnable
<1>5. CASE Expression /\ Sound
           /\ IF deref = NULL THEN Fresh(1, Scalar) ELSE FieldOf(deref, x.borrowed)
  <2> HIDE DEF deref
  <2>1. CASE deref = NULL
    BY <1>1, <1>5, <2>1, ScalarEvaluates DEF Expression
  <2>2. CASE deref # NULL
    BY <1>1, <1>2, <1>5, <2>2, FieldEvaluates
  <2>3. QED
    BY <2>1, <2>2
<1>6. QED
  BY <1>3, <1>4, <1>5 DEF PointerMember

LEMMA CastStep ==
  ASSUME TypesInv, Cast
  PROVE  Evaluating
<1>1. 0 \in {0, 1} /\ 0 + 1 = 1 /\ IsExpr(0)
  BY DEF Cast
<1>2. /\ Visit /\ Sound /\ UNCHANGED << sized, label_read >>
      /\ 1 \in 0 .. Count /\ Count - 1 < MaxOperands
  BY <1>1, OperandReturnable DEF Cast, Expression
<1>3. CASE \E kind \in {"SCALAR", "FLOATING"} : Fresh(1, << New(kind, << >>) >>)
  BY <1>2, <1>3, FreshEvaluates
<1>4. CASE Fit(2) /\ Fresh(1, Append(Scalar, New("POINTER", << Spare(1) >>)))
  BY <1>2, <1>4, FreshPointerEvaluates
<1>5. QED
  BY <1>3, <1>4 DEF Cast

LEMMA DropStep ==
  ASSUME Drop
  PROVE  Dropping
BY DEF Drop, Dropping, Expression, Visit

-----------------------------------------------------------------------------
(***************************************************************************)
(* Annotations.                                                            *)
(***************************************************************************)
(* A heap with more types in it, that can be used like this one.           *)
Grown(h) ==
  /\ Extends(h) /\ (~label_read => Whole(h)) /\ (~sized => Intact(h))

LEMMA GrownByNone == TypesInv => Grown(types)
BY DEF Grown, Extends, TypesInv, NoNull, Owned

LEMMA GrownByOne ==
  ASSUME TypesInv, Fit(1), NEW type, GoodType(type), type # Unused, ~type.freed,
         \A i \in DOMAIN type.parts : /\ type.parts[i] \in Used(types) \cup {NULL}
                                      /\ ~label_read => type.parts[i] # NULL
  PROVE  /\ Grown(With(<< type >>)) /\ Spare(1) \in Used(With(<< type >>)) \ Used(types)
         /\ With(<< type >>)[Spare(1)] = type
<1> DEFINE h == With(<< type >>)
<1>1. /\ HeapOK(types) /\ (~label_read => Whole(types)) /\ (~sized => Intact(types))
  BY DEF TypesInv, NoNull, Owned
<1>2. /\ Extends(h) /\ Spare(1) \in Used(h) \ Used(types) /\ h[Spare(1)] = type
      /\ \A t \in Addresses \ {Spare(1)} : h[t] = types[t]
  BY <1>1, WithOne
<1> HIDE DEF h
<1>3. ~label_read => Whole(h)
  BY <1>1, <1>2 DEF Whole
<1>4. ~sized => Intact(h)
  BY <1>1, <1>2 DEF Intact
<1>5. QED
  BY <1>2, <1>3, <1>4 DEF Grown, h

LEMMA GrownByTwo ==
  ASSUME TypesInv, Fit(2), NEW first, NEW second, GoodType(first), GoodType(second),
         first # Unused, second # Unused, ~first.freed, ~second.freed,
         \A i \in DOMAIN first.parts : /\ first.parts[i] \in Used(types) \cup {NULL}
                                       /\ ~label_read => first.parts[i] # NULL,
         \A i \in DOMAIN second.parts : second.parts[i] = Spare(1)
  PROVE  LET h == With(<< first, second >>) IN
         /\ Grown(h) /\ Spare(1) \in Used(h) \ Used(types) /\ Spare(2) \in Used(h) \ Used(types)
         /\ h[Spare(1)] = first /\ h[Spare(2)] = second
<1> DEFINE h == With(<< first, second >>)
<1>1. /\ HeapOK(types) /\ (~label_read => Whole(types)) /\ (~sized => Intact(types))
  BY DEF TypesInv, NoNull, Owned
<1>2. /\ Extends(h) /\ Spare(1) \in Used(h) \ Used(types)
      /\ Spare(2) \in Used(h) \ Used(types)
      /\ h[Spare(1)] = first /\ h[Spare(2)] = second
      /\ \A t \in Addresses \ {Spare(1), Spare(2)} : h[t] = types[t]
  BY <1>1, WithTwo
<1>3. Spare(1) # NULL
  BY <1>2, AddressesAreNumbers DEF Used
<1> HIDE DEF h
<1>4. ~label_read => Whole(h)
  BY <1>1, <1>2, <1>3 DEF Whole
<1>5. ~sized => Intact(h)
  BY <1>1, <1>2 DEF Intact
<1>6. QED
  BY <1>2, <1>4, <1>5 DEF Grown, h

LEMMA Annotates ==
  ASSUME TypesInv, Visit, Sound, UNCHANGED << sized, label_read >>,
         NEW n \in 0 .. Count, Count - n < MaxOperands,
         \A i \in 1 .. Count - n : operands[i].of = "annotation",
         NEW h, NEW t, Grown(h), t \in Used(h),
         Replace(n, "annotation", t, FALSE), Settle(h)
  PROVE  Annotating
<1>1. /\ Running /\ UNCHANGED << table, aggregate, label_read >>
      /\ sized' \in BOOLEAN /\ sized' = sized
  BY DEF Visit, TypesInv, WalkOK
<1>2. Keeps(h)
  BY DEF Grown, Extends, Keeps
<1>3. \A u \in Addresses : types'[u] = h[u] \/ types'[u] = Unused
  BY DEF Settle
<1>4. ~sized' => Intact(types')
  BY <1>1, <1>3, SettledWhole DEF Grown
<1>5. (sized => sized') /\ (~label_read => Whole(h))
  BY <1>1 DEF Grown
<1>6. QED
  BY <1>1, <1>2, <1>4, <1>5 DEF Annotating

LEMMA OneAnnotates ==
  ASSUME TypesInv, Visit, Sound, UNCHANGED << sized, label_read >>,
         NEW n \in 0 .. Count, Count - n < MaxOperands,
         \A i \in 1 .. Count - n : operands[i].of = "annotation",
         NEW type, GoodType(type), type # Unused, ~type.freed,
         \A i \in DOMAIN type.parts : /\ type.parts[i] \in Used(types) \cup {NULL}
                                      /\ ~label_read => type.parts[i] # NULL,
         Create(n, "annotation", << type >>, FALSE)
  PROVE  Annotating
<1>1. /\ Fit(1) /\ Replace(n, "annotation", Spare(1), FALSE) /\ Settle(With(<< type >>))
  <2>1. Len(<< type >>) = 1
    OBVIOUS
  <2>2. QED
    BY <2>1 DEF Create
<1>2. Grown(With(<< type >>)) /\ Spare(1) \in Used(With(<< type >>))
  BY <1>1, GrownByOne
<1>3. QED
  BY <1>1, <1>2, Annotates

LEMMA AllAnnotations ==
  ASSUME TypesInv, Annotations
  PROVE  /\ Count \in Nat /\ Count <= MaxOperands /\ DOMAIN operands = 1 .. Count
         /\ \A i \in 1 .. Count : /\ operands[i].of = "annotation"
                                  /\ operands[i].type \in Used(types) \ {NULL}
<1>1. Count \in Nat /\ Count <= MaxOperands /\ DOMAIN operands = 1 .. Count
  BY WalkFacts DEF TypesInv, WalkOK, OperandsFit, Count
<1>2. \A i \in DOMAIN operands : operands[i].type \in Used(types) \cup {NULL}
  BY DEF TypesInv, WalkOK, Held
<1>3. QED
  BY <1>1, <1>2 DEF Annotations, TypesInv, WalkOK, OperandsFit

LEMMA BuiltinStep ==
  ASSUME TypesInv, Builtin
  PROVE  Annotating
<1>1. /\ Visit /\ Sound /\ UNCHANGED << sized, label_read >>
      /\ Count < MaxOperands /\ Annotations
  BY DEF Builtin, Resolve, MayAnnotate
<1>2. /\ 0 \in 0 .. Count /\ Count - 0 < MaxOperands
      /\ \A i \in 1 .. Count - 0 : operands[i].of = "annotation"
  BY <1>1, AllAnnotations, CountIs
<1>3. PICK kind \in {"SCALAR", "FLOATING"} :
        Create(0, "annotation", << New(kind, << >>) >>, FALSE)
  BY DEF Builtin
<1>4. /\ GoodType(New(kind, << >>)) /\ New(kind, << >>) # Unused
      /\ ~New(kind, << >>).freed /\ New(kind, << >>).parts = << >>
  BY NewTypes DEF New
<1>5. DOMAIN New(kind, << >>).parts = {}
  BY <1>4
<1>6. QED
  BY <1>1, <1>2, <1>3, <1>4, <1>5, OneAnnotates

LEMMA NamedTypeStep ==
  ASSUME TypesInv, NEW n, NamedType(n)
  PROVE  Annotating
<1>1. /\ Visit /\ Sound /\ UNCHANGED << sized, label_read >>
      /\ Count < MaxOperands /\ Annotations
  BY DEF NamedType, Resolve, MayAnnotate
<1>2. /\ 0 \in 0 .. Count /\ Count - 0 < MaxOperands
      /\ \A i \in 1 .. Count - 0 : operands[i].of = "annotation"
  BY <1>1, AllAnnotations, CountIs
<1>3. CASE symbol_lookup(table, n) /\ found(n).kind \in {"STRUCT", "ENUM"}
  <2> DEFINE sym == found(n)
  <2>1. sym \in Symbols
    BY <1>3, FoundIsSymbol DEF TypesInv, WalkOK
  <2>2. Replace(0, "annotation", sym.type, FALSE) /\ Settle(types)
    BY <1>3 DEF NamedType, Return
  <2>3. sym.kind # "LABEL"
    BY <1>3
  <2> HIDE DEF sym
  <2>4. sym.type \in Used(types)
    BY <2>1, <2>3, SymbolFacts DEF TypeFits
  <2>5. QED
    BY <1>1, <1>2, <2>2, <2>4, Annotates, GrownByNone
<1>4. CASE ~(symbol_lookup(table, n) /\ found(n).kind \in {"STRUCT", "ENUM"})
  <2> DEFINE type == New("SCALAR", << >>)
  <2>1. Create(0, "annotation", << type >>, FALSE)
    BY <1>4 DEF NamedType, Scalar
  <2>2. GoodType(type) /\ type # Unused /\ ~type.freed /\ type.parts = << >>
    BY NewTypes DEF New
  <2> HIDE DEF type
  <2>3. DOMAIN type.parts = {}
    BY <2>2
  <2>4. QED
    BY <1>1, <1>2, <2>1, <2>2, <2>3, OneAnnotates
<1>5. QED
  BY <1>3, <1>4

(* A type made of the last annotation.                                     *)
LEMMA OnTopAnnotates ==
  ASSUME TypesInv, Visit, Sound, UNCHANGED << sized, label_read >>,
         Count > 0, Annotations, NEW kind \in {"POINTER", "ARRAY"},
         Create(1, "annotation", << New(kind, << Top(0).type >>) >>, FALSE)
  PROVE  Annotating
<1> DEFINE type == New(kind, << Top(0).type >>)
<1>1. /\ 1 \in 0 .. Count /\ Count - 1 < MaxOperands
      /\ \A i \in 1 .. Count - 1 : operands[i].of = "annotation"
  BY AllAnnotations, BoundsAssumption
<1>2. /\ Top(0).type \in Used(types) \cup {NULL} /\ (~label_read => Top(0).type # NULL)
  BY LastOperand
<1>3. Top(0).type \in Addresses \cup {NULL}
  BY <1>2 DEF Used
<1>4. /\ GoodType(type) /\ type # Unused /\ ~type.freed /\ type.parts = << Top(0).type >>
  BY <1>3, NewTypes DEF New
<1>5. DOMAIN << Top(0).type >> = {1} /\ << Top(0).type >>[1] = Top(0).type
  OBVIOUS
<1>6. Create(1, "annotation", << type >>, FALSE)
  OBVIOUS
<1> HIDE DEF type
<1>7. QED
  BY <1>1, <1>2, <1>4, <1>5, <1>6, OneAnnotates

LEMMA PointerTypeStep ==
  ASSUME TypesInv, PointerType
  PROVE  Annotating
<1>1. /\ Visit /\ Sound /\ UNCHANGED << sized, label_read >> /\ Count > 0 /\ ~IsExpr(0)
      /\ Create(1, "annotation", << New("POINTER", << Top(0).type >>) >>, FALSE)
  BY DEF PointerType, Resolve
<1>2. Count \in DOMAIN operands /\ Top(0) = operands[Count] /\ Count \in Nat
      /\ DOMAIN operands = 1 .. Count
      /\ operands[Count].of \in {"annotation", "expression"}
  BY <1>1, LastOperand, WalkFacts DEF TypesInv, WalkOK, Count
<1>3. operands[Count].of = "annotation"
  BY <1>1, <1>2 DEF IsExpr
<1>4. Annotations
  BY <1>2, <1>3, BelowAnnotations DEF Annotations
<1>5. QED
  BY <1>1, <1>4, OnTopAnnotates

LEMMA UnsizedArrayTypeStep ==
  ASSUME TypesInv, UnsizedArrayType
  PROVE  Annotating \/ Faulting
<1>1. Count > 0 /\ Annotations
  BY DEF UnsizedArrayType
<1>2. CASE Running /\ Fails(Top(0).type)
  BY <1>1, <1>2, LastOperand, FailsFaults
<1>3. CASE Resolve /\ Create(1, "annotation", << New("ARRAY", << Top(0).type >>) >>, FALSE)
  BY <1>1, <1>3, OnTopAnnotates DEF Resolve
<1>4. QED
  BY <1>2, <1>3 DEF UnsizedArrayType

(* The types of the operands as the parts of a function's type.            *)
LEMMA OperandTypes ==
  ASSUME TypesInv, Annotations, Count > 0
  PROVE  LET parts == [i \in DOMAIN operands |-> operands[i].type]
             type == New("FUNCTION", parts)
         IN /\ GoodType(type) /\ type # Unused /\ ~type.freed
            /\ \A i \in DOMAIN type.parts : type.parts[i] \in Used(types) \ {NULL}
            /\ type.kind = "FUNCTION"
<1> DEFINE parts == [i \in DOMAIN operands |-> operands[i].type]
           type == New("FUNCTION", parts)
<1>1. /\ Count \in Nat /\ DOMAIN operands = 1 .. Count
      /\ \A i \in 1 .. Count : operands[i].type \in Used(types) \ {NULL}
  BY AllAnnotations
<1>2. DOMAIN parts = 1 .. Count /\ \A i \in 1 .. Count : parts[i] = operands[i].type
  BY <1>1
<1>3. parts \in [1 .. Count -> Addresses \cup {NULL}]
  BY <1>1 DEF Used
<1> HIDE DEF parts
<1>4. parts \in Seq(Addresses \cup {NULL})
  BY <1>1, <1>3, SeqDef
<1>5. parts # << >>
  BY <1>1, <1>2
<1>6. /\ GoodType(type) /\ type # Unused
  BY <1>4, <1>5, NewTypes
<1>7. ~type.freed /\ type.parts = parts /\ type.kind = "FUNCTION"
  BY DEF New
<1> HIDE DEF type
<1>8. \A i \in DOMAIN type.parts : type.parts[i] \in Used(types) \ {NULL}
  BY <1>1, <1>2, <1>7
<1>9. QED
  BY <1>6, <1>7, <1>8 DEF type, parts

LEMMA FuncPointerTypeStep ==
  ASSUME TypesInv, FuncPointerType
  PROVE  Annotating
<1> DEFINE first == New("FUNCTION", [i \in DOMAIN operands |-> operands[i].type])
           second == New("POINTER", << Spare(1) >>)
           new == << first, second >>
<1>1. /\ Visit /\ Sound /\ UNCHANGED << sized, label_read >>
      /\ Count \in {1, 2} /\ Annotations /\ Fit(2)
      /\ Create(Count, "annotation", new, FALSE)
  BY DEF FuncPointerType, Resolve
<1>2. Spare(1) \in Addresses /\ Spare(1) # NULL
  BY <1>1, SpareFound, AddressesAreNumbers DEF Garbage
<1>3. /\ GoodType(first) /\ first # Unused /\ ~first.freed
      /\ \A i \in DOMAIN first.parts : first.parts[i] \in Used(types) \ {NULL}
  BY <1>1, OperandTypes
<1>4. /\ GoodType(second) /\ second # Unused /\ ~second.freed
      /\ second.parts = << Spare(1) >>
  BY <1>2, NewTypes DEF New
<1>5. DOMAIN << Spare(1) >> = {1} /\ << Spare(1) >>[1] = Spare(1)
  OBVIOUS
<1>6. /\ Count \in 0 .. Count /\ Count - Count < MaxOperands
      /\ \A i \in 1 .. Count - Count : operands[i].of = "annotation"
  BY <1>1, AllAnnotations, BoundsAssumption
<1>7. Replace(Count, "annotation", Spare(2), FALSE) /\ Settle(With(new))
  <2>1. Len(new) = 2
    OBVIOUS
  <2> HIDE DEF new
  <2>2. QED
    BY <1>1, <2>1 DEF Create
<1> HIDE DEF first, second
<1>8. Grown(With(new)) /\ Spare(2) \in Used(With(new))
  BY <1>1, <1>3, <1>4, <1>5, GrownByTwo
<1> HIDE DEF new
<1>9. QED
  BY <1>1, <1>6, <1>7, <1>8, Annotates

-----------------------------------------------------------------------------
(***************************************************************************)
(* Declarations.                                                           *)
(***************************************************************************)
(* A table whose symbols fit the heap that a step makes.                   *)
TableFits(scopes, h) ==
  /\ scopes \in TypedTable
  /\ \A s \in SymbolsIn(scopes) : s \in Symbols \/ Fits(h, s)

LEMMA StepDeclares ==
  ASSUME TypesInv, Running, Sound, UNCHANGED << sized, label_read >>,
         NEW h, Grown(h), operands' = << >>, Settle(h), TableFits(table', h),
         \/ aggregate' \in {NULL, aggregate}
         \/ aggregate' \in Used(h) /\ h[aggregate'].kind = "AGGREGATE"
  PROVE  Declaring
<1>1. Keeps(h) /\ (~label_read => Whole(h)) /\ (~sized => Intact(h))
  BY DEF Grown, Extends, Keeps
<1>2. QED
  BY <1>1 DEF TableFits, Declaring

LEMMA TableFitsAlready ==
  ASSUME TypesInv, NEW h
  PROVE  TableFits(table, h)
BY SymbolsAreThose DEF TableFits, TypesInv, WalkOK

LEMMA AddFits ==
  ASSUME NEW h, NEW scopes, TableFits(scopes, h),
         NEW n \in Names, NEW kind \in SymbolKinds, NEW t,
         t \in Addresses \cup {NULL}, Fits(h, Typed(n, kind, t))
  PROVE  TableFits(add(scopes, Typed(n, kind, t)), h)
<1>1. Typed(n, kind, t) \in TypedSymbol
  BY DEF Typed, TypedSymbol
<1>2. QED
  BY <1>1, AddTyped DEF TableFits

LEMMA PushFits ==
  ASSUME NEW h, NEW scopes, TableFits(scopes, h), NEW kind \in ScopeKinds
  PROVE  TableFits(scope_push(scopes, kind), h)
BY ScopePushTyped DEF TableFits

LEMMA VarDeclStep ==
  ASSUME TypesInv, NEW n \in Names, VarDecl(n)
  PROVE  Declaring
<1> DEFINE t == operands[1].type
<1>1. /\ Running /\ Sound /\ UNCHANGED << sized, label_read >>
      /\ aggregate' = NULL /\ operands' = << >> /\ Settle(types)
      /\ Count = 1 /\ Annotations
      /\ table' = add(table, Typed(n, "VARIABLE", t))
  BY DEF VarDecl, Declaration, Outside
<1>2. t \in Used(types) \ {NULL}
  BY <1>1, AllAnnotations
<1> HIDE DEF t
<1>3. Fits(types, Typed(n, "VARIABLE", t)) /\ t \in Addresses /\ "VARIABLE" \in SymbolKinds
  BY <1>2 DEF Fits, Typed, Used, SymbolKinds
<1>4. TableFits(table', types)
  BY <1>1, <1>3, TableFitsAlready, AddFits
<1>5. QED
  BY <1>1, <1>4, GrownByNone, StepDeclares

LEMMA FuncDeclStep ==
  ASSUME TypesInv, NEW n \in Names, NEW p \in Names, NEW body \in BOOLEAN,
         FuncDecl(n, p, body)
  PROVE  Declaring
<1> DEFINE type == New("FUNCTION", [i \in DOMAIN operands |-> operands[i].type])
           new == << type >>
           h == With(new)
           t == operands[2].type
           scopes == add(table, Typed(n, "FUNCTION", Spare(1)))
           inner  == scope_push(scopes, "FUNCTION")
<1>1. /\ Running /\ Sound /\ UNCHANGED << sized, label_read >>
      /\ aggregate' = NULL /\ operands' = << >> /\ Settle(h) /\ Fit(1)
      /\ Count \in {1, 2} /\ Annotations
      /\ table' = IF ~body THEN scopes
                  ELSE IF Count = 1 THEN inner
                  ELSE add(inner, Typed(p, "VARIABLE", t))
  BY DEF FuncDecl, Declaration, Outside
<1>2. /\ GoodType(type) /\ type # Unused /\ ~type.freed /\ type.kind = "FUNCTION"
      /\ \A i \in DOMAIN type.parts : type.parts[i] \in Used(types) \ {NULL}
  BY <1>1, OperandTypes
<1> HIDE DEF type
<1>3. Grown(h) /\ Spare(1) \in Used(h) /\ h[Spare(1)] = type
  BY <1>1, <1>2, GrownByOne
<1>4. Count = 2 => t \in Used(types) \ {NULL}
  BY <1>1, AllAnnotations
<1> HIDE DEF h, t
<1>5. Spare(1) \in Addresses /\ Spare(1) # NULL
  BY <1>3, AddressesAreNumbers DEF Used
<1>6. TableFits(scopes, h)
  <2>1. Fits(h, Typed(n, "FUNCTION", Spare(1))) /\ "FUNCTION" \in SymbolKinds
    BY <1>2, <1>3, <1>5 DEF Fits, Typed, SymbolKinds
  <2>2. QED
    BY <1>5, <2>1, TableFitsAlready, AddFits
<1> HIDE DEF scopes
<1>7. TableFits(inner, h)
  <2>1. "FUNCTION" \in ScopeKinds
    BY DEF ScopeKinds
  <2>2. QED
    BY <1>6, <2>1, PushFits
<1> HIDE DEF inner
<1>8. Count = 2 => TableFits(add(inner, Typed(p, "VARIABLE", t)), h)
  <2>1. SUFFICES ASSUME Count = 2
                 PROVE  TableFits(add(inner, Typed(p, "VARIABLE", t)), h)
    OBVIOUS
  <2>2. t \in Used(h) /\ t # NULL /\ t \in Addresses
    BY <1>3, <1>4, <2>1 DEF Grown, Extends, Used
  <2>3. Fits(h, Typed(p, "VARIABLE", t)) /\ "VARIABLE" \in SymbolKinds
    BY <2>2 DEF Fits, Typed, SymbolKinds
  <2>4. QED
    BY <1>7, <2>2, <2>3, AddFits
<1>9. TableFits(table', h)
  BY <1>1, <1>6, <1>7, <1>8
<1>10. QED
  BY <1>1, <1>3, <1>9, StepDeclares

LEMMA ClassDeclStep ==
  ASSUME TypesInv, NEW n \in Names, ClassDecl(n)
  PROVE  Declaring
<1> DEFINE type == New("AGGREGATE", << >>)
           new == << type >>
           h == With(new)
<1>1. /\ Running /\ Sound /\ UNCHANGED << sized, label_read >>
      /\ aggregate' = Spare(1) /\ operands' = << >> /\ Settle(h) /\ Fit(1)
      /\ table' = add(table, Typed(n, "STRUCT", Spare(1)))
  BY DEF ClassDecl, Declaration
<1>2. /\ GoodType(type) /\ type # Unused /\ ~type.freed /\ type.kind = "AGGREGATE"
      /\ type.parts = << >>
  BY NewTypes DEF New
<1> HIDE DEF type
<1>3. DOMAIN type.parts = {}
  BY <1>2
<1>4. Grown(h) /\ Spare(1) \in Used(h) /\ h[Spare(1)] = type
  BY <1>1, <1>2, <1>3, GrownByOne
<1> HIDE DEF h
<1>5. Spare(1) \in Addresses /\ Spare(1) # NULL
  BY <1>4, AddressesAreNumbers DEF Used
<1>6. TableFits(table', h)
  <2>1. Fits(h, Typed(n, "STRUCT", Spare(1))) /\ "STRUCT" \in SymbolKinds
    BY <1>2, <1>4, <1>5 DEF Fits, Typed, SymbolKinds
  <2>2. QED
    BY <1>1, <1>5, <2>1, TableFitsAlready, AddFits
<1>7. aggregate' \in Used(h) /\ h[aggregate'].kind = "AGGREGATE"
  BY <1>1, <1>2, <1>4
<1>8. QED
  BY <1>1, <1>4, <1>6, <1>7, StepDeclares

LEMMA EnumDeclStep ==
  ASSUME TypesInv, NEW n \in Names, NEW m \in Names, EnumDecl(n, m)
  PROVE  Declaring
<1> DEFINE type == New("SCALAR", << >>)
           new == << type, type >>
           h == With(new)
           scopes == add(table, Typed(n, "ENUM", Spare(1)))
<1>1. Scalar \o Scalar = new
  <2>1. Scalar = << type >>
    BY DEF Scalar
  <2> HIDE DEF type
  <2>2. << type >> \in Seq({type}) /\ type \in {type}
    OBVIOUS
  <2>3. << type >> \o << type >> = Append(<< type >>, type)
    BY <2>2, AppendIsConcat
  <2>4. QED
    BY <2>1, <2>3, AppendPair
<1>2. /\ Running /\ Sound /\ UNCHANGED << sized, label_read >>
      /\ aggregate' = NULL /\ operands' = << >> /\ Settle(h) /\ Fit(2)
      /\ table' = add(scopes, Typed(m, "CONSTANT", Spare(2)))
  BY <1>1 DEF EnumDecl, Statement, Declaration, Outside
<1>3. /\ GoodType(type) /\ type # Unused /\ ~type.freed /\ type.kind = "SCALAR"
      /\ type.parts = << >>
  BY NewTypes DEF New
<1> HIDE DEF type
<1>4. DOMAIN type.parts = {}
  BY <1>3
<1>5. /\ Grown(h) /\ Spare(1) \in Used(h) /\ h[Spare(1)] = type
      /\ Spare(2) \in Used(h) /\ h[Spare(2)] = type
  BY <1>2, <1>3, <1>4, GrownByTwo
<1> HIDE DEF h
<1>6. /\ Spare(1) \in Addresses /\ Spare(1) # NULL
      /\ Spare(2) \in Addresses /\ Spare(2) # NULL
  BY <1>5, AddressesAreNumbers DEF Used
<1>7. TableFits(scopes, h)
  <2>1. Fits(h, Typed(n, "ENUM", Spare(1))) /\ "ENUM" \in SymbolKinds
    BY <1>3, <1>5, <1>6 DEF Fits, Typed, SymbolKinds
  <2>2. QED
    BY <1>6, <2>1, TableFitsAlready, AddFits
<1> HIDE DEF scopes
<1>8. TableFits(table', h)
  <2>1. Fits(h, Typed(m, "CONSTANT", Spare(2))) /\ "CONSTANT" \in SymbolKinds
    BY <1>3, <1>5, <1>6 DEF Fits, Typed, SymbolKinds
  <2>2. QED
    BY <1>2, <1>6, <1>7, <2>1, AddFits
<1>9. QED
  BY <1>2, <1>5, <1>8, StepDeclares

LEMMA LabelStmtStep ==
  ASSUME TypesInv, NEW n \in Names, LabelStmt(n)
  PROVE  Declaring
<1>1. /\ Running /\ Sound /\ UNCHANGED << sized, label_read >>
      /\ aggregate' = NULL /\ operands' = << >> /\ Settle(types)
      /\ table' = add(table, Typed(n, "LABEL", NULL))
  BY DEF LabelStmt, Statement, Declaration, Outside
<1>2. Fits(types, Typed(n, "LABEL", NULL)) /\ "LABEL" \in SymbolKinds
  BY DEF Fits, Typed, SymbolKinds
<1>3. TableFits(table', types)
  BY <1>1, <1>2, TableFitsAlready, AddFits
<1>4. QED
  BY <1>1, <1>3, GrownByNone, StepDeclares

LEMMA ScopeStep ==
  ASSUME TypesInv, BlockBegin \/ ScopeEnd
  PROVE  Declaring
<1>1. /\ Running /\ Sound /\ UNCHANGED << sized, label_read >>
      /\ aggregate' = NULL /\ operands' = << >> /\ Settle(types)
      /\ table' = scope_push(table, "BLOCK") \/ table' = scope_pop(table)
  BY DEF BlockBegin, ScopeEnd, Statement, Declaration, Outside
<1>2. TableFits(table', types)
  <2>1. "BLOCK" \in ScopeKinds /\ table \in TypedTable
    BY DEF ScopeKinds, TypesInv, WalkOK
  <2>2. CASE table' = scope_push(table, "BLOCK")
    BY <2>1, <2>2, TableFitsAlready, PushFits
  <2>3. CASE table' = scope_pop(table)
    BY <2>1, <2>3, ScopePopTyped, SymbolsAreThose DEF TableFits
  <2>4. QED
    BY <1>1, <2>2, <2>3
<1>3. QED
  BY <1>1, <1>2, GrownByNone, StepDeclares

LEMMA ClassEndStep ==
  ASSUME TypesInv, ClassEnd
  PROVE  Declaring
<1>1. /\ Running /\ Sound /\ UNCHANGED << sized, label_read >>
      /\ aggregate' = NULL /\ operands' = << >> /\ Settle(types) /\ table' = table
  BY DEF ClassEnd, Declaration
<1>2. TableFits(table', types)
  BY <1>1, TableFitsAlready
<1>3. QED
  BY <1>1, <1>2, GrownByNone, StepDeclares

LEMMA FieldStep ==
  ASSUME TypesInv, Field
  PROVE  Declaring \/ Faulting
<1> DEFINE t == operands[1].type
           h == [types EXCEPT ![aggregate].parts = Append(@, t)]
<1>1. aggregate # NULL /\ Count = 1 /\ Annotations
  BY DEF Field
<1>2. t \in Used(types) \ {NULL}
  BY <1>1, AllAnnotations
<1>3. aggregate \in Used(types) /\ types[aggregate].kind = "AGGREGATE"
  BY <1>1 DEF TypesInv, WalkOK, Held, Kind
<1>4. CASE Running /\ Fails(t)
  BY <1>2, <1>4, FailsFaults
<1>5. CASE /\ Declaration /\ UNCHANGED << table, aggregate >>
           /\ operands' = << >> /\ Settle(h)
  <2> DEFINE type == [types[aggregate] EXCEPT !.parts = Append(@, t)]
             parts == types[aggregate].parts
  <2>1. aggregate \in Addresses /\ t \in Addresses /\ t # NULL /\ t \in Nat
    BY <1>2, <1>3, AddressesAreNumbers DEF Used
  <2> HIDE DEF t
  <2>2. HeapOK(types) /\ types \in [Addresses -> Type] /\ GoodType(types[aggregate])
        /\ Parts(types, aggregate) \subseteq Used(types)
    BY <2>1 DEF TypesInv, HeapOK
  <2>3. /\ types[aggregate] \in Type /\ parts \in Seq(Nat)
        /\ \A i \in DOMAIN parts : parts[i] \in Used(types) \cup {NULL}
    BY <1>3, <2>2, PartFacts DEF GoodType, Type
  <2>4. h = [types EXCEPT ![aggregate] = type]
    BY <2>1, <2>2
  <2>5. /\ type \in Type /\ type.kind = "AGGREGATE" /\ type.parts = Append(parts, t)
        /\ type.freed = types[aggregate].freed
    <3>1. Append(parts, t) \in Seq(Nat)
      BY <2>1, <2>3, AppendProperties
    <3>2. QED
      BY <1>3, <2>3, <3>1 DEF Type
  <2>6. /\ DOMAIN parts = 1 .. Len(parts) /\ Len(parts) \in Nat
        /\ DOMAIN type.parts = 1 .. Len(parts) + 1
        /\ \A i \in 1 .. Len(parts) : type.parts[i] = parts[i]
        /\ type.parts[Len(parts) + 1] = t
    BY <2>1, <2>3, <2>5, AppendProperties, LenProperties
  <2>7. /\ h \in [Addresses -> Type] /\ h[aggregate] = type
        /\ \A u \in Addresses \ {aggregate} : h[u] = types[u]
    BY <2>1, <2>2, <2>4, <2>5
  <2> HIDE DEF h, type, parts
  <2>8. ASSUME NEW i \in DOMAIN type.parts
        PROVE  type.parts[i] = t \/ \E j \in DOMAIN parts : type.parts[i] = parts[j]
    BY <2>6, <2>8
  <2>9. \A i \in DOMAIN type.parts : type.parts[i] \in Used(types) \cup {NULL}
    BY <1>2, <2>3, <2>8
  <2>10. Used(h) = Used(types)
    <3>1. type # Unused
      BY <2>5 DEF Unused, New
    <3>2. QED
      BY <1>3, <2>1, <2>7, <3>1 DEF Used
  <2>11. GoodType(type)
    BY <2>5, <2>9 DEF GoodType, PartsFit, Used
  <2>12. HeapOK(h)
    <3>1. \A u \in Addresses : GoodType(h[u])
      BY <2>2, <2>7, <2>11 DEF HeapOK
    <3>2. Parts(h, aggregate) \subseteq Used(types)
      BY <2>7, <2>9 DEF Parts
    <3>3. \A u \in Addresses \ {aggregate} : Parts(h, u) \subseteq Used(types)
      BY <2>2, <2>7 DEF HeapOK, Parts
    <3>4. QED
      BY <2>7, <2>10, <3>1, <3>2, <3>3 DEF HeapOK
  <2>13. Keeps(h)
    BY <1>3, <2>5, <2>7, <2>10, <2>12 DEF Keeps, Used
  <2>14. ~label_read => Whole(h)
    <3>1. SUFFICES ASSUME ~label_read
                   PROVE  Whole(h)
      OBVIOUS
    <3>2. Whole(types)
      BY <3>1 DEF TypesInv, NoNull
    <3>3. \A i \in DOMAIN parts : parts[i] # NULL
      BY <2>1, <3>2 DEF Whole, parts
    <3>4. \A i \in DOMAIN type.parts : type.parts[i] # NULL
      BY <2>1, <2>8, <3>3
    <3>5. QED
      BY <2>7, <3>2, <3>4 DEF Whole
  <2>15. ~sized => Intact(h)
    BY <2>1, <2>5, <2>7 DEF Intact, TypesInv, Owned
  <2>16. TableFits(table', h) /\ aggregate' \in {NULL, aggregate}
    BY <1>5, TableFitsAlready
  <2>17. Running /\ Sound /\ UNCHANGED << sized, label_read >>
         /\ operands' = << >> /\ Settle(h)
    BY <1>5 DEF Declaration
  <2>18. QED
    BY <2>13, <2>14, <2>15, <2>16, <2>17 DEF TableFits, Declaring
<1>6. QED
  BY <1>4, <1>5 DEF Field

-----------------------------------------------------------------------------
(***************************************************************************)
(* The size of an array.  A type of its own has one way to each of its     *)
(* parts and none to itself: type_destroy frees each of them once and      *)
(* leaves what declarations can reach.                                     *)
(***************************************************************************)
LEMMA PrivateReach ==
  ASSUME TypesInv, NEW S \in SUBSET Addresses, NEW t, Private(types, S, t)
  PROVE  /\ Reach(types, {t}) \subseteq S
         /\ \A u \in S : \A i \in DOMAIN types[u].parts :
              i = 1 /\ types[u].kind = "POINTER"
<1>1. ASSUME NEW u \in S, NEW i \in DOMAIN types[u].parts
      PROVE  i = 1 /\ types[u].kind = "POINTER"
  <2>1. /\ GoodType(types[u])
        /\ types[u].kind \in {"SCALAR", "FLOATING", "POINTER"}
    BY DEF TypesInv, HeapOK, Private
  <2>2. types[u].parts # << >>
    BY <1>1
  <2>3. types[u].kind = "POINTER" /\ Len(types[u].parts) = 1
        /\ types[u].parts \in Seq(Nat)
    BY <2>1, <2>2 DEF GoodType, PartsFit, Type
  <2>4. i \in 1 .. 1
    BY <1>1, <2>3, LenProperties
  <2>5. QED
    BY <2>3, <2>4
<1>2. Closed(types, S)
  <2>1. ASSUME NEW u \in S, NEW v \in Parts(types, u)
        PROVE  v \in S
    <3>1. PICK i \in DOMAIN types[u].parts : v = types[u].parts[i]
      BY <2>1 DEF Parts
    <3>2. v = types[u].parts[1] /\ types[u].kind = "POINTER"
      BY <1>1, <3>1
    <3>3. QED
      BY <3>2 DEF Private
  <2>2. QED
    BY <2>1 DEF Closed
<1>3. {t} \subseteq S \cup {NULL}
  BY DEF Private
<1>4. QED
  BY <1>1, <1>2, <1>3, ReachLeast

LEMMA PrivateFreedOnce ==
  ASSUME TypesInv, NEW S \in SUBSET Addresses, NEW t, Private(types, S, t), Intact(types)
  PROVE  ~FreesTwice(t)
<1> DEFINE R == Reach(types, {t})
<1>1. R \subseteq S
  BY PrivateReach
<1> HIDE DEF R
<1>2. ASSUME NEW u \in R, NEW way \in Ways(R, u)
      PROVE  /\ way[1] \in S /\ way = << way[1], 1 >>
             /\ types[way[1]].kind = "POINTER" /\ types[way[1]].parts[1] = u
  <2>1. PICK v \in R : way \in {<< v, i >> : i \in {j \in DOMAIN types[v].parts :
                                                      types[v].parts[j] = u}}
    BY <1>2 DEF Ways
  <2>2. PICK i \in DOMAIN types[v].parts : types[v].parts[i] = u /\ way = << v, i >>
    BY <2>1
  <2>3. v \in S /\ i = 1 /\ types[v].kind = "POINTER"
    BY <1>1, <2>1, <2>2, PrivateReach
  <2>4. QED
    BY <2>2, <2>3
<1>3. ASSUME NEW u \in R
      PROVE  ~types[u].freed
  BY <1>1 DEF Intact
<1>4. Ways(R, t) = {} \/ t \notin R
  <2>1. SUFFICES ASSUME t \in R, NEW way \in Ways(R, t)
                 PROVE  FALSE
    OBVIOUS
  <2>2. way[1] \in S /\ types[way[1]].kind = "POINTER" /\ types[way[1]].parts[1] = t
    BY <1>2, <2>1
  <2>3. QED
    BY <2>2 DEF Private
<1>5. ASSUME NEW u \in R, NEW v \in Ways(R, u), NEW w \in Ways(R, u)
      PROVE  v = w
  <2>1. /\ v[1] \in S /\ types[v[1]].kind = "POINTER" /\ types[v[1]].parts[1] = u
        /\ v = << v[1], 1 >>
    BY <1>2
  <2>2. /\ w[1] \in S /\ types[w[1]].kind = "POINTER" /\ types[w[1]].parts[1] = u
        /\ w = << w[1], 1 >>
    BY <1>2
  <2>3. v[1] = w[1]
    BY <2>1, <2>2 DEF Private
  <2>4. QED
    BY <2>1, <2>2, <2>3
<1>6. QED
  BY <1>3, <1>4, <1>5 DEF FreesTwice, R

LEMMA ArrayTypeStep ==
  ASSUME TypesInv, ArrayType
  PROVE  TypesInv'
<1> DEFINE base == Top(1).type
           size == Top(0)
           after == type_destroy({size.type})
           type == New("ARRAY", << base >>)
           h == [after EXCEPT ![Spare(1)] = type]
           broken == FreesTwice(size.type) \/ base = NULL \/ after[base].freed
<1>1. /\ Running /\ table' = table /\ aggregate' = aggregate /\ label_read' = label_read
      /\ IsExpr(0) /\ Count > 1 /\ ~IsExpr(1)
      /\ sized' = (sized \/ size.borrowed)
  BY DEF ArrayType, Visit
<1>2. /\ IF broken
         THEN /\ fault' = IF ~FreesTwice(size.type) /\ base = NULL THEN "null" ELSE "freed"
              /\ UNCHANGED << types, operands >>
         ELSE /\ Sound /\ Fit(1)
              /\ Replace(2, "annotation", Spare(1), FALSE) /\ Settle(h)
  BY DEF ArrayType
<1>3. /\ Returnable(size.type, size.borrowed)
  <2>1. 0 \in {0, 1}
    OBVIOUS
  <2>2. QED
    BY <1>1, <2>1, OperandReturnable
<1>4. /\ Count \in Nat /\ DOMAIN operands = 1 .. Count /\ Count <= MaxOperands
      /\ \A i \in 1 .. Count : operands[i].of \in {"annotation", "expression"}
  BY WalkFacts DEF TypesInv, WalkOK, OperandsFit, Count
<1>5. Count - 1 \in DOMAIN operands /\ Top(1) = operands[Count - 1]
      /\ operands[Count - 1].of = "annotation"
  BY <1>1, <1>4 DEF Top, IsExpr
<1>6. \A i \in 1 .. Count - 1 : i \in DOMAIN operands /\ operands[i].of = "annotation"
  BY <1>5, BelowAnnotations
<1>7. base \in Used(types) /\ base # NULL
  BY <1>5 DEF TypesInv, WalkOK, OperandsFit, Held
<1>8. base \in Addresses
  BY <1>7 DEF Used
<1>9. HeapOK(types) /\ types \in [Addresses -> Type]
  BY DEF TypesInv, HeapOK
<1>10. \A u \in Addresses :
         after[u] = IF u \in Reach(types, {size.type})
                    THEN [types[u] EXCEPT !.freed = TRUE] ELSE types[u]
  BY DEF type_destroy
<1>11. base \in Reach(types, Lent) /\ Reach(types, Lent) \subseteq Used(types)
  <2>1. base \in Lent
    BY <1>5 DEF Lent, LentBy, Annotation
  <2>2. Lent \subseteq Addresses \cup {NULL} /\ Lent \subseteq Used(types) \cup {NULL}
    BY LentAre
  <2>3. QED
    BY <1>7, <1>9, <2>1, <2>2, ReachHolds, ReachUsed
<1>12. ASSUME ~sized'
       PROVE  /\ ~FreesTwice(size.type) /\ Intact(types)
              /\ \A u \in Reach(types, Lent) : after[u] = types[u]
  <2>1. ~sized /\ Intact(types) /\ Owns(types, size.type, Lent)
    BY <1>1, <1>3, <1>12 DEF Returnable, TypesInv, Owned, WalkOK
  <2>2. PICK S \in SUBSET Addresses :
          Private(types, S, size.type) /\ S \cap Reach(types, Lent) = {}
    BY <2>1 DEF Owns
  <2> HIDE DEF size, after
  <2>3. ~FreesTwice(size.type) /\ Reach(types, {size.type}) \subseteq S
    BY <2>1, <2>2, PrivateFreedOnce, PrivateReach
  <2>4. QED
    BY <1>10, <1>11, <2>1, <2>2, <2>3 DEF Used
<1>13. ASSUME broken
       PROVE  TypesInv'
  <2>1. /\ types' = types /\ operands' = operands /\ fault' = "freed"
    BY <1>2, <1>7, <1>13
  <2>2. sized' /\ sized' \in BOOLEAN
    <3>1. SUFFICES ASSUME ~sized'
                   PROVE  FALSE
      BY <1>1, <1>3 DEF TypesInv, WalkOK, Returnable
    <3>2. ~after[base].freed
      BY <1>8, <1>11, <1>12, <3>1 DEF Intact
    <3>3. QED
      BY <1>7, <1>12, <1>13, <3>1, <3>2
  <2>3. HeapOK(types')
    BY <2>1 DEF TypesInv
  <2>4. WalkOK'
    BY <1>1, <2>1, <2>2
       DEF TypesInv, WalkOK, OperandsFit, Held, Used, Symbols, TypeFits, Kind
  <2>5. NoNull'
    BY <1>1, <2>1 DEF TypesInv, NoNull, Whole
  <2>6. Owned'
    BY <2>2 DEF Owned
  <2>7. QED
    BY <2>3, <2>4, <2>5, <2>6 DEF TypesInv
<1>14. ASSUME ~broken
       PROVE  Annotating
  <2>1. /\ Sound /\ Fit(1) /\ Replace(2, "annotation", Spare(1), FALSE) /\ Settle(h)
    BY <1>2, <1>14
  <2> HIDE DEF after, broken, size
  <2>2. Spare(1) \in Addresses /\ types[Spare(1)] = Unused
    BY <2>1, SpareFound DEF Garbage
  <2>3. /\ GoodType(type) /\ type # Unused /\ ~type.freed /\ type.kind = "ARRAY"
        /\ type.parts = << base >>
    BY <1>8, NewTypes DEF New
  <2>4. DOMAIN << base >> = {1} /\ << base >>[1] = base
    OBVIOUS
  <2> HIDE DEF type, base
  <2>5. ASSUME NEW u \in Addresses
        PROVE  /\ after[u] \in Type /\ after[u].kind = types[u].kind
               /\ after[u].parts = types[u].parts
               /\ types[u] # Unused => after[u] # Unused
    <3>1. types[u] \in Type /\ after[u] \in {types[u], [types[u] EXCEPT !.freed = TRUE]}
      BY <1>9, <1>10
    <3>2. after[u] \in Type /\ after[u].kind = types[u].kind
          /\ after[u].parts = types[u].parts
      BY <3>1 DEF Type
    <3>3. types[u] # Unused => after[u] # Unused
      BY <3>1 DEF Type, Unused, New
    <3>4. QED
      BY <3>2, <3>3
  <2>6. after \in [Addresses -> Type]
    <3>1. after = [u \in Addresses |-> after[u]]
      BY DEF after, type_destroy
    <3>2. QED
      BY <2>5, <3>1
  <2>7. /\ h \in [Addresses -> Type] /\ h[Spare(1)] = type
        /\ \A u \in Addresses \ {Spare(1)} : h[u] = after[u]
    BY <2>2, <2>3, <2>6 DEF GoodType
  <2> HIDE DEF h
  <2>8. Used(types) \cup {Spare(1)} \subseteq Used(h) /\ Spare(1) \notin Used(types)
    BY <2>2, <2>3, <2>5, <2>7 DEF Used
  <2>9. HeapOK(h)
    <3>1. \A u \in Addresses : GoodType(h[u])
      BY <1>9, <2>3, <2>5, <2>7 DEF HeapOK, GoodType, PartsFit
    <3>2. Parts(h, Spare(1)) \subseteq Used(types)
      BY <1>7, <2>3, <2>4, <2>7 DEF Parts
    <3>3. \A u \in Addresses \ {Spare(1)} : Parts(h, u) \subseteq Used(types)
      BY <1>9, <2>5, <2>7 DEF HeapOK, Parts
    <3>4. QED
      BY <2>7, <2>8, <3>1, <3>2, <3>3 DEF HeapOK
  <2>10. Keeps(h)
    <3>1. \A u \in Used(types) : u \in Addresses \ {Spare(1)}
      BY <2>8 DEF Used
    <3>2. QED
      BY <2>5, <2>7, <2>8, <2>9, <3>1 DEF Keeps
  <2>11. ~label_read => Whole(h)
    BY <1>7, <2>3, <2>4, <2>5, <2>7 DEF Whole, TypesInv, NoNull
  <2>12. 2 \in 0 .. Count /\ Count - 2 < MaxOperands
    BY <1>1, <1>4, BoundsAssumption
  <2>13. \A i \in 1 .. Count - 2 : i \in 1 .. Count - 1 /\ operands[i].of = "annotation"
    BY <1>4, <1>6
  <2>14. sized' \in BOOLEAN /\ (sized => sized')
    BY <1>1, <1>3 DEF TypesInv, WalkOK, Returnable
  <2>15. ASSUME ~sized'
         PROVE  Intact(types')
    <3> DEFINE kept == Reach(types, Lent) \cup {Spare(1)}
    <3>1. Lent \subseteq Addresses \cup {NULL}
      BY LentAre
    <3>2. /\ Reach(types, Lent) \in SUBSET Addresses
          /\ Lent \subseteq Reach(types, Lent) \cup {NULL}
          /\ Closed(types, Reach(types, Lent))
      BY <1>9, <3>1, ReachIs, ReachHolds, ReachClosed
    <3>3. Closed(h, kept)
      <4>1. Parts(h, Spare(1)) \subseteq kept
        BY <1>11, <2>3, <2>4, <2>7 DEF Parts
      <4>2. ASSUME NEW u \in Reach(types, Lent)
            PROVE  Parts(h, u) \subseteq kept
        <5>1. u \in Addresses \ {Spare(1)}
          BY <1>11, <2>8, <4>2 DEF Used
        <5>2. Parts(h, u) = Parts(types, u)
          BY <2>5, <2>7, <5>1 DEF Parts
        <5>3. QED
          BY <3>2, <4>2, <5>2 DEF Closed
      <4>3. QED
        BY <4>1, <4>2 DEF Closed
    <3>4. Held' \subseteq kept \cup {NULL}
      <4>1. Symbols' = Symbols /\ aggregate' = aggregate
        BY <1>1 DEF Symbols
      <4>2. \A i \in DOMAIN operands' : operands'[i].type \in Lent \cup {Spare(1)}
        <5> DEFINE r == [of |-> "annotation", type |-> Spare(1), borrowed |-> FALSE]
                   m == Count - 2
        <5>1. Spare(1) \in Nat /\ Spare(1) # NULL
          BY <2>2, AddressesAreNumbers
        <5>2. r \in Operand /\ r.of = "annotation" /\ r.type = Spare(1)
          BY <5>1 DEF Operand
        <5>3. operands' = Append(SubSeq(operands, 1, Count - 2), r)
          BY <2>1 DEF Replace
        <5>4. OperandsFit(operands)
          BY DEF TypesInv, WalkOK
        <5> HIDE DEF r
        <5>5. /\ DOMAIN operands' = 1 .. m + 1
              /\ \A i \in 1 .. m : i \in DOMAIN operands /\ operands'[i] = operands[i]
              /\ operands'[m + 1] = r
          <6>1. r.of = "annotation" => /\ r.type # NULL
                                       /\ \A i \in 1 .. m : operands[i].of = "annotation"
            BY <2>13, <5>1, <5>2
          <6>2. 2 \in 0 .. Count /\ Count - 2 < MaxOperands
            BY <2>12
          <6>3. QED
            BY <5>2, <5>3, <5>4, <6>1, <6>2, Replaced
        <5>6. \A i \in 1 .. m + 1 : i \in 1 .. m \/ i = m + 1
          BY <1>4
        <5>7. \A i \in 1 .. m : operands[i].type \in Lent
          BY <2>13, <5>5 DEF Lent, LentBy, Annotation
        <5>8. QED
          BY <5>2, <5>5, <5>6, <5>7
      <4>3. {s.type : s \in Symbols} \cup {aggregate} \subseteq Lent
        BY SymbolsAreThose DEF Lent, LentBy
      <4>4. Held' \subseteq Lent \cup {Spare(1)}
        BY <4>1, <4>2, <4>3 DEF Held
      <4>5. QED
        BY <3>2, <4>4
    <3>5. Reach(h, Held') \subseteq kept
      BY <2>2, <3>2, <3>3, <3>4, ReachLeast
    <3>6. \A u \in kept : ~h[u].freed
      <4>1. ASSUME NEW u \in Reach(types, Lent)
            PROVE  ~h[u].freed
        <5>1. u \in Addresses \ {Spare(1)} /\ after[u] = types[u] /\ ~types[u].freed
          BY <1>11, <1>12, <2>8, <2>15, <4>1 DEF Used, Intact
        <5>2. QED
          BY <2>7, <5>1
      <4>2. QED
        BY <2>3, <2>7, <4>1
    <3>7. \A u \in Addresses : types'[u] = IF u \in Reach(h, Held') THEN h[u] ELSE Unused
      BY <2>1 DEF Settle
    <3>8. QED
      BY <3>5, <3>6, <3>7, GoodUnused DEF Intact
  <2>16. Spare(1) \in Used(h)
    BY <2>8
  <2>17. QED
    BY <1>1, <2>1, <2>10, <2>11, <2>12, <2>13, <2>14, <2>15, <2>16 DEF Annotating
<1>15. QED
  BY <1>13, <1>14, AnnotatingPreserves

-----------------------------------------------------------------------------
(***************************************************************************)
(* The invariant holds at first and after every step.                      *)
(***************************************************************************)
LEMMA TypesInvInitially == Init => TypesInv
<1> SUFFICES ASSUME Init
             PROVE  TypesInv
  OBVIOUS
<1>1. /\ types = [t \in Addresses |-> Unused] /\ operands = << >> /\ aggregate = NULL
      /\ table = << EmptyScope("GLOBAL") >>
      /\ fault = "none" /\ sized = FALSE /\ label_read = FALSE
  BY DEF Init, symbol_table_create
<1>2. HeapOK(types)
  <2>1. types \in [Addresses -> Type]
    BY <1>1, GoodUnused DEF GoodType
  <2>2. ASSUME NEW t \in Addresses
        PROVE  GoodType(types[t]) /\ Parts(types, t) \subseteq Used(types)
    <3>1. types[t] = Unused
      BY <1>1
    <3>2. QED
      BY <3>1, GoodUnused DEF Parts
  <2>3. QED
    BY <2>1, <2>2 DEF HeapOK
<1>3. table \in TypedTable /\ SymbolsIn(table) = {}
  <2> DEFINE scope == EmptyScope("GLOBAL")
  <2>1. scope \in TypedScope /\ SymbolsOf(scope) = {}
    BY EmptySeq DEF EmptyScope, TypedScope, SymbolsOf, ScopeKinds
  <2> HIDE DEF scope
  <2>2. << scope >> \in Seq(TypedScope) /\ << scope >> # << >>
        /\ DOMAIN << scope >> = {1} /\ << scope >>[1] = scope
    BY <2>1
  <2>3. table = << scope >>
    BY <1>1 DEF scope
  <2>4. QED
    BY <2>1, <2>2, <2>3 DEF TypedTable, SymbolsIn
<1>4. Symbols = {}
  BY <1>3, SymbolsAreThose
<1>5. DOMAIN operands = {} /\ OperandsFit(operands)
  <2>1. DOMAIN << >> = {} /\ 0 <= MaxOperands
    BY BoundsAssumption
  <2>2. QED
    BY <1>1, <2>1, EmptySeq DEF OperandsFit
<1>6. WalkOK
  BY <1>1, <1>3, <1>4, <1>5 DEF WalkOK, Held
<1>7. \A t \in Addresses : types[t].parts = << >> /\ ~types[t].freed
  BY <1>1, GoodUnused
<1>8. NoNull
  BY <1>1, <1>5, <1>7 DEF NoNull, Whole
<1>9. Owned
  BY <1>1, <1>5, <1>7 DEF Owned, Intact
<1>10. QED
  BY <1>2, <1>6, <1>8, <1>9 DEF TypesInv

LEMMA TypesInvPreserved == TypesInv /\ [Next]_vars => TypesInv'
<1> SUFFICES ASSUME TypesInv, [Next]_vars
             PROVE  TypesInv'
  OBVIOUS
<1>1. CASE Builtin \/ PointerType \/ FuncPointerType \/ \E n \in Names : NamedType(n)
  BY <1>1, BuiltinStep, PointerTypeStep, FuncPointerTypeStep, NamedTypeStep,
     AnnotatingPreserves
<1>2. CASE ArrayType
  BY <1>2, ArrayTypeStep
<1>3. CASE UnsizedArrayType
  BY <1>3, UnsizedArrayTypeStep, AnnotatingPreserves, FaultingPreserves
<1>4. CASE Literal \/ AddressOf \/ Negation \/ Comparison \/ Assignment \/ Cast
  BY <1>4, LiteralStep, AddressEvaluates, NegationStep, ComparisonStep, AssignmentStep,
     CastStep, EvaluatingPreserves
<1>5. CASE Dereference \/ Arithmetic \/ Index \/ Member \/ PointerMember
  BY <1>5, DereferenceStep, ArithmeticStep, IndexStep, MemberStep, PointerMemberStep,
     EvaluatingPreserves, FaultingPreserves
<1>6. CASE \E n \in Names : Identifier(n) \/ Call(n)
  BY <1>6, IdentifierStep, CallStep, EvaluatingPreserves, FaultingPreserves
<1>7. CASE Drop
  BY <1>7, DropStep, DroppingPreserves
<1>8. CASE BlockBegin \/ ScopeEnd \/ ClassEnd
  BY <1>8, ScopeStep, ClassEndStep, DeclaringPreserves
<1>9. CASE Field
  BY <1>9, FieldStep, DeclaringPreserves, FaultingPreserves
<1>10. CASE \E n \in Names : VarDecl(n) \/ ClassDecl(n) \/ LabelStmt(n)
  BY <1>10, VarDeclStep, ClassDeclStep, LabelStmtStep, DeclaringPreserves
<1>11. CASE \E n, m \in Names : EnumDecl(n, m) \/ \E body \in BOOLEAN : FuncDecl(n, m, body)
  BY <1>11, EnumDeclStep, FuncDeclStep, DeclaringPreserves
<1>12. CASE UNCHANGED vars
  <2>1. /\ types' = types /\ table' = table /\ operands' = operands
        /\ aggregate' = aggregate /\ fault' = fault /\ sized' = sized
        /\ label_read' = label_read
    BY <1>12 DEF vars
  <2>2. HeapOK(types') /\ Lent' = Lent
    BY <2>1 DEF TypesInv, Lent
  <2>3. WalkOK'
    BY <2>1 DEF TypesInv, WalkOK, OperandsFit, Held, Used, Symbols, TypeFits, Kind
  <2>4. NoNull'
    BY <2>1 DEF TypesInv, NoNull, Whole
  <2>5. Owned'
    BY <2>1, <2>2 DEF TypesInv, Owned
  <2>6. QED
    BY <2>2, <2>3, <2>4, <2>5 DEF TypesInv
<1>13. QED
  BY <1>1, <1>2, <1>3, <1>4, <1>5, <1>6, <1>7, <1>8, <1>9, <1>10, <1>11, <1>12 DEF Next

LEMMA TypesInvAlways == Spec => []TypesInv
BY TypesInvInitially, TypesInvPreserved, PTL DEF Spec

-----------------------------------------------------------------------------
(* Whatever program is analysed, and however much of it, every type has    *)
(* the parts of its kind, every symbol a type that fits it, and nothing    *)
(* refers to what is not in the heap (types.h:42-86, semantic.c:324-435).  *)
THEOREM TypesTypeCorrect == Spec => []TypeOK
<1>1. ASSUME TypesInv
      PROVE  TypeOK
  <2>1. types \in [Addresses -> Type] /\ \A t \in Addresses : PartsFit(types[t])
    BY <1>1 DEF TypesInv, HeapOK, GoodType
  <2>2. operands \in Seq(Operand) /\ Count <= MaxOperands
    BY <1>1 DEF TypesInv, WalkOK, OperandsFit, Count
  <2>3. Held \cup UNION {Parts(types, t) : t \in Addresses} \subseteq Addresses \cup {NULL}
    BY <1>1 DEF TypesInv, WalkOK, HeapOK, Used
  <2>4. QED
    BY <1>1, <2>1, <2>2, <2>3 DEF TypesInv, WalkOK, TypeOK
<1>2. QED
  BY <1>1, TypesInvAlways, PTL

(* Whatever program is analysed, no pointer is left to a type that was     *)
(* destroyed as long as no array's size had a declaration's type: what an  *)
(* expression made for itself no declaration can reach, so that destroying *)
(* it takes nothing from anyone (semantic.c:87-95, types.c:16-60).         *)
THEOREM NothingEverDangles == Spec => []NothingDangles
<1>1. ASSUME TypesInv
      PROVE  NothingDangles
  <2>1. SUFFICES ASSUME ~sized
                 PROVE  fault # "freed" /\ \A t \in Reach(types, Held) : Live(t)
    BY DEF NothingDangles
  <2>2. Reach(types, Held) \subseteq Addresses
    BY ReachIs
  <2>3. QED
    BY <1>1, <2>1, <2>2 DEF TypesInv, Owned, Intact, Live
<1>2. QED
  BY <1>1, TypesInvAlways, PTL

(* Whatever program is analysed, a null type is read only after a label    *)
(* was: no part of a type is null before, nor what any expression returned *)
(* (semantic.c:50-281, 554).                                               *)
THEOREM NullComesFromLabels == Spec => []NullOnlyFromLabels
<1>1. ASSUME TypesInv
      PROVE  NullOnlyFromLabels
  BY <1>1 DEF TypesInv, NoNull, NullOnlyFromLabels
<1>2. QED
  BY <1>1, TypesInvAlways, PTL
=============================================================================
