-------------------------- MODULE DiagnosticsProofs --------------------------
(***************************************************************************)
(* What storing a message preserves: cited by the proofs about the         *)
(* components that keep a collector.                                       *)
(***************************************************************************)
EXTENDS Diagnostics, SequenceTheorems, TLAPS

BoundedCollector(d) == d \in Collector /\ Len(d.list) <= MaxDiagnostics

(* Storing a message keeps the list within its capacity and never lowers   *)
(* the error flag (diag.c:73-97).                                          *)
LEMMA DiagEmitBounded ==
  ASSUME NEW d, BoundedCollector(d), NEW level \in Levels
  PROVE  /\ BoundedCollector(diag_emit(d, level))
         /\ diag_emit(d, level).had_error = d.had_error
<1>1. d \in Collector /\ d.list \in Seq(Levels)
  BY DEF BoundedCollector, Collector
<1>2. CASE Len(d.list) >= MaxDiagnostics
  BY <1>2 DEF diag_emit
<1>3. CASE ~(Len(d.list) >= MaxDiagnostics)
  <2>1. /\ Append(d.list, level) \in Seq(Levels)
        /\ Len(Append(d.list, level)) = Len(d.list) + 1
    BY <1>1, AppendProperties
  <2> DEFINE longer == Append(d.list, level)
  <2>2. diag_emit(d, level) = [d EXCEPT !.list = longer]
    BY <1>3 DEF diag_emit
  <2>3. Len(longer) <= MaxDiagnostics
    BY <1>1, <1>3, <2>1, LenProperties, MaxDiagnosticsAssumption
  <2>4. longer \in Seq(Levels)
    BY <2>1
  <2> HIDE DEF longer
  <2>5. /\ diag_emit(d, level) \in Collector
        /\ diag_emit(d, level).had_error = d.had_error
        /\ diag_emit(d, level).list = longer
    BY <1>1, <2>2, <2>4 DEF Collector
  <2>6. QED
    BY <2>3, <2>5 DEF BoundedCollector
<1>4. QED
  BY <1>2, <1>3

LEMMA DiagErrorBounded ==
  ASSUME NEW d, BoundedCollector(d)
  PROVE  BoundedCollector(diag_error(d)) /\ diag_error(d).had_error = TRUE
<1> DEFINE raised == [d EXCEPT !.had_error = TRUE]
<1>1. BoundedCollector(raised) /\ raised.had_error = TRUE
  BY DEF BoundedCollector, Collector
<1> HIDE DEF raised
<1>2. QED
  BY <1>1, DiagEmitBounded DEF diag_error, raised, Levels

LEMMA DiagWarningBounded ==
  ASSUME NEW d, BoundedCollector(d)
  PROVE  BoundedCollector(diag_warning(d))
BY DiagEmitBounded DEF diag_warning, Levels

LEMMA DiagNoteBounded ==
  ASSUME NEW d, BoundedCollector(d)
  PROVE  BoundedCollector(diag_note(d)) /\ diag_note(d).had_error = d.had_error
BY DiagEmitBounded DEF diag_note, Levels

-----------------------------------------------------------------------------
(* What a rejection is explained by: an error that was raised is in the    *)
(* list, or there was no room for it.                                      *)
Explained(d) ==
  d.had_error => Stored(d, "error") \/ Len(d.list) = MaxDiagnostics

Kept(d) == BoundedCollector(d) /\ Explained(d)

(* An error that is in the list stays there, and a list that is full stays *)
(* full (diag.c:73-88).                                                    *)
LEMMA DiagEmitKept ==
  ASSUME NEW d, BoundedCollector(d), NEW level \in Levels,
         level = "error" \/ Explained(d)
  PROVE  Kept(diag_emit(d, level))
<1>1. d \in Collector /\ d.list \in Seq(Levels)
  BY DEF BoundedCollector, Collector
<1>2. BoundedCollector(diag_emit(d, level)) /\ diag_emit(d, level).had_error = d.had_error
  BY DiagEmitBounded
<1>3. CASE Len(d.list) >= MaxDiagnostics
  <2>1. Len(d.list) = MaxDiagnostics
    BY <1>1, <1>3, LenProperties, MaxDiagnosticsAssumption DEF BoundedCollector
  <2>2. QED
    BY <1>2, <1>3, <2>1 DEF diag_emit, Kept, Explained
<1>4. CASE ~(Len(d.list) >= MaxDiagnostics)
  <2> DEFINE longer == Append(d.list, level)
  <2>1. /\ longer \in Seq(Levels) /\ Len(longer) = Len(d.list) + 1
        /\ \A i \in 1 .. Len(d.list) : longer[i] = d.list[i]
        /\ longer[Len(d.list) + 1] = level
        /\ DOMAIN d.list = 1 .. Len(d.list) /\ Len(d.list) \in Nat
    BY <1>1, AppendProperties, LenProperties
  <2>2. diag_emit(d, level).list = longer
    BY <1>1, <1>4 DEF diag_emit, Collector
  <2>3. DOMAIN longer = 1 .. Len(d.list) + 1
    BY <2>1, LenProperties
  <2> HIDE DEF longer
  <2>4. ASSUME level = "error"
        PROVE  Stored(diag_emit(d, level), "error")
    BY <2>1, <2>2, <2>3, <2>4 DEF Stored
  <2>5. ASSUME Stored(d, "error")
        PROVE  Stored(diag_emit(d, level), "error")
    <3>1. PICK i \in DOMAIN d.list : d.list[i] = "error"
      BY <2>5 DEF Stored
    <3>2. i \in DOMAIN longer /\ longer[i] = "error"
      BY <2>1, <2>3, <3>1
    <3>3. QED
      BY <2>2, <3>2 DEF Stored
  <2>6. Len(d.list) # MaxDiagnostics
    BY <1>4, MaxDiagnosticsAssumption
  <2>7. QED
    BY <1>2, <2>4, <2>5, <2>6 DEF Kept, Explained
<1>5. QED
  BY <1>3, <1>4

(* A collector is created empty, and every message keeps it explained.     *)
LEMMA DiagKept ==
  /\ Kept(diagnostics_create) /\ ~diagnostics_create.had_error
  /\ \A d : Kept(d) =>
       /\ Kept(diag_error(d)) /\ Kept(diag_warning(d)) /\ Kept(diag_note(d))
<1>1. Kept(diagnostics_create) /\ ~diagnostics_create.had_error
  <2>1. << >> \in Seq(Levels) /\ Len(<< >>) = 0
    BY EmptySeq
  <2>2. QED
    BY <2>1, MaxDiagnosticsAssumption
       DEF Kept, Explained, BoundedCollector, Collector, diagnostics_create
<1>2. ASSUME NEW d, Kept(d)
      PROVE  Kept(diag_warning(d)) /\ Kept(diag_note(d))
  BY <1>2, DiagEmitKept DEF Kept, diag_warning, diag_note, Levels
<1>3. ASSUME NEW d, Kept(d)
      PROVE  Kept(diag_error(d))
  <2> DEFINE raised == [d EXCEPT !.had_error = TRUE]
  <2>1. BoundedCollector(raised)
    BY <1>3 DEF Kept, BoundedCollector, Collector
  <2> HIDE DEF raised
  <2>2. QED
    BY <2>1, DiagEmitKept DEF diag_error, raised, Levels
<1>4. QED
  BY <1>1, <1>2, <1>3
=============================================================================
