---------------------------- MODULE Diagnostics ----------------------------
(***************************************************************************)
(* The diagnostics collector of src/diag.c: a fixed-capacity list of       *)
(* messages and the had_error flag every pass consults.  A message is      *)
(* abstracted to its level; file, line, column and text are left out.      *)
(* A collector is a value, so that the modules that own one (Semantic,     *)
(* Driver) keep it in a variable of theirs.                                *)
(***************************************************************************)
EXTENDS Naturals, Sequences

CONSTANT MaxDiagnostics   \* MAX_DIAGNOSTICS, 256 in the program

ASSUME MaxDiagnosticsAssumption == MaxDiagnostics \in Nat \ {0}

Levels == {"error", "warning", "note"}

(* `list' holds the levels of items[0..count-1].                           *)
Collector == [had_error : BOOLEAN, list : Seq(Levels)]

diagnostics_create == [had_error |-> FALSE, list |-> << >>]

(* A bug: a list that grows without end.                                   *)
diag_emit_unbounded(d, level) == [d EXCEPT !.list = Append(@, level)]

(* A full list drops the message; the caller is not told.                  *)
diag_emit(d, level) ==
  IF Len(d.list) >= MaxDiagnostics
  THEN d
  ELSE [d EXCEPT !.list = Append(@, level)]

(* A bug: an error that raises the flag and says nothing.                  *)
diag_error_silent(d) == [d EXCEPT !.had_error = TRUE]

(* The flag is raised before the message is stored, and whether or not the *)
(* list had room for it.                                                   *)
diag_error(d)   == diag_emit([d EXCEPT !.had_error = TRUE], "error")
diag_warning(d) == diag_emit(d, "warning")
diag_note(d)    == diag_emit(d, "note")

Stored(d, level) == \E i \in DOMAIN d.list : d.list[i] = level
=============================================================================
