---------------------------- MODULE SymbolTable ----------------------------
(***************************************************************************)
(* The scoped symbol table of src/symbol/symbol.c.                         *)
(*                                                                         *)
(* A table is the chain of scopes from the global one (index 1) to         *)
(* current_scope (the last): scope->parent is the scope one index below.   *)
(* A scope keeps its symbols in the order of first_symbol .. last_symbol.  *)
(* A symbol is abstracted to its name and kind; types, storage class and   *)
(* locations are left out.                                                 *)
(***************************************************************************)
EXTENDS Diagnostics

CONSTANT Names            \* the identifiers of the program

ScopeKinds  == {"GLOBAL", "FUNCTION", "BLOCK"}
SymbolKinds == {"VARIABLE", "FUNCTION", "STRUCT", "ENUM", "CONSTANT", "LABEL"}

Symbol == [name : Names, kind : SymbolKinds]
Scope  == [kind : ScopeKinds, symbols : Seq(Symbol)]
Table  == Seq(Scope) \ {<< >>}

EmptyScope(kind) == [kind |-> kind, symbols |-> << >>]

symbol_table_create == << EmptyScope("GLOBAL") >>

current_scope(table) == table[Len(table)]

scope_push(table, kind) == Append(table, EmptyScope(kind))

(* A bug: a scope that is left and stays.                                  *)
scope_pop_nothing(table) == table

(* The global scope has no parent and is never popped.                     *)
scope_pop(table) ==
  IF Len(table) = 1 THEN table ELSE SubSeq(table, 1, Len(table) - 1)

Declares(scope, name) ==
  \E i \in DOMAIN scope.symbols : scope.symbols[i].name = name

symbol_lookup_current_scope(table, name) == Declares(current_scope(table), name)

(* A bug: a walk that ends at the innermost scope.                         *)
symbol_lookup_innermost(table, name) == Declares(current_scope(table), name)

(* Lookup walks from current_scope to the global scope; here it is whether *)
(* the walk finds a symbol.                                                *)
symbol_lookup(table, name) == \E d \in DOMAIN table : Declares(table[d], name)

(* A table together with the collector it reports to: what the operations  *)
(* that may report an error take and return.                               *)
State(table, diag) == [table |-> table, diag |-> diag]

AppendSymbol(table, symbol) ==
  [table EXCEPT ![Len(table)].symbols = Append(@, symbol)]

(* A bug: duplicates are added.                                            *)
symbol_add_unchecked(st, name, kind) ==
  State(AppendSymbol(st.table, [name |-> name, kind |-> kind]), st.diag)

(* A duplicate reports an error and a note on the previous declaration and *)
(* leaves the table alone.                                                 *)
symbol_add(st, name, kind) ==
  IF symbol_lookup_current_scope(st.table, name)
  THEN State(st.table, diag_note(diag_error(st.diag)))
  ELSE State(AppendSymbol(st.table, [name |-> name, kind |-> kind]), st.diag)

(* No scope holds two symbols of one name, so that the first match of a    *)
(* lookup is the only one.                                                 *)
UniqueNames(table) ==
  \A d \in DOMAIN table : \A i, j \in DOMAIN table[d].symbols :
    table[d].symbols[i].name = table[d].symbols[j].name => i = j
=============================================================================
