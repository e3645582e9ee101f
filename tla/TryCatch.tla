------------------------------ MODULE TryCatch ------------------------------
(***************************************************************************)
(* The C program that src/codegen/codegen.c generates for try, catch and   *)
(* throw: one global jmp_buf, set when a try is entered and never reset.   *)
(***************************************************************************)
EXTENDS Exceptions

VARIABLE
  jmp_buf    \* the setjmp that a longjmp returns to: the activation's depth
             \* and what it executes when setjmp returns for the second time

tcvars == << program, stack, outcome, jmp_buf >>

Unset    == [depth |-> 0, code |-> << >>]
Dangling == [depth |-> -1, code |-> << >>]   \* its activation has returned

-----------------------------------------------------------------------------
(* Bugs: setjmp is called in a function of the runtime, which returns; it  *)
(* is not called; its result is not looked at.                             *)
TRY_STMT_inHelper ==
  /\ EnterTry
  /\ jmp_buf' = [depth |-> Depth + 1, code |-> Head(Code).handler \o Tail(Code)]
TRY_STMT_unset == EnterTry /\ UNCHANGED jmp_buf
TRY_STMT_untested == EnterTry /\ jmp_buf' = [depth |-> Depth, code |-> Code]

(* setjmp, and the body because it returned 0.                             *)
TRY_STMT ==
  /\ EnterTry
  /\ jmp_buf' = [depth |-> Depth, code |-> Head(Code).handler \o Tail(Code)]

(* The end of the body jumps over the handler and does nothing else.       *)
CATCH_STMT == LeaveTry /\ UNCHANGED jmp_buf

CALL_EXPR == Call /\ UNCHANGED jmp_buf

(* A return from a try body is a return.                                   *)
RETURN_STMT ==
  /\ Leave
  /\ jmp_buf' = IF jmp_buf.depth = Depth THEN Dangling ELSE jmp_buf

(* longjmp through a buffer that was never set, or whose function has      *)
(* returned, is undefined.  Its second argument is 1 + (int)(value), and   *)
(* setjmp returns 1 when that is 0: the handler is entered in any case.    *)
THROW_STMT ==
  /\ At("throw")
  /\ IF jmp_buf.depth \in 1 .. Depth
     THEN /\ stack' = Append(SubSeq(stack, 1, jmp_buf.depth - 1), jmp_buf.code)
          /\ UNCHANGED outcome
     ELSE /\ outcome' = "undefined"
          /\ UNCHANGED stack
  /\ UNCHANGED << program, jmp_buf >>

TryCatchInit == Init /\ jmp_buf = Unset

TryCatchNext == TRY_STMT \/ CATCH_STMT \/ CALL_EXPR \/ RETURN_STMT \/ THROW_STMT

(* The program runs on as long as it can.                                  *)
TryCatchSpec == TryCatchInit /\ [][TryCatchNext]_tcvars /\ WF_tcvars(TryCatchNext)
-----------------------------------------------------------------------------
(***************************************************************************)
(* Correctness.                                                            *)
(***************************************************************************)
Ops == {"throw", "return", "call", "try", "end of try"}

TypeOK ==
  /\ \A d \in DOMAIN stack : \A i \in DOMAIN stack[d] : stack[d][i].op \in Ops
  /\ outcome \in {"running", "finished", "uncaught", "undefined"}
  /\ jmp_buf.depth \in Int /\ jmp_buf.depth >= -1
  /\ outcome = "running" => jmp_buf.depth <= Depth

(* When one buffer is enough: at most one try body is being executed, and  *)
(* nothing is thrown outside it.                                           *)
OneTryAtATime ==
  /\ \A p, q \in TryBodies : p = q
  /\ At("throw") => TryBodies # {}

(* The promise kept: every step of the C program is one of Exceptions.     *)
ImplementsExceptions == Spec

(* A throw inside a try body is caught, and enters the handler of the      *)
(* innermost try body being executed, never one of a try that is over or   *)
(* goes on around it (codegen.c:1091-1135).                                *)
ThrowReachesInnermost ==
  ~ENABLED (THROW_STMT /\ TryBodies # {} /\ stack' # Caught(Innermost))

(* Without loops or recursion in it, the program ends.                     *)
Ends == <>(outcome # "running")
=============================================================================
