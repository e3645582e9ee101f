----------------------------- MODULE Exceptions -----------------------------
(***************************************************************************)
(* What try, catch and throw promise (docs/LANGUAGE.md:699-709, 805-817):  *)
(* a throw leaves the innermost try body being executed, however many      *)
(* calls ago it was entered, and goes on with its handler.  The program    *)
(* executed has a main and a function F; of its statements only those are  *)
(* left that touch the exceptions or the calls.                            *)
(***************************************************************************)
EXTENDS Integers, Sequences

CONSTANT Programs   \* records of a main and an F, both sequences of statements

VARIABLES
  program,   \* the one executed
  stack,     \* for each activation, innermost last, what it has still to execute
  outcome    \* how the program ended, if it did

(* Statements; the last one ends a try body that is being executed.        *)
Statement(op, body, handler) == [op |-> op, body |-> body, handler |-> handler]
Throw  == Statement("throw", << >>, << >>)
Return == Statement("return", << >>, << >>)
CallF  == Statement("call", << >>, << >>)
Try(body, handler) == Statement("try", body, handler)
EndOfTry(handler)  == Statement("end of try", << >>, handler)

Depth == Len(stack)
Code  == stack[Depth]
At(op) == outcome = "running" /\ Code # << >> /\ Head(Code).op = op

(* The innermost activation goes on with `code'.                           *)
GoOn(code) == stack' = [stack EXCEPT ![Depth] = code]

-----------------------------------------------------------------------------
EnterTry ==
  /\ At("try")
  /\ LET try == Head(Code) IN GoOn(try.body \o << EndOfTry(try.handler) >> \o Tail(Code))
  /\ UNCHANGED << program, outcome >>

LeaveTry ==
  /\ At("end of try")
  /\ GoOn(Tail(Code))
  /\ UNCHANGED << program, outcome >>

Call ==
  /\ At("call")
  /\ stack' = Append([stack EXCEPT ![Depth] = Tail(Code)], program.f)
  /\ UNCHANGED << program, outcome >>

(* An activation ends with a return or with its last statement.            *)
Leave ==
  /\ At("return") \/ (outcome = "running" /\ Code = << >>)
  /\ stack' = SubSeq(stack, 1, Depth - 1)
  /\ outcome' = IF Depth = 1 THEN "finished" ELSE outcome
  /\ UNCHANGED program

(* Where the try bodies being executed end, as places in the stack.        *)
TryBodies ==
  UNION {{<< d, i >> : i \in {j \in DOMAIN stack[d] : stack[d][j].op = "end of try"}}
         : d \in 1 .. Depth}
Inner(p, q) == p[1] > q[1] \/ (p[1] = q[1] /\ p[2] <= q[2])
Innermost == CHOOSE p \in TryBodies : \A q \in TryBodies : Inner(p, q)

(* The stack with the handler of the try body at p entered.                *)
Caught(p) ==
  LET code == stack[p[1]] IN
  Append(SubSeq(stack, 1, p[1] - 1), code[p[2]].handler \o SubSeq(code, p[2] + 1, Len(code)))

ThrowToHandler ==
  /\ At("throw")
  /\ IF TryBodies = {} THEN outcome' = "uncaught" /\ UNCHANGED stack
     ELSE stack' = Caught(Innermost) /\ UNCHANGED outcome
  /\ UNCHANGED program
-----------------------------------------------------------------------------
Init ==
  /\ program \in Programs
  /\ stack = << program.main >>
  /\ outcome = "running"

Next == EnterTry \/ LeaveTry \/ Call \/ Leave \/ ThrowToHandler

Spec == Init /\ [][Next]_<< program, stack, outcome >>
=============================================================================
