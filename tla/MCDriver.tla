------------------------------ MODULE MCDriver ------------------------------
(***************************************************************************)
(* Driver on small instances: two source files left/x.HC and right/x.HC,   *)
(* which have the same name in /tmp, and one -o name.                      *)
(***************************************************************************)
EXTENDS Driver

CONSTANTS left, right, tmp, out

SameBasename == [s \in {left, right} |-> tmp]

Command(stem, output, mode, run, keep_c) ==
  [stem |-> stem, output |-> output, mode |-> mode, run |-> run,
   keep_c |-> keep_c]

(* Command lines whose paths overlap in different ways: the C file, the    *)
(* executable, and the C file of one with the executable of another.       *)
Overlapping ==
  { Command(left, NoOutput, "compile", FALSE, FALSE),
    Command(right, NoOutput, "compile", TRUE, FALSE),
    Command(right, NoOutput, "compile", FALSE, TRUE),
    Command(left, out, "compile", TRUE, FALSE),
    Command(right, out, "c", FALSE, FALSE),
    Command(right, NoOutput, "c", TRUE, FALSE) }

(* With command lines that return at an early stage.                       *)
AllKinds ==
  Overlapping \cup { Command(left, NoOutput, "tokens", FALSE, FALSE),
                    Command(left, NoOutput, "ast", FALSE, FALSE) }
=============================================================================
