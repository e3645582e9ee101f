---------------------------- MODULE LexicalRules ----------------------------
(***************************************************************************)
(* Lexical scoping and the rules on break and continue                     *)
(* (docs/LANGUAGE.md:167-180 and 796-801), with no symbol table, no depth  *)
(* counter and no diagnostics: a program is a nest of contexts, each with  *)
(* the names declared directly in it, and it is rejected as soon as one    *)
(* rule is broken.  Semantic is shown to implement it.                     *)
(*                                                                         *)
(* These are the rules in the order of the text, and the documentation has *)
(* more: functions may be used before they stand (LANGUAGE.md:195), macros *)
(* and argv are names (215, 530), and a jump does not leave the function   *)
(* it is in.  MCRules compares the analyser with those.                    *)
(***************************************************************************)
EXTENDS Naturals, Sequences

CONSTANT Names

VARIABLES
  contexts,   \* the constructs around the current point, outermost first
  statement,  \* the last statement or clause, with its names and reads
  rejected,   \* whether a rule has been broken
  verdict     \* "open" until the program ends, then "accepted", "rejected"

vars == << contexts, statement, rejected, verdict >>

Roles == {"none", "loop", "switch"}

(* A scoped context holds declarations of its own; in the others they      *)
(* belong to the nearest scoped context.                                   *)
Context == [scoped : BOOLEAN, role : Roles, names : SUBSET Names]

IsScope(i) ==
  /\ contexts[i].scoped
  /\ \A j \in i + 1 .. Len(contexts) : ~contexts[j].scoped

Declared(names) ==
  [i \in DOMAIN contexts |->
     IF IsScope(i) THEN [contexts[i] EXCEPT !.names = @ \cup names]
                   ELSE contexts[i]]

(* A name already in this scope, and a name in no enclosing scope.         *)
Duplicate(names) ==
  \E i \in DOMAIN contexts : IsScope(i) /\ contexts[i].names \cap names # {}
Unknown(names, reads) ==
  \E n \in reads : n \notin names /\ \A i \in DOMAIN contexts :
                                       n \notin contexts[i].names

(* The sizes of an array stand before its name is declared, its initial    *)
(* value behind it.                                                        *)
Broken(names, sizes, reads) ==
  Duplicate(names) \/ Unknown({}, sizes) \/ Unknown(names, reads)

InRole(roles) == \E i \in DOMAIN contexts : contexts[i].role \in roles

-----------------------------------------------------------------------------
Statement(kind, names, sizes, reads) ==
  [kind |-> kind, names |-> names, sizes |-> sizes, reads |-> reads]
None == Statement("none", {}, {}, {})

(* The statement read next, and whether it breaks a rule.                  *)
Read(kind, names, sizes, reads, broken) ==
  /\ contexts # << >>
  /\ statement' = Statement(kind, names, sizes, reads)
  /\ rejected' = (rejected \/ broken)
  /\ UNCHANGED verdict

(* A statement or declaration with nothing nested in it.                   *)
Simple(names, sizes, reads) ==
  /\ Read("other", names, sizes, reads, Broken(names, sizes, reads))
  /\ contexts' = Declared(names)

Break ==
  /\ Read("break", {}, {}, {}, ~InRole({"loop", "switch"}))
  /\ UNCHANGED contexts

Continue ==
  /\ Read("continue", {}, {}, {}, ~InRole({"loop"}))
  /\ UNCHANGED contexts

Open(names, reads, scoped, role) ==
  /\ Read("other", names, {}, reads, Broken(names, {}, reads))
  /\ contexts' = Append(Declared(names),
                        [scoped |-> scoped, role |-> role, names |-> {}])

(* The clauses of a for are over; what follows is the body of the loop.    *)
LoopBody(reads) ==
  /\ Read("other", {}, {}, reads, Broken({}, {}, reads))
  /\ contexts' = [contexts EXCEPT ![Len(contexts)].role = "loop"]

(* The parameters of a function are over and its body follows, or text     *)
(* goes by that the rules are not applied to.                              *)
PassOver ==
  /\ contexts # << >>
  /\ statement' = None
  /\ UNCHANGED << contexts, rejected, verdict >>

Close ==
  /\ contexts # << >>
  /\ contexts' = SubSeq(contexts, 1, Len(contexts) - 1)
  /\ statement' = None
  /\ UNCHANGED << rejected, verdict >>

Begin ==
  /\ contexts = << >> /\ verdict = "open"
  /\ contexts' = << [scoped |-> TRUE, role |-> "none", names |-> {}] >>
  /\ statement' = None
  /\ UNCHANGED << rejected, verdict >>

End ==
  /\ Len(contexts) = 1
  /\ contexts' = << >>
  /\ statement' = None
  /\ verdict' = IF rejected THEN "rejected" ELSE "accepted"
  /\ UNCHANGED rejected

Init == contexts = << >> /\ statement = None /\ rejected = FALSE /\ verdict = "open"

NameSets == {{}} \cup {{n} : n \in Names}

Next ==
  \/ \E names, reads \in NameSets :
       \/ \E sizes \in NameSets : Simple(names, sizes, reads)
       \/ \E scoped \in BOOLEAN, role \in Roles : Open(names, reads, scoped, role)
  \/ \E reads \in NameSets : LoopBody(reads)
  \/ Break \/ Continue \/ PassOver \/ Close \/ Begin \/ End

Spec == Init /\ [][Next]_vars
=============================================================================
