----------------------------- MODULE MCTryCatch -----------------------------
(***************************************************************************)
(* TryCatch on all short programs that use one try at a time, and on three *)
(* that do not.                                                            *)
(***************************************************************************)
EXTENDS TryCatch

Bodies(S) == {<< >>} \cup {<< a >> : a \in S} \cup {<< a, b >> : a, b \in S}
Tries(S, H) == {Try(body, handler) : body \in Bodies(S), handler \in {<< >>} \cup {<< h >> : h \in H}}

(* F throws, and is called from try bodies; or has tries of its own, and   *)
(* is called from elsewhere.                                               *)
OneAtATime ==
  [main : Bodies({Return} \cup Tries({Throw, Return, CallF}, {Return})),
   f    : {<< >>, << Throw >>, << Return, Throw >>}]
  \cup
  [main : Bodies({Return, CallF} \cup Tries({Throw, Return}, {CallF})),
   f    : {<< try, Return >> : try \in Tries({Throw, Return}, {Return})}]

(* The outer body throws after the inner try is over, or after F has       *)
(* returned from a try body of its own; or the inner handler throws.       *)
ThrowAfterTry ==
  {[main |-> << Try(<< Try(<< Throw >>, << CallF, Throw >>) >>, << >>) >>, f |-> << >>],
   [main |-> << Try(<< Try(<< >>, << CallF >>), Throw >>, << >>) >>, f |-> << >>],
   [main |-> << Try(<< CallF, Throw >>, << >>) >>, f |-> << Try(<< Return >>, << >>) >>]}
=============================================================================
