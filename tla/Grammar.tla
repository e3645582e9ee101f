------------------------------- MODULE Grammar -------------------------------
(***************************************************************************)
(* Context-free grammars: which sequences of tokens a grammar derives, and *)
(* the short ones enumerated.  A grammar is a function from nonterminals   *)
(* to sets of forms; a form is a sequence of nonterminals and tokens.      *)
(***************************************************************************)
LOCAL INSTANCE Integers
LOCAL INSTANCE Sequences
LOCAL INSTANCE FiniteSetsExt
LOCAL INSTANCE SequencesExt
LOCAL INSTANCE TLC

(* Where in s a form that begins at one of `starts' may end.  No form may  *)
(* begin, behind symbols that are empty, with the nonterminal it belongs   *)
(* to.                                                                     *)
RECURSIVE Ends(_, _, _, _)
Ends(grammar, form, s, starts) ==
  IF form = << >> \/ starts = {} THEN starts
  ELSE LET x == Head(form)
           next == IF x \in DOMAIN grammar
                   THEN UNION {Ends(grammar, f, s, starts) : f \in grammar[x]}
                   ELSE {i + 1 : i \in {j \in starts : j <= Len(s) /\ s[j] = x}}
       IN Ends(grammar, Tail(form), s, next)

Derives(grammar, form, s) == Len(s) + 1 \in Ends(grammar, form, s, {1})

(* The number of tokens a form has at least, when the nonterminals in      *)
(* `empty', and they alone, derive the empty sentence.                     *)
LOCAL MinLength(form, empty) == Len(SelectSeq(form, LAMBDA x : x \notin empty))

(* The number of tokens the first symbol may take of n.                    *)
LOCAL Shares(form, empty, n) ==
  MinLength(<< Head(form) >>, empty) .. n - MinLength(Tail(form), empty)

(* The sentences of exactly n tokens that a form derives, given those of   *)
(* every nonterminal for the lengths in DOMAIN shorter.  No form may derive*)
(* itself without a token beside it.                                       *)
RECURSIVE OfLength(_, _, _, _, _)
OfLength(grammar, empty, shorter, form, n) ==
  IF form = << >> THEN IF n = 0 THEN {<< >>} ELSE {}
  ELSE LET head == Head(form)
           OfHead(i) == IF i \in DOMAIN shorter THEN shorter[i][head]
                        ELSE UNION {OfLength(grammar, empty, shorter, f, i) : f \in grammar[head]}
           OfRest(i) == OfLength(grammar, empty, shorter, Tail(form), i)
       IN IF head \notin DOMAIN grammar
          THEN IF n = 0 THEN {} ELSE {<< head >> \o t : t \in OfRest(n - 1)}
          ELSE UNION { IF OfHead(i) = {} THEN {}
                       ELSE {s \o t : s \in OfHead(i), t \in OfRest(n - i)}
                       : i \in Shares(form, empty, n) }

RECURSIVE Table(_, _, _)
Table(grammar, empty, max) ==
  IF max < 0 THEN << >>
  ELSE LET shorter == Table(grammar, empty, max - 1)
           Row(x, row) ==
             (x :> UNION {OfLength(grammar, empty, shorter, f, max) : f \in grammar[x]}) @@ row
       IN (max :> FoldSet(Row, << >>, DOMAIN grammar)) @@ shorter

Sentences(grammar, empty, start, max) ==
  LET table == Table(grammar, empty, max)
  IN UNION {table[n][start] : n \in 0 .. max}

(* The texts one token away from a sentence: one left out, one put in, one *)
(* replaced by another.                                                    *)
NearMisses(s, tokens) ==
  {RemoveAt(s, i) : i \in 1 .. Len(s)}
  \cup {InsertAt(s, i, t) : i \in 1 .. Len(s) + 1, t \in tokens}
  \cup {[s EXCEPT ![i] = t] : i \in 1 .. Len(s), t \in tokens}
=============================================================================
