------------------------------ MODULE CReader ------------------------------
(***************************************************************************)
(* How a C compiler reads the text that the code generator writes: its     *)
(* tokens, its expressions, the statements that a switch enters and the    *)
(* names that are declared.  None of it is code of the program; it is as   *)
(* much of C as the text calls for.                                        *)
(***************************************************************************)
EXTENDS CodeGen

(***************************************************************************)
(* Tokens.  Minus signs next to each other are joined in pairs; a literal  *)
(* is a token that is a leaf of the tree already.                          *)
(***************************************************************************)
Minus == {"-", "--"}
RECURSIVE MinusRun(_)
MinusRun(text) ==
  IF text = << >> \/ Head(text) \notin Minus THEN << >>
  ELSE << Head(text) >> \o MinusRun(Tail(text))
Joined(run) ==
  LET signs == Cardinality({i \in DOMAIN run : run[i] = "-"})
               + 2 * Cardinality({i \in DOMAIN run : run[i] = "--"})
  IN [i \in 1 .. signs \div 2 |-> Text("--")] \o IF signs % 2 = 1 THEN << Text("-") >> ELSE << >>

(* The place of the quote that ends a literal, or the end of the text.     *)
RECURSIVE Closing(_, _)
Closing(text, i) ==
  IF i > Len(text) THEN Len(text) + 1
  ELSE IF text[i] = text[1] THEN i
  ELSE Closing(text, IF text[i] = "\\" THEN i + 2 ELSE i + 1)

(* What the characters in a literal stand for: an escape is one character. *)
RECURSIVE Denoted(_)
Denoted(chars) ==
  CASE chars = << >>  -> << >>
    [] Len(chars) > 1 /\ chars[1] = "\\" ->
         << IF chars[2] \in {"$", "\"", "'", "\\"} THEN chars[2] ELSE "\\" \o chars[2] >>
         \o Denoted(Tail(Tail(chars)))
    [] OTHER          -> << chars[1] >> \o Denoted(Tail(chars))

RECURSIVE Tokens(_)
Tokens(text) ==
  IF text = << >> THEN << >>
  ELSE IF Head(text) = " " THEN Tokens(Tail(text))
  ELSE IF Head(text) \in Minus
  THEN LET run == MinusRun(text) IN Joined(run) \o Tokens(After(Len(run), text))
  ELSE IF Head(text) \in {"\"", "'"}
  THEN LET end == Closing(text, 2) IN
       << Node(IF text[1] = "'" THEN "CHAR_LITERAL" ELSE "STRING_LITERAL",
               Denoted(SubSeq(text, 2, end - 1)), << >>) >>
       \o Tokens(After(end, text))
  ELSE << Text(Head(text)) >> \o Tokens(Tail(text))

-----------------------------------------------------------------------------
(***************************************************************************)
(* Expressions.  An operator between two operands stands in parentheses    *)
(* with them, so that no precedence is called for.  A reader returns the   *)
(* node and the tokens behind it.                                          *)
(***************************************************************************)
Numerals  == {ToString(n) : n \in 0 .. 2 ^ Width}
(* Numbers with a point, in halves.                                        *)
Halves     == 0 .. 2 ^ (Width + 1)
Decimal(n) == ToString(n \div 2) \o IF n % 2 = 0 THEN ".0" ELSE ".5"
Bad(rest) == << Node("BAD", "", << >>), rest >>
IsOneOf(tokens, pieces) ==
  tokens # << >> /\ Head(tokens).kind = "TEXT" /\ Head(tokens).value \in pieces
Is(tokens, piece) == IsOneOf(tokens, {piece})
InfixOps == {"-", "+", "<", "&&", "="}

RECURSIVE ReadExpr(_), ReadUnary(_), ReadSuffixes(_, _)

ReadPrimary(tokens) ==
  LET token == Head(tokens)
      rest  == Tail(tokens)
  IN CASE tokens = << >> -> Bad(tokens)
       [] tokens # << >> /\ token.kind # "TEXT" -> << token, rest >>
       [] Is(tokens, "(") ->
            LET e == ReadExpr(rest) IN IF Is(e[2], ")") THEN << e[1], Tail(e[2]) >> ELSE Bad(rest)
       [] IsOneOf(tokens, Numerals) ->
            << Node("INTEGER_LITERAL", CHOOSE n \in 0 .. 2 ^ Width : ToString(n) = token.value, << >>),
               rest >>
       [] \E n \in Halves : IsOneOf(tokens, {Decimal(n)}) ->
            << Node("FLOAT_LITERAL", CHOOSE n \in Halves : Decimal(n) = token.value, << >>), rest >>
       [] IsOneOf(tokens, {"x", "m", "pow"}) ->
            << Node("IDENTIFIER", token.value, << >>), rest >>
       [] OTHER -> Bad(tokens)

(* Arguments, up to the closing parenthesis.                               *)
RECURSIVE ReadArguments(_)
ReadArguments(tokens) ==
  LET e == ReadExpr(tokens) IN
  IF Is(e[2], ",")
  THEN LET others == ReadArguments(Tail(e[2])) IN << << e[1] >> \o others[1], others[2] >>
  ELSE << << e[1] >>, IF Is(e[2], ")") THEN Tail(e[2]) ELSE << >> >>

ReadSuffixes(e, tokens) ==
  CASE Is(tokens, "[") ->
         LET i == ReadExpr(Tail(tokens)) IN
         IF Is(i[2], "]") THEN ReadSuffixes(Node("INDEX_EXPR", "", << e, i[1] >>), Tail(i[2]))
         ELSE Bad(tokens)
    [] Is(tokens, "(") ->
         LET args == ReadArguments(Tail(tokens)) IN
         ReadSuffixes(IF e = Node("IDENTIFIER", "pow", << >>)
                      THEN Node("BINARY_EXPR", Backtick, args[1])
                      ELSE Node("CALL_EXPR", "", << e >> \o args[1]), args[2])
    [] Is(tokens, ".") \/ Is(tokens, "->") ->
         LET m == ReadPrimary(Tail(tokens)) IN
         ReadSuffixes(Node(IF Is(tokens, ".") THEN "MEMBER_EXPR" ELSE "POINTER_MEMBER_EXPR", "",
                           << e, m[1] >>), m[2])
    [] OTHER -> << e, tokens >>

RECURSIVE ReadStars(_, _)
ReadStars(type, tokens) ==
  IF Is(tokens, "*") THEN ReadStars(Node("POINTER_TYPE", "", << type >>), Tail(tokens))
  ELSE << type, tokens >>

(* The minus of a literal belongs to it.                                   *)
Negative(op, e) ==
  IF op = "-" /\ e.kind = "INTEGER_LITERAL"
  THEN Node("INTEGER_LITERAL", (2 ^ Width - e.value) % 2 ^ Width, << >>)
  ELSE Node("UNARY_EXPR", op, << e >>)

ReadType(tokens) == ReadStars(Node("NAMED_TYPE", "I64", << >>), tokens)
OpensType(tokens) == Is(tokens, "(") /\ Is(Tail(tokens), "int64_t")

ReadUnary(tokens) ==
  CASE IsOneOf(tokens, {"-", "--", "++", "!", "*", "&"}) ->
         LET e == ReadUnary(Tail(tokens)) IN << Negative(Head(tokens).value, e[1]), e[2] >>
    [] Is(tokens, "sizeof") /\ OpensType(Tail(tokens)) ->
         LET t == ReadType(Tail(Tail(Tail(tokens)))) IN
         << Node("SIZEOF_EXPR", "", << t[1] >>), Tail(t[2]) >>
    [] Is(tokens, "sizeof") /\ ~OpensType(Tail(tokens)) ->
         LET e == ReadUnary(Tail(tokens)) IN << Node("SIZEOF_EXPR", "", << e[1] >>), e[2] >>
    [] OpensType(tokens) ->
         LET t == ReadType(Tail(Tail(tokens)))
             e == ReadUnary(Tail(t[2]))
         IN << Node("CAST_EXPR", "", << t[1], e[1] >>), e[2] >>
    [] OTHER -> LET e == ReadPrimary(tokens) IN ReadSuffixes(e[1], e[2])

ReadExpr(tokens) ==
  LET e == ReadUnary(tokens)
      rest == e[2]
  IN IF IsOneOf(rest, InfixOps)
     THEN LET f == ReadUnary(Tail(rest)) IN
          << Node("BINARY_EXPR", Head(rest).value, << e[1], f[1] >>), f[2] >>
     ELSE IF Is(rest, "?")
     THEN LET f == ReadExpr(Tail(rest))
              g == ReadExpr(Tail(f[2]))
          IN << Node("CONDITIONAL_EXPR", "", << e[1], f[1], g[1] >>), g[2] >>
     ELSE e

(* The expression that a text is, all of it.                               *)
ReadText(text) ==
  LET e == ReadExpr(Tokens(text)) IN IF e[2] = << >> THEN e[1] ELSE Node("BAD", "", << >>)
=============================================================================
