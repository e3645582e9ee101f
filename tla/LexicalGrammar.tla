--------------------------- MODULE LexicalGrammar ---------------------------
(***************************************************************************)
(* The lexical grammar of HolyC: which pieces of a text are tokens,        *)
(* whatever a lexer makes of it.  The names, numbers, literals and         *)
(* comments are those of the documentation (docs/LANGUAGE.md:132-137,      *)
(* docs/ARCHITECTURE.md:43), directives and operators those of token.h.    *)
(*                                                                         *)
(* A piece is given by the place where it begins and the one behind it.    *)
(***************************************************************************)
EXTENDS Lexer

Over(class, a, b) == \A k \in a .. b - 1 : CharAt(k) \in class
Some(class, a, b) == a < b /\ Over(class, a, b)

IsWord(a, b) == Some(WordCharacters, a, b) /\ CharAt(a) \notin Digits

IsInteger(a, b) ==
  \/ Some(Digits, a, b)
  \/ b > a + 1 /\ Hex(a) /\ Over(HexDigits, a + 2, b)
  \/ b > a + 1 /\ Binary(a) /\ Over({"0", "1"}, a + 2, b)

IsDecimal(a, b) ==
  \E n \in a + 1 .. b - 1 :
    Some(Digits, a, n) /\ CharAt(n) = "." /\ Over(Digits, n + 1, b)
IsPower(a, b) ==
  /\ a < b /\ CharAt(a) \in {"e", "E"}
  /\ \/ Over(Digits, a + 1, b)
     \/ a + 1 < b /\ CharAt(a + 1) \in {"+", "-"} /\ Over(Digits, a + 2, b)
IsFloat(a, b) ==
  \/ IsDecimal(a, b)
  \/ \E n \in a + 1 .. b - 1 : (IsDecimal(a, n) \/ Some(Digits, a, n)) /\ IsPower(n, b)

(* A number does not end between two dots.                                 *)
BetweenDots(b) == CharAt(b - 1) = "." /\ CharAt(b) = "."

(* What can stand between quotes: characters that are no quote, and        *)
(* backslashes with the character behind them.                             *)
BehindCharacter(k) == IF CharAt(k) = "\\" THEN k + 2 ELSE k + 1
IsContents(quote, a, b) ==
  \E cuts \in SUBSET (a .. b) :
    /\ {a, b} \subseteq cuts
    /\ \A k \in cuts \ {b} : CharAt(k) # quote /\ BehindCharacter(k) \in cuts
IsQuoted(quote, a, b) ==
  /\ a + 1 < b /\ CharAt(a) = quote /\ CharAt(b - 1) = quote
  /\ IsContents(quote, a + 1, b - 1)

(* The word of a directive is not a part of a longer one; #if goes on to   *)
(* the end of its line, or to any place before.                            *)
IsHashWord(a, b) ==
  /\ a < b /\ CharAt(a) = "#"
  /\ Over(Letters \cup {"_"}, a + 1, b) /\ CharAt(b) \notin Letters \cup {"_"}
IsDirective(a, b) ==
  \E n \in a + 1 .. b :
    /\ IsHashWord(a, n)
    /\ IF Text(a + 1, n) = If THEN Breaks(n, b) = {}
       ELSE n = b /\ Text(a + 1, n) \in Conditionals \cup {Else}

(* Whether the piece is a token of a kind.                                 *)
Is(kind, a, b) ==
  CASE kind = "identifier" -> IsWord(a, b) /\ Text(a, b) \notin Keywords
    [] kind = "keyword"    -> \/ IsWord(a, b) /\ Text(a, b) \in Keywords
                              \/ IsHashWord(a, b) /\ Text(a + 1, b) \in Keywords \ {If, Else}
    [] kind = "integer"    -> IsInteger(a, b) /\ ~BetweenDots(b)
    [] kind = "float"      -> IsFloat(a, b) /\ ~BetweenDots(b)
    [] kind = "string"     -> IsQuoted("\"", a, b)
    [] kind = "character"  -> IsQuoted("'", a, b)
    [] kind = "directive"  -> IsDirective(a, b)
    [] kind = "operator"   -> a < b /\ Text(a, b) \in Operators
    [] OTHER               -> FALSE

(* A piece from `a' on that was read as this kind is one of this kind, and *)
(* none that begins there is longer; it is an error or the end if none     *)
(* does.  A literal that is cut off by the end of the text is accepted.    *)
IsLongest(kind, a, b) ==
  LET cut_off == kind \in {"string", "character"} /\ b > Len(source) IN
  /\ kind \notin {"error", "EOF"} /\ ~cut_off => Is(kind, a, b)
  /\ \A other \in Kinds, c \in Places : Is(other, a, c) => c <= b /\ Is(kind, a, b)

(* What the lexer returns as a token is one of that kind, and the longest  *)
(* that the grammar allows at its place; an error or the end stands where  *)
(* it allows none.  A dot in front of a digit, which is not HolyC, is read *)
(* as a number (lexer.c:189-471).                                          *)
LongestMatch ==
  \A n \in DOMAIN Scanned :
    LET t == Scanned[n] IN
    ~(CharAt(t.start) = "." /\ BeginsNumber(t.start))
      => IsLongest(t.kind, t.start, t.start + t.length)
=============================================================================
