-------------------------------- MODULE Lexer --------------------------------
(***************************************************************************)
(* The lexer of src/lexer/lexer.c: it cuts a source text into tokens, one  *)
(* for each call of lexer_next_token, and gives each the line and column   *)
(* it keeps count of.                                                      *)
(*                                                                         *)
(* A text is a sequence of characters, each a string of length one, and a  *)
(* place in it an index; a token keeps its place and length, and so its    *)
(* text.  "operator" and "keyword" stand for all the kinds of token.h that *)
(* the text tells apart.                                                   *)
(***************************************************************************)
EXTENDS Integers, Sequences, FiniteSets

Digits    == {"0", "1", "2", "3", "4", "5", "6", "7", "8", "9"}
HexDigits == Digits \cup {"a", "b", "c", "d", "e", "f", "A", "B", "C", "D", "E", "F"}
Letters   ==
  (HexDigits \ Digits) \cup
  {"g", "h", "i", "j", "k", "l", "m", "n", "o", "p", "q", "r", "s", "t", "u", "v",
   "w", "x", "y", "z", "G", "H", "I", "J", "K", "L", "M", "N", "O", "P", "Q", "R",
   "S", "T", "U", "V", "W", "X", "Y", "Z"}
WordCharacters == Letters \cup Digits \cup {"_"}
Blanks == {" ", "\t", "\r", "\n"}

(* A name: SANY reads the character itself as the opening of a comment.    *)
Backtick == "backtick"

(* The brackets, the punctuation and the operators, by their length.       *)
Operators ==
  {<< c >> : c \in {Backtick, "(", ")", "{", "}", "[", "]", ",", ":", ";", "?", "~", "^",
                    "+", "-", "*", "/", "%", "&", "|", "!", "=", "<", ">", "."}}
  \cup {<< c, "=" >> : c \in {"^", "+", "-", "*", "/", "%", "&", "|", "!", "=", "<", ">"}}
  \cup {<< c, c >> : c \in {"+", "-", "&", "|", "<", ">"}}
  \cup {<< "-", ">" >>, << "<", "<", "=" >>, << ">", ">", "=" >>, << ".", ".", "." >>}

If   == << "i", "f" >>
Else == << "e", "l", "s", "e" >>
Conditionals ==   \* the directives whose words are no keywords
  {<< "e", "n", "d", "i", "f" >>, << "i", "f", "d", "e", "f" >>,
   << "i", "f", "n", "d", "e", "f" >>, << "e", "l", "i", "f" >>}

(* What the code reads behind the end of the text.  A file with such bytes *)
(* inside is no text.                                                      *)
NUL == ""
Characters == STRING \ {NUL}

CONSTANTS
  Sources,    \* the texts to be cut up
  Keywords    \* the words of the keyword table, of 51 in the program

ASSUME WordsAssumption ==
  /\ Sources \subseteq Seq(Characters)
  /\ Keywords \subseteq Seq(Letters \cup Digits \cup {"_"})
  /\ {If, Else} \subseteq Keywords /\ Keywords \cap Conditionals = {}

VARIABLES
  source,       \* the text
  current,      \* the place of the next character to read
  line, column, \* its location, as the lexer has counted it
  peek,         \* the token lexer_peek_token holds back, as a sequence of at
                \* most one: it is empty unless has_peek
  collects,     \* whether lexer_set_diagnostics gave the lexer a collector
  errors,       \* the locations of the errors it has reported to it
  delivered     \* the tokens lexer_next_token has returned, TOK_EOF once

vars == << source, current, line, column, peek, collects, errors, delivered >>

Kinds == {"error", "EOF", "identifier", "keyword", "integer", "float", "string",
          "character", "operator", "directive"}
Location == [line : Nat \ {0}, column : Nat \ {0}]
Token == [kind : Kinds, start : Nat \ {0}, length : Nat, loc : Location]

-----------------------------------------------------------------------------
CharAt(i) == IF i \in 1 .. Len(source) THEN source[i] ELSE NUL
Places    == 1 .. Len(source) + 1
Text(from, to) == SubSeq(source, from, to - 1)

(* The first place from i on at which P holds, or the end of the text.     *)
First(P(_), i) ==
  CHOOSE j \in Places :
    /\ j >= i /\ (j > Len(source) \/ P(j))
    /\ \A k \in i .. j - 1 : ~P(k)
FirstOutside(S, i) == LET Outside(j) == source[j] \notin S IN First(Outside, i)
LineEnd(i) == LET Break(j) == source[j] = "\n" IN First(Break, i)

(* The line breaks from one place up to another, and the last of some.     *)
Breaks(from, to) == {j \in from .. to - 1 : source[j] = "\n"}
Rightmost(places) == CHOOSE j \in places : \A k \in places : k <= j

(* A bug: lines end in comments and strings without being counted.         *)
Loc_blind(i) == [line |-> line, column |-> column + (i - current)]

(* lexer_loc when lexer_advance has gone from current to place i.          *)
Loc(i) ==
  LET breaks == Breaks(current, i)
  IN IF breaks = {} THEN [line |-> line, column |-> column + (i - current)]
     ELSE [line |-> line + Cardinality(breaks), column |-> i - Rightmost(breaks)]

(* A bug: the character behind the opening may close it.                   *)
CommentEnd_eager(i) ==
  LET Closing(j) == CharAt(j - 1) = "*" /\ CharAt(j) = "/"
      closing == First(Closing, i)
  IN IF closing > Len(source) THEN closing ELSE closing + 1

(* The place behind a block comment whose opening is behind i; one that is *)
(* not closed ends with the text.                                          *)
CommentEnd(i) ==
  LET Closing(j) == CharAt(j) = "*" /\ CharAt(j + 1) = "/"
      closing == First(Closing, i)
  IN IF closing > Len(source) THEN closing ELSE closing + 2

(* lexer_skip_whitespace.                                                  *)
skip_whitespace[i \in Places] ==
  IF CharAt(i) \in Blanks THEN skip_whitespace[i + 1]
  ELSE IF CharAt(i) = "/" /\ CharAt(i + 1) = "/" THEN skip_whitespace[LineEnd(i)]
  ELSE IF CharAt(i) = "/" /\ CharAt(i + 1) = "*" THEN skip_whitespace[CommentEnd(i + 2)]
  ELSE i

-----------------------------------------------------------------------------
(***************************************************************************)
(* The readers.  Each is given the place of the token's first character    *)
(* and says what the token is and up to which place the lexer advances.    *)
(***************************************************************************)
Lexeme(kind, length, end) == [kind |-> kind, length |-> length, end |-> end]
UpTo(kind, i, end) == Lexeme(kind, end - i, end)

Prefixed(i, letters) == CharAt(i) = "0" /\ CharAt(i + 1) \in letters
Hex(i)    == Prefixed(i, {"x", "X"})
Binary(i) == Prefixed(i, {"b", "B"})
(* What follows 0b is reported unless it is a binary digit or the end.     *)
BadBinary(i) == Binary(i) /\ CharAt(i + 2) \notin {"0", "1", NUL}

(* A number that begins with a dot is the dot alone.                       *)
Whole(i) ==
  CASE CharAt(i) = "." -> i + 1
    [] Hex(i)          -> FirstOutside(HexDigits, i + 2)
    [] Binary(i)       -> FirstOutside({"0", "1"}, i + 2)
    [] OTHER           -> FirstOutside(Digits, i + 1)

(* A bug: two dots behind a number are not told from one.                  *)
HasFraction_greedy(i) == CharAt(i) = "."
HasFraction(i) == CharAt(i) = "." /\ CharAt(i + 1) # "."

read_number(i) ==
  LET plain    == ~Hex(i) /\ ~Binary(i)
      whole    == Whole(i)
      point    == plain /\ HasFraction(whole)
      decimals == IF point THEN FirstOutside(Digits, whole + 1) ELSE whole
      exponent == plain /\ CharAt(decimals) \in {"e", "E"}
      power    == IF CharAt(decimals + 1) \in {"+", "-"} THEN decimals + 2 ELSE decimals + 1
      end      == IF exponent THEN FirstOutside(Digits, power) ELSE decimals
  IN UpTo(IF CharAt(i) = "." \/ point \/ exponent THEN "float" ELSE "integer", i, end)

(* The place behind the quote that ends a literal whose text is at i: a    *)
(* backslash takes the character behind it along, and the end of the text  *)
(* ends the literal too.                                                   *)
quoted_end(quote, i) ==
  LET end[j \in Places] ==
        IF j > Len(source) THEN j
        ELSE IF source[j] = quote THEN j + 1
        ELSE IF source[j] = "\\" /\ j < Len(source) THEN end[j + 2]
        ELSE end[j + 1]
  IN end[i]

read_string(i) ==
  UpTo(IF CharAt(i) = "'" THEN "character" ELSE "string", i, quoted_end(CharAt(i), i + 1))

read_identifier(i) ==
  LET end == FirstOutside(WordCharacters, i + 1)
  IN UpTo(IF Text(i, end) \in Keywords THEN "keyword" ELSE "identifier", i, end)

(* #if takes the rest of its line along; no other directive does.          *)
read_preprocessor(i) ==
  LET end  == FirstOutside(Letters \cup {"_"}, i + 1)
      word == Text(i + 1, end)
  IN CASE word = If   -> UpTo("directive", i, LineEnd(end))
       [] word = Else -> UpTo("directive", i, end)
       [] word \in Keywords \ {If, Else} -> UpTo("keyword", i, end)
       [] word \in Conditionals -> UpTo("directive", i, end)
       [] OTHER -> UpTo("error", i, end)

(* A bug: an operator of three characters is taken for one of two.         *)
OperatorLength_short(i) ==
  IF i < Len(source) /\ Text(i, i + 2) \in Operators THEN 2 ELSE 1

OperatorLength(i) ==
  CHOOSE n \in 1 .. 3 :
    /\ i + n <= Len(source) + 1 /\ Text(i, i + n) \in Operators
    /\ \A m \in n + 1 .. 3 :
         i + m <= Len(source) + 1 => Text(i, i + m) \notin Operators

(* A bug: two dots are an ellipsis.                                        *)
read_operator_ellipsis(i) ==
  IF CharAt(i) = "." /\ CharAt(i + 1) = "." THEN Lexeme("operator", 3, i + 2)
  ELSE UpTo("operator", i, i + OperatorLength(i))

(* Two dots that are not three are advanced over, and returned as one.     *)
read_operator(i) ==
  LET n == OperatorLength(i)
  IN Lexeme("operator", n,
            IF n = 1 /\ CharAt(i) = "." /\ CharAt(i + 1) = "." THEN i + 2 ELSE i + n)

BeginsNumber(i) ==
  CharAt(i) \in Digits \/ (CharAt(i) = "." /\ CharAt(i + 1) \in Digits)

Read(i) ==
  LET c == CharAt(i) IN
  CASE c = NUL -> UpTo("EOF", i, i)
    [] c \in Letters \cup {"_"} -> read_identifier(i)
    [] BeginsNumber(i) -> read_number(i)
    [] c = "#" -> read_preprocessor(i)
    [] c \in {"\"", "'"} -> read_string(i)
    [] << c >> \in Operators /\ ~BeginsNumber(i) -> read_operator(i)
    [] OTHER -> UpTo("error", i, i + 1)

(* A character that begins no token, whose location is that of the next.   *)
Unexpected(i, lexeme) == lexeme.kind = "error" /\ CharAt(i) # "#"

-----------------------------------------------------------------------------
(* A bug: a token is located before the blanks in front of it.            *)
TokenLoc_early(i, lexeme) == Loc(current)
TokenLoc(i, lexeme) == IF Unexpected(i, lexeme) THEN Loc(i + 1) ELSE Loc(i)

Complaints(i, lexeme) ==
  IF ~collects THEN << >>
  ELSE IF BadBinary(i) THEN << Loc(i + 2) >>
  ELSE IF Unexpected(i, lexeme) THEN << Loc(i + 1) >> ELSE << >>

(* The end of the text is returned as often as it is asked for.            *)
Deliver(token) ==
  delivered' = IF delivered # << >> /\ delivered[Len(delivered)] = token /\ token.kind = "EOF"
               THEN delivered ELSE Append(delivered, token)

TokenAt(i, lexeme) ==
  [kind |-> lexeme.kind, start |-> i, length |-> lexeme.length, loc |-> TokenLoc(i, lexeme)]

(* Move behind the lexeme that begins at i.                                *)
Scan(i, lexeme) ==
  /\ current' = lexeme.end
  /\ line' = Loc(lexeme.end).line
  /\ column' = Loc(lexeme.end).column
  /\ errors' = errors \o Complaints(i, lexeme)

(* A bug: nothing is returned at the end of the text.                      *)
lexer_next_token_silentEnd ==
  /\ \/ /\ peek # << >>
        /\ Deliver(peek[1])
        /\ UNCHANGED << current, line, column, errors >>
     \/ /\ peek = << >> /\ skip_whitespace[current] <= Len(source)
        /\ \E i \in {skip_whitespace[current]} : \E lexeme \in {Read(i)} :
             Scan(i, lexeme) /\ Deliver(TokenAt(i, lexeme))
  /\ peek' = << >>
  /\ UNCHANGED << source, collects >>

(* A bug: an error that peeking has reported is reported again.            *)
lexer_next_token_again ==
  /\ \/ /\ peek # << >>
        /\ Deliver(peek[1])
        /\ errors' = IF collects /\ peek[1].kind = "error"
                     THEN Append(errors, peek[1].loc) ELSE errors
        /\ UNCHANGED << current, line, column >>
     \/ /\ peek = << >>
        /\ \E i \in {skip_whitespace[current]} : \E lexeme \in {Read(i)} :
             Scan(i, lexeme) /\ Deliver(TokenAt(i, lexeme))
  /\ peek' = << >>
  /\ UNCHANGED << source, collects >>

lexer_next_token ==
  /\ \/ /\ peek # << >>
        /\ Deliver(peek[1])
        /\ UNCHANGED << current, line, column, errors >>
     \/ /\ peek = << >>
        /\ \E i \in {skip_whitespace[current]} : \E lexeme \in {Read(i)} :
             Scan(i, lexeme) /\ Deliver(TokenAt(i, lexeme))
  /\ peek' = << >>
  /\ UNCHANGED << source, collects >>

lexer_peek_token ==
  /\ peek = << >>
  /\ \E i \in {skip_whitespace[current]} : \E lexeme \in {Read(i)} :
       Scan(i, lexeme) /\ peek' = << TokenAt(i, lexeme) >>
  /\ UNCHANGED << source, collects, delivered >>

lexer_create ==
  /\ source \in Sources
  /\ current = 1 /\ line = 1 /\ column = 1
  /\ peek = << >>
  /\ collects \in BOOLEAN
  /\ errors = << >>
  /\ delivered = << >>

Next == lexer_next_token \/ lexer_peek_token

(* The parser and the token listing ask for tokens until they are given    *)
(* the end of the text.                                                    *)
Spec == lexer_create /\ [][Next]_vars /\ WF_vars(lexer_next_token)

-----------------------------------------------------------------------------
(* The lexer stays inside the text, and every token is a part of it        *)
(* (lexer.c:118-143, 189-197).                                             *)
TypeOK ==
  /\ source \in Seq(Characters) /\ collects \in BOOLEAN
  /\ current \in Places /\ [line |-> line, column |-> column] \in Location
  /\ peek \in Seq(Token) /\ Len(peek) <= 1
  /\ errors \in Seq(Location) /\ delivered \in Seq(Token)
  /\ \A t \in {delivered[n] : n \in DOMAIN delivered} \cup {peek[n] : n \in DOMAIN peek} :
       t.start + t.length <= current

Finished == delivered # << >> /\ delivered[Len(delivered)].kind = "EOF"
(* The tokens read so far, the one held back included.                     *)
Scanned == IF Finished THEN delivered ELSE delivered \o peek

(* The line and column of a token, counted along the way by lexer_advance, *)
(* are those of its first character in the whole text; those of an         *)
(* unexpected character point behind it (lexer.c:110-143, 345, 456).       *)
Position(i) ==
  [line   |-> Cardinality(Breaks(1, i)) + 1,
   column |-> i - Rightmost(Breaks(1, i) \cup {0})]

LocationsExact ==
  \A n \in DOMAIN Scanned :
    LET t == Scanned[n] IN
    t.loc = Position(IF Unexpected(t.start, t) THEN t.start + 1 ELSE t.start)

(* The tokens that are reported and where; the n-th of them is the         *)
(* Rank(n, S)-th of a set S of them.                                       *)
Bad(t) == Unexpected(t.start, t) \/ (t.kind = "integer" /\ BadBinary(t.start))
Where(t) == Position(IF t.kind = "error" THEN t.start + 1 ELSE t.start + 2)
BadTokens == {n \in DOMAIN Scanned : Bad(Scanned[n])}
Rank(n, S) == Cardinality({m \in S : m <= n})

(* Every unexpected character and every bad binary number is reported once *)
(* and in order, whoever asked for the token and however often, by a lexer *)
(* that has a collector (lexer.c:236-239, 340-343, 452-461).  The one of   *)
(* an included file has none (parser.c:1029): HandledAsDocumented shows    *)
(* what becomes of its errors.                                             *)
ErrorsReportedOnce ==
  collects =>
    /\ Len(errors) = Cardinality(BadTokens)
    /\ \A n \in BadTokens : errors[Rank(n, BadTokens)] = Where(Scanned[n])

(* What stands between tokens: a blank, the rest of a line, or a block     *)
(* comment, which ends behind the first closing behind its opening or, if  *)
(* it is not closed, with the text.                                        *)
Closed(b) == CharAt(b - 2) = "*" /\ CharAt(b - 1) = "/"
Skips(a, b) ==
  \/ b = a + 1 /\ CharAt(a) \in Blanks
  \/ /\ CharAt(a) = "/" /\ CharAt(a + 1) = "/"
     /\ Breaks(a, b) = {} /\ CharAt(b) \in {"\n", NUL}
  \/ /\ CharAt(a) = "/" /\ CharAt(a + 1) = "*"
     /\ \A k \in a + 4 .. b - 1 : ~Closed(k)
     /\ b > Len(source) \/ (b >= a + 4 /\ Closed(b))

(* A part of the text that can be cut into such pieces.                    *)
Gap(from, to) ==
  \E cuts \in SUBSET (from .. to) :
    /\ {from, to} \subseteq cuts
    /\ \A a \in cuts \ {to} : \E b \in cuts : a < b /\ Skips(a, b)

(* The place behind a token and the second of two dots, which is read with *)
(* the first.                                                              *)
Behind(t) ==
  LET end == t.start + t.length
  IN IF t.length = 1 /\ CharAt(t.start) = "." /\ CharAt(end) = "." THEN end + 1 ELSE end

(* What is left out before and between the tokens is blanks and comments,  *)
(* all of them, a comment that the end of the text cuts off included, and  *)
(* the second of two dots; no character is read twice, and the end is      *)
(* returned where the text ends (lexer.c:152-187, 339-341, 445-457).  The  *)
(* dot and the comment should be errors: HandledAsDocumented has the dot.  *)
NothingLost ==
  \A n \in DOMAIN Scanned :
    LET t == Scanned[n] IN
    /\ Gap(IF n = 1 THEN 1 ELSE Behind(Scanned[n - 1]), t.start)
    /\ \A b \in Places : ~Skips(t.start, b)
    /\ (t.kind = "EOF") <=> (t.start > Len(source))

(* Whatever the text, a client that keeps asking is given its end          *)
(* (lexer.c:339-356).                                                      *)
EndIsReached == <>Finished
=============================================================================
