----------------------------- MODULE LexerProofs -----------------------------
(***************************************************************************)
(* The lexer of lexer.c on texts of any length: it stays inside the text,  *)
(* counts lines and columns right through everything it skips, loses       *)
(* nothing, reads the longest token each time, and reports each error      *)
(* once.                                                                   *)
(***************************************************************************)
EXTENDS LexicalGrammar, SequenceTheorems, FiniteSetTheorems,
        WellFoundedInduction, TLAPS

-----------------------------------------------------------------------------
(***************************************************************************)
(* Least and greatest numbers, and induction over sets of them.            *)
(***************************************************************************)
LEMMA LeastNumber ==
  ASSUME NEW T, T \subseteq Nat, T # {}
  PROVE  \E x \in T : \A y \in T : x <= y
<1> DEFINE R == OpToRel(<, Nat)
<1>1. IsWellFoundedOn(R, Nat)
  BY NatLessThanWellFounded
<1>2. PICK x \in T : \A y \in T : << y, x >> \notin R
  <2> HIDE DEF R
  <2>1. QED
    BY <1>1, WFMin
<1>3. \A y \in T : << y, x >> \in Nat \X Nat
  OBVIOUS
<1>4. \A y \in T : ~(y < x)
  BY <1>2, <1>3 DEF OpToRel
<1>5. QED
  BY <1>4

LEMMA SetInduction ==
  ASSUME NEW S, 0 \in S, \A n \in Nat : n \in S => n + 1 \in S
  PROVE  Nat \subseteq S
<1> SUFFICES ASSUME Nat \ S # {}
             PROVE  FALSE
  OBVIOUS
<1>1. PICK x \in Nat \ S : \A y \in Nat \ S : x <= y
  BY LeastNumber
<1>2. QED
  BY <1>1, x - 1 \in Nat \/ x = 0

LEMMA GreatestNumber ==
  ASSUME NEW n \in Nat, NEW T, T \subseteq 0 .. n, T # {}
  PROVE  \E x \in T : \A y \in T : y <= x
<1> DEFINE U == {m \in 0 .. n : n - m \in T}
<1>1. U \subseteq Nat /\ U # {}
  <2>1. PICK t \in T : TRUE
    OBVIOUS
  <2>2. n - t \in 0 .. n /\ n - (n - t) = t
    BY <2>1
  <2>3. QED
    BY <2>2
<1>2. PICK u \in U : \A v \in U : u <= v
  BY <1>1, LeastNumber
<1>3. \A t \in T : n - t \in U
  <2>1. SUFFICES ASSUME NEW t \in T
                 PROVE  n - t \in U
    OBVIOUS
  <2>2. n - t \in 0 .. n /\ n - (n - t) = t
    OBVIOUS
  <2>3. QED
    BY <2>2
<1>4. n - u \in T /\ \A t \in T : t <= n - u
  BY <1>2, <1>3
<1>5. QED
  BY <1>4

-----------------------------------------------------------------------------
(***************************************************************************)
(* Places.                                                                 *)
(***************************************************************************)
InText == source \in Seq(Characters)

LEMMA TextProperties ==
  ASSUME InText
  PROVE  /\ Len(source) \in Nat
         /\ \A i \in Places : i \in Nat \ {0}
         /\ \A i \in 1 .. Len(source) : source[i] \in STRING /\ source[i] # NUL
<1>1. Len(source) \in Nat /\ \A i \in 1 .. Len(source) : source[i] \in Characters
  BY LenProperties, ElementOfSeq DEF InText
<1>2. QED
  BY <1>1 DEF Places, Characters

(* Something that may be at some places is first found at one of them, or  *)
(* not before the end.                                                     *)
LEMMA FirstExists ==
  ASSUME InText, NEW i \in Places, NEW B
  PROVE  \E j \in Places : /\ j >= i /\ (j > Len(source) \/ j \in B)
                           /\ \A k \in i .. j - 1 : k \notin B
<1>1. Len(source) \in Nat /\ i \in Nat \ {0} /\ i <= Len(source) + 1
  BY TextProperties DEF Places
<1> DEFINE T == {j \in i .. Len(source) + 1 : j = Len(source) + 1 \/ j \in B}
<1>2. T \subseteq Nat /\ Len(source) + 1 \in T
  BY <1>1
<1>3. PICK j \in T : \A k \in T : j <= k
  <2> HIDE DEF T
  <2>1. QED
    BY <1>2, LeastNumber
<1>4. \A k \in i .. j - 1 : k \notin B
  BY <1>1, <1>3
<1>5. QED
  BY <1>1, <1>3, <1>4 DEF Places

LEMMA FirstOutsideFound ==
  ASSUME InText, NEW i \in Places, NEW S
  PROVE  FirstOutside(S, i) \in Places /\ FirstOutside(S, i) >= i
<1> DEFINE B == {j \in Places : source[j] \notin S}
<1>1. \E j \in Places : /\ j >= i /\ (j > Len(source) \/ j \in B)
                        /\ \A k \in i .. j - 1 : k \notin B
  <2> HIDE DEF B
  <2>1. QED
    BY FirstExists
<1>2. \A j \in Places : \A k \in i .. j - 1 : k \in Places
  BY TextProperties DEF Places
<1>3. \E j \in Places : /\ j >= i /\ (j > Len(source) \/ source[j] \notin S)
                        /\ \A k \in i .. j - 1 : ~(source[k] \notin S)
  BY <1>1, <1>2
<1>4. QED
  BY <1>3 DEF FirstOutside, First

LEMMA LineEndFound ==
  ASSUME InText, NEW i \in Places
  PROVE  /\ LineEnd(i) \in Places /\ LineEnd(i) >= i
         /\ i <= Len(source) /\ source[i] # "\n" => LineEnd(i) > i
         /\ Breaks(i, LineEnd(i)) = {} /\ CharAt(LineEnd(i)) \in {"\n", NUL}
<1> DEFINE B == {j \in Places : source[j] = "\n"}
<1>1. \E j \in Places : /\ j >= i /\ (j > Len(source) \/ j \in B)
                        /\ \A k \in i .. j - 1 : k \notin B
  <2> HIDE DEF B
  <2>1. QED
    BY FirstExists
<1>2. \A j \in Places : \A k \in i .. j - 1 : k \in Places
  BY TextProperties DEF Places
<1>3. \E j \in Places : /\ j >= i /\ (j > Len(source) \/ source[j] = "\n")
                        /\ \A k \in i .. j - 1 : ~(source[k] = "\n")
  BY <1>1, <1>2
<1>4. /\ LineEnd(i) \in Places /\ LineEnd(i) >= i
      /\ LineEnd(i) > Len(source) \/ source[LineEnd(i)] = "\n"
      /\ \A k \in i .. LineEnd(i) - 1 : source[k] # "\n"
  BY <1>3 DEF LineEnd, First
<1>5. Breaks(i, LineEnd(i)) = {} /\ CharAt(LineEnd(i)) \in {"\n", NUL}
  BY <1>4, TextProperties DEF Breaks, CharAt
<1>6. QED
  BY <1>4, <1>5, TextProperties DEF Places

LEMMA CommentEndFound ==
  ASSUME InText, NEW i \in Places
  PROVE  /\ CommentEnd(i) \in Places /\ CommentEnd(i) >= i
         /\ \A k \in i + 2 .. CommentEnd(i) - 1 : ~Closed(k)
         /\ \/ CommentEnd(i) > Len(source)
            \/ CommentEnd(i) >= i + 2 /\ Closed(CommentEnd(i))
<1> DEFINE Closing(j) == CharAt(j) = "*" /\ CharAt(j + 1) = "/"
           B == {j \in Places : Closing(j)}
<1>1. \E j \in Places : /\ j >= i /\ (j > Len(source) \/ j \in B)
                        /\ \A k \in i .. j - 1 : k \notin B
  <2> HIDE DEF B
  <2>1. QED
    BY FirstExists
<1>2. \A j \in Places : \A k \in i .. j - 1 : k \in Places
  BY TextProperties DEF Places
<1>3. \E j \in Places : /\ j >= i /\ (j > Len(source) \/ Closing(j))
                        /\ \A k \in i .. j - 1 : ~Closing(k)
  <2> HIDE DEF Closing
  <2>1. QED
    BY <1>1, <1>2
<1> DEFINE closing == First(Closing, i)
<1>4. /\ closing \in Places /\ closing >= i /\ (closing > Len(source) \/ Closing(closing))
      /\ \A k \in i .. closing - 1 : ~Closing(k)
  BY <1>3 DEF First
<1>5. CommentEnd(i) = IF closing > Len(source) THEN closing ELSE closing + 2
  BY DEF CommentEnd
<1> HIDE DEF closing
<1>6. \A j \in Nat : CharAt(j) = "/" => j <= Len(source)
  <2>1. "/" # NUL
    BY DEF NUL
  <2>2. QED
    BY <2>1, TextProperties DEF CharAt
<1>7. i \in Nat /\ closing \in Nat /\ closing <= Len(source) + 1
  BY <1>4, TextProperties DEF Places
<1>8. \A k \in Nat : Closing(k) <=> Closed(k + 2)
  <2>1. \A k \in Nat : (k + 2) - 2 = k /\ (k + 2) - 1 = k + 1
    OBVIOUS
  <2>2. QED
    BY <2>1 DEF Closed
<1> HIDE DEF Closing
<1>9. CASE closing > Len(source)
  <2>1. CommentEnd(i) = closing
    BY <1>5, <1>9
  <2>2. ASSUME NEW k \in i + 2 .. closing - 1
        PROVE  ~Closed(k)
    <3>1. k - 2 \in i .. closing - 1 /\ k - 2 \in Nat /\ (k - 2) + 2 = k
      BY <1>7
    <3>2. QED
      BY <1>4, <1>8, <3>1
  <2>3. QED
    BY <1>4, <1>9, <2>1, <2>2
<1>10. CASE ~(closing > Len(source))
  <2>1. CommentEnd(i) = closing + 2 /\ Closing(closing)
    BY <1>4, <1>5, <1>10
  <2>2. ASSUME NEW k \in i + 2 .. (closing + 2) - 1
        PROVE  ~Closed(k)
    <3>1. k - 2 \in i .. closing - 1 /\ k - 2 \in Nat /\ (k - 2) + 2 = k
      BY <1>7
    <3>2. QED
      BY <1>4, <1>8, <3>1
  <2>3. closing + 1 <= Len(source)
    BY <1>6, <1>7, <2>1 DEF Closing
  <2>4. closing + 2 \in Places
    BY <1>7, <2>3, TextProperties DEF Places
  <2>5. closing + 2 >= i + 2 /\ closing + 2 >= i
    BY <1>4, <1>7
  <2>6. Closed(closing + 2)
    BY <1>7, <1>8, <2>1
  <2>7. QED
    BY <2>1, <2>2, <2>4, <2>5, <2>6
<1>11. QED
  BY <1>9, <1>10

-----------------------------------------------------------------------------
(***************************************************************************)
(* Skipping blanks and comments: the recursive function is defined, since  *)
(* it always goes on behind the place it is at.                            *)
(***************************************************************************)
SkipStep(f, i) ==
  IF CharAt(i) \in Blanks THEN f[i + 1]
  ELSE IF CharAt(i) = "/" /\ CharAt(i + 1) = "/" THEN f[LineEnd(i)]
  ELSE IF CharAt(i) = "/" /\ CharAt(i + 1) = "*" THEN f[CommentEnd(i + 2)]
  ELSE i

(* Where it goes on.                                                       *)
LEMMA SkipsForward ==
  ASSUME InText, NEW i \in Places
  PROVE  /\ CharAt(i) \in Blanks => i + 1 \in Places
         /\ CharAt(i) = "/" => LineEnd(i) \in Places /\ LineEnd(i) > i
         /\ CharAt(i) = "/" /\ CharAt(i + 1) = "*"
              => CommentEnd(i + 2) \in Places /\ CommentEnd(i + 2) > i
<1>1. Len(source) \in Nat /\ i \in Nat \ {0} /\ i <= Len(source) + 1
  BY TextProperties DEF Places
<1>2. \A j \in Nat \ {0} :
        CharAt(j) # NUL => j <= Len(source) /\ source[j] = CharAt(j) /\ j + 1 \in Places
  BY <1>1 DEF CharAt, Places
<1>3. CharAt(i) \in Blanks => i + 1 \in Places
  BY <1>1, <1>2 DEF Blanks, NUL
<1>4. CharAt(i) = "/" => LineEnd(i) \in Places /\ LineEnd(i) > i
  BY <1>1, <1>2, LineEndFound DEF NUL
<1>5. CharAt(i) = "/" /\ CharAt(i + 1) = "*"
        => CommentEnd(i + 2) \in Places /\ CommentEnd(i + 2) > i
  <2>1. SUFFICES ASSUME CharAt(i + 1) = "*"
                 PROVE  CommentEnd(i + 2) \in Places /\ CommentEnd(i + 2) > i
    OBVIOUS
  <2>2. i + 2 \in Places
    <3>1. CharAt(i + 1) # NUL
      BY <2>1 DEF NUL
    <3>2. i + 1 \in Nat \ {0} /\ (i + 1) + 1 = i + 2
      BY <1>1
    <3>3. QED
      BY <1>2, <3>1, <3>2
  <2>3. CommentEnd(i + 2) \in Places /\ CommentEnd(i + 2) >= i + 2
    BY <2>2, CommentEndFound
  <2>4. QED
    <3>1. CommentEnd(i + 2) \in Nat
      BY <2>3, TextProperties
    <3>2. QED
      BY <1>1, <2>3, <3>1
<1>6. QED
  BY <1>3, <1>4, <1>5

(* It is defined from every place on, from the end of the text backwards.  *)
LEMMA SkipDefined ==
  ASSUME InText
  PROVE  skip_whitespace = [i \in Places |-> SkipStep(skip_whitespace, i)]
<1> DEFINE end == Len(source) + 1
           From(n) == {i \in Places : i >= end - n}
           S == {n \in Nat : \E f : f = [i \in From(n) |-> SkipStep(f, i)]}
<1>1. end \in Nat \ {0} /\ Places = 1 .. end
  BY TextProperties DEF Places
<1>2. \A n \in Nat : \A i \in From(n) : \A f, g :
        (\A j \in Places : j > i => f[j] = g[j]) => SkipStep(f, i) = SkipStep(g, i)
  <2>1. SUFFICES ASSUME NEW i \in Places, NEW f, NEW g,
                        \A j \in Places : j > i => f[j] = g[j]
                 PROVE  SkipStep(f, i) = SkipStep(g, i)
    OBVIOUS
  <2>2. i \in Nat
    BY TextProperties
  <2>3. CharAt(i) \in Blanks => f[i + 1] = g[i + 1]
    BY <2>1, <2>2, SkipsForward
  <2>4. CharAt(i) = "/" => f[LineEnd(i)] = g[LineEnd(i)]
    BY <2>1, SkipsForward
  <2>5. CharAt(i) = "/" /\ CharAt(i + 1) = "*"
          => f[CommentEnd(i + 2)] = g[CommentEnd(i + 2)]
    BY <2>1, SkipsForward
  <2>6. QED
    BY <2>3, <2>4, <2>5 DEF SkipStep
<1> HIDE DEF From
<1>3. 0 \in S
  <2> DEFINE none == [i \in {} |-> 0]
             f == [i \in From(0) |-> SkipStep(none, i)]
  <2>1. \A i \in From(0), j \in Places : ~(j > i)
    BY <1>1 DEF From
  <2>2. \A i \in From(0) : SkipStep(f, i) = SkipStep(none, i)
    <3> HIDE DEF f, none
    <3>1. QED
      BY <1>2, <2>1
  <2>3. f = [i \in From(0) |-> SkipStep(f, i)]
    BY <2>2
  <2> HIDE DEF f
  <2>4. QED
    BY <2>3
<1>4. ASSUME NEW n \in Nat, n \in S
      PROVE  n + 1 \in S
  <2>1. PICK f : f = [i \in From(n) |-> SkipStep(f, i)]
    BY <1>4
  <2> DEFINE g == [i \in From(n + 1) |-> IF i \in From(n) THEN f[i] ELSE SkipStep(f, i)]
  <2>2. \A i \in From(n + 1), j \in Places : j > i => j \in From(n) /\ j \in From(n + 1)
    BY <1>1 DEF From
  <2>3. \A i \in From(n + 1), j \in Places : j > i => g[j] = f[j]
    BY <2>2
  <2>4. \A i \in From(n + 1) : SkipStep(g, i) = SkipStep(f, i)
    <3> HIDE DEF g
    <3>1. QED
      BY <1>2, <2>3
  <2>5. \A i \in From(n) : f[i] = SkipStep(f, i)
    BY <2>1
  <2>6. g = [i \in From(n + 1) |-> SkipStep(g, i)]
    <3> DEFINE h == [i \in From(n + 1) |-> SkipStep(g, i)]
    <3>1. \A i \in From(n + 1) : g[i] = SkipStep(f, i)
      BY <2>5
    <3>2. \A i \in From(n + 1) : g[i] = SkipStep(g, i)
      <4> HIDE DEF g
      <4>1. QED
        BY <2>4, <3>1
    <3>3. QED
      BY <3>2
  <2> HIDE DEF g
  <2>7. QED
    BY <2>6
<1>5. end \in S
  <2> HIDE DEF S
  <2>1. QED
    BY <1>1, <1>3, <1>4, SetInduction
<1>6. From(end) = Places
  BY <1>1 DEF From
<1>7. \E f : f = [i \in Places |-> SkipStep(f, i)]
  BY <1>5, <1>6
<1>8. skip_whitespace = CHOOSE f : f = [i \in Places |-> SkipStep(f, i)]
  BY DEF skip_whitespace, SkipStep
<1>9. QED
  BY <1>7, <1>8

LEMMA SkipFound ==
  ASSUME InText, NEW i \in Places
  PROVE  skip_whitespace[i] \in Places /\ skip_whitespace[i] >= i
<1> DEFINE end == Len(source) + 1
           Found(j) == skip_whitespace[j] \in Places /\ skip_whitespace[j] >= j
           S == {n \in Nat : \A j \in Places : j >= end - n => Found(j)}
<1>1. end \in Nat \ {0} /\ Places = 1 .. end
  BY TextProperties DEF Places
<1>2. ASSUME NEW j \in Places, \A k \in Places : k > j => Found(k)
      PROVE  Found(j)
  <2>1. skip_whitespace[j] = SkipStep(skip_whitespace, j)
    BY SkipDefined
  <2>2. \A k \in Places : k > j => skip_whitespace[k] \in Places /\ skip_whitespace[k] >= j
    BY <1>1, <1>2
  <2>3. SkipStep(skip_whitespace, j) \in Places /\ SkipStep(skip_whitespace, j) >= j
    <3>1. j + 1 > j /\ j >= j
      BY <1>1
    <3>2. CharAt(j) \in Blanks => /\ skip_whitespace[j + 1] \in Places
                                  /\ skip_whitespace[j + 1] >= j
      BY <2>2, <3>1, SkipsForward
    <3>3. CharAt(j) = "/" => /\ skip_whitespace[LineEnd(j)] \in Places
                             /\ skip_whitespace[LineEnd(j)] >= j
      BY <2>2, SkipsForward
    <3>4. CharAt(j) = "/" /\ CharAt(j + 1) = "*"
            => /\ skip_whitespace[CommentEnd(j + 2)] \in Places
               /\ skip_whitespace[CommentEnd(j + 2)] >= j
      BY <2>2, SkipsForward
    <3>5. QED
      BY <3>1, <3>2, <3>3, <3>4 DEF SkipStep
  <2>4. QED
    BY <2>1, <2>3
<1> HIDE DEF Found
<1>3. 0 \in S
  <2>1. \A j \in Places : j >= end - 0 => \A k \in Places : ~(k > j)
    BY <1>1
  <2>2. QED
    BY <1>2, <2>1
<1>4. ASSUME NEW n \in Nat, n \in S
      PROVE  n + 1 \in S
  <2>1. \A j \in Places : j >= end - (n + 1) => \A k \in Places : k > j => k >= end - n
    BY <1>1
  <2>2. QED
    BY <1>2, <1>4, <2>1
<1>5. end \in S
  <2> HIDE DEF S
  <2>1. QED
    BY <1>1, <1>3, <1>4, SetInduction
<1>6. i >= end - end
  BY <1>1
<1>7. QED
  BY <1>5, <1>6 DEF Found

(* What it steps over is a blank or a comment, and it stops at neither.    *)
LEMMA SkipsOne ==
  ASSUME InText, NEW i \in Places
  PROVE  /\ CharAt(i) \in Blanks => Skips(i, i + 1)
         /\ CharAt(i) = "/" /\ CharAt(i + 1) = "/" => Skips(i, LineEnd(i))
         /\ CharAt(i) = "/" /\ CharAt(i + 1) = "*" => Skips(i, CommentEnd(i + 2))
<1>1. i \in Nat \ {0}
  BY TextProperties
<1>2. CharAt(i) \in Blanks => Skips(i, i + 1)
  BY DEF Skips
<1>3. CharAt(i) = "/" /\ CharAt(i + 1) = "/" => Skips(i, LineEnd(i))
  BY LineEndFound DEF Skips
<1>4. CharAt(i + 1) = "*" => i + 2 \in Places
  <2>1. i + 1 \in Nat \ {0} /\ (i + 1) + 1 = i + 2 /\ "*" # NUL
    BY <1>1 DEF NUL
  <2>2. CharAt(i + 1) = "*" => i + 1 <= Len(source)
    BY <2>1 DEF CharAt
  <2>3. QED
    BY <1>1, <2>2, TextProperties DEF Places
<1>5. CharAt(i) = "/" /\ CharAt(i + 1) = "*" => Skips(i, CommentEnd(i + 2))
  <2>1. SUFFICES ASSUME CharAt(i) = "/", CharAt(i + 1) = "*"
                 PROVE  Skips(i, CommentEnd(i + 2))
    OBVIOUS
  <2> DEFINE end == CommentEnd(i + 2)
  <2>2. (i + 2) + 2 = i + 4
    BY <1>1
  <2>3. /\ \A k \in i + 4 .. end - 1 : ~Closed(k)
        /\ end > Len(source) \/ (end >= i + 4 /\ Closed(end))
    BY <1>4, <2>1, <2>2, CommentEndFound
  <2>4. QED
    BY <2>1, <2>3 DEF Skips
<1>6. QED
  BY <1>2, <1>3, <1>5

LEMMA GapFurther ==
  ASSUME NEW i \in Nat, NEW j \in Nat, NEW k \in Nat, i < j, Skips(i, j), Gap(j, k)
  PROVE  Gap(i, k)
<1>1. PICK cuts \in SUBSET (j .. k) :
        /\ {j, k} \subseteq cuts
        /\ \A a \in cuts \ {k} : \E b \in cuts : a < b /\ Skips(a, b)
  BY DEF Gap
<1> DEFINE all == cuts \cup {i}
<1>2. all \in SUBSET (i .. k) /\ {i, k} \subseteq all
  <2>1. \A x \in j .. k : x \in i .. k
    OBVIOUS
  <2>2. k \in j .. k /\ i \in i .. k
    BY <1>1
  <2>3. QED
    BY <1>1, <2>1, <2>2
<1>3. \A a \in all \ {k} : \E b \in all : a < b /\ Skips(a, b)
  BY <1>1
<1>4. QED
  BY <1>2, <1>3 DEF Gap

LEMMA SkipGap ==
  ASSUME InText, NEW i \in Places
  PROVE  /\ Gap(i, skip_whitespace[i])
         /\ \A b \in Places : ~Skips(skip_whitespace[i], b)
<1> DEFINE end == Len(source) + 1
           Ends(j) == \A b \in Places : ~Skips(j, b)
           Found(j) == Gap(j, skip_whitespace[j]) /\ Ends(skip_whitespace[j])
           S == {n \in Nat : \A j \in Places : j >= end - n => Found(j)}
<1>1. end \in Nat \ {0} /\ Places = 1 .. end
  BY TextProperties DEF Places
<1>2. ASSUME NEW j \in Places, NEW k \in Places, k > j, Skips(j, k), Found(k),
             skip_whitespace[j] = skip_whitespace[k]
      PROVE  Found(j)
  <2>1. j \in Nat /\ k \in Nat /\ j < k /\ skip_whitespace[k] \in Nat
    BY <1>1, <1>2, SkipFound
  <2>2. Gap(j, skip_whitespace[k])
    BY <1>2, <2>1, GapFurther
  <2>3. QED
    BY <1>2, <2>2
<1>3. ASSUME NEW j \in Places, skip_whitespace[j] = j,
             CharAt(j) \notin Blanks,
             ~(CharAt(j) = "/" /\ CharAt(j + 1) = "/"),
             ~(CharAt(j) = "/" /\ CharAt(j + 1) = "*")
      PROVE  Found(j)
  <2>1. Gap(j, j)
    <3>1. {j} \in SUBSET (j .. j) /\ {j, j} \subseteq {j}
      BY <1>1
    <3>2. \A a \in {j} \ {j} : \E b \in {j} : a < b /\ Skips(a, b)
      OBVIOUS
    <3>3. QED
      BY <3>1, <3>2 DEF Gap
  <2>2. Ends(j)
    BY <1>3 DEF Skips
  <2>3. QED
    BY <1>3, <2>1, <2>2
<1> HIDE DEF Found
<1>4. ASSUME NEW j \in Places, \A k \in Places : k > j => Found(k)
      PROVE  Found(j)
  <2>1. skip_whitespace[j] = SkipStep(skip_whitespace, j)
    BY SkipDefined
  <2>2. CASE CharAt(j) \in Blanks
    <3>1. skip_whitespace[j] = skip_whitespace[j + 1]
      BY <2>1, <2>2 DEF SkipStep
    <3>2. j + 1 \in Places /\ Skips(j, j + 1)
      BY <2>2, SkipsForward, SkipsOne
    <3>3. j + 1 > j
      BY <1>1
    <3>4. QED
      BY <1>2, <1>4, <3>1, <3>2, <3>3
  <2>3. CASE CharAt(j) \notin Blanks /\ CharAt(j) = "/" /\ CharAt(j + 1) = "/"
    <3>1. skip_whitespace[j] = skip_whitespace[LineEnd(j)]
      BY <2>1, <2>3 DEF SkipStep
    <3>2. LineEnd(j) \in Places /\ LineEnd(j) > j /\ Skips(j, LineEnd(j))
      BY <2>3, SkipsForward, SkipsOne
    <3>3. QED
      BY <1>2, <1>4, <3>1, <3>2
  <2>4. CASE CharAt(j) \notin Blanks /\ CharAt(j) = "/" /\ CharAt(j + 1) = "*"
    <3>1. skip_whitespace[j] = skip_whitespace[CommentEnd(j + 2)]
      BY <2>1, <2>4 DEF SkipStep
    <3>2. /\ CommentEnd(j + 2) \in Places /\ CommentEnd(j + 2) > j
          /\ Skips(j, CommentEnd(j + 2))
      BY <2>4, SkipsForward, SkipsOne
    <3>3. QED
      BY <1>2, <1>4, <3>1, <3>2
  <2>5. CASE /\ CharAt(j) \notin Blanks
             /\ ~(CharAt(j) = "/" /\ CharAt(j + 1) = "/")
             /\ ~(CharAt(j) = "/" /\ CharAt(j + 1) = "*")
    <3>1. skip_whitespace[j] = j
      BY <2>1, <2>5 DEF SkipStep
    <3>2. QED
      BY <1>3, <2>5, <3>1
  <2>6. QED
    BY <2>2, <2>3, <2>4, <2>5
<1>5. 0 \in S
  <2>1. \A j \in Places : j >= end - 0 => \A k \in Places : ~(k > j)
    BY <1>1
  <2>2. QED
    BY <1>4, <2>1
<1>6. ASSUME NEW n \in Nat, n \in S
      PROVE  n + 1 \in S
  <2>1. \A j \in Places : j >= end - (n + 1) => \A k \in Places : k > j => k >= end - n
    BY <1>1
  <2>2. QED
    BY <1>4, <1>6, <2>1
<1>7. end \in S
  <2> HIDE DEF S
  <2>1. QED
    BY <1>1, <1>5, <1>6, SetInduction
<1>8. i >= end - end
  BY <1>1
<1>9. QED
  BY <1>7, <1>8 DEF Found

-----------------------------------------------------------------------------
(***************************************************************************)
(* The end of a string or character, in the same way.                      *)
(***************************************************************************)
QuoteStep(f, i, quote) ==
  IF i > Len(source) THEN i
  ELSE IF source[i] = quote THEN i + 1
  ELSE IF source[i] = "\\" /\ i < Len(source) THEN f[i + 2]
  ELSE f[i + 1]

LEMMA QuoteDefined ==
  ASSUME InText, NEW quote
  PROVE  \E f : /\ f = [i \in Places |-> QuoteStep(f, i, quote)]
                /\ \A i \in Places : quoted_end(quote, i) = f[i]
<1> DEFINE end == Len(source) + 1
           From(n) == {i \in Places : i >= end - n}
           S == {n \in Nat : \E f : f = [i \in From(n) |-> QuoteStep(f, i, quote)]}
<1>1. end \in Nat \ {0} /\ Places = 1 .. end
  BY TextProperties DEF Places
<1>2. \A n \in Nat : \A i \in From(n) : \A f, g :
        (\A j \in Places : j > i => f[j] = g[j])
          => QuoteStep(f, i, quote) = QuoteStep(g, i, quote)
  <2>1. SUFFICES ASSUME NEW i \in Places, NEW f, NEW g,
                        \A j \in Places : j > i => f[j] = g[j]
                 PROVE  QuoteStep(f, i, quote) = QuoteStep(g, i, quote)
    OBVIOUS
  <2>2. i \in Nat /\ Len(source) \in Nat
    BY TextProperties
  <2>3. i <= Len(source) => i + 1 \in Places /\ i + 1 > i
    BY <1>1, <2>2
  <2>4. i < Len(source) => i + 2 \in Places /\ i + 2 > i
    BY <1>1, <2>2
  <2>5. QED
    BY <2>1, <2>2, <2>3, <2>4 DEF QuoteStep
<1> HIDE DEF From
<1>3. 0 \in S
  <2> DEFINE none == [i \in {} |-> 0]
             f == [i \in From(0) |-> QuoteStep(none, i, quote)]
  <2>1. \A i \in From(0), j \in Places : ~(j > i)
    BY <1>1 DEF From
  <2>2. \A i \in From(0) : QuoteStep(f, i, quote) = QuoteStep(none, i, quote)
    <3> HIDE DEF f, none
    <3>1. QED
      BY <1>2, <2>1
  <2>3. f = [i \in From(0) |-> QuoteStep(f, i, quote)]
    BY <2>2
  <2> HIDE DEF f
  <2>4. QED
    BY <2>3
<1>4. ASSUME NEW n \in Nat, n \in S
      PROVE  n + 1 \in S
  <2>1. PICK f : f = [i \in From(n) |-> QuoteStep(f, i, quote)]
    BY <1>4
  <2> DEFINE g == [i \in From(n + 1) |->
                     IF i \in From(n) THEN f[i] ELSE QuoteStep(f, i, quote)]
  <2>2. \A i \in From(n + 1), j \in Places : j > i => j \in From(n) /\ j \in From(n + 1)
    BY <1>1 DEF From
  <2>3. \A i \in From(n + 1), j \in Places : j > i => g[j] = f[j]
    BY <2>2
  <2>4. \A i \in From(n + 1) : QuoteStep(g, i, quote) = QuoteStep(f, i, quote)
    <3> HIDE DEF g
    <3>1. QED
      BY <1>2, <2>3
  <2>5. \A i \in From(n) : f[i] = QuoteStep(f, i, quote)
    BY <2>1
  <2>6. g = [i \in From(n + 1) |-> QuoteStep(g, i, quote)]
    <3>1. \A i \in From(n + 1) : g[i] = QuoteStep(f, i, quote)
      BY <2>5
    <3>2. \A i \in From(n + 1) : g[i] = QuoteStep(g, i, quote)
      <4> HIDE DEF g
      <4>1. QED
        BY <2>4, <3>1
    <3>3. QED
      BY <3>2
  <2> HIDE DEF g
  <2>7. QED
    BY <2>6
<1>5. end \in S
  <2> HIDE DEF S
  <2>1. QED
    BY <1>1, <1>3, <1>4, SetInduction
<1>6. From(end) = Places
  BY <1>1 DEF From
<1>7. \E f : f = [i \in Places |-> QuoteStep(f, i, quote)]
  BY <1>5, <1>6
<1> DEFINE chosen == CHOOSE f : f = [i \in Places |-> QuoteStep(f, i, quote)]
<1>8. \A i \in Places : quoted_end(quote, i) = chosen[i]
  BY DEF quoted_end, QuoteStep
<1>9. QED
  BY <1>7, <1>8

LEMMA QuoteFound ==
  ASSUME InText, NEW quote, NEW i \in Places
  PROVE  quoted_end(quote, i) \in Places /\ quoted_end(quote, i) >= i
<1>1. PICK f : /\ f = [j \in Places |-> QuoteStep(f, j, quote)]
               /\ \A j \in Places : quoted_end(quote, j) = f[j]
  BY QuoteDefined
<1> DEFINE end == Len(source) + 1
           Found(j) == f[j] \in Places /\ f[j] >= j
           S == {n \in Nat : \A j \in Places : j >= end - n => Found(j)}
<1>2. end \in Nat \ {0} /\ Places = 1 .. end
  BY TextProperties DEF Places
<1>3. ASSUME NEW j \in Places, \A k \in Places : k > j => Found(k)
      PROVE  Found(j)
  <2>1. f[j] = QuoteStep(f, j, quote)
    BY <1>1
  <2>2. \A k \in Places : k > j => f[k] \in Places /\ f[k] >= j
    BY <1>2, <1>3
  <2>3. j \in Nat /\ Len(source) \in Nat
    BY TextProperties
  <2>4. j <= Len(source) => j + 1 \in Places /\ j + 1 > j
    BY <1>2, <2>3
  <2>5. j < Len(source) => j + 2 \in Places /\ j + 2 > j
    BY <1>2, <2>3
  <2>6. QED
    BY <2>1, <2>2, <2>3, <2>4, <2>5 DEF QuoteStep
<1> HIDE DEF Found
<1>4. 0 \in S
  <2>1. \A j \in Places : j >= end - 0 => \A k \in Places : ~(k > j)
    BY <1>2
  <2>2. QED
    BY <1>3, <2>1
<1>5. ASSUME NEW n \in Nat, n \in S
      PROVE  n + 1 \in S
  <2>1. \A j \in Places : j >= end - (n + 1) => \A k \in Places : k > j => k >= end - n
    BY <1>2
  <2>2. QED
    BY <1>3, <1>5, <2>1
<1>6. end \in S
  <2> HIDE DEF S
  <2>1. QED
    BY <1>2, <1>4, <1>5, SetInduction
<1>7. i >= end - end
  BY <1>2
<1>8. Found(i)
  BY <1>6, <1>7
<1>9. QED
  BY <1>1, <1>8 DEF Found

-----------------------------------------------------------------------------
(***************************************************************************)
(* Locations.  The line and column that are counted from one place to      *)
(* another are those that a count from the start of the text would give.   *)
(***************************************************************************)
LEMMA LastFound ==
  ASSUME NEW n \in Nat, NEW S, S \subseteq 0 .. n, S # {}
  PROVE  /\ Rightmost(S) \in S /\ \A k \in S : k <= Rightmost(S)
         /\ \A j \in S : (\A k \in S : k <= j) => j = Rightmost(S)
<1>1. \E j \in S : \A k \in S : k <= j
  BY GreatestNumber
<1>2. Rightmost(S) \in S /\ \A k \in S : k <= Rightmost(S)
  BY <1>1 DEF Rightmost
<1>3. \A j \in S : j \in Nat
  OBVIOUS
<1>4. ASSUME NEW j \in S, \A k \in S : k <= j
      PROVE  j = Rightmost(S)
  <2>1. Rightmost(S) <= j /\ j <= Rightmost(S) /\ j \in Nat /\ Rightmost(S) \in Nat
    BY <1>2, <1>3, <1>4
  <2>2. QED
    BY <2>1
<1>5. QED
  BY <1>2, <1>4

LEMMA PositionIs ==
  ASSUME NEW i \in Nat \ {0}
  PROVE  /\ Position(i) = [line   |-> Cardinality(Breaks(1, i)) + 1,
                           column |-> i - Rightmost(Breaks(1, i) \cup {0})]
         /\ Rightmost(Breaks(1, i) \cup {0}) \in 0 .. i - 1
         /\ Cardinality(Breaks(1, i)) \in Nat
         /\ Position(i) \in Location
<1>1. Position(i) = [line   |-> Cardinality(Breaks(1, i)) + 1,
                     column |-> i - Rightmost(Breaks(1, i) \cup {0})]
  BY DEF Position
<1>2. Breaks(1, i) \cup {0} \subseteq 0 .. i - 1 /\ i - 1 \in Nat
  BY DEF Breaks
<1>3. Rightmost(Breaks(1, i) \cup {0}) \in 0 .. i - 1
  <2>1. Rightmost(Breaks(1, i) \cup {0}) \in Breaks(1, i) \cup {0}
    BY <1>2, LastFound
  <2>2. QED
    BY <1>2, <2>1
<1>4. Cardinality(Breaks(1, i)) \in Nat
  <2>1. IsFiniteSet(1 .. i - 1)
    BY FS_Interval
  <2>2. IsFiniteSet(Breaks(1, i))
    BY <2>1, FS_Subset DEF Breaks
  <2>3. QED
    BY <2>2, FS_CardinalityType
<1>5. \A c \in Nat, l \in 0 .. i - 1 : c + 1 \in Nat \ {0} /\ i - l \in Nat \ {0}
  OBVIOUS
<1>6. Position(i) \in Location
  <2>1. /\ Cardinality(Breaks(1, i)) + 1 \in Nat \ {0}
        /\ i - Rightmost(Breaks(1, i) \cup {0}) \in Nat \ {0}
    BY <1>3, <1>4, <1>5
  <2>2. QED
    BY <1>1, <2>1 DEF Location
<1>7. QED
  BY <1>1, <1>3, <1>4, <1>6

Located == [line |-> line, column |-> column] = Position(current)

LEMMA LocIsPosition ==
  ASSUME current \in Nat \ {0}, Located, NEW i \in Nat, i >= current
  PROVE  Loc(i) = Position(i)
<1> DEFINE A == Breaks(1, current)
           B == Breaks(current, i)
           C == Breaks(1, i)
<1>1. i \in Nat \ {0} /\ i - 1 \in Nat /\ current - 1 \in Nat
  OBVIOUS
<1>2. C = A \cup B /\ A \cap B = {} /\ A \subseteq 1 .. current - 1
      /\ B \subseteq current .. i - 1
  BY DEF Breaks
<1>3. /\ line = Cardinality(A) + 1 /\ column = current - Rightmost(A \cup {0})
      /\ Rightmost(A \cup {0}) \in 0 .. current - 1
      /\ Cardinality(A) \in Nat
  BY PositionIs DEF Located
<1>4. Position(i) = [line |-> Cardinality(C) + 1, column |-> i - Rightmost(C \cup {0})]
  BY <1>1, PositionIs
<1>5. Loc(i) = IF B = {} THEN [line |-> line, column |-> column + (i - current)]
               ELSE [line |-> line + Cardinality(B), column |-> i - Rightmost(B)]
  BY DEF Loc
<1>6. IsFiniteSet(A) /\ IsFiniteSet(B)
  <2>1. IsFiniteSet(1 .. current - 1) /\ IsFiniteSet(current .. i - 1)
    BY FS_Interval
  <2>2. QED
    BY <1>2, <2>1, FS_Subset
<1> HIDE DEF A, B, C
<1>7. CASE B = {}
  <2>1. C = A
    BY <1>2, <1>7
  <2>2. \A l \in 0 .. current - 1 : (current - l) + (i - current) = i - l
    OBVIOUS
  <2>3. column + (i - current) = i - Rightmost(A \cup {0})
    BY <1>3, <2>2
  <2>4. QED
    BY <1>3, <1>4, <1>5, <1>7, <2>1, <2>3
<1>8. CASE B # {}
  <2>1. B \subseteq 0 .. i - 1 /\ C \cup {0} \subseteq 0 .. i - 1 /\ C \cup {0} # {}
    BY <1>1, <1>2
  <2>2. Rightmost(B) \in B /\ \A k \in B : k <= Rightmost(B)
    BY <1>1, <1>8, <2>1, LastFound
  <2>3. Rightmost(B) \in C \cup {0}
    BY <1>2, <2>2
  <2>4. \A k \in C \cup {0} : k <= Rightmost(B)
    <3>1. Rightmost(B) \in current .. i - 1
      BY <1>2, <2>2
    <3>2. \A k \in 0 .. current - 1 : k <= Rightmost(B)
      BY <3>1
    <3>3. \A k \in A \cup {0} : k \in 0 .. current - 1
      BY <1>2
    <3>4. QED
      BY <1>2, <2>2, <3>2, <3>3
  <2>5. Rightmost(B) = Rightmost(C \cup {0})
    BY <1>1, <2>1, <2>3, <2>4, LastFound
  <2>6. Cardinality(C) = Cardinality(A) + Cardinality(B)
    <3>1. Cardinality(A \cap B) = 0
      BY <1>2, FS_EmptySet
    <3>2. Cardinality(C) = Cardinality(A) + Cardinality(B) - Cardinality(A \cap B)
      BY <1>2, <1>6, FS_Union
    <3>3. Cardinality(A) \in Nat /\ Cardinality(B) \in Nat
      BY <1>6, FS_CardinalityType
    <3>4. QED
      BY <3>1, <3>2, <3>3
  <2>7. Cardinality(B) \in Nat
    BY <1>6, FS_CardinalityType
  <2>8. line + Cardinality(B) = Cardinality(C) + 1
    BY <1>3, <2>6, <2>7
  <2>9. QED
    BY <1>4, <1>5, <1>8, <2>5, <2>8
<1>9. QED
  BY <1>7, <1>8

-----------------------------------------------------------------------------
(***************************************************************************)
(* The readers.  What each reads fits into the text.                       *)
(***************************************************************************)
Fits(i, lexeme) ==
  /\ lexeme.kind \in Kinds /\ lexeme.length \in Nat /\ lexeme.end \in Places
  /\ i + lexeme.length <= lexeme.end

LEMMA NextPlace ==
  ASSUME InText, NEW i \in Nat \ {0}, CharAt(i) # NUL
  PROVE  i \in Places /\ i <= Len(source) /\ source[i] = CharAt(i)
         /\ i + 1 \in Places /\ i + 1 > i
BY TextProperties DEF CharAt, Places

LEMMA Further ==
  ASSUME InText, NEW i \in Places, NEW k \in Nat, NEW j \in Places, j >= i + k
  PROVE  j >= i
<1>1. i \in Nat /\ j \in Nat
  BY TextProperties
<1>2. QED
  BY <1>1

LEMMA Onward ==
  ASSUME InText, NEW i \in Places, NEW j \in Places, NEW k \in Places, j >= i, k >= j
  PROVE  k >= i
<1>1. i \in Nat /\ j \in Nat /\ k \in Nat
  BY TextProperties
<1>2. QED
  BY <1>1

LEMMA UpToFits ==
  ASSUME InText, NEW i \in Places, NEW end \in Places, end >= i, NEW kind \in Kinds
  PROVE  Fits(i, UpTo(kind, i, end)) /\ UpTo(kind, i, end).kind = kind
BY TextProperties DEF Fits, UpTo, Lexeme

LEMMA WholeFound ==
  ASSUME InText, NEW i \in Places, CharAt(i) # NUL
  PROVE  Whole(i) \in Places /\ Whole(i) >= i
<1>1. i \in Nat \ {0} /\ i + 1 \in Places /\ i + 1 >= i
  BY NextPlace, TextProperties
<1>2. FirstOutside(Digits, i + 1) \in Places /\ FirstOutside(Digits, i + 1) >= i
  <2>1. FirstOutside(Digits, i + 1) \in Places /\ FirstOutside(Digits, i + 1) >= i + 1
    BY <1>1, FirstOutsideFound
  <2>2. QED
    BY <2>1, Further
<1>3. ASSUME NEW S, CharAt(i + 1) # NUL
      PROVE  FirstOutside(S, i + 2) \in Places /\ FirstOutside(S, i + 2) >= i
  <2>1. i + 2 \in Places
    <3>1. i + 1 \in Nat \ {0} /\ (i + 1) + 1 = i + 2
      BY <1>1
    <3>2. QED
      BY <1>3, <3>1, NextPlace
  <2>2. FirstOutside(S, i + 2) \in Places /\ FirstOutside(S, i + 2) >= i + 2
    BY <2>1, FirstOutsideFound
  <2>3. QED
    BY <2>2, Further
<1>4. Hex(i) \/ Binary(i) => CharAt(i + 1) # NUL
  BY DEF Hex, Binary, Prefixed, NUL
<1>5. QED
  BY <1>1, <1>2, <1>3, <1>4 DEF Whole

LEMMA NumberFits ==
  ASSUME InText, NEW i \in Places, CharAt(i) # NUL
  PROVE  /\ Fits(i, read_number(i))
         /\ read_number(i).kind \in {"integer", "float"}
         /\ BadBinary(i) => read_number(i).kind = "integer"
<1> DEFINE plain    == ~Hex(i) /\ ~Binary(i)
           whole    == Whole(i)
           point    == plain /\ HasFraction(whole)
           decimals == IF point THEN FirstOutside(Digits, whole + 1) ELSE whole
           exponent == plain /\ CharAt(decimals) \in {"e", "E"}
           power    == IF CharAt(decimals + 1) \in {"+", "-"} THEN decimals + 2
                       ELSE decimals + 1
           end      == IF exponent THEN FirstOutside(Digits, power) ELSE decimals
           kind     == IF CharAt(i) = "." \/ point \/ exponent THEN "float" ELSE "integer"
<1>1. read_number(i) = UpTo(kind, i, end)
  BY DEF read_number
<1>2. BadBinary(i) => ~plain /\ CharAt(i) # "."
  BY DEF BadBinary, Binary, Prefixed
<1>3. kind \in Kinds /\ kind \in {"integer", "float"} /\ (BadBinary(i) => kind = "integer")
  BY <1>2 DEF Kinds
<1>4. i \in Nat \ {0} /\ \A j \in Places : j \in Nat \ {0}
  BY TextProperties
<1>5. whole \in Places /\ whole >= i
  BY WholeFound
<1>6. ASSUME NEW j \in Places, CharAt(j) # NUL, NEW S
      PROVE  FirstOutside(S, j + 1) \in Places /\ FirstOutside(S, j + 1) >= j
  <2>1. j \in Nat \ {0} /\ j + 1 \in Places
    BY <1>4, <1>6, NextPlace
  <2>2. FirstOutside(S, j + 1) \in Places /\ FirstOutside(S, j + 1) >= j + 1
    BY <2>1, FirstOutsideFound
  <2>3. QED
    BY <2>2, Further
<1>7. decimals \in Places /\ decimals >= i
  <2>1. point => CharAt(whole) # NUL
    BY DEF HasFraction, NUL
  <2> HIDE DEF whole, plain
  <2>2. point => /\ FirstOutside(Digits, whole + 1) \in Places
                 /\ FirstOutside(Digits, whole + 1) >= whole
    BY <1>5, <1>6, <2>1
  <2>3. QED
    BY <1>4, <1>5, <2>2, Onward
<1> HIDE DEF decimals, plain
<1>8. end \in Places /\ end >= i
  <2>1. exponent => CharAt(decimals) # NUL
    BY DEF NUL
  <2>2. exponent => /\ FirstOutside(Digits, decimals + 1) \in Places
                    /\ FirstOutside(Digits, decimals + 1) >= decimals
    BY <1>6, <1>7, <2>1
  <2>3. exponent /\ CharAt(decimals + 1) \in {"+", "-"}
          => /\ FirstOutside(Digits, decimals + 2) \in Places
             /\ FirstOutside(Digits, decimals + 2) >= decimals
    <3>1. SUFFICES ASSUME exponent, CharAt(decimals + 1) \in {"+", "-"}
                   PROVE  /\ FirstOutside(Digits, decimals + 2) \in Places
                          /\ FirstOutside(Digits, decimals + 2) >= decimals
      OBVIOUS
    <3>2. CharAt(decimals + 1) # NUL
      BY <3>1 DEF NUL
    <3>3. decimals + 1 \in Places /\ decimals \in Nat \ {0}
      BY <1>4, <1>7, <2>1, <3>1, NextPlace
    <3>4. /\ FirstOutside(Digits, (decimals + 1) + 1) \in Places
          /\ FirstOutside(Digits, (decimals + 1) + 1) >= decimals + 1
      BY <1>6, <3>2, <3>3
    <3>5. (decimals + 1) + 1 = decimals + 2
      BY <3>3
    <3>6. FirstOutside(Digits, decimals + 2) \in Nat
      BY <1>4, <3>4, <3>5
    <3>7. QED
      BY <3>3, <3>4, <3>5, <3>6
  <2> HIDE DEF exponent
  <2>4. exponent => /\ FirstOutside(Digits, power) \in Places
                    /\ FirstOutside(Digits, power) >= decimals
    BY <2>2, <2>3
  <2> HIDE DEF power
  <2>5. QED
    BY <1>4, <1>7, <2>4, Onward
<1> HIDE DEF kind, end
<1>9. QED
  BY <1>1, <1>3, <1>8, UpToFits

LEMMA StringFits ==
  ASSUME InText, NEW i \in Places, CharAt(i) # NUL
  PROVE  Fits(i, read_string(i)) /\ read_string(i).kind \in {"character", "string"}
<1>1. i \in Nat \ {0} /\ i + 1 \in Places
  BY NextPlace, TextProperties
<1> DEFINE end  == quoted_end(CharAt(i), i + 1)
           kind == IF CharAt(i) = "'" THEN "character" ELSE "string"
<1>2. end \in Places /\ end >= i + 1
  BY <1>1, QuoteFound
<1>3. end \in Places /\ end >= i
  BY <1>2, Further
<1>4. kind \in Kinds /\ kind \in {"character", "string"}
  BY DEF Kinds
<1>5. read_string(i) = UpTo(kind, i, end)
  BY DEF read_string
<1> HIDE DEF kind, end
<1>6. QED
  BY <1>3, <1>4, <1>5, UpToFits

LEMMA IdentifierFits ==
  ASSUME InText, NEW i \in Places, CharAt(i) # NUL
  PROVE  Fits(i, read_identifier(i)) /\ read_identifier(i).kind \in {"keyword", "identifier"}
<1>1. i \in Nat \ {0} /\ i + 1 \in Places
  BY NextPlace, TextProperties
<1> DEFINE end  == FirstOutside(WordCharacters, i + 1)
           kind == IF Text(i, end) \in Keywords THEN "keyword" ELSE "identifier"
<1>2. end \in Places /\ end >= i + 1
  BY <1>1, FirstOutsideFound
<1>3. end \in Places /\ end >= i
  BY <1>2, Further
<1>4. kind \in Kinds /\ kind \in {"keyword", "identifier"}
  BY DEF Kinds
<1>5. read_identifier(i) = UpTo(kind, i, end)
  BY DEF read_identifier
<1> HIDE DEF kind, end
<1>6. QED
  BY <1>3, <1>4, <1>5, UpToFits

LEMMA PreprocessorFits ==
  ASSUME InText, NEW i \in Places, CharAt(i) # NUL
  PROVE  /\ Fits(i, read_preprocessor(i))
         /\ read_preprocessor(i).kind \in {"directive", "keyword", "error"}
         /\ \E kind, end : read_preprocessor(i) = UpTo(kind, i, end)
<1>1. i \in Nat \ {0} /\ i + 1 \in Places
  BY NextPlace, TextProperties
<1> DEFINE end  == FirstOutside(Letters \cup {"_"}, i + 1)
<1>2. end \in Places /\ end >= i + 1
  BY <1>1, FirstOutsideFound
<1>3. LineEnd(end) \in Places /\ LineEnd(end) >= end
  BY <1>2, LineEndFound
<1>4. end >= i /\ LineEnd(end) >= i
  <2>1. end >= i
    BY <1>2, Further
  <2>2. QED
    BY <1>2, <1>3, <2>1, Onward
<1> DEFINE word == Text(i + 1, end)
<1>5. \/ read_preprocessor(i) = UpTo("directive", i, LineEnd(end))
      \/ read_preprocessor(i) = UpTo("directive", i, end)
      \/ read_preprocessor(i) = UpTo("keyword", i, end)
      \/ read_preprocessor(i) = UpTo("error", i, end)
  <2>0. If # Else /\ If \notin Conditionals /\ Else \notin Conditionals
        /\ Keywords \cap Conditionals = {}
    <3>1. Len(If) = 2 /\ Len(Else) = 4
      BY DEF If, Else
    <3>2. If # Else
      BY <3>1
    <3>3. QED
      BY <3>2, WordsAssumption
  <2>1. CASE word = If
    BY <2>0, <2>1 DEF read_preprocessor
  <2>2. CASE word = Else
    BY <2>0, <2>2 DEF read_preprocessor
  <2>3. CASE word \in Keywords \ {If, Else}
    BY <2>0, <2>3 DEF read_preprocessor
  <2>4. CASE word \in Conditionals /\ word \notin Keywords /\ word \notin {If, Else}
    BY <2>4 DEF read_preprocessor
  <2>5. CASE word \notin Conditionals \cup Keywords \cup {If, Else}
    BY <2>5 DEF read_preprocessor
  <2>6. QED
    BY <2>1, <2>2, <2>3, <2>4, <2>5
<1> HIDE DEF end
<1>6. "directive" \in Kinds /\ "keyword" \in Kinds /\ "error" \in Kinds
  BY DEF Kinds
<1>7. QED
  BY <1>2, <1>3, <1>4, <1>5, <1>6, UpToFits

LEMMA OperatorLengthFits ==
  ASSUME InText, NEW i \in Places, CharAt(i) # NUL, << CharAt(i) >> \in Operators
  PROVE  LET n == OperatorLength(i)
         IN /\ n \in 1 .. 3 /\ i + n <= Len(source) + 1
            /\ Text(i, i + n) \in Operators
            /\ \A m \in n + 1 .. 3 :
                 i + m <= Len(source) + 1 => Text(i, i + m) \notin Operators
<1>1. i \in Nat \ {0} /\ i <= Len(source) /\ CharAt(i) = source[i] /\ Len(source) \in Nat
  BY NextPlace, TextProperties
<1>2. Text(i, i + 1) = << source[i] >>
  <2>1. (i + 1) - 1 = i
    BY <1>1
  <2>2. SubSeq(source, i, i) = << source[i] >>
    <3>1. SubSeq(source, i, i) = << source[i] >> \o SubSeq(source, i + 1, i)
      BY <1>1, SubSeqRecursiveFirst DEF InText
    <3>2. SubSeq(source, i + 1, i) = << >>
      BY <1>1, SubSeqEmpty
    <3>3. << source[i] >> \in Seq(STRING)
      BY <1>1, TextProperties
    <3>4. QED
      BY <3>1, <3>2, <3>3, ConcatEmptySeq
  <2>3. QED
    BY <2>1, <2>2 DEF Text
<1> DEFINE Fitting(n) == i + n <= Len(source) + 1 /\ Text(i, i + n) \in Operators
           T == {n \in 1 .. 3 : Fitting(n)}
<1>3. 1 \in T
  BY <1>1, <1>2
<1>4. \E n \in T : \A m \in T : m <= n
  <2>1. T \subseteq 0 .. 3 /\ T # {}
    BY <1>3
  <2> HIDE DEF T
  <2>2. QED
    BY <2>1, GreatestNumber
<1>5. \E n \in 1 .. 3 : /\ i + n <= Len(source) + 1 /\ Text(i, i + n) \in Operators
                        /\ \A m \in n + 1 .. 3 :
                             i + m <= Len(source) + 1 => Text(i, i + m) \notin Operators
  <2>1. PICK n \in T : \A m \in T : m <= n
    BY <1>4
  <2>2. n \in 1 .. 3 /\ Fitting(n)
    BY <2>1
  <2>3. \A m \in n + 1 .. 3 : m \in 1 .. 3 /\ ~(m <= n)
    BY <2>2
  <2>4. \A m \in n + 1 .. 3 : ~Fitting(m)
    <3> HIDE DEF Fitting
    <3>1. QED
      BY <2>1, <2>3
  <2>5. QED
    BY <2>2, <2>4
<1>6. QED
  BY <1>5 DEF OperatorLength

LEMMA OperatorFits ==
  ASSUME InText, NEW i \in Places, CharAt(i) # NUL, << CharAt(i) >> \in Operators
  PROVE  Fits(i, read_operator(i)) /\ read_operator(i).kind = "operator"
<1>1. i \in Nat \ {0} /\ i + 1 \in Nat \ {0} /\ Len(source) \in Nat
  BY TextProperties
<1> DEFINE n == OperatorLength(i)
<1>2. n \in 1 .. 3 /\ i + n <= Len(source) + 1
  BY OperatorLengthFits
<1>3. CharAt(i + 1) = "." => i + 2 \in Places
  <2>1. "." # NUL
    BY DEF NUL
  <2>2. (i + 1) + 1 = i + 2
    BY <1>1
  <2>3. QED
    BY <1>1, <2>1, <2>2, NextPlace
<1> DEFINE end == IF n = 1 /\ CharAt(i) = "." /\ CharAt(i + 1) = "." THEN i + 2 ELSE i + n
<1>4. read_operator(i) = [kind |-> "operator", length |-> n, end |-> end]
  BY DEF read_operator, Lexeme
<1> HIDE DEF n
<1>5. i + n \in Places
  BY <1>1, <1>2 DEF Places
<1>6. end \in Places /\ i + n <= end
  BY <1>1, <1>2, <1>3, <1>5
<1>7. "operator" \in Kinds /\ n \in Nat
  BY <1>2 DEF Kinds
<1> HIDE DEF end
<1>8. QED
  BY <1>4, <1>6, <1>7 DEF Fits

(* Which reader reads it.                                                  *)
LEMMA Readers ==
  ASSUME NEW i
  PROVE  \A lexeme : lexeme = Read(i) =>
           \/ CharAt(i) = NUL /\ lexeme = UpTo("EOF", i, i)
           \/ CharAt(i) \in Letters \cup {"_"} /\ lexeme = read_identifier(i)
           \/ BeginsNumber(i) /\ lexeme = read_number(i)
           \/ CharAt(i) = "#" /\ lexeme = read_preprocessor(i)
           \/ CharAt(i) \in {"\"", "'"} /\ lexeme = read_string(i)
           \/ << CharAt(i) >> \in Operators /\ lexeme = read_operator(i)
           \/ /\ CharAt(i) # NUL /\ ~BeginsNumber(i) /\ << CharAt(i) >> \notin Operators
              /\ lexeme = UpTo("error", i, i + 1)
BY Zenon DEF Read

LEMMA OperatorCharacters ==
  ASSUME NEW c, << c >> \in Operators
  PROVE  c \notin {NUL, "0"}
<1>1. \A x, y : << c >> # << x, y >>
  <2>1. \A x, y : Len(<< c >>) = 1 /\ Len(<< x, y >>) = 2
    OBVIOUS
  <2>2. QED
    BY <2>1
<1>2. \A x, y, z : << c >> # << x, y, z >>
  <2>1. \A x, y, z : Len(<< c >>) = 1 /\ Len(<< x, y, z >>) = 3
    OBVIOUS
  <2>2. QED
    BY <2>1
<1>3. \A x : << c >> = << x >> => c = x
  OBVIOUS
<1>4. << c >> \in {<< x >> : x \in {Backtick, "(", ")", "{", "}", "[", "]", ",", ":", ";",
                                  "?", "~", "^", "+", "-", "*", "/", "%", "&", "|",
                                  "!", "=", "<", ">", "."}}
  BY <1>1, <1>2 DEF Operators
<1>5. QED
  BY <1>3, <1>4 DEF NUL, Backtick

LEMMA ReadFits ==
  ASSUME InText, NEW i \in Places
  PROVE  /\ Fits(i, Read(i))
         /\ CharAt(i) = NUL => Read(i) = UpTo("EOF", i, i)
         /\ Read(i).kind = "EOF" => CharAt(i) = NUL
         /\ BadBinary(i) => Read(i).kind = "integer"
<1>1. i \in Nat \ {0}
  BY TextProperties
<1> DEFINE lexeme == Read(i)
<1>2. \/ CharAt(i) = NUL /\ lexeme = UpTo("EOF", i, i)
      \/ CharAt(i) \in Letters \cup {"_"} /\ lexeme = read_identifier(i)
      \/ BeginsNumber(i) /\ lexeme = read_number(i)
      \/ CharAt(i) = "#" /\ lexeme = read_preprocessor(i)
      \/ CharAt(i) \in {"\"", "'"} /\ lexeme = read_string(i)
      \/ << CharAt(i) >> \in Operators /\ lexeme = read_operator(i)
      \/ /\ CharAt(i) # NUL /\ ~BeginsNumber(i)
         /\ lexeme = UpTo("error", i, i + 1)
  BY Readers
<1> HIDE DEF lexeme
<1>3. BadBinary(i) => CharAt(i) = "0"
  BY DEF BadBinary, Binary, Prefixed
<1>4. NUL \notin Letters \cup {"_"} /\ "0" \notin Letters \cup {"_"}
  BY DEF NUL, Letters, HexDigits, Digits
<1>5. CharAt(i) = "0" => BeginsNumber(i)
  BY DEF BeginsNumber, Digits
<1>6. CASE CharAt(i) = NUL /\ lexeme = UpTo("EOF", i, i)
  <2>1. "EOF" \in Kinds /\ i >= i
    BY <1>1 DEF Kinds
  <2>2. Fits(i, lexeme)
    BY <1>6, <2>1, UpToFits
  <2>3. CharAt(i) # "0"
    BY <1>6 DEF NUL
  <2>4. QED
    BY <1>3, <1>6, <2>2, <2>3 DEF lexeme
<1>7. ASSUME CharAt(i) # NUL, Fits(i, lexeme), lexeme.kind # "EOF",
             CharAt(i) = "0" => lexeme.kind = "integer" \/ ~BadBinary(i)
      PROVE  /\ Fits(i, lexeme)
             /\ CharAt(i) = NUL => lexeme = UpTo("EOF", i, i)
             /\ lexeme.kind = "EOF" => CharAt(i) = NUL
             /\ BadBinary(i) => lexeme.kind = "integer"
  BY <1>3, <1>7
<1>8. CASE CharAt(i) \in Letters \cup {"_"} /\ lexeme = read_identifier(i)
  <2>1. CharAt(i) # NUL /\ CharAt(i) # "0"
    BY <1>4, <1>8
  <2>2. Fits(i, lexeme) /\ lexeme.kind # "EOF"
    BY <1>8, <2>1, IdentifierFits
  <2>3. QED
    BY <1>7, <2>1, <2>2 DEF lexeme
<1>9. CASE BeginsNumber(i) /\ lexeme = read_number(i)
  <2>1. CharAt(i) # NUL
    BY <1>9 DEF BeginsNumber, Digits, NUL
  <2>2. Fits(i, lexeme) /\ lexeme.kind # "EOF" /\ (BadBinary(i) => lexeme.kind = "integer")
    BY <1>9, <2>1, NumberFits
  <2>3. QED
    BY <1>7, <2>1, <2>2 DEF lexeme
<1>10. CASE CharAt(i) = "#" /\ lexeme = read_preprocessor(i)
  <2>1. CharAt(i) # NUL /\ CharAt(i) # "0"
    BY <1>10 DEF NUL
  <2>2. Fits(i, lexeme) /\ lexeme.kind # "EOF"
    BY <1>10, <2>1, PreprocessorFits
  <2>3. QED
    BY <1>7, <2>1, <2>2 DEF lexeme
<1>11. CASE CharAt(i) \in {"\"", "'"} /\ lexeme = read_string(i)
  <2>1. CharAt(i) # NUL /\ CharAt(i) # "0"
    BY <1>11 DEF NUL
  <2>2. Fits(i, lexeme) /\ lexeme.kind # "EOF"
    BY <1>11, <2>1, StringFits
  <2>3. QED
    BY <1>7, <2>1, <2>2 DEF lexeme
<1>12. CASE << CharAt(i) >> \in Operators /\ lexeme = read_operator(i)
  <2>1. CharAt(i) # NUL /\ CharAt(i) # "0"
    BY <1>12, OperatorCharacters
  <2>2. Fits(i, lexeme) /\ lexeme.kind # "EOF"
    BY <1>12, <2>1, OperatorFits
  <2>3. QED
    BY <1>7, <2>1, <2>2 DEF lexeme
<1>13. CASE /\ CharAt(i) # NUL /\ ~BeginsNumber(i)
            /\ lexeme = UpTo("error", i, i + 1)
  <2>1. i + 1 \in Places /\ i + 1 >= i /\ "error" \in Kinds
    BY <1>1, <1>13, NextPlace DEF Kinds
  <2>2. Fits(i, lexeme) /\ lexeme.kind # "EOF"
    BY <1>13, <2>1, UpToFits
  <2>3. QED
    BY <1>5, <1>7, <1>13, <2>2 DEF lexeme
<1>14. QED
  BY <1>2, <1>6, <1>8, <1>9, <1>10, <1>11, <1>12, <1>13

(* The lexer advances to the end of the token, and of two dots over both.  *)
LEMMA BehindOne ==
  ASSUME InText, NEW i \in Places, NEW lexeme, Fits(i, lexeme),
         NEW kind, NEW end, lexeme = UpTo(kind, i, end),
         ~(CharAt(i) = "." /\ CharAt(i + 1) = ".")
  PROVE  Behind(TokenAt(i, lexeme)) = lexeme.end
<1>1. i \in Nat /\ lexeme.end \in Nat
  BY TextProperties DEF Fits
<1>2. lexeme.length = lexeme.end - i
  BY DEF UpTo, Lexeme
<1> DEFINE t == TokenAt(i, lexeme)
<1>3. t.start = i /\ t.length = lexeme.length
  BY DEF TokenAt
<1> HIDE DEF t
<1>4. t.start + t.length = lexeme.end
  BY <1>1, <1>2, <1>3
<1>5. t.length = 1 => lexeme.end = i + 1
  BY <1>1, <1>2, <1>3
<1>6. QED
  BY <1>3, <1>4, <1>5 DEF Behind, t

LEMMA BehindRead ==
  ASSUME InText, NEW i \in Places
  PROVE  Behind(TokenAt(i, Read(i))) = Read(i).end
<1> DEFINE lexeme == Read(i)
<1>1. Fits(i, lexeme) /\ i \in Nat
  BY ReadFits, TextProperties
<1>2. \/ CharAt(i) = NUL /\ lexeme = UpTo("EOF", i, i)
      \/ CharAt(i) \in Letters \cup {"_"} /\ lexeme = read_identifier(i)
      \/ BeginsNumber(i) /\ lexeme = read_number(i)
      \/ CharAt(i) = "#" /\ lexeme = read_preprocessor(i)
      \/ CharAt(i) \in {"\"", "'"} /\ lexeme = read_string(i)
      \/ << CharAt(i) >> \in Operators /\ lexeme = read_operator(i)
      \/ /\ CharAt(i) # NUL /\ ~BeginsNumber(i) /\ << CharAt(i) >> \notin Operators
         /\ lexeme = UpTo("error", i, i + 1)
  BY Readers
<1> SUFFICES Behind(TokenAt(i, lexeme)) = lexeme.end
  OBVIOUS
<1> HIDE DEF lexeme
<1>3. ASSUME NEW kind, NEW end, lexeme = UpTo(kind, i, end),
             ~(CharAt(i) = "." /\ CharAt(i + 1) = ".")
      PROVE  Behind(TokenAt(i, lexeme)) = lexeme.end
  BY <1>1, <1>3, BehindOne
<1>4. CASE CharAt(i) = NUL /\ lexeme = UpTo("EOF", i, i)
  BY <1>3, <1>4 DEF NUL
<1>5. CASE CharAt(i) \in Letters \cup {"_"} /\ lexeme = read_identifier(i)
  <2>1. CharAt(i) # "."
    BY <1>5 DEF Letters, HexDigits, Digits
  <2>2. \E kind, end : lexeme = UpTo(kind, i, end)
    BY <1>5 DEF read_identifier
  <2>3. QED
    BY <1>3, <2>1, <2>2
<1>6. CASE BeginsNumber(i) /\ lexeme = read_number(i)
  <2>1. ~(CharAt(i) = "." /\ CharAt(i + 1) = ".")
    BY <1>6 DEF BeginsNumber, Digits
  <2>2. \E kind, end : lexeme = UpTo(kind, i, end)
    BY <1>6 DEF read_number
  <2>3. QED
    BY <1>3, <2>1, <2>2
<1>7. CASE CharAt(i) = "#" /\ lexeme = read_preprocessor(i)
  <2>1. \E kind, end : lexeme = UpTo(kind, i, end)
    <3>1. CharAt(i) # NUL
      BY <1>7 DEF NUL
    <3>2. QED
      BY <1>7, <3>1, PreprocessorFits
  <2>2. QED
    BY <1>3, <1>7, <2>1
<1>8. CASE CharAt(i) \in {"\"", "'"} /\ lexeme = read_string(i)
  <2>1. \E kind, end : lexeme = UpTo(kind, i, end)
    BY <1>8 DEF read_string
  <2>2. QED
    BY <1>3, <1>8, <2>1
<1>9. CASE << CharAt(i) >> \in Operators /\ lexeme = read_operator(i)
  <2> DEFINE n == OperatorLength(i)
             dots == n = 1 /\ CharAt(i) = "." /\ CharAt(i + 1) = "."
             t == TokenAt(i, lexeme)
  <2>1. lexeme = [kind |-> "operator", length |-> n, end |-> IF dots THEN i + 2 ELSE i + n]
    BY <1>9 DEF read_operator, Lexeme
  <2>2. t.start = i /\ t.length = n
    BY <2>1 DEF TokenAt
  <2>3. n \in 1 .. 3
    <3>1. CharAt(i) # NUL
      BY <1>9, OperatorCharacters
    <3>2. QED
      BY <1>9, <3>1, OperatorLengthFits
  <2>4. Behind(t) = IF t.length = 1 /\ CharAt(t.start) = "." /\ CharAt(t.start + t.length) = "."
                    THEN (t.start + t.length) + 1 ELSE t.start + t.length
    BY DEF Behind
  <2> HIDE DEF n, t
  <2>5. (i + 1) + 1 = i + 2
    BY <1>1
  <2>6. CASE dots
    BY <2>1, <2>2, <2>4, <2>5, <2>6 DEF t
  <2>7. CASE ~dots
    BY <2>1, <2>2, <2>4, <2>7 DEF t
  <2>8. QED
    BY <2>6, <2>7
<1>10. CASE /\ CharAt(i) # NUL /\ ~BeginsNumber(i) /\ << CharAt(i) >> \notin Operators
            /\ lexeme = UpTo("error", i, i + 1)
  <2>1. << "." >> \in Operators
    BY DEF Operators
  <2>2. QED
    BY <1>3, <1>10, <2>1
<1>11. QED
  BY <1>2, <1>4, <1>5, <1>6, <1>7, <1>8, <1>9, <1>10

-----------------------------------------------------------------------------
(***************************************************************************)
(* The inductive invariant.  Beside what is to be shown it says that the   *)
(* lexer's own place is located as a token's is and lies behind the last   *)
(* token, and that once it has come to the end of the text it stays there. *)
(***************************************************************************)
Tokens == {delivered[n] : n \in DOMAIN delivered} \cup {peek[n] : n \in DOMAIN peek}

EndToken == [kind |-> "EOF", start |-> current, length |-> 0, loc |-> Position(current)]

AtEnd ==
  /\ \A t \in Tokens : t.kind = "EOF" => t = EndToken /\ CharAt(current) = NUL
  /\ Finished => \A n \in DOMAIN peek : peek[n].kind = "EOF"

(* The place behind the first n of the tokens scanned.                     *)
BehindScanned(n) == IF n = 0 THEN 1 ELSE Behind(Scanned[n])
Reached == current = BehindScanned(Len(Scanned))

LexerInv ==
  /\ TypeOK /\ Located /\ AtEnd /\ Reached
  /\ LocationsExact /\ ErrorsReportedOnce /\ NothingLost

(* What is known of a token when it is read.                               *)
LEMMA ReadToken ==
  ASSUME TypeOK, Located,
         NEW i, i = skip_whitespace[current], NEW lexeme, lexeme = Read(i)
  PROVE  /\ i \in Places /\ i >= current
         /\ Fits(i, lexeme) /\ lexeme.end >= current
         /\ Loc(i + 1) = Position(i + 1) /\ Loc(i + 2) = Position(i + 2)
         /\ Loc(lexeme.end) = Position(lexeme.end) /\ Position(lexeme.end) \in Location
         /\ TokenAt(i, lexeme).loc = Position(IF Unexpected(i, lexeme) THEN i + 1 ELSE i)
         /\ TokenAt(i, lexeme) \in Token
         /\ Complaints(i, lexeme) \in Seq(Location)
         /\ lexeme.kind = "EOF" => /\ CharAt(i) = NUL /\ lexeme = UpTo("EOF", i, i)
                                   /\ Complaints(i, lexeme) = << >>
                                   /\ ~Unexpected(i, lexeme)
         /\ CharAt(current) = NUL => i = current /\ lexeme = UpTo("EOF", i, i)
<1>1. InText /\ current \in Places /\ current \in Nat \ {0}
  <2>1. InText /\ current \in Places
    BY DEF TypeOK, InText
  <2>2. QED
    BY <2>1, TextProperties
<1>2. i \in Places /\ i >= current /\ i \in Nat \ {0}
  BY <1>1, SkipFound, TextProperties
<1>3. /\ Fits(i, lexeme) /\ (CharAt(i) = NUL => lexeme = UpTo("EOF", i, i))
      /\ lexeme.kind = "EOF" => CharAt(i) = NUL
      /\ BadBinary(i) => lexeme.kind = "integer"
  BY <1>1, <1>2, ReadFits
<1>4. lexeme.end \in Places /\ lexeme.end \in Nat \ {0} /\ lexeme.end >= i
      /\ lexeme.length \in Nat /\ lexeme.kind \in Kinds
  <2>1. lexeme.end \in Places /\ lexeme.length \in Nat /\ lexeme.kind \in Kinds
        /\ i + lexeme.length <= lexeme.end
    BY <1>3 DEF Fits
  <2>2. lexeme.end \in Nat \ {0}
    BY <1>1, <2>1, TextProperties
  <2>3. QED
    BY <1>2, <2>1, <2>2
<1>5. lexeme.end >= current
  BY <1>1, <1>2, <1>4
<1>6. \A j \in Nat : j >= i => Loc(j) = Position(j) /\ Position(j) \in Location
  <2>1. SUFFICES ASSUME NEW j \in Nat, j >= i
                 PROVE  Loc(j) = Position(j) /\ Position(j) \in Location
    OBVIOUS
  <2>2. j >= current /\ j \in Nat \ {0}
    BY <1>1, <1>2, <2>1
  <2>3. QED
    BY <1>1, <2>2, LocIsPosition, PositionIs
<1>7. i \in Nat /\ i + 1 \in Nat /\ i + 2 \in Nat /\ i >= i /\ i + 1 >= i /\ i + 2 >= i
  BY <1>2
<1>8. /\ Loc(i) = Position(i) /\ Loc(i + 1) = Position(i + 1)
      /\ Loc(i + 2) = Position(i + 2) /\ Loc(lexeme.end) = Position(lexeme.end)
      /\ Position(i) \in Location /\ Position(i + 1) \in Location
      /\ Position(i + 2) \in Location /\ Position(lexeme.end) \in Location
  BY <1>4, <1>6, <1>7
<1>9. TokenAt(i, lexeme).loc = Position(IF Unexpected(i, lexeme) THEN i + 1 ELSE i)
  BY <1>8 DEF TokenAt, TokenLoc
<1>10. TokenAt(i, lexeme) \in Token
  <2>1. TokenLoc(i, lexeme) \in Location
    BY <1>8 DEF TokenLoc
  <2>2. QED
    BY <1>2, <1>4, <2>1 DEF TokenAt, Token
<1>11. Complaints(i, lexeme) \in Seq(Location)
  BY <1>8 DEF Complaints
<1>12. lexeme.kind = "EOF" => /\ CharAt(i) = NUL /\ lexeme = UpTo("EOF", i, i)
                              /\ Complaints(i, lexeme) = << >>
                              /\ ~Unexpected(i, lexeme)
  BY <1>3 DEF Complaints, Unexpected
<1>13. CharAt(current) = NUL => i = current /\ lexeme = UpTo("EOF", i, i)
  <2>1. SUFFICES ASSUME CharAt(current) = NUL
                 PROVE  i = current
    BY <1>3
  <2>2. skip_whitespace[current] = SkipStep(skip_whitespace, current)
    BY <1>1, SkipDefined
  <2>3. CharAt(current) \notin Blanks /\ CharAt(current) # "/"
    BY <2>1 DEF NUL, Blanks
  <2>4. QED
    BY <2>2, <2>3 DEF SkipStep
<1>14. QED
  BY <1>2, <1>3, <1>5, <1>8, <1>9, <1>10, <1>11, <1>12, <1>13

(* A step hands over the token held back, stays at the end, or reads on.   *)
HandOver ==
  /\ peek # << >> /\ ~Finished
  /\ delivered' = Append(delivered, peek[1]) /\ peek' = << >>
  /\ UNCHANGED << current, line, column, errors >>

StayAtEnd ==
  /\ Finished
  /\ delivered' = delivered /\ peek' \in {<< >>, << EndToken >>}
  /\ UNCHANGED << current, line, column, errors >>

ReadOn(i, lexeme) ==
  /\ peek = << >> /\ ~Finished
  /\ i = skip_whitespace[current] /\ lexeme = Read(i)
  /\ Scan(i, lexeme)
  /\ \/ delivered' = Append(delivered, TokenAt(i, lexeme)) /\ peek' = << >>
     \/ delivered' = delivered /\ peek' = << TokenAt(i, lexeme) >>

(* What is read at the end of the text.                                    *)
LEMMA EndAgain ==
  ASSUME TypeOK, Located, AtEnd, Finished,
         NEW i, i = skip_whitespace[current], NEW lexeme, lexeme = Read(i), Scan(i, lexeme)
  PROVE  /\ UNCHANGED << current, line, column, errors >>
         /\ TokenAt(i, lexeme) = EndToken
         /\ delivered[Len(delivered)] = EndToken
<1>1. delivered \in Seq(Token) /\ Len(delivered) \in Nat /\ Len(delivered) \in DOMAIN delivered
  BY LenProperties, EmptySeq DEF TypeOK, Finished
<1>2. delivered[Len(delivered)] \in Tokens
  BY <1>1 DEF Tokens
<1>3. delivered[Len(delivered)] = EndToken /\ CharAt(current) = NUL
  BY <1>2 DEF AtEnd, Finished
<1>4. i = current /\ lexeme = UpTo("EOF", i, i) /\ current \in Nat
  BY <1>3, ReadToken, TextProperties DEF TypeOK, InText
<1>5. lexeme.kind = "EOF" /\ lexeme.end = current /\ lexeme.length = 0
  BY <1>4 DEF UpTo, Lexeme
<1>6. /\ Complaints(i, lexeme) = << >> /\ ~Unexpected(i, lexeme)
      /\ Loc(lexeme.end) = Position(lexeme.end)
      /\ TokenAt(i, lexeme).loc = Position(IF Unexpected(i, lexeme) THEN i + 1 ELSE i)
  BY <1>5, ReadToken
<1>7. current' = current /\ line' = line /\ column' = column
  BY <1>5, <1>6 DEF Scan, Located
<1>8. errors' = errors
  BY <1>6, ConcatEmptySeq DEF Scan, TypeOK
<1>9. TokenAt(i, lexeme) = EndToken
  <2>1. TokenAt(i, lexeme).loc = Position(current)
    BY <1>4, <1>6
  <2>2. QED
    BY <1>4, <1>5, <2>1 DEF TokenAt, EndToken
<1>10. QED
  BY <1>3, <1>7, <1>8, <1>9

LEMMA DeliverIs ==
  ASSUME NEW token, Deliver(token)
  PROVE  /\ ~Finished => delivered' = Append(delivered, token)
         /\ Finished /\ token.kind = "EOF" /\ delivered[Len(delivered)] = token
              => delivered' = delivered
BY DEF Deliver, Finished

LEMMA Steps ==
  ASSUME LexerInv, Next
  PROVE  /\ source' = source /\ collects' = collects
         /\ HandOver \/ StayAtEnd \/ \E i, lexeme : ReadOn(i, lexeme)
<1>1. TypeOK /\ Located /\ AtEnd
  BY DEF LexerInv
<1>2. source' = source /\ collects' = collects
  BY DEF Next, lexer_next_token, lexer_peek_token
<1>3. EndToken.kind = "EOF"
  BY DEF EndToken
<1>4. CASE lexer_next_token /\ peek # << >>
  <2>1. Deliver(peek[1]) /\ peek' = << >> /\ UNCHANGED << current, line, column, errors >>
    BY <1>4 DEF lexer_next_token
  <2>2. CASE ~Finished
    <3>1. delivered' = Append(delivered, peek[1])
      BY <2>1, <2>2, DeliverIs
    <3>2. HandOver
      BY <1>4, <2>1, <2>2, <3>1 DEF HandOver
    <3>3. QED
      BY <1>2, <3>2
  <2>3. CASE Finished
    <3>1. 1 \in DOMAIN peek
      BY <1>1, <1>4, LenProperties, EmptySeq DEF TypeOK
    <3>2. peek[1] \in Tokens /\ peek[1].kind = "EOF"
      BY <1>1, <2>3, <3>1 DEF AtEnd, Tokens
    <3>3. peek[1] = EndToken
      BY <1>1, <3>2 DEF AtEnd
    <3>4. delivered[Len(delivered)] = EndToken
      <4>1. Len(delivered) \in DOMAIN delivered
        BY <1>1, <2>3, LenProperties, EmptySeq DEF TypeOK, Finished
      <4>2. delivered[Len(delivered)] \in Tokens
        BY <4>1 DEF Tokens
      <4>3. QED
        BY <1>1, <2>3, <4>2 DEF AtEnd, Finished
    <3>5. delivered' = delivered
      BY <1>3, <2>1, <2>3, <3>3, <3>4, DeliverIs
    <3>6. QED
      BY <1>2, <2>1, <2>3, <3>5 DEF StayAtEnd
  <2>4. QED
    BY <1>2, <2>2, <2>3
<1>5. CASE lexer_next_token /\ peek = << >>
  <2>1. peek' = << >>
    BY <1>5 DEF lexer_next_token
  <2>2. PICK i, lexeme : /\ i = skip_whitespace[current] /\ lexeme = Read(i)
                         /\ Scan(i, lexeme) /\ Deliver(TokenAt(i, lexeme))
    BY <1>5 DEF lexer_next_token
  <2>3. CASE ~Finished
    <3>1. delivered' = Append(delivered, TokenAt(i, lexeme))
      BY <2>2, <2>3, DeliverIs
    <3>2. ReadOn(i, lexeme)
      BY <1>5, <2>1, <2>2, <2>3, <3>1 DEF ReadOn
    <3>3. QED
      BY <1>2, <3>2
  <2>4. CASE Finished
    <3>1. /\ UNCHANGED << current, line, column, errors >>
          /\ TokenAt(i, lexeme) = EndToken
          /\ delivered[Len(delivered)] = EndToken
      BY <1>1, <2>2, <2>4, EndAgain
    <3>2. delivered' = delivered
      BY <1>3, <2>2, <2>4, <3>1, DeliverIs
    <3>3. QED
      BY <1>2, <2>1, <2>4, <3>1, <3>2 DEF StayAtEnd
  <2>5. QED
    BY <2>3, <2>4
<1>6. CASE lexer_peek_token
  <2>1. peek = << >> /\ delivered' = delivered
    BY <1>6 DEF lexer_peek_token
  <2>2. PICK i, lexeme : /\ i = skip_whitespace[current] /\ lexeme = Read(i)
                         /\ Scan(i, lexeme) /\ peek' = << TokenAt(i, lexeme) >>
    BY <1>6 DEF lexer_peek_token
  <2>3. CASE ~Finished
    <3>1. ReadOn(i, lexeme)
      BY <2>1, <2>2, <2>3 DEF ReadOn
    <3>2. QED
      BY <1>2, <3>1
  <2>4. CASE Finished
    <3>1. UNCHANGED << current, line, column, errors >> /\ TokenAt(i, lexeme) = EndToken
      BY <1>1, <2>2, <2>4, EndAgain
    <3>2. QED
      BY <1>2, <2>1, <2>2, <2>4, <3>1 DEF StayAtEnd
  <2>5. QED
    BY <2>3, <2>4
<1>7. QED
  BY <1>4, <1>5, <1>6 DEF Next

(* While nobody has been given the end of the text, what has been scanned  *)
(* is what was delivered and what is held back.                            *)
LEMMA ScannedIs ==
  ASSUME TypeOK
  PROVE  /\ Scanned \in Seq(Token)
         /\ Finished => Scanned = delivered
         /\ ~Finished => Scanned = delivered \o peek
         /\ peek = << >> => Scanned = delivered
<1>1. delivered \in Seq(Token) /\ peek \in Seq(Token)
  BY DEF TypeOK
<1>2. QED
  BY <1>1, ConcatProperties, ConcatEmptySeq DEF Scanned

LEMMA HeldBack ==
  ASSUME TypeOK, peek # << >>
  PROVE  peek = << peek[1] >> /\ peek[1] \in Token /\ peek[1] \in Tokens
<1>1. peek \in Seq(Token) /\ Len(peek) <= 1
  BY DEF TypeOK
<1>2. Len(peek) = 1
  <2>1. Len(peek) \in Nat \ {0}
    BY <1>1, EmptySeq
  <2>2. \A n \in Nat \ {0} : n <= 1 => n = 1
    OBVIOUS
  <2>3. QED
    BY <1>1, <2>1, <2>2
<1>3. peek[1] \in Token
  BY <1>1, <1>2, ElementOfSeq
<1>4. 1 \in DOMAIN peek
  BY <1>1, <1>2, LenProperties
<1>5. QED
  BY <1>1, <1>2, <1>3, <1>4, SeqEqual DEF Tokens

LEMMA AtMostOne ==
  ASSUME NEW token \in Token
  PROVE  /\ << >> \in Seq(Token) /\ Len(<< >>) <= 1
         /\ << token >> \in Seq(Token) /\ Len(<< token >>) <= 1
<1>1. Len(<< >>) = 0 /\ Len(<< token >>) = 1
  OBVIOUS
<1>2. QED
  BY <1>1

LEMMA Appended ==
  ASSUME NEW s \in Seq(Token), NEW token \in Token
  PROVE  \A n \in DOMAIN Append(s, token) :
           \/ Append(s, token)[n] = token
           \/ n \in DOMAIN s /\ Append(s, token)[n] = s[n]
<1>1. Append(s, token) \in Seq(Token) /\ Len(Append(s, token)) = Len(s) + 1
      /\ (\A n \in 1 .. Len(s) : Append(s, token)[n] = s[n])
      /\ Append(s, token)[Len(s) + 1] = token
  BY AppendProperties
<1>2. DOMAIN Append(s, token) = 1 .. Len(s) + 1 /\ DOMAIN s = 1 .. Len(s) /\ Len(s) \in Nat
  BY <1>1, LenProperties
<1>3. \A n \in 1 .. Len(s) + 1 : n \in 1 .. Len(s) \/ n = Len(s) + 1
  BY <1>2
<1>4. ASSUME NEW n \in DOMAIN Append(s, token)
      PROVE  \/ Append(s, token)[n] = token
             \/ n \in DOMAIN s /\ Append(s, token)[n] = s[n]
  <2>1. n \in 1 .. Len(s) \/ n = Len(s) + 1
    BY <1>2, <1>3, <1>4
  <2>2. n \in 1 .. Len(s) => n \in DOMAIN s /\ Append(s, token)[n] = s[n]
    BY <1>1, <1>2
  <2>3. n = Len(s) + 1 => Append(s, token)[n] = token
    BY <1>1
  <2>4. QED
    BY <2>1, <2>2, <2>3
<1>5. QED
  BY <1>4

(* No step brings in another token than the one it reads.                  *)
LEMMA TokensStep ==
  ASSUME TypeOK
  PROVE  /\ HandOver => Tokens' \subseteq Tokens
         /\ StayAtEnd => Tokens' \subseteq Tokens \cup {EndToken}
         /\ \A i, lexeme : ReadOn(i, lexeme) /\ TokenAt(i, lexeme) \in Token
              => Tokens' \subseteq Tokens \cup {TokenAt(i, lexeme)}
<1>1. delivered \in Seq(Token)
  BY DEF TypeOK
<1>2. ASSUME HandOver
      PROVE  Tokens' \subseteq Tokens
  <2>1. peek[1] \in Token /\ peek[1] \in Tokens
    BY <1>2, HeldBack DEF HandOver
  <2>2. \A n \in DOMAIN delivered' :
          \/ delivered'[n] = peek[1]
          \/ n \in DOMAIN delivered /\ delivered'[n] = delivered[n]
    BY <1>1, <1>2, <2>1, Appended DEF HandOver
  <2>3. peek' = << >>
    BY <1>2 DEF HandOver
  <2>4. \A n \in DOMAIN delivered' : delivered'[n] \in Tokens
    BY <2>1, <2>2 DEF Tokens
  <2>5. QED
    BY <2>3, <2>4 DEF Tokens
<1>3. ASSUME StayAtEnd
      PROVE  Tokens' \subseteq Tokens \cup {EndToken}
  <2>1. delivered' = delivered /\ (peek' = << >> \/ peek' = << EndToken >>)
    BY <1>3 DEF StayAtEnd
  <2>2. \A n \in DOMAIN peek' : peek'[n] = EndToken
    BY <2>1
  <2>3. QED
    BY <2>1, <2>2 DEF Tokens
<1>4. ASSUME NEW i, NEW lexeme, ReadOn(i, lexeme), TokenAt(i, lexeme) \in Token
      PROVE  Tokens' \subseteq Tokens \cup {TokenAt(i, lexeme)}
  <2> DEFINE token == TokenAt(i, lexeme)
  <2> HIDE DEF token
  <2>1. token \in Token
    BY <1>4 DEF token
  <2>2. \/ delivered' = Append(delivered, token) /\ peek' = << >>
        \/ delivered' = delivered /\ peek' = << token >>
    BY <1>4 DEF ReadOn, token
  <2>3. \A n \in DOMAIN delivered' :
          \/ delivered'[n] = token
          \/ n \in DOMAIN delivered /\ delivered'[n] = delivered[n]
    BY <1>1, <2>1, <2>2, Appended
  <2>4. \A n \in DOMAIN peek' : peek'[n] = token
    BY <2>2
  <2>5. Tokens' \subseteq Tokens \cup {token}
    BY <2>3, <2>4 DEF Tokens
  <2>6. QED
    BY <2>5 DEF token
<1>5. QED
  BY <1>2, <1>3, <1>4

LEMMA TypeStep ==
  ASSUME LexerInv, Next
  PROVE  TypeOK' /\ Located'
<1>1. TypeOK /\ Located /\ source' = source /\ collects' = collects
  BY Steps DEF LexerInv
<1>2. /\ source \in Seq(Characters) /\ collects \in BOOLEAN
      /\ current \in Places /\ [line |-> line, column |-> column] \in Location
      /\ peek \in Seq(Token) /\ Len(peek) <= 1
      /\ errors \in Seq(Location) /\ delivered \in Seq(Token)
      /\ \A t \in Tokens : t.start + t.length <= current
  BY <1>1 DEF TypeOK, Tokens
<1>3. Places' = Places /\ \A i : Position(i)' = Position(i)
  BY <1>1 DEF Places, Position, Breaks
<1>4. \A t \in Tokens : t \in Token
  <2>1. \A n \in DOMAIN delivered : delivered[n] \in Token
    BY <1>2, LenProperties, ElementOfSeq
  <2>2. \A n \in DOMAIN peek : peek[n] \in Token
    BY <1>2, LenProperties, ElementOfSeq
  <2>3. QED
    BY <2>1, <2>2 DEF Tokens
<1>5. ASSUME /\ current' \in Places /\ Located'
             /\ [line |-> line', column |-> column'] \in Location
             /\ peek' \in Seq(Token) /\ Len(peek') <= 1
             /\ errors' \in Seq(Location) /\ delivered' \in Seq(Token)
             /\ \A t \in Tokens' : t.start + t.length <= current'
      PROVE  TypeOK' /\ Located'
  BY <1>1, <1>2, <1>3, <1>5 DEF TypeOK, Tokens
<1>6. ASSUME UNCHANGED << current, line, column >>
      PROVE  Located'
  BY <1>1, <1>6 DEF Located, Position, Breaks
<1>7. CASE HandOver
  <2>1. peek[1] \in Token /\ UNCHANGED << current, line, column, errors >>
        /\ delivered' = Append(delivered, peek[1]) /\ peek' = << >>
    BY <1>1, <1>7, HeldBack DEF HandOver
  <2>2. delivered' \in Seq(Token)
    BY <1>2, <2>1, AppendProperties
  <2>3. peek' \in Seq(Token) /\ Len(peek') <= 1
    BY <2>1
  <2>4. \A t \in Tokens' : t.start + t.length <= current'
    BY <1>1, <1>2, <1>7, <2>1, TokensStep
  <2>5. QED
    BY <1>2, <1>5, <1>6, <2>1, <2>2, <2>3, <2>4
<1>8. CASE StayAtEnd
  <2>1. delivered' = delivered /\ (peek' = << >> \/ peek' = << EndToken >>)
        /\ UNCHANGED << current, line, column, errors >>
    BY <1>8 DEF StayAtEnd
  <2>2. current \in Nat \ {0}
    BY <1>2, TextProperties DEF InText
  <2>3. EndToken \in Token /\ EndToken.start = current /\ EndToken.length = 0
    <3>1. Position(current) \in Location
      BY <2>2, PositionIs
    <3>2. QED
      BY <2>2, <3>1 DEF EndToken, Token, Kinds
  <2>4. peek' \in Seq(Token) /\ Len(peek') <= 1
    BY <2>1, <2>3, AtMostOne
  <2>5. \A t \in Tokens' : t.start + t.length <= current'
    <3>1. EndToken.start + EndToken.length <= current
      BY <2>2, <2>3
    <3>2. Tokens' \subseteq Tokens \cup {EndToken}
      BY <1>1, <1>8, TokensStep
    <3>3. QED
      BY <1>2, <2>1, <3>1, <3>2
  <2>6. QED
    BY <1>2, <1>5, <1>6, <2>1, <2>4, <2>5
<1>9. ASSUME NEW i, NEW lexeme, ReadOn(i, lexeme)
      PROVE  TypeOK' /\ Located'
  <2>1. i = skip_whitespace[current] /\ lexeme = Read(i) /\ Scan(i, lexeme)
    BY <1>9 DEF ReadOn
  <2> DEFINE token == TokenAt(i, lexeme)
             loc == Position(lexeme.end)
  <2>2. /\ Fits(i, lexeme) /\ lexeme.end >= current /\ i \in Places
        /\ Loc(lexeme.end) = loc /\ loc \in Location
        /\ token \in Token /\ Complaints(i, lexeme) \in Seq(Location)
    BY <1>1, <2>1, ReadToken
  <2> HIDE DEF token
  <2>3. current' = lexeme.end /\ line' = loc.line /\ column' = loc.column
    BY <2>1, <2>2 DEF Scan
  <2>4. current' \in Places /\ [line |-> line', column |-> column'] = loc
    BY <2>2, <2>3 DEF Fits, Location
  <2>5. Located'
    <3>1. Position(current)' = Position(lexeme.end)
      BY <1>1, <2>3 DEF Position, Breaks
    <3>2. QED
      BY <2>4, <3>1 DEF Located
  <2>6. errors' \in Seq(Location)
    BY <1>2, <2>1, <2>2, ConcatProperties DEF Scan
  <2>7. \/ delivered' = Append(delivered, token) /\ peek' = << >>
        \/ delivered' = delivered /\ peek' = << token >>
    BY <1>9 DEF ReadOn, token
  <2>8. delivered' \in Seq(Token)
    <3>1. delivered \in Seq(Token) /\ Append(delivered, token) \in Seq(Token)
      BY <1>2, <2>2, AppendProperties
    <3>2. QED
      BY <2>7, <3>1
  <2>9. peek' \in Seq(Token) /\ Len(peek') <= 1
    BY <2>2, <2>7, AtMostOne
  <2>10. \A t \in Tokens' : t.start + t.length <= current'
    <3>1. token.start = i /\ token.length = lexeme.length
      BY DEF token, TokenAt
    <3>2. token.start + token.length <= current'
      BY <2>2, <2>3, <3>1 DEF Fits
    <3>3. current \in Nat /\ current' \in Nat /\ current <= current'
      BY <1>2, <2>2, <2>3, <2>4, TextProperties DEF InText
    <3>4. ASSUME NEW t \in Tokens
          PROVE  t.start + t.length <= current'
      <4>1. t.start \in Nat /\ t.length \in Nat /\ t.start + t.length <= current
        BY <1>2, <1>4 DEF Token
      <4>2. QED
        BY <3>3, <4>1
    <3>5. Tokens' \subseteq Tokens \cup {token}
      BY <1>1, <1>9, <2>2, TokensStep DEF token
    <3>6. QED
      BY <3>2, <3>4, <3>5
  <2>11. QED
    BY <1>5, <2>2, <2>4, <2>5, <2>6, <2>8, <2>9, <2>10
<1>10. QED
  BY <1>7, <1>8, <1>9, Steps

LEMMA AtEndStep ==
  ASSUME LexerInv, Next
  PROVE  AtEnd'
<1>1. TypeOK /\ Located /\ AtEnd /\ source' = source
  BY Steps DEF LexerInv
<1>2. TypeOK'
  BY TypeStep
<1>3. delivered \in Seq(Token) /\ \A n \in DOMAIN delivered : delivered[n] \in Tokens
  BY <1>1 DEF TypeOK, Tokens
<1>4. Finished' => delivered' # << >> /\ delivered'[Len(delivered')].kind = "EOF"
  BY DEF Finished
<1>5. ASSUME UNCHANGED << current, line, column >>
      PROVE  EndToken' = EndToken /\ CharAt(current)' = CharAt(current)
  BY <1>1, <1>5 DEF EndToken, CharAt, Position, Breaks
<1>6. CASE HandOver
  <2>1. Tokens' \subseteq Tokens /\ peek' = << >> /\ UNCHANGED << current, line, column >>
    BY <1>1, <1>6, TokensStep DEF HandOver
  <2>2. QED
    BY <1>1, <1>5, <2>1 DEF AtEnd
<1>7. CASE StayAtEnd
  <2>1. /\ Tokens' \subseteq Tokens \cup {EndToken}
        /\ UNCHANGED << current, line, column >>
        /\ peek' = << >> \/ peek' = << EndToken >>
    BY <1>1, <1>7, TokensStep DEF StayAtEnd
  <2>2. CharAt(current) = NUL
    <3>1. Len(delivered) \in DOMAIN delivered /\ delivered[Len(delivered)].kind = "EOF"
      BY <1>3, <1>7, LenProperties, EmptySeq DEF StayAtEnd, Finished
    <3>2. QED
      BY <1>1, <1>3, <3>1 DEF AtEnd
  <2>3. \A n \in DOMAIN peek' : peek'[n] = EndToken
    BY <2>1
  <2>4. EndToken.kind = "EOF"
    BY DEF EndToken
  <2>5. QED
    BY <1>1, <1>5, <2>1, <2>2, <2>3, <2>4 DEF AtEnd
<1>8. ASSUME NEW i, NEW lexeme, ReadOn(i, lexeme)
      PROVE  AtEnd'
  <2> DEFINE token == TokenAt(i, lexeme)
  <2>1. i = skip_whitespace[current] /\ lexeme = Read(i) /\ Scan(i, lexeme)
        /\ peek = << >> /\ ~Finished
    BY <1>8 DEF ReadOn
  <2>2. /\ token \in Token /\ i \in Places
        /\ lexeme.kind = "EOF" => /\ CharAt(i) = NUL /\ lexeme = UpTo("EOF", i, i)
                                  /\ Complaints(i, lexeme) = << >>
                                  /\ ~Unexpected(i, lexeme)
        /\ token.loc = Position(IF Unexpected(i, lexeme) THEN i + 1 ELSE i)
        /\ CharAt(current) = NUL => i = current /\ lexeme = UpTo("EOF", i, i)
    BY <1>1, <2>1, ReadToken
  <2>3. token.kind = lexeme.kind /\ token.start = i /\ token.length = lexeme.length
    BY DEF TokenAt
  <2> HIDE DEF token
  <2>4. i \in Nat
    BY <1>1, <2>2, TextProperties DEF TypeOK, InText
  <2>5. lexeme.kind = "EOF" => token = EndToken' /\ CharAt(current)' = NUL
    <3>1. SUFFICES ASSUME lexeme.kind = "EOF"
                   PROVE  token = EndToken' /\ CharAt(current)' = NUL
      OBVIOUS
    <3>2. lexeme.end = i /\ lexeme.length = 0
      BY <2>2, <2>4, <3>1 DEF UpTo, Lexeme
    <3>3. current' = i
      BY <2>1, <3>2 DEF Scan
    <3>4. CharAt(current)' = NUL
      BY <1>1, <2>2, <3>1, <3>3 DEF CharAt
    <3>5. EndToken' = [kind |-> "EOF", start |-> i, length |-> 0, loc |-> Position(i)]
      BY <1>1, <3>3 DEF EndToken, Position, Breaks
    <3>6. token = [kind |-> "EOF", start |-> i, length |-> 0, loc |-> Position(i)]
      BY <2>2, <2>3, <3>1, <3>2 DEF Token
    <3>7. QED
      BY <3>4, <3>5, <3>6
  <2>6. \A t \in Tokens : t.kind # "EOF" \/ t = token
    <3>1. SUFFICES ASSUME NEW t \in Tokens, t.kind = "EOF"
                   PROVE  t = token
      OBVIOUS
    <3>2. CharAt(current) = NUL /\ t = EndToken
      BY <1>1, <3>1 DEF AtEnd
    <3>3. i = current /\ lexeme = UpTo("EOF", i, i)
      BY <2>2, <3>2
    <3>4. lexeme.kind = "EOF" /\ lexeme.length = 0
      BY <2>4, <3>3 DEF UpTo, Lexeme
    <3>5. token = [kind |-> "EOF", start |-> i, length |-> 0, loc |-> Position(i)]
      BY <2>2, <2>3, <3>4 DEF Token
    <3>6. QED
      BY <3>2, <3>3, <3>5 DEF EndToken
  <2>7. Tokens' \subseteq Tokens \cup {token}
    BY <1>1, <1>8, <2>2, TokensStep DEF token
  <2>8. \A t \in Tokens' : t.kind = "EOF" => t = EndToken' /\ CharAt(current)' = NUL
    BY <2>3, <2>5, <2>6, <2>7
  <2>9. Finished' => \A n \in DOMAIN peek' : peek'[n].kind = "EOF"
    <3>1. CASE delivered' = Append(delivered, token) /\ peek' = << >>
      BY <3>1
    <3>2. CASE delivered' = delivered
      BY <2>1, <3>2 DEF Finished
    <3>3. QED
      BY <1>8, <3>1, <3>2 DEF ReadOn, token
  <2>10. QED
    BY <2>8, <2>9 DEF AtEnd
<1>9. QED
  BY <1>6, <1>7, <1>8, Steps

(* What is scanned grows by the token that is read, and its errors with it. *)
LEMMA ScannedStep ==
  ASSUME LexerInv, Next
  PROVE  \/ Scanned' = Scanned /\ errors' = errors /\ current' = current
         \/ \E i, lexeme :
              /\ i = skip_whitespace[current] /\ lexeme = Read(i)
              /\ current' = lexeme.end
              /\ Scanned' = Append(Scanned, TokenAt(i, lexeme))
              /\ errors' = errors \o Complaints(i, lexeme)
<1>1. TypeOK /\ Located /\ AtEnd /\ TypeOK'
  BY TypeStep DEF LexerInv
<1>2. peek' = << >> => Scanned' = delivered'
  <2>1. delivered' \in Seq(Token)
    BY <1>1 DEF TypeOK
  <2>2. QED
    BY <2>1, ConcatEmptySeq DEF Scanned
<1>3. CASE HandOver
  <2>1. /\ Scanned' = delivered' /\ errors' = errors /\ current' = current
        /\ Scanned = delivered \o peek
    BY <1>1, <1>2, <1>3, ScannedIs DEF HandOver
  <2>2. peek = << peek[1] >> /\ peek[1] \in Token /\ delivered' = Append(delivered, peek[1])
    BY <1>1, <1>3, HeldBack DEF HandOver
  <2>3. Append(delivered, peek[1]) = delivered \o << peek[1] >>
    BY <1>1, <2>2, AppendIsConcat DEF TypeOK
  <2>4. QED
    BY <2>1, <2>2, <2>3
<1>4. CASE StayAtEnd
  <2>1. Finished /\ Finished' /\ delivered' = delivered
        /\ errors' = errors /\ current' = current
    BY <1>4 DEF StayAtEnd, Finished
  <2>2. QED
    BY <2>1 DEF Scanned
<1>5. ASSUME NEW i, NEW lexeme, ReadOn(i, lexeme)
      PROVE  /\ i = skip_whitespace[current] /\ lexeme = Read(i)
             /\ current' = lexeme.end
             /\ Scanned' = Append(Scanned, TokenAt(i, lexeme))
             /\ errors' = errors \o Complaints(i, lexeme)
  <2> DEFINE token == TokenAt(i, lexeme)
  <2>1. /\ i = skip_whitespace[current] /\ lexeme = Read(i) /\ current' = lexeme.end
        /\ errors' = errors \o Complaints(i, lexeme) /\ ~Finished /\ peek = << >>
    BY <1>5 DEF ReadOn, Scan
  <2>2. token \in Token /\ Scanned = delivered
    BY <1>1, <2>1, ReadToken, ScannedIs
  <2> HIDE DEF token
  <2>3. CASE delivered' = Append(delivered, token) /\ peek' = << >>
    <3>1. Scanned' = Append(Scanned, token)
      BY <1>2, <2>2, <2>3
    <3>2. QED
      BY <2>1, <3>1 DEF token
  <2>4. CASE delivered' = delivered /\ peek' = << token >>
    <3>1. ~Finished'
      BY <2>1, <2>4 DEF Finished
    <3>2. Scanned' = delivered \o << token >>
      BY <2>4, <3>1 DEF Scanned
    <3>3. Append(delivered, token) = delivered \o << token >>
      BY <1>1, <2>2, AppendIsConcat DEF TypeOK
    <3>4. QED
      BY <2>1, <2>2, <3>2, <3>3 DEF token
  <2>5. QED
    BY <1>5, <2>3, <2>4 DEF ReadOn, token
<1>6. QED
  BY <1>3, <1>4, <1>5, Steps

LEMMA LocationsStep ==
  ASSUME LexerInv, Next
  PROVE  LocationsExact'
<1> DEFINE Exact(t) == t.loc = Position(IF Unexpected(t.start, t) THEN t.start + 1
                                        ELSE t.start)
<1>1. TypeOK /\ Located /\ source' = source /\ \A n \in DOMAIN Scanned : Exact(Scanned[n])
  BY Steps DEF LexerInv, LocationsExact
<1>2. (\A n \in DOMAIN Scanned' : Exact(Scanned'[n])) => LocationsExact'
  BY <1>1 DEF LocationsExact, Position, Breaks, Unexpected, CharAt
<1>3. CASE Scanned' = Scanned
  BY <1>1, <1>2, <1>3
<1>4. ASSUME NEW i, NEW lexeme, i = skip_whitespace[current], lexeme = Read(i),
             Scanned' = Append(Scanned, TokenAt(i, lexeme))
      PROVE  LocationsExact'
  <2> DEFINE token == TokenAt(i, lexeme)
  <2>1. token \in Token /\ token.loc = Position(IF Unexpected(i, lexeme) THEN i + 1 ELSE i)
    BY <1>1, <1>4, ReadToken
  <2>2. token.start = i /\ token.kind = lexeme.kind
    BY DEF TokenAt
  <2>3. Exact(token)
    BY <2>1, <2>2 DEF Unexpected
  <2> HIDE DEF token, Exact
  <2>4. \A n \in DOMAIN Scanned' :
          \/ Scanned'[n] = token
          \/ n \in DOMAIN Scanned /\ Scanned'[n] = Scanned[n]
    BY <1>1, <1>4, <2>1, ScannedIs, Appended DEF token
  <2>5. QED
    BY <1>1, <1>2, <2>3, <2>4
<1>5. QED
  BY <1>3, <1>4, ScannedStep

(* The text is cut up without a rest: the token that is read begins behind *)
(* what lies between it and the last one.                                  *)
LEMMA LossStep ==
  ASSUME LexerInv, Next
  PROVE  Reached' /\ NothingLost'
<1> DEFINE Placed(from, t) ==
             /\ Gap(from, t.start) /\ \A b \in Places : ~Skips(t.start, b)
             /\ (t.kind = "EOF") <=> (t.start > Len(source))
           From(s, m) == IF m = 1 THEN 1 ELSE Behind(s[m - 1])
<1>1. TypeOK /\ Located /\ Reached /\ NothingLost /\ source' = source
  BY Steps DEF LexerInv
<1>2. InText /\ current \in Places /\ Scanned \in Seq(Token)
  BY <1>1, ScannedIs DEF TypeOK, InText
<1>3. \A t : Behind(t)' = Behind(t)
  BY <1>1 DEF Behind, CharAt
<1>4. \A a, b : Skips(a, b)' = Skips(a, b) /\ Gap(a, b)' = Gap(a, b)
  <2>1. \A a, b : Skips(a, b)' = Skips(a, b)
    BY <1>1 DEF Skips, Closed, Breaks, CharAt
  <2>2. QED
    BY <2>1 DEF Gap
<1>5. (\A m \in DOMAIN Scanned' : Placed(From(Scanned', m), Scanned'[m])) => NothingLost'
  BY <1>1, <1>3, <1>4 DEF NothingLost, Places
<1>6. \A m \in DOMAIN Scanned : Placed(From(Scanned, m), Scanned[m])
  BY <1>1 DEF NothingLost
<1> HIDE DEF Placed
<1>7. CASE Scanned' = Scanned /\ current' = current
  <2>1. Reached'
    BY <1>1, <1>3, <1>7 DEF Reached, BehindScanned
  <2>2. QED
    BY <1>5, <1>6, <1>7, <2>1
<1>8. ASSUME NEW i, NEW lexeme, i = skip_whitespace[current], lexeme = Read(i),
             current' = lexeme.end, Scanned' = Append(Scanned, TokenAt(i, lexeme))
      PROVE  Reached' /\ NothingLost'
  <2> DEFINE token == TokenAt(i, lexeme)
             n == Len(Scanned)
  <2>1. token \in Token /\ i \in Places
    BY <1>1, <1>8, ReadToken
  <2>2. token.start = i /\ token.kind = lexeme.kind
    BY DEF TokenAt
  <2>3. Behind(token) = lexeme.end
    BY <1>2, <1>8, <2>1, BehindRead
  <2> HIDE DEF token
  <2>4. n \in Nat /\ DOMAIN Scanned = 1 .. n
    BY <1>2, LenProperties
  <2>5. /\ Scanned' \in Seq(Token) /\ Len(Scanned') = n + 1 /\ Scanned'[n + 1] = token
        /\ \A m \in 1 .. n : Scanned'[m] = Scanned[m]
    BY <1>2, <1>8, <2>1, AppendProperties DEF token
  <2>6. DOMAIN Scanned' = 1 .. n + 1
    BY <2>5, LenProperties
  <2> HIDE DEF n
  <2>7. Reached'
    <3>1. Reached' = (current' = IF Len(Scanned') = 0 THEN 1
                                 ELSE Behind(Scanned'[Len(Scanned')]))
      BY <1>3 DEF Reached, BehindScanned
    <3>2. Len(Scanned') # 0
      BY <2>4, <2>5
    <3>3. QED
      BY <1>8, <2>3, <2>5, <3>1, <3>2
  <2>8. ASSUME NEW m \in 1 .. n
        PROVE  Placed(From(Scanned', m), Scanned'[m])
    <3>1. Scanned'[m] = Scanned[m]
      BY <2>5
    <3>2. From(Scanned', m) = From(Scanned, m)
      <4>1. m # 1 => m - 1 \in 1 .. n
        BY <2>4
      <4>2. QED
        BY <2>5, <4>1
    <3>3. QED
      BY <1>6, <2>4, <3>1, <3>2
  <2>9. Placed(From(Scanned', n + 1), token)
    <3>1. From(Scanned', n + 1) = current
      <4>1. current = IF n = 0 THEN 1 ELSE Behind(Scanned[n])
        BY <1>1 DEF Reached, BehindScanned, n
      <4>2. (n + 1) - 1 = n /\ (n + 1 = 1 <=> n = 0) /\ (n # 0 => n \in 1 .. n)
        BY <2>4
      <4>3. QED
        BY <2>5, <4>1, <4>2
    <3>2. Gap(current, i) /\ \A b \in Places : ~Skips(i, b)
      BY <1>2, <1>8, SkipGap
    <3>3. (lexeme.kind = "EOF") <=> (CharAt(i) = NUL)
      <4>1. UpTo("EOF", i, i).kind = "EOF"
        BY DEF UpTo, Lexeme
      <4>2. QED
        BY <1>2, <1>8, <2>1, <4>1, ReadFits
    <3>4. (CharAt(i) = NUL) <=> (i > Len(source))
      BY <1>2, <2>1, TextProperties DEF CharAt, Places
    <3>5. QED
      BY <2>2, <3>1, <3>2, <3>3, <3>4 DEF Placed
  <2>10. \A m \in 1 .. n + 1 : m \in 1 .. n \/ m = n + 1
    BY <2>4
  <2>11. \A m \in DOMAIN Scanned' : Placed(From(Scanned', m), Scanned'[m])
    BY <2>5, <2>6, <2>8, <2>9, <2>10
  <2>12. QED
    BY <1>5, <2>7, <2>11
<1>9. QED
  BY <1>7, <1>8, ScannedStep

(* Counting: how the rank of a member, and the size of a set, grow with    *)
(* a number above them all.                                                *)
LEMMA RankProperties ==
  ASSUME NEW n \in Nat, NEW S, S \subseteq 1 .. n
  PROVE  /\ IsFiniteSet(S) /\ Cardinality(S) \in Nat
         /\ Cardinality(S \cup {n + 1}) = Cardinality(S) + 1
         /\ Rank(n + 1, S \cup {n + 1}) = Cardinality(S) + 1
         /\ \A m \in S : /\ Rank(m, S) \in 1 .. Cardinality(S)
                         /\ Rank(m, S \cup {n + 1}) = Rank(m, S)
<1>1. IsFiniteSet(S) /\ Cardinality(S) \in Nat
  <2>1. IsFiniteSet(1 .. n)
    BY FS_Interval
  <2>2. QED
    BY <2>1, FS_Subset, FS_CardinalityType
<1>2. n + 1 \notin S
  OBVIOUS
<1>3. Cardinality(S \cup {n + 1}) = Cardinality(S) + 1
  BY <1>1, <1>2, FS_AddElement
<1>4. {k \in S \cup {n + 1} : k <= n + 1} = S \cup {n + 1}
  <2>1. \A k \in S \cup {n + 1} : k <= n + 1
    OBVIOUS
  <2>2. QED
    BY <2>1
<1>5. Rank(n + 1, S \cup {n + 1}) = Cardinality(S) + 1
  BY <1>3, <1>4 DEF Rank
<1>6. ASSUME NEW m \in S
      PROVE  /\ Rank(m, S) \in 1 .. Cardinality(S)
             /\ Rank(m, S \cup {n + 1}) = Rank(m, S)
  <2> DEFINE below == {k \in S : k <= m}
  <2>1. {k \in S \cup {n + 1} : k <= m} = below
    OBVIOUS
  <2>2. below \subseteq S /\ m \in below
    OBVIOUS
  <2> HIDE DEF below
  <2>3. IsFiniteSet(below) /\ Cardinality(below) \in Nat /\ Cardinality(below) <= Cardinality(S)
    BY <1>1, <2>2, FS_Subset, FS_CardinalityType
  <2>4. Cardinality(below) # 0
    BY <2>2, <2>3, FS_EmptySet
  <2>5. Rank(m, S) = Cardinality(below) /\ Rank(m, S \cup {n + 1}) = Cardinality(below)
    BY <2>1 DEF Rank, below
  <2>6. QED
    BY <1>1, <2>3, <2>4, <2>5
<1>7. QED
  BY <1>1, <1>3, <1>5, <1>6

LEMMA ErrorsStep ==
  ASSUME LexerInv, Next
  PROVE  ErrorsReportedOnce'
<1>1. TypeOK /\ Located /\ ErrorsReportedOnce /\ source' = source /\ collects' = collects
  BY Steps DEF LexerInv
<1>2. \A t : Bad(t)' = Bad(t) /\ Where(t)' = Where(t)
  BY <1>1 DEF Bad, Where, Position, Breaks, Unexpected, BadBinary, Binary, Prefixed, CharAt
<1>3. CASE Scanned' = Scanned /\ errors' = errors
  <2>1. BadTokens' = BadTokens
    BY <1>2, <1>3 DEF BadTokens
  <2>2. QED
    BY <1>1, <1>2, <1>3, <2>1 DEF ErrorsReportedOnce, Rank
<1>4. ASSUME NEW i, NEW lexeme, i = skip_whitespace[current], lexeme = Read(i),
             Scanned' = Append(Scanned, TokenAt(i, lexeme)),
             errors' = errors \o Complaints(i, lexeme)
      PROVE  ErrorsReportedOnce'
  <2> DEFINE token == TokenAt(i, lexeme)
             n == Len(Scanned)
  <2>1. /\ token \in Token /\ Complaints(i, lexeme) \in Seq(Location)
        /\ Loc(i + 1) = Position(i + 1) /\ Loc(i + 2) = Position(i + 2) /\ i \in Places
    BY <1>1, <1>4, ReadToken
  <2>2. token.start = i /\ token.kind = lexeme.kind
    BY DEF TokenAt
  <2>3. BadBinary(i) => lexeme.kind = "integer"
    BY <1>1, <1>4, <2>1, ReadFits DEF TypeOK, InText
  <2>4. Complaints(i, lexeme) = IF collects /\ Bad(token) THEN << Where(token) >> ELSE << >>
    BY <2>1, <2>2, <2>3 DEF Complaints, Bad, Where, Unexpected
  <2> HIDE DEF token
  <2>5. errors \in Seq(Location)
    BY <1>1 DEF TypeOK
  <2>6. Scanned \in Seq(Token) /\ n \in Nat /\ DOMAIN Scanned = 1 .. n
    BY <1>1, ScannedIs, LenProperties
  <2>7. /\ DOMAIN Scanned' = 1 .. n + 1 /\ Scanned'[n + 1] = token
        /\ \A m \in 1 .. n : Scanned'[m] = Scanned[m]
    <3>1. /\ Scanned' \in Seq(Token) /\ Len(Scanned') = n + 1 /\ Scanned'[n + 1] = token
          /\ \A m \in 1 .. n : Scanned'[m] = Scanned[m]
      BY <1>4, <2>1, <2>6, AppendProperties DEF token
    <3>2. QED
      BY <3>1, LenProperties
  <2> HIDE DEF n
  <2>8. BadTokens \subseteq 1 .. n
    BY <2>6 DEF BadTokens
  <2>9. BadTokens' = IF Bad(token) THEN BadTokens \cup {n + 1} ELSE BadTokens
    <3>1. BadTokens' = {m \in 1 .. n + 1 : Bad(Scanned'[m])}
      BY <1>2, <2>7 DEF BadTokens
    <3>2. 1 .. n + 1 = (1 .. n) \cup {n + 1}
      BY <2>6
    <3>3. BadTokens = {m \in 1 .. n : Bad(Scanned[m])}
      BY <2>6 DEF BadTokens
    <3>4. QED
      BY <2>7, <3>1, <3>2, <3>3
  <2>10. CASE ~collects
    BY <1>1, <1>4, <2>4, <2>5, <2>10, ConcatEmptySeq DEF ErrorsReportedOnce
  <2>11. CASE collects /\ ~Bad(token)
    <3>1. errors' = errors /\ BadTokens' = BadTokens
      BY <1>4, <2>4, <2>5, <2>9, <2>11, ConcatEmptySeq
    <3>2. \A m \in BadTokens : Where(Scanned[m])' = Where(Scanned[m])
      BY <1>2, <2>7, <2>8
    <3>3. QED
      BY <1>1, <2>11, <3>1, <3>2 DEF ErrorsReportedOnce, Rank
  <2>12. CASE collects /\ Bad(token)
    <3> DEFINE c == Cardinality(BadTokens)
    <3>1. Len(errors) = c /\ \A m \in BadTokens :
            errors[Rank(m, BadTokens)] = Where(Scanned[m])
      BY <1>1, <2>12 DEF ErrorsReportedOnce
    <3>2. Where(token) \in Location /\ errors' = Append(errors, Where(token))
      <4>1. Complaints(i, lexeme) = << Where(token) >>
        BY <2>4, <2>12
      <4>2. Where(token) \in Location
        BY <2>1, <4>1, ElementOfSeq
      <4>3. QED
        BY <1>4, <2>5, <4>1, <4>2, AppendIsConcat
    <3>3. /\ Len(errors') = c + 1 /\ errors'[c + 1] = Where(token)
          /\ \A k \in 1 .. c : errors'[k] = errors[k]
      BY <2>5, <3>1, <3>2, AppendProperties
    <3>4. BadTokens' = BadTokens \cup {n + 1}
      BY <2>9, <2>12
    <3>5. /\ Cardinality(BadTokens') = c + 1 /\ Rank(n + 1, BadTokens') = c + 1
          /\ \A m \in BadTokens : /\ Rank(m, BadTokens) \in 1 .. c
                                   /\ Rank(m, BadTokens') = Rank(m, BadTokens)
      BY <2>6, <2>8, <3>4, RankProperties
    <3> HIDE DEF c
    <3>6. ASSUME NEW m \in BadTokens'
          PROVE  errors'[Rank(m, BadTokens')] = Where(Scanned'[m])
      <4>1. CASE m = n + 1
        BY <2>7, <3>3, <3>5, <4>1
      <4>2. CASE m \in BadTokens
        <5>1. errors'[Rank(m, BadTokens')] = errors[Rank(m, BadTokens)]
          BY <3>3, <3>5, <4>2
        <5>2. Scanned'[m] = Scanned[m]
          BY <2>7, <2>8, <4>2
        <5>3. QED
          BY <3>1, <4>2, <5>1, <5>2
      <4>3. QED
        BY <3>4, <4>1, <4>2
    <3>7. \A m \in BadTokens' : Rank(m, BadTokens)' = Rank(m, BadTokens')
      BY DEF Rank
    <3>8. QED
      BY <1>1, <1>2, <2>12, <3>3, <3>5, <3>6, <3>7 DEF ErrorsReportedOnce
  <2>13. QED
    BY <2>10, <2>11, <2>12
<1>5. QED
  BY <1>3, <1>4, ScannedStep

-----------------------------------------------------------------------------
(***************************************************************************)
(* The lexical grammar: what can begin with a character.                   *)
(***************************************************************************)
(* What a name begins with.                                                *)
Initials == Letters \cup {"_"}

LEMMA OutsideIs ==
  ASSUME InText, NEW i \in Places, NEW S, NUL \notin S
  PROVE  LET end == FirstOutside(S, i)
         IN /\ end \in Places /\ end >= i
            /\ Over(S, i, end) /\ CharAt(end) \notin S
            /\ \A b \in Nat : Over(S, i, b) => b <= end
            /\ \A b \in Nat : b >= i /\ Over(S, i, b) /\ CharAt(b) \notin S => b = end
<1> DEFINE end == FirstOutside(S, i)
           B == {j \in Places : source[j] \notin S}
<1>1. \E j \in Places : /\ j >= i /\ (j > Len(source) \/ j \in B)
                        /\ \A k \in i .. j - 1 : k \notin B
  <2> HIDE DEF B
  <2>1. QED
    BY FirstExists
<1>2. \A j \in Places : \A k \in i .. j - 1 : k \in Places /\ k \in 1 .. Len(source)
  BY TextProperties DEF Places
<1>3. \E j \in Places : /\ j >= i /\ (j > Len(source) \/ source[j] \notin S)
                        /\ \A k \in i .. j - 1 : ~(source[k] \notin S)
  BY <1>1, <1>2
<1>4. /\ end \in Places /\ end >= i
      /\ end > Len(source) \/ source[end] \notin S
      /\ \A k \in i .. end - 1 : source[k] \in S
  BY <1>3 DEF FirstOutside, First
<1> HIDE DEF end
<1>5. Over(S, i, end)
  BY <1>2, <1>4 DEF Over, CharAt
<1>6. CharAt(end) \notin S
  BY <1>4, TextProperties DEF CharAt
<1>7. ASSUME NEW b \in Nat, Over(S, i, b)
      PROVE  b <= end
  <2>1. b > end => end \in i .. b - 1
    BY <1>4, <1>7, TextProperties
  <2>2. QED
    BY <1>4, <1>6, <1>7, <2>1, TextProperties DEF Over
<1>8. ASSUME NEW b \in Nat, b >= i, Over(S, i, b), CharAt(b) \notin S
      PROVE  b = end
  <2>1. b <= end /\ end \in Nat /\ i \in Nat
    BY <1>4, <1>7, <1>8, TextProperties
  <2>2. b # end => b \in i .. end - 1
    BY <1>8, <2>1
  <2>3. QED
    BY <1>5, <1>8, <2>2 DEF Over
<1>9. QED
  BY <1>4, <1>5, <1>6, <1>7, <1>8 DEF end

LEMMA OperatorBegins ==
  ASSUME NEW s, s \in Operators
  PROVE  /\ Len(s) \in 1 .. 3 /\ << s[1] >> \in Operators
         /\ s[1] \notin Initials \cup Digits \cup {"#", "\"", "'", NUL}
<1> DEFINE chars == {Backtick, "(", ")", "{", "}", "[", "]", ",", ":", ";", "?", "~", "^",
                     "+", "-", "*", "/", "%", "&", "|", "!", "=", "<", ">", "."}
<1>1. \/ \E x \in chars : s = << x >>
      \/ \E x \in chars : \E y : s = << x, y >>
      \/ \E x \in chars : \E y, z : s = << x, y, z >>
  BY Zenon DEF Operators
<1>2. \A x \in chars : << x >> \in Operators
  BY ZenonT(60) DEF Operators
<1>3. \A x \in chars : x \notin Initials \cup Digits \cup {"#", "\"", "'", NUL}
  <2>1. \A x \in chars : x \notin Digits
    BY ZenonT(60) DEF Digits, Backtick
  <2>2. \A x \in chars : x \notin HexDigits \ Digits
    BY ZenonT(60) DEF HexDigits, Digits, Backtick
  <2>3. \A x \in chars : x \notin Letters \ HexDigits
    BY ZenonT(150) DEF HexDigits, Letters, Backtick
  <2>4. \A x \in chars : x \notin {"_", "#", "\"", "'", NUL}
    BY ZenonT(60) DEF NUL, Backtick
  <2> DEFINE others == {"_", "#", "\"", "'", NUL}
  <2> HIDE DEF chars, others
  <2>5. \A x \in chars : x \notin Letters \cup Digits \cup others
    BY <2>1, <2>2, <2>3, <2>4 DEF others
  <2>6. QED
    BY <2>5, Zenon DEF others, Initials
<1> DEFINE taken == Initials \cup Digits \cup {"#", "\"", "'", NUL}
<1> HIDE DEF chars, taken
<1>4. \A x \in chars : x \notin taken
  BY <1>3, Zenon DEF taken
<1>5. Len(s) \in 1 .. 3 /\ s[1] \in chars
  BY <1>1
<1>6. << s[1] >> \in Operators /\ s[1] \notin taken
  BY <1>2, <1>4, <1>5
<1>7. QED
  BY <1>5, <1>6, Zenon DEF taken

LEMMA ClassesApart ==
  /\ WordCharacters \ Digits = Initials
  /\ \A c \in Initials : c \notin Digits \cup {"#", "\"", "'", ".", NUL}
  /\ \A c \in Digits : c \notin {"#", "\"", "'", ".", NUL}
<1>1. \A c \in Initials : c \notin Digits
  <2>1. \A c \in Digits : c \notin (Letters \ (HexDigits \ Digits)) \cup {"_"}
    BY ZenonT(60) DEF Letters, Digits
  <2>2. QED
    BY <2>1, Zenon DEF Initials
<1>2. \A c \in Initials : c \notin {"#", "\"", "'", ".", NUL}
  BY ZenonT(60) DEF Initials, Letters, HexDigits, NUL
<1>3. \A c \in Digits : c \notin {"#", "\"", "'", ".", NUL}
  BY Zenon DEF Digits, NUL
<1>4. WordCharacters \ Digits = Initials
  BY <1>1, Zenon DEF WordCharacters, Initials
<1>5. QED
  BY <1>1, <1>2, <1>3, <1>4, Zenon

LEMMA SomeFirst ==
  ASSUME NEW class, NEW a \in Nat, NEW b \in Nat, Some(class, a, b)
  PROVE  CharAt(a) \in class
<1>1. a \in a .. b - 1
  BY DEF Some
<1>2. QED
  BY <1>1 DEF Some, Over

LEMMA NumberBegins ==
  ASSUME NEW a \in Nat, NEW b \in Nat, IsInteger(a, b) \/ IsFloat(a, b)
  PROVE  CharAt(a) \in Digits
<1>1. "0" \in Digits
  BY DEF Digits
<1>2. Hex(a) \/ Binary(a) => CharAt(a) \in Digits
  BY <1>1 DEF Hex, Binary, Prefixed
<1>3. ASSUME NEW n \in Int, n > a, Some(Digits, a, n)
      PROVE  CharAt(a) \in Digits
  BY <1>3, SomeFirst
<1>4. ASSUME NEW n \in Int, IsDecimal(a, n)
      PROVE  CharAt(a) \in Digits
  <2>1. \A m \in a + 1 .. n - 1 : m \in Int /\ m > a
    OBVIOUS
  <2>2. QED
    BY <1>3, <1>4, <2>1 DEF IsDecimal
<1>5. \A m \in a + 1 .. b - 1 : m \in Int /\ m > a
  OBVIOUS
<1>6. b \in Int
  OBVIOUS
<1>7. IsFloat(a, b) => CharAt(a) \in Digits
  BY <1>3, <1>4, <1>5, <1>6 DEF IsFloat
<1>8. Some(Digits, a, b) => CharAt(a) \in Digits
  BY SomeFirst
<1>9. QED
  BY <1>2, <1>7, <1>8 DEF IsInteger

LEMMA OperatorAt ==
  ASSUME InText, NEW a \in Places, NEW b \in Places, a < b, Text(a, b) \in Operators
  PROVE  /\ b - a \in 1 .. 3 /\ << CharAt(a) >> \in Operators
         /\ CharAt(a) \notin Initials \cup Digits \cup {"#", "\"", "'", NUL}
<1>1. /\ a \in 1 .. Len(source) /\ b - 1 \in a .. Len(source)
      /\ a \in Int /\ b \in Int /\ (b - 1) - a + 1 = b - a
  BY TextProperties DEF Places
<1>2. Len(Text(a, b)) = b - a /\ Text(a, b)[1] = source[a]
  BY <1>1, TextProperties DEF Text, InText
<1>3. source[a] = CharAt(a)
  BY <1>1 DEF CharAt
<1> DEFINE taken == Initials \cup Digits \cup {"#", "\"", "'", NUL}
           s == Text(a, b)
<1>4. Len(s) \in 1 .. 3 /\ << s[1] >> \in Operators /\ s[1] \notin taken
  BY OperatorBegins, Zenon
<1> HIDE DEF taken, s
<1>5. b - a \in 1 .. 3 /\ << CharAt(a) >> \in Operators /\ CharAt(a) \notin taken
  BY <1>2, <1>3, <1>4 DEF s
<1>6. QED
  BY <1>5, Zenon DEF taken

(* Each kind of token begins with characters of its own, and a place where *)
(* none of them is begins no token.                                        *)
LEMMA Beginnings ==
  ASSUME InText, NEW a \in Places, NEW b \in Places, NEW kind, Is(kind, a, b)
  PROVE  \/ /\ CharAt(a) \in Initials /\ IsWord(a, b)
            /\ kind = IF Text(a, b) \in Keywords THEN "keyword" ELSE "identifier"
         \/ /\ CharAt(a) = "#"
            /\ \/ kind = "directive" /\ IsDirective(a, b)
               \/ /\ kind = "keyword" /\ IsHashWord(a, b)
                  /\ Text(a + 1, b) \in Keywords \ {If, Else}
         \/ /\ CharAt(a) \in Digits /\ ~BetweenDots(b)
            /\ \/ kind = "integer" /\ IsInteger(a, b)
               \/ kind = "float" /\ IsFloat(a, b)
         \/ CharAt(a) = "\"" /\ kind = "string" /\ IsQuoted("\"", a, b)
         \/ CharAt(a) = "'" /\ kind = "character" /\ IsQuoted("'", a, b)
         \/ /\ << CharAt(a) >> \in Operators
            /\ CharAt(a) \notin Initials \cup Digits \cup {"#", "\"", "'", NUL}
            /\ kind = "operator" /\ a < b /\ b - a \in 1 .. 3 /\ Text(a, b) \in Operators
<1>1. a \in Nat /\ b \in Nat
  BY TextProperties
<1>2. IsWord(a, b) => CharAt(a) \in Initials
  BY <1>1, SomeFirst, ClassesApart DEF IsWord
<1>3. IsHashWord(a, b) \/ IsDirective(a, b) => CharAt(a) = "#"
  BY Zenon DEF IsHashWord, IsDirective
<1>4. IsInteger(a, b) \/ IsFloat(a, b) => CharAt(a) \in Digits
  BY <1>1, NumberBegins
<1>5. \A quote : IsQuoted(quote, a, b) => CharAt(a) = quote
  BY Zenon DEF IsQuoted
<1>6. a < b /\ Text(a, b) \in Operators
        => /\ b - a \in 1 .. 3 /\ << CharAt(a) >> \in Operators
           /\ CharAt(a) \notin Initials \cup Digits \cup {"#", "\"", "'", NUL}
  BY OperatorAt, Zenon
<1>7. QED
  BY <1>2, <1>3, <1>4, <1>5, <1>6, ZenonT(40) DEF Is

LEMMA FoundLongest ==
  ASSUME InText, NEW i \in Places, NEW end \in Places, NEW kind, NEW lexeme,
         lexeme = UpTo(kind, i, end), Is(kind, i, end),
         \A other : \A b \in Places : Is(other, i, b) => b <= end
  PROVE  IsLongest(lexeme.kind, i, i + lexeme.length)
<1>1. lexeme.kind = kind /\ i + lexeme.length = end
  BY TextProperties DEF UpTo, Lexeme
<1>2. IsLongest(kind, i, end)
  BY Zenon DEF IsLongest
<1>3. QED
  BY <1>1, <1>2

LEMMA SomeSplit ==
  ASSUME NEW S, NEW a \in Nat, NEW b \in Nat
  PROVE  Some(S, a, b) <=> a < b /\ CharAt(a) \in S /\ Over(S, a + 1, b)
<1>1. a < b => a .. b - 1 = {a} \cup (a + 1 .. b - 1)
  OBVIOUS
<1>2. QED
  BY <1>1 DEF Some, Over

LEMMA IdentifierLongest ==
  ASSUME InText, NEW i \in Places, CharAt(i) \in Initials
  PROVE  LET lexeme == read_identifier(i)
         IN IsLongest(lexeme.kind, i, i + lexeme.length)
<1> DEFINE end  == FirstOutside(WordCharacters, i + 1)
           kind == IF Text(i, end) \in Keywords THEN "keyword" ELSE "identifier"
<1>1. CharAt(i) \notin Digits /\ CharAt(i) # NUL /\ CharAt(i) \in WordCharacters
  BY ClassesApart DEF WordCharacters
<1>2. i + 1 \in Places /\ i \in Nat /\ \A b \in Places : b \in Nat
  BY <1>1, NextPlace, TextProperties
<1>3. NUL \notin WordCharacters
  BY ClassesApart, <1>1 DEF WordCharacters, NUL
<1>4. /\ end \in Places /\ end >= i + 1
      /\ Over(WordCharacters, i + 1, end)
      /\ \A b \in Nat : Over(WordCharacters, i + 1, b) => b <= end
  BY <1>2, <1>3, OutsideIs
<1>5. IsWord(i, end)
  <2> HIDE DEF end, kind
  <2>1. end \in Places /\ end >= i + 1
    BY <1>4
  <2>2. i < end /\ end \in Nat
    BY <1>2, <2>1
  <2>3. QED
    BY <1>1, <1>2, <1>4, <2>2, SomeSplit DEF IsWord
<1>6. Is(kind, i, end)
  BY <1>5, Zenon DEF Is
<1>7. ASSUME NEW other, NEW b \in Places, Is(other, i, b)
      PROVE  b <= end
  <2>1. IsWord(i, b)
    <3>1. /\ CharAt(i) \notin {"#", "\"", "'"} /\ CharAt(i) \notin Digits
      BY ClassesApart, Zenon
    <3>2. QED
      BY <1>7, <3>1, Beginnings, Zenon
  <2>2. QED
    BY <1>2, <1>4, <2>1, SomeSplit DEF IsWord
<1>8. read_identifier(i) = UpTo(kind, i, end)
  BY DEF read_identifier
<1> HIDE DEF end, kind
<1>9. QED
  BY <1>4, <1>6, <1>7, <1>8, FoundLongest

LEMMA OperatorLongest ==
  ASSUME InText, NEW i \in Places, CharAt(i) # NUL, << CharAt(i) >> \in Operators
  PROVE  LET lexeme == read_operator(i)
         IN IsLongest(lexeme.kind, i, i + lexeme.length)
<1> DEFINE n == OperatorLength(i)
           lexeme == read_operator(i)
<1>1. /\ n \in 1 .. 3 /\ i + n <= Len(source) + 1 /\ Text(i, i + n) \in Operators
      /\ \A m \in n + 1 .. 3 :
           i + m <= Len(source) + 1 => Text(i, i + m) \notin Operators
  BY OperatorLengthFits
<1>2. lexeme.kind = "operator" /\ lexeme.length = n
  BY Zenon DEF read_operator, Lexeme
<1> HIDE DEF n, lexeme
<1>3. i \in Nat /\ Len(source) \in Nat /\ Places = 1 .. Len(source) + 1
  BY TextProperties DEF Places
<1>4. i < i + n
  BY <1>1, <1>3
<1>5. Is("operator", i, i + n)
  BY <1>1, <1>4, Zenon DEF Is
<1>6. ASSUME NEW other, NEW b \in Places, Is(other, i, b)
      PROVE  b <= i + n
  <2>1. /\ CharAt(i) \notin Initials \cup Digits
        /\ CharAt(i) # "#" /\ CharAt(i) # "\"" /\ CharAt(i) # "'"
    <3>1. << CharAt(i) >>[1] = CharAt(i)
      OBVIOUS
    <3>2. QED
      BY <3>1, OperatorBegins, Zenon
  <2>2. b - i \in 1 .. 3 /\ Text(i, b) \in Operators
    BY <1>6, <2>1, Beginnings, Zenon
  <2>3. b \in Nat /\ b = i + (b - i) /\ i + (b - i) <= Len(source) + 1
    BY <1>3
  <2>4. b - i \notin n + 1 .. 3
    <3> DEFINE m == b - i
    <3> HIDE DEF m
    <3>1. i + m <= Len(source) + 1 /\ Text(i, i + m) \in Operators
      BY <2>2, <2>3 DEF m
    <3>2. QED
      BY <1>1, <3>1 DEF m
  <2>5. QED
    BY <1>1, <1>3, <2>2, <2>3, <2>4
<1>7. IsLongest("operator", i, i + n)
  BY <1>5, <1>6, Zenon DEF IsLongest
<1>8. QED
  BY <1>2, <1>7 DEF lexeme

-----------------------------------------------------------------------------
(***************************************************************************)
(* Literals: quoted_end ends where the contents do that begin there, and   *)
(* at the end of the text if none does.                                    *)
(***************************************************************************)
LEMMA ContentsFurther ==
  ASSUME NEW quote, NEW j \in Nat, NEW e \in Nat, CharAt(j) # quote,
         NEW k \in Nat, k = BehindCharacter(j), k <= e, IsContents(quote, k, e)
  PROVE  IsContents(quote, j, e)
<1>1. PICK cuts \in SUBSET (k .. e) :
        /\ {k, e} \subseteq cuts
        /\ \A c \in cuts \ {e} : CharAt(c) # quote /\ BehindCharacter(c) \in cuts
  BY Zenon DEF IsContents
<1>2. j < k
  BY DEF BehindCharacter
<1> DEFINE more == cuts \cup {j}
<1>3. more \in SUBSET (j .. e) /\ {j, e} \subseteq more
  BY <1>1, <1>2
<1>4. \A c \in more \ {e} : CharAt(c) # quote /\ BehindCharacter(c) \in more
  BY <1>1
<1> HIDE DEF more
<1>5. QED
  BY <1>3, <1>4, Zenon DEF IsContents

LEMMA QuoteStepIs ==
  ASSUME InText, NEW f, NEW quote, NEW j \in Places, j <= Len(source)
  PROVE  /\ CharAt(j) = quote => QuoteStep(f, j, quote) = j + 1
         /\ CharAt(j) # quote /\ BehindCharacter(j) \in Places
              => QuoteStep(f, j, quote) = f[BehindCharacter(j)]
         /\ CharAt(j) # quote /\ BehindCharacter(j) \notin Places
              => QuoteStep(f, j, quote) = f[Len(source) + 1]
         /\ BehindCharacter(j) \in Nat /\ BehindCharacter(j) > j
<1>1. /\ Len(source) \in Nat /\ j \in Nat \ {0} /\ Places = 1 .. Len(source) + 1
      /\ CharAt(j) = source[j]
  BY TextProperties DEF Places, CharAt
<1>2. CASE CharAt(j) = quote
  BY <1>1, <1>2 DEF QuoteStep, BehindCharacter
<1>3. CASE CharAt(j) # quote /\ CharAt(j) = "\\"
  <2>1. BehindCharacter(j) = j + 2
    BY <1>3 DEF BehindCharacter
  <2>2. j < Len(source) <=> j + 2 \in Places
    BY <1>1
  <2>3. ~(j < Len(source)) => j + 1 = Len(source) + 1
    BY <1>1
  <2>4. QuoteStep(f, j, quote) = IF j < Len(source) THEN f[j + 2] ELSE f[j + 1]
    BY <1>1, <1>3 DEF QuoteStep
  <2>5. j + 2 \in Nat /\ j + 2 > j
    BY <1>1
  <2>6. QED
    BY <1>3, <2>1, <2>2, <2>3, <2>4, <2>5
<1>4. CASE CharAt(j) # quote /\ CharAt(j) # "\\"
  <2>1. BehindCharacter(j) = j + 1
    BY <1>4 DEF BehindCharacter
  <2>2. QuoteStep(f, j, quote) = f[j + 1]
    BY <1>1, <1>4 DEF QuoteStep
  <2>3. j + 1 \in Places /\ j + 1 > j /\ j + 1 \in Nat
    BY <1>1
  <2>4. QED
    BY <1>4, <2>1, <2>2, <2>3
<1>5. QED
  BY <1>2, <1>3, <1>4

(* Contents that a quote follows are read up to this quote.                *)
LEMMA ContentsRead ==
  ASSUME InText, NEW quote, quote # NUL, NEW from \in Places, NEW to \in Places,
         IsContents(quote, from, to), CharAt(to) = quote
  PROVE  quoted_end(quote, from) = to + 1
<1>1. PICK f : /\ f = [j \in Places |-> QuoteStep(f, j, quote)]
               /\ \A j \in Places : quoted_end(quote, j) = f[j]
  BY QuoteDefined
<1>2. PICK cuts \in SUBSET (from .. to) :
        /\ {from, to} \subseteq cuts
        /\ \A c \in cuts \ {to} : CharAt(c) # quote /\ BehindCharacter(c) \in cuts
  BY Zenon DEF IsContents
<1>3. /\ from \in Nat /\ to \in Nat /\ Len(source) \in Nat
      /\ Places = 1 .. Len(source) + 1 /\ from \in Places
  BY TextProperties DEF Places
<1>4. to <= Len(source)
  BY <1>3 DEF CharAt
<1>5. \A c \in cuts : c \in Places /\ c <= Len(source) /\ c \in Nat /\ c <= to
  BY <1>2, <1>3, <1>4
<1> DEFINE S == {n \in Nat : \A c \in cuts : c >= to - n => f[c] = to + 1}
<1>6. f[to] = to + 1
  BY <1>1, <1>4, QuoteStepIs
<1>7. ASSUME NEW c \in cuts, \A k \in cuts : k > c => f[k] = to + 1
      PROVE  f[c] = to + 1
  <2>1. CASE c = to
    BY <1>6, <2>1
  <2>2. CASE c # to
    <3>1. CharAt(c) # quote /\ BehindCharacter(c) \in cuts
      BY <1>2, <2>2
    <3>2. f[c] = QuoteStep(f, c, quote) /\ c \in Places /\ c <= Len(source)
      BY <1>1, <1>5
    <3>3. BehindCharacter(c) \in Places
      BY <1>5, <3>1
    <3>4. f[c] = f[BehindCharacter(c)] /\ BehindCharacter(c) > c
      BY <3>1, <3>2, <3>3, QuoteStepIs
    <3>5. QED
      BY <1>7, <3>1, <3>4
  <2>3. QED
    BY <2>1, <2>2
<1>8. 0 \in S
  <2>1. \A c \in cuts : c >= to - 0 => c = to
    BY <1>3, <1>5
  <2>2. QED
    BY <1>6, <2>1
<1>9. ASSUME NEW n \in Nat, n \in S
      PROVE  n + 1 \in S
  <2>1. \A c \in cuts : c >= to - (n + 1) => \A k \in cuts : k > c => k >= to - n
    BY <1>3, <1>5
  <2>2. \A c \in cuts : c >= to - (n + 1) => f[c] = to + 1
    BY <1>7, <1>9, <2>1
  <2>3. QED
    BY <2>2
<1>10. to \in S
  <2> HIDE DEF S
  <2>1. QED
    BY <1>3, <1>8, <1>9, SetInduction
<1>11. from \in cuts /\ from >= to - to
  BY <1>2, <1>3
<1>12. QED
  BY <1>1, <1>10, <1>11

(* What is read to an end before that of the text has a quote there and    *)
(* contents before it.                                                     *)
LEMMA ReadContents ==
  ASSUME InText, NEW quote, NEW i \in Places,
         quoted_end(quote, i) <= Len(source)
  PROVE  LET to == quoted_end(quote, i) - 1
         IN /\ to \in Places /\ to >= i
            /\ CharAt(to) = quote /\ IsContents(quote, i, to)
<1>1. PICK f : /\ f = [j \in Places |-> QuoteStep(f, j, quote)]
               /\ \A j \in Places : quoted_end(quote, j) = f[j]
  BY QuoteDefined
<1>2. \A j \in Places : f[j] \in Places /\ f[j] >= j
  BY <1>1, QuoteFound
<1> DEFINE end == Len(source) + 1
           Found(j) == f[j] <= Len(source)
                         => /\ f[j] - 1 \in Places /\ f[j] - 1 >= j
                            /\ CharAt(f[j] - 1) = quote
                            /\ IsContents(quote, j, f[j] - 1)
           S == {n \in Nat : \A j \in Places : j >= end - n => Found(j)}
<1>3. /\ end \in Nat \ {0} /\ Places = 1 .. end /\ Len(source) \in Nat
      /\ \A j \in Places : j \in Nat \ {0}
  BY TextProperties DEF Places
<1>4. f[end] = end
  BY <1>1, <1>3 DEF QuoteStep
<1>5. ASSUME NEW j \in Places, \A k \in Places : k > j => Found(k)
      PROVE  Found(j)
  <2>1. SUFFICES ASSUME f[j] <= Len(source)
                 PROVE  /\ f[j] - 1 \in Places /\ f[j] - 1 >= j
                        /\ CharAt(f[j] - 1) = quote
                        /\ IsContents(quote, j, f[j] - 1)
    OBVIOUS
  <2>2. f[j] = QuoteStep(f, j, quote) /\ f[j] \in Nat /\ f[j] >= j /\ j \in Nat
    BY <1>1, <1>2, <1>3
  <2>3. j <= Len(source)
    BY <1>3, <2>1, <2>2
  <2>4. CASE CharAt(j) = quote
    <3>1. f[j] - 1 = j
      BY <2>2, <2>3, <2>4, QuoteStepIs
    <3>2. IsContents(quote, j, j)
      <4>1. {j} \in SUBSET (j .. j) /\ {j, j} \subseteq {j}
        BY <2>2
      <4>2. \A k \in {j} \ {j} : CharAt(k) # quote /\ BehindCharacter(k) \in {j}
        OBVIOUS
      <4>3. QED
        BY <4>1, <4>2, Zenon DEF IsContents
    <3>3. QED
      BY <2>2, <2>4, <3>1, <3>2
  <2>5. CASE CharAt(j) # quote
    <3> DEFINE k == BehindCharacter(j)
    <3>1. k \in Nat /\ k > j
      BY <2>3, QuoteStepIs
    <3>2. k \in Places /\ f[j] = f[k]
      <4>1. k \notin Places => f[j] = end
        BY <1>4, <2>2, <2>3, <2>5, QuoteStepIs
      <4>2. end > Len(source)
        BY <1>3
      <4>3. k \in Places
        BY <2>1, <4>1, <4>2, <1>3
      <4>4. QED
        BY <2>2, <2>3, <2>5, <4>3, QuoteStepIs
    <3> HIDE DEF k
    <3>3. /\ f[k] - 1 \in Places /\ f[k] - 1 >= k
          /\ CharAt(f[k] - 1) = quote /\ IsContents(quote, k, f[k] - 1)
      BY <1>5, <2>1, <3>1, <3>2
    <3>4. f[k] - 1 \in Nat /\ f[k] - 1 >= j
      BY <1>3, <2>2, <3>1, <3>3
    <3>5. IsContents(quote, j, f[k] - 1)
      BY <2>2, <2>5, <3>1, <3>3, <3>4, ContentsFurther DEF k
    <3>6. QED
      BY <3>2, <3>3, <3>4, <3>5
  <2>6. QED
    BY <2>4, <2>5
<1> HIDE DEF Found
<1>6. 0 \in S
  <2>1. \A j \in Places : j >= end - 0 => \A k \in Places : ~(k > j)
    BY <1>3
  <2>2. QED
    BY <1>5, <2>1
<1>7. ASSUME NEW n \in Nat, n \in S
      PROVE  n + 1 \in S
  <2>1. \A j \in Places : j >= end - (n + 1) => \A k \in Places : k > j => k >= end - n
    BY <1>3
  <2>2. QED
    BY <1>5, <1>7, <2>1
<1>8. end \in S
  <2> HIDE DEF S
  <2>1. QED
    BY <1>3, <1>6, <1>7, SetInduction
<1>9. i >= end - end
  BY <1>3
<1>10. Found(i)
  BY <1>8, <1>9
<1>11. QED
  BY <1>1, <1>10 DEF Found

Quotes == {"\"", "'"}

LEMMA StringLongest ==
  ASSUME InText, NEW i \in Places, CharAt(i) \in Quotes
  PROVE  LET lexeme == read_string(i)
         IN IsLongest(lexeme.kind, i, i + lexeme.length)
<1> DEFINE quote == CharAt(i)
           kind  == IF quote = "'" THEN "character" ELSE "string"
           end   == quoted_end(quote, i + 1)
           lexeme == read_string(i)
<1>1. quote # NUL /\ quote \notin Initials \cup Digits /\ quote # "#"
  BY ClassesApart, Zenon DEF NUL, Quotes
<1>2. << quote >> \notin Operators
  <2>1. << quote >>[1] = quote
    OBVIOUS
  <2>2. QED
    BY <2>1, OperatorBegins, Zenon DEF Quotes
<1>3. \A b : Is(kind, i, b) <=> IsQuoted(quote, i, b)
  BY Zenon DEF Is, Quotes
<1>4. \A other : \A b \in Places : Is(other, i, b) => IsQuoted(quote, i, b)
  BY <1>1, <1>2, Beginnings, Zenon DEF Quotes
<1>5. lexeme = UpTo(kind, i, end)
  BY Zenon DEF read_string
<1>6. i + 1 \in Places /\ i \in Nat /\ \A b \in Places : b \in Nat
  BY <1>1, NextPlace, TextProperties
<1>7. end \in Places /\ end >= i + 1
  BY <1>6, QuoteFound
<1>8. kind \in {"string", "character"}
  BY Zenon
<1> HIDE DEF kind, end, lexeme
<1>9. end <= Len(source) => Is(kind, i, end)
  <2>1. SUFFICES ASSUME end <= Len(source)
                 PROVE  IsQuoted(quote, i, end)
    BY <1>3, Zenon
  <2>2. /\ end - 1 \in Places /\ end - 1 >= i + 1
        /\ CharAt(end - 1) = quote /\ IsContents(quote, i + 1, end - 1)
    BY <1>6, <2>1, ReadContents DEF end
  <2>3. i + 1 < end
    BY <1>6, <1>7, <2>2
  <2>4. QED
    BY <2>2, <2>3, Zenon DEF IsQuoted
<1>10. ASSUME NEW b \in Places, IsQuoted(quote, i, b)
       PROVE  end = b
  <2>1. i + 1 < b /\ CharAt(b - 1) = quote /\ IsContents(quote, i + 1, b - 1)
    BY <1>10, Zenon DEF IsQuoted
  <2>2. b - 1 \in Places /\ (b - 1) + 1 = b
    BY <1>6, <2>1, TextProperties DEF Places
  <2>3. end = (b - 1) + 1
    BY <1>1, <1>6, <2>1, <2>2, ContentsRead DEF end
  <2>4. QED
    BY <2>2, <2>3
<1>11. ASSUME NEW other, NEW b \in Places, Is(other, i, b)
       PROVE  b <= end /\ Is(kind, i, end)
  <2>1. IsQuoted(quote, i, b)
    BY <1>4, <1>11
  <2>2. end = b
    BY <1>10, <2>1
  <2>3. Is(kind, i, end)
    BY <1>3, <2>1, <2>2, Zenon
  <2>4. QED
    BY <1>6, <2>2, <2>3
<1>12. lexeme.kind = kind /\ i + lexeme.length = end
  BY <1>5, <1>6, <1>7 DEF UpTo, Lexeme
<1>13. end > Len(source) \/ Is(kind, i, end)
  BY <1>6, <1>7, <1>9, TextProperties
<1>14. IsLongest(kind, i, end)
  BY <1>8, <1>11, <1>13, Zenon DEF IsLongest
<1>15. QED
  BY <1>12, <1>14 DEF lexeme

-----------------------------------------------------------------------------
(***************************************************************************)
(* Directives: the word behind # is found as it is written.                *)
(***************************************************************************)
LEMMA HashWordFound ==
  ASSUME InText, NEW i \in Places, CharAt(i) = "#"
  PROVE  LET end == FirstOutside(Letters \cup {"_"}, i + 1)
         IN /\ end \in Places /\ end >= i + 1
            /\ IsHashWord(i, end)
            /\ \A b \in Nat : IsHashWord(i, b) => b = end
<1> DEFINE end == FirstOutside(Initials, i + 1)
<1>1. CharAt(i) # NUL /\ NUL \notin Initials
  BY ClassesApart, Zenon DEF NUL
<1>2. i + 1 \in Places /\ i \in Nat
  BY <1>1, NextPlace, TextProperties
<1>3. /\ end \in Places /\ end >= i + 1
      /\ Over(Initials, i + 1, end) /\ CharAt(end) \notin Initials
      /\ \A b \in Nat : Over(Initials, i + 1, b) => b <= end
  BY <1>1, <1>2, OutsideIs
<1> HIDE DEF end
<1>4. end \in Nat /\ i < end
  BY <1>2, <1>3, TextProperties
<1>5. IsHashWord(i, end)
  BY <1>3, <1>4, Zenon DEF IsHashWord, Initials
<1>6. ASSUME NEW b \in Nat, IsHashWord(i, b)
      PROVE  b = end
  <2>1. i < b /\ Over(Initials, i + 1, b) /\ CharAt(b) \notin Initials
    BY <1>6, Zenon DEF IsHashWord, Initials
  <2>2. b <= end
    BY <1>3, <2>1
  <2>3. b < end => b \in i + 1 .. end - 1
    BY <1>2, <1>4, <2>1
  <2>4. QED
    BY <1>3, <1>4, <2>1, <2>2, <2>3 DEF Over
<1>7. QED
  BY <1>3, <1>5, <1>6, Zenon DEF end, Initials

LEMMA DirectiveLongest ==
  ASSUME InText, NEW i \in Places, NEW end \in Places, end >= i + 1,
         IsHashWord(i, end), \A b \in Nat : IsHashWord(i, b) => b = end,
         \A other : \A b \in Places : Is(other, i, b) =>
           \/ other = "directive" /\ IsDirective(i, b)
           \/ /\ other = "keyword" /\ IsHashWord(i, b)
              /\ Text(i + 1, b) \in Keywords \ {If, Else},
         NEW lexeme,
         lexeme = LET word == Text(i + 1, end) IN
                  CASE word = If   -> UpTo("directive", i, LineEnd(end))
                    [] word = Else -> UpTo("directive", i, end)
                    [] word \in Keywords \ {If, Else} -> UpTo("keyword", i, end)
                    [] word \in Conditionals -> UpTo("directive", i, end)
                    [] OTHER -> UpTo("error", i, end)
  PROVE  IsLongest(lexeme.kind, i, i + lexeme.length)
<1> DEFINE word == Text(i + 1, end)
<1>1. /\ If # Else /\ If \notin Conditionals /\ Else \notin Conditionals
      /\ Keywords \cap Conditionals = {}
  <2>1. Len(If) = 2 /\ Len(Else) = 4
    BY DEF If, Else
  <2>2. If # Else
    BY <2>1
  <2>3. QED
    BY <2>2, WordsAssumption
<1>2. i \in Nat /\ end \in Nat /\ \A b \in Places : b \in Nat
  BY TextProperties
<1>3. ASSUME NEW b \in Places, IsDirective(i, b)
      PROVE  IF word = If THEN Breaks(end, b) = {} /\ b >= end
             ELSE b = end /\ word \in Conditionals \cup {Else}
  <2>1. PICK n \in i + 1 .. b :
          /\ IsHashWord(i, n)
          /\ IF Text(i + 1, n) = If THEN Breaks(n, b) = {}
             ELSE n = b /\ Text(i + 1, n) \in Conditionals \cup {Else}
    BY <1>3, Zenon DEF IsDirective
  <2>2. n \in Nat /\ b >= n
    BY <1>2
  <2>3. n = end
    BY <2>1, <2>2
  <2>4. QED
    BY <2>1, <2>2, <2>3
<1>4. ASSUME NEW other, NEW b \in Places, Is(other, i, b)
      PROVE  IF word = If THEN IsDirective(i, b)
             ELSE b = end /\ (word \in Conditionals \cup {Else} \/ word \in Keywords)
  <2>1. CASE IsDirective(i, b)
    BY <1>3, <2>1
  <2>2. CASE IsHashWord(i, b) /\ Text(i + 1, b) \in Keywords \ {If, Else}
    <3>1. b = end
      BY <1>2, <2>2
    <3>2. QED
      BY <2>2, <3>1
  <2>3. QED
    BY <1>4, <2>1, <2>2, Zenon
<1>5. end <= end
  BY <1>2
<1> HIDE DEF word
<1>6. CASE word = If
  <2> DEFINE m == LineEnd(end)
  <2>1. /\ m \in Places /\ m >= end /\ Breaks(end, m) = {}
        /\ CharAt(m) \in {"\n", NUL}
    BY LineEndFound
  <2> HIDE DEF m
  <2>2. end \in i + 1 .. m
    BY <1>2, <2>1
  <2>3. IsDirective(i, m)
    BY <1>6, <2>1, <2>2, Zenon DEF IsDirective, word
  <2>4. ASSUME NEW b \in Places, IsDirective(i, b)
        PROVE  b <= m
    <3>1. Breaks(end, b) = {} /\ b >= end
      BY <1>3, <1>6, <2>4 DEF word
    <3>2. SUFFICES ASSUME b > m
                   PROVE  FALSE
      BY <1>2, <2>1
    <3>3. m \in end .. b - 1 /\ m \in 1 .. Len(source) /\ m \in 1 .. Len(source)
      BY <1>2, <2>1, <3>2, TextProperties DEF Places
    <3>4. source[m] = "\n"
      BY <2>1, <3>3, TextProperties DEF CharAt
    <3>5. QED
      BY <3>1, <3>3, <3>4 DEF Breaks
  <2>5. \A other : \A b \in Places : Is(other, i, b) => b <= m
    BY <1>4, <1>6, <2>4 DEF word
  <2>6. Is("directive", i, m)
    BY <2>3, Zenon DEF Is
  <2>7. lexeme = UpTo("directive", i, m)
    BY <1>1, <1>6 DEF word, m
  <2>8. QED
    BY <2>1, <2>5, <2>6, <2>7, FoundLongest
<1>7. ASSUME word # If
      PROVE  \A other : \A b \in Places : Is(other, i, b) => b <= end
  BY <1>4, <1>5, <1>7 DEF word
<1>8. CASE word # If /\ word \in Conditionals \cup {Else}
  <2>1. end \in i + 1 .. end
    BY <1>2
  <2>2. IsDirective(i, end)
    BY <1>8, <2>1, Zenon DEF IsDirective, word
  <2>3. Is("directive", i, end)
    BY <2>2, Zenon DEF Is
  <2>4. lexeme = UpTo("directive", i, end)
    <3>1. CASE word = Else
      BY <1>8, <3>1 DEF word
    <3>2. CASE word # Else
      <4>1. word \notin Keywords
        BY <1>1, <1>8, <3>2
      <4>2. QED
        BY <1>8, <3>2, <4>1 DEF word
    <3>3. QED
      BY <3>1, <3>2
  <2>5. QED
    BY <1>7, <1>8, <2>3, <2>4, FoundLongest
<1>9. CASE word \in Keywords \ {If, Else}
  <2>1. Is("keyword", i, end)
    BY <1>9, Zenon DEF Is, word
  <2>2. lexeme = UpTo("keyword", i, end)
    BY <1>1, <1>9 DEF word
  <2>3. QED
    BY <1>7, <1>9, <2>1, <2>2, FoundLongest
<1>10. CASE word # If /\ word \notin Conditionals \cup {Else} /\ word \notin Keywords
  <2>1. \A other : \A b \in Places : ~Is(other, i, b)
    BY <1>4, <1>10 DEF word
  <2>2. lexeme = UpTo("error", i, end)
    BY <1>10 DEF word
  <2>3. lexeme.kind = "error"
    BY <2>2 DEF UpTo, Lexeme
  <2>4. QED
    BY <2>1, <2>3, Zenon DEF IsLongest
<1>11. QED
  BY <1>6, <1>8, <1>9, <1>10

LEMMA PreprocessorLongest ==
  ASSUME InText, NEW i \in Places, CharAt(i) = "#"
  PROVE  LET lexeme == read_preprocessor(i)
         IN IsLongest(lexeme.kind, i, i + lexeme.length)
<1> DEFINE end == FirstOutside(Letters \cup {"_"}, i + 1)
           lexeme == read_preprocessor(i)
<1>1. /\ end \in Places /\ end >= i + 1
      /\ IsHashWord(i, end)
      /\ \A b \in Nat : IsHashWord(i, b) => b = end
  BY HashWordFound, Zenon
<1>2. CharAt(i) \notin Initials \cup Digits /\ CharAt(i) # "\"" /\ CharAt(i) # "'"
  BY ClassesApart, Zenon
<1>3. << CharAt(i) >> \notin Operators
  <2>1. << CharAt(i) >>[1] = CharAt(i)
    OBVIOUS
  <2>2. QED
    BY <2>1, OperatorBegins, Zenon
<1>4. \A other : \A b \in Places : Is(other, i, b) =>
        \/ other = "directive" /\ IsDirective(i, b)
        \/ /\ other = "keyword" /\ IsHashWord(i, b)
           /\ Text(i + 1, b) \in Keywords \ {If, Else}
  BY <1>2, <1>3, Beginnings, Zenon
<1>5. lexeme = LET word == Text(i + 1, end) IN
               CASE word = If   -> UpTo("directive", i, LineEnd(end))
                 [] word = Else -> UpTo("directive", i, end)
                 [] word \in Keywords \ {If, Else} -> UpTo("keyword", i, end)
                 [] word \in Conditionals -> UpTo("directive", i, end)
                 [] OTHER -> UpTo("error", i, end)
  BY Zenon DEF read_preprocessor
<1> HIDE DEF end, lexeme
<1>6. IsLongest(lexeme.kind, i, i + lexeme.length)
  BY <1>1, <1>4, <1>5, DirectiveLongest, Zenon
<1>7. QED
  BY <1>6 DEF lexeme

-----------------------------------------------------------------------------
(***************************************************************************)
(* Numbers: what can follow the digits, and how far each part goes.        *)
(***************************************************************************)
IsDot(n)  == CharAt(n) = "."
IsExp(n)  == CharAt(n) \in {"e", "E"}
IsSign(n) == CharAt(n) \in {"+", "-"}

LEMMA NumberParts ==
  ASSUME NEW n
  PROVE  /\ IsDot(n) => CharAt(n) \notin Digits /\ CharAt(n) # NUL /\ ~IsExp(n)
         /\ IsExp(n) => CharAt(n) \notin Digits /\ CharAt(n) # NUL
         /\ IsSign(n) => CharAt(n) \notin Digits /\ CharAt(n) # NUL /\ ~IsDot(n)
         /\ CharAt(n) \in Digits => CharAt(n) # NUL
         /\ NUL \notin Digits
  BY Zenon DEF IsDot, IsExp, IsSign, Digits, NUL

(* A power goes on as far as there are digits.                             *)
LEMMA PowerLongest ==
  ASSUME InText, NEW j \in Places, IsExp(j)
  PROVE  LET power == IF IsSign(j + 1) THEN j + 2 ELSE j + 1
             end   == FirstOutside(Digits, power)
         IN /\ end \in Places /\ end > j
            /\ IsPower(j, end) /\ ~BetweenDots(end)
            /\ \A b \in Nat : IsPower(j, b) => b <= end
<1> DEFINE power == IF IsSign(j + 1) THEN j + 2 ELSE j + 1
           end   == FirstOutside(Digits, power)
<1>1. j \in Nat \ {0} /\ j + 1 \in Places /\ \A b \in Places : b \in Nat
  BY NextPlace, TextProperties, NumberParts
<1>2. IsSign(j + 1) => (j + 1) + 1 \in Places
  BY <1>1, NextPlace, NumberParts
<1>3. power \in Places /\ power > j
  <2>1. (j + 1) + 1 = j + 2 /\ j + 2 > j /\ j + 1 > j
    BY <1>1
  <2>2. QED
    BY <1>1, <1>2, <2>1
<1> HIDE DEF power
<1>4. /\ end \in Places /\ end >= power
      /\ Over(Digits, power, end)
      /\ \A b \in Nat : Over(Digits, power, b) => b <= end
  BY <1>3, NumberParts, OutsideIs
<1> HIDE DEF end
<1>5. end \in Nat /\ end > j /\ power \in Nat
  BY <1>1, <1>3, <1>4
<1>6. \A b : IsPower(j, b) <=>
        /\ j < b
        /\ Over(Digits, j + 1, b) \/ (j + 1 < b /\ IsSign(j + 1) /\ Over(Digits, j + 2, b))
  BY Zenon DEF IsPower, IsExp, IsSign
<1>7. IsPower(j, end)
  <2>1. CASE IsSign(j + 1)
    <3>1. power = j + 2 /\ j + 1 < end
      BY <1>1, <1>4, <1>5, <2>1 DEF power
    <3>2. QED
      BY <1>4, <1>5, <1>6, <2>1, <3>1
  <2>2. CASE ~IsSign(j + 1)
    BY <1>4, <1>5, <1>6, <2>2 DEF power
  <2>3. QED
    BY <2>1, <2>2
<1>8. ~IsDot(end - 1)
  <2>1. CASE end > power
    <3>1. end - 1 \in power .. end - 1
      BY <1>5, <2>1
    <3>2. CharAt(end - 1) \in Digits
      BY <1>4, <3>1 DEF Over
    <3>3. QED
      BY <3>2, NumberParts
  <2>2. CASE end = power
    <3>1. end - 1 = IF IsSign(j + 1) THEN j + 1 ELSE j
      BY <1>1, <2>2 DEF power
    <3>2. ~IsDot(j) /\ (IsSign(j + 1) => ~IsDot(j + 1))
      BY NumberParts
    <3>3. QED
      BY <3>1, <3>2
  <2>3. QED
    BY <1>4, <1>5, <2>1, <2>2
<1>9. ASSUME NEW b \in Nat, IsPower(j, b)
      PROVE  b <= end
  <2>1. CASE IsSign(j + 1)
    <3>1. power = j + 2
      BY <2>1 DEF power
    <3>2. CASE Over(Digits, j + 1, b)
      <4>1. b > j + 1 => j + 1 \in j + 1 .. b - 1
        BY <1>1
      <4>2. CharAt(j + 1) \notin Digits
        BY <2>1, NumberParts
      <4>3. ~(b > j + 1)
        BY <3>2, <4>1, <4>2 DEF Over
      <4>4. QED
        BY <1>1, <1>4, <1>5, <3>1, <4>3
    <3>3. CASE Over(Digits, j + 2, b)
      BY <1>4, <3>1, <3>3
    <3>4. QED
      BY <1>6, <1>9, <3>2, <3>3
  <2>2. CASE ~IsSign(j + 1)
    BY <1>4, <1>6, <1>9, <2>2 DEF power
  <2>3. QED
    BY <2>1, <2>2
<1>10. ~BetweenDots(end)
  BY <1>8, Zenon DEF BetweenDots, IsDot
<1>11. QED
  BY <1>4, <1>5, <1>7, <1>9, <1>10 DEF end, power

(* A decimal has its point behind the digits at its start, if at all, and  *)
(* a power follows these digits or those behind the point.                 *)
LEMMA DecimalIs ==
  ASSUME InText, NEW i \in Places, CharAt(i) \in Digits
  PROVE  LET whole == FirstOutside(Digits, i + 1)
         IN /\ whole \in Places /\ whole > i
            /\ CharAt(whole) \notin Digits /\ CharAt(whole - 1) \in Digits
            /\ Some(Digits, i, whole)
            /\ \A b \in Nat : Some(Digits, i, b) => b <= whole
            /\ \A b \in Nat : Some(Digits, i, b) /\ CharAt(b) \notin Digits => b = whole
            /\ \A b \in Nat : IsDecimal(i, b) <=>
                                IsDot(whole) /\ whole < b /\ Over(Digits, whole + 1, b)
<1> DEFINE whole == FirstOutside(Digits, i + 1)
<1>1. i \in Nat \ {0} /\ i + 1 \in Places /\ \A b \in Places : b \in Nat
  BY NextPlace, TextProperties, NumberParts
<1>2. /\ whole \in Places /\ whole >= i + 1
      /\ Over(Digits, i + 1, whole) /\ CharAt(whole) \notin Digits
      /\ \A b \in Nat : Over(Digits, i + 1, b) => b <= whole
      /\ \A b \in Nat : b >= i + 1 /\ Over(Digits, i + 1, b) /\ CharAt(b) \notin Digits
           => b = whole
  BY <1>1, NumberParts, OutsideIs
<1> HIDE DEF whole
<1>3. whole \in Nat /\ whole > i
  BY <1>1, <1>2
<1>4. Some(Digits, i, whole)
  BY <1>1, <1>2, <1>3, SomeSplit
<1>5. ASSUME NEW b \in Nat, Some(Digits, i, b)
      PROVE  b <= whole /\ (CharAt(b) \notin Digits => b = whole)
  <2>1. i < b /\ Over(Digits, i + 1, b)
    BY <1>1, <1>5, SomeSplit
  <2>2. b >= i + 1
    BY <1>1, <2>1
  <2>3. QED
    BY <1>2, <2>1, <2>2
<1>6. CharAt(whole - 1) \in Digits
  <2>1. whole - 1 \in i .. whole - 1
    BY <1>1, <1>3
  <2>2. QED
    BY <1>4, <2>1 DEF Some, Over
<1>7. ASSUME NEW b \in Nat
      PROVE  IsDecimal(i, b) <=> IsDot(whole) /\ whole < b /\ Over(Digits, whole + 1, b)
  <2>1. IsDecimal(i, b) <=> \E n \in i + 1 .. b - 1 :
          Some(Digits, i, n) /\ IsDot(n) /\ Over(Digits, n + 1, b)
    BY Zenon DEF IsDecimal, IsDot
  <2>2. \A n \in i + 1 .. b - 1 : n \in Nat /\ n < b
    BY <1>1
  <2>3. \A n \in i + 1 .. b - 1 : Some(Digits, i, n) /\ IsDot(n) => n = whole
    BY <1>5, <2>2, NumberParts
  <2>4. whole < b => whole \in i + 1 .. b - 1
    BY <1>1, <1>2, <1>3
  <2>5. QED
    BY <1>4, <2>1, <2>2, <2>3, <2>4
<1>8. QED
  BY <1>2, <1>3, <1>4, <1>5, <1>6, <1>7 DEF whole

LEMMA FloatIs ==
  ASSUME InText, NEW i \in Places, CharAt(i) \in Digits
  PROVE  LET whole == FirstOutside(Digits, i + 1)
         IN \A b \in Nat : IsFloat(i, b) <=>
              \/ IsDecimal(i, b)
              \/ \E n \in i + 1 .. b - 1 :
                   IsExp(n) /\ (IsDecimal(i, n) \/ n = whole) /\ IsPower(n, b)
<1> DEFINE whole == FirstOutside(Digits, i + 1)
<1>1. /\ Some(Digits, i, whole)
      /\ \A b \in Nat : Some(Digits, i, b) /\ CharAt(b) \notin Digits => b = whole
  BY DecimalIs
<1> HIDE DEF whole
<1>2. SUFFICES ASSUME NEW b \in Nat
               PROVE  IsFloat(i, b) <=>
                        \/ IsDecimal(i, b)
                        \/ \E n \in i + 1 .. b - 1 :
                             IsExp(n) /\ (IsDecimal(i, n) \/ n = whole) /\ IsPower(n, b)
  BY DEF whole
<1>3. IsFloat(i, b) <=>
        \/ IsDecimal(i, b)
        \/ \E n \in i + 1 .. b - 1 :
             (IsDecimal(i, n) \/ Some(Digits, i, n)) /\ IsPower(n, b) /\ IsExp(n)
  BY Zenon DEF IsFloat, IsPower, IsExp
<1>4. \A n \in i + 1 .. b - 1 : n \in Nat
  BY TextProperties
<1>5. \A n \in i + 1 .. b - 1 : IsExp(n) => (Some(Digits, i, n) <=> n = whole)
  BY <1>1, <1>4, NumberParts
<1>6. QED
  BY <1>3, <1>5

(* Behind 0x and 0b only digits of the base go on, and no point or power.  *)
LEMMA PrefixedLongest ==
  ASSUME InText, NEW i \in Places, CharAt(i) \in Digits,
         CharAt(i + 1) \notin Digits, CharAt(i + 1) # NUL, ~IsDot(i + 1), ~IsExp(i + 1),
         NEW class, NUL \notin class, \A n : CharAt(n) \in class => ~IsDot(n),
         \A b : IsInteger(i, b) <=>
                  Some(Digits, i, b) \/ (b > i + 1 /\ Over(class, i + 2, b))
  PROVE  LET end == FirstOutside(class, i + 2)
         IN /\ end \in Places /\ Is("integer", i, end)
            /\ \A b \in Nat : IsInteger(i, b) \/ IsFloat(i, b) => b <= end
<1> DEFINE end   == FirstOutside(class, i + 2)
           whole == FirstOutside(Digits, i + 1)
<1>1. /\ i \in Nat \ {0} /\ i + 1 \in Places /\ (i + 1) + 1 \in Places
      /\ \A b \in Places : b \in Nat
  BY NextPlace, TextProperties, NumberParts
<1>2. i + 2 \in Places
  BY <1>1
<1>3. /\ end \in Places /\ end >= i + 2 /\ Over(class, i + 2, end)
      /\ \A b \in Nat : Over(class, i + 2, b) => b <= end
  BY <1>2, OutsideIs
<1>4. /\ \A b \in Nat : Some(Digits, i, b) => b <= whole
      /\ \A b \in Nat : Some(Digits, i, b) /\ CharAt(b) \notin Digits => b = whole
      /\ \A b \in Nat : IsDecimal(i, b) => IsDot(whole)
      /\ \A b \in Nat : IsFloat(i, b) <=>
           \/ IsDecimal(i, b)
           \/ \E n \in i + 1 .. b - 1 :
                IsExp(n) /\ (IsDecimal(i, n) \/ n = whole) /\ IsPower(n, b)
  BY DecimalIs, FloatIs
<1> HIDE DEF end, whole
<1>5. whole = i + 1
  <2>1. Over(Digits, i + 1, i + 1)
    BY <1>1 DEF Over
  <2>2. Some(Digits, i, i + 1)
    BY <1>1, <2>1, SomeSplit
  <2>3. QED
    BY <1>1, <1>4, <2>2
<1>6. end \in Nat /\ end > i + 1
  BY <1>1, <1>3
<1>7. ~IsDot(end - 1)
  <2>1. CASE end = i + 2
    BY <1>1, <2>1
  <2>2. CASE end # i + 2
    <3>1. end - 1 \in i + 2 .. end - 1
      BY <1>1, <1>3, <1>6, <2>2
    <3>2. QED
      BY <1>3, <3>1 DEF Over
  <2>3. QED
    BY <2>1, <2>2
<1>8. Is("integer", i, end)
  <2>1. ~BetweenDots(end)
    BY <1>7, Zenon DEF BetweenDots, IsDot
  <2>2. IsInteger(i, end)
    BY <1>3, <1>6
  <2>3. QED
    BY <2>1, <2>2, Zenon DEF Is
<1>9. ASSUME NEW b \in Nat, IsInteger(i, b)
      PROVE  b <= end
  BY <1>1, <1>3, <1>4, <1>5, <1>6, <1>9
<1>10. ASSUME NEW b \in Nat
       PROVE  ~IsFloat(i, b)
  <2>1. \A n \in i + 1 .. b - 1 : n \in Nat
    BY <1>1
  <2>2. \A n \in Nat : ~IsDecimal(i, n)
    BY <1>4, <1>5
  <2>3. \A n \in i + 1 .. b - 1 : ~(IsExp(n) /\ (IsDecimal(i, n) \/ n = whole))
    BY <1>5, <2>1, <2>2
  <2>4. QED
    BY <1>4, <2>2, <2>3
<1>11. QED
  BY <1>3, <1>8, <1>9, <1>10 DEF end

LEMMA PlainLongest ==
  ASSUME InText, NEW i \in Places, CharAt(i) \in Digits, ~Hex(i), ~Binary(i)
  PROVE  LET whole    == FirstOutside(Digits, i + 1)
             point    == HasFraction(whole)
             decimals == IF point THEN FirstOutside(Digits, whole + 1) ELSE whole
             power    == IF IsSign(decimals + 1) THEN decimals + 2 ELSE decimals + 1
             end      == IF IsExp(decimals) THEN FirstOutside(Digits, power) ELSE decimals
         IN /\ end \in Places
            /\ Is(IF point \/ IsExp(decimals) THEN "float" ELSE "integer", i, end)
            /\ \A b \in Nat :
                 (IsInteger(i, b) \/ IsFloat(i, b)) /\ ~BetweenDots(b) => b <= end
<1> DEFINE whole    == FirstOutside(Digits, i + 1)
           point    == HasFraction(whole)
           decimals == IF point THEN FirstOutside(Digits, whole + 1) ELSE whole
           power    == IF IsSign(decimals + 1) THEN decimals + 2 ELSE decimals + 1
           end      == IF IsExp(decimals) THEN FirstOutside(Digits, power) ELSE decimals
           kind     == IF point \/ IsExp(decimals) THEN "float" ELSE "integer"
<1>1. /\ whole \in Places /\ whole > i
      /\ CharAt(whole) \notin Digits /\ CharAt(whole - 1) \in Digits
      /\ Some(Digits, i, whole)
      /\ \A b \in Nat : Some(Digits, i, b) => b <= whole
      /\ \A b \in Nat : IsDecimal(i, b) <=>
                          IsDot(whole) /\ whole < b /\ Over(Digits, whole + 1, b)
      /\ \A b \in Nat : IsFloat(i, b) <=>
           \/ IsDecimal(i, b)
           \/ \E n \in i + 1 .. b - 1 :
                IsExp(n) /\ (IsDecimal(i, n) \/ n = whole) /\ IsPower(n, b)
  BY DecimalIs, FloatIs
<1> HIDE DEF whole
<1>2. i \in Nat \ {0} /\ whole \in Nat \ {0} /\ \A b \in Places : b \in Nat \ {0}
  BY <1>1, TextProperties
<1>3. point <=> IsDot(whole) /\ ~IsDot(whole + 1)
  BY Zenon DEF HasFraction, IsDot
<1>4. \A n : BetweenDots(n) <=> IsDot(n - 1) /\ IsDot(n)
  BY Zenon DEF BetweenDots, IsDot
<1> HIDE DEF point
<1>5. point => /\ decimals \in Places /\ decimals >= whole + 1
               /\ Over(Digits, whole + 1, decimals)
               /\ \A b \in Nat : Over(Digits, whole + 1, b) => b <= decimals
               /\ \A b \in Nat : b >= whole + 1 /\ Over(Digits, whole + 1, b)
                                   /\ CharAt(b) \notin Digits => b = decimals
  <2>1. point => whole + 1 \in Places
    BY <1>1, <1>2, <1>3, NextPlace, NumberParts
  <2>2. QED
    BY <2>1, NumberParts, OutsideIs
<1>6. ~point => decimals = whole
  OBVIOUS
<1> HIDE DEF decimals
<1>7. decimals \in Places /\ decimals \in Nat /\ decimals >= whole
  <2>1. decimals \in Places
    BY <1>1, <1>5, <1>6
  <2>2. decimals \in Nat
    BY <1>2, <2>1
  <2>3. CASE point
    <3>1. decimals >= whole + 1
      BY <1>5, <2>3
    <3>2. QED
      BY <1>2, <2>1, <2>2, <3>1
  <2>4. CASE ~point
    <3>1. decimals = whole
      BY <1>6, <2>4
    <3>2. decimals >= whole
      BY <1>2, <3>1
    <3>3. QED
      BY <2>1, <2>2, <3>2
  <2>5. QED
    BY <2>3, <2>4
<1>8. ASSUME NEW b \in Nat, IsDecimal(i, b), ~BetweenDots(b)
      PROVE  point /\ b <= decimals
  <2>1. IsDot(whole) /\ whole < b /\ Over(Digits, whole + 1, b)
    BY <1>1, <1>8
  <2>2. ~IsDot(whole + 1)
    <3>1. SUFFICES ASSUME IsDot(whole + 1)
                   PROVE  FALSE
      OBVIOUS
    <3>2. b # whole + 1 => whole + 1 \in whole + 1 .. b - 1
      BY <1>2, <2>1
    <3>3. b = whole + 1
      BY <2>1, <3>1, <3>2, NumberParts DEF Over
    <3>4. b - 1 = whole
      BY <1>2, <3>3
    <3>5. QED
      BY <1>4, <1>8, <2>1, <3>1, <3>3, <3>4
  <2>3. QED
    BY <1>3, <1>5, <2>1, <2>2
<1>9. point => IsDecimal(i, decimals) /\ ~BetweenDots(decimals)
  <2>1. SUFFICES ASSUME point
                 PROVE  IsDecimal(i, decimals) /\ ~BetweenDots(decimals)
    OBVIOUS
  <2>2. whole < decimals
    BY <1>2, <1>5, <1>7, <2>1
  <2>3. IsDecimal(i, decimals)
    BY <1>1, <1>3, <1>5, <1>7, <2>1, <2>2
  <2>4. decimals # whole + 1 => decimals - 1 \in whole + 1 .. decimals - 1
    BY <1>2, <1>7, <2>2
  <2>5. decimals # whole + 1 => ~IsDot(decimals - 1)
    BY <1>5, <2>1, <2>4, NumberParts DEF Over
  <2>6. QED
    BY <1>3, <1>4, <2>1, <2>3, <2>5
<1>10. ASSUME NEW n \in Nat, IsExp(n), IsDecimal(i, n) \/ n = whole
       PROVE  n = decimals
  <2>1. CASE IsDecimal(i, n)
    <3>1. point
      BY <1>4, <1>8, <1>10, <2>1, NumberParts
    <3>2. whole < n /\ Over(Digits, whole + 1, n)
      BY <1>1, <2>1
    <3>3. n >= whole + 1
      BY <1>2, <3>2
    <3>4. QED
      BY <1>5, <1>10, <3>1, <3>2, <3>3, NumberParts
  <2>2. CASE n = whole
    BY <1>3, <1>6, <1>10, <2>2, NumberParts
  <2>3. QED
    BY <1>10, <2>1, <2>2
<1>11. \A b : IsInteger(i, b) <=> Some(Digits, i, b)
  BY Zenon DEF IsInteger
<1>12. ASSUME NEW b \in Nat, IsInteger(i, b) \/ IsFloat(i, b), ~BetweenDots(b)
       PROVE  b <= decimals \/ (IsExp(decimals) /\ IsPower(decimals, b))
  <2>1. CASE IsInteger(i, b)
    BY <1>1, <1>2, <1>7, <1>11, <2>1
  <2>2. CASE IsDecimal(i, b)
    BY <1>8, <1>12, <2>2
  <2>3. CASE \E n \in i + 1 .. b - 1 :
               IsExp(n) /\ (IsDecimal(i, n) \/ n = whole) /\ IsPower(n, b)
    <3>1. \A n \in i + 1 .. b - 1 : n \in Nat
      BY <1>2
    <3>2. QED
      BY <1>10, <2>3, <3>1
  <2>4. QED
    BY <1>1, <1>12, <2>1, <2>2, <2>3
<1>13. CASE IsExp(decimals)
  <2>1. /\ end \in Places /\ end > decimals
        /\ IsPower(decimals, end) /\ ~BetweenDots(end)
        /\ \A b \in Nat : IsPower(decimals, b) => b <= end
    BY <1>7, <1>13, PowerLongest
  <2> HIDE DEF end
  <2>2. decimals \in i + 1 .. end - 1 /\ end \in Nat
    BY <1>1, <1>2, <1>7, <2>1
  <2>3. IsFloat(i, end)
    BY <1>1, <1>6, <1>9, <1>13, <2>1, <2>2
  <2>4. Is("float", i, end)
    BY <2>1, <2>3, Zenon DEF Is
  <2>5. kind = "float"
    BY <1>13
  <2>6. \A b \in Nat : (IsInteger(i, b) \/ IsFloat(i, b)) /\ ~BetweenDots(b) => b <= end
    BY <1>7, <1>12, <2>1, <2>2
  <2>7. QED
    BY <2>1, <2>4, <2>5, <2>6 DEF end, decimals, point, whole
<1>14. CASE ~IsExp(decimals)
  <2>1. end = decimals
    BY <1>14
  <2>2. \A b \in Nat : (IsInteger(i, b) \/ IsFloat(i, b)) /\ ~BetweenDots(b) => b <= end
    BY <1>12, <1>14, <2>1
  <2>3. Is(kind, i, end)
    <3>1. CASE point
      <4>1. kind = "float" /\ IsFloat(i, end) /\ ~BetweenDots(end)
        BY <1>1, <1>7, <1>9, <2>1, <3>1
      <4>2. QED
        BY <4>1, Zenon DEF Is
    <3>2. CASE ~point
      <4>1. kind = "integer" /\ end = whole
        BY <1>6, <1>14, <2>1, <3>2
      <4>2. IsInteger(i, whole) /\ ~BetweenDots(whole)
        BY <1>1, <1>4, <1>11, NumberParts
      <4>3. QED
        BY <4>1, <4>2, Zenon DEF Is
    <3>3. QED
      BY <3>1, <3>2
  <2> HIDE DEF kind
  <2>4. end \in Places
    BY <1>7, <2>1
  <2> HIDE DEF end
  <2>5. QED
    BY <2>2, <2>3, <2>4 DEF end, decimals, point, whole, kind
<1>15. QED
  BY <1>13, <1>14

(* What stands behind the 0 of a prefix.                                   *)
Prefixes == {"x", "X", "b", "B"}

LEMMA PrefixIs ==
  ASSUME NEW n, CharAt(n) \in Prefixes
  PROVE  CharAt(n) \notin Digits /\ CharAt(n) # NUL /\ ~IsDot(n) /\ ~IsExp(n)
  BY Zenon DEF Prefixes, Digits, NUL, IsDot, IsExp

(* A number is read as far as the grammar allows, and none is read that    *)
(* it does not.                                                            *)
LEMMA NumberLongest ==
  ASSUME InText, NEW i \in Places, CharAt(i) \in Digits
  PROVE  LET lexeme == read_number(i)
         IN IsLongest(lexeme.kind, i, i + lexeme.length)
<1>1. CharAt(i) # "." /\ CharAt(i) \notin Initials /\ CharAt(i) # "#"
      /\ CharAt(i) # "\"" /\ CharAt(i) # "'"
  BY ClassesApart, Zenon
<1>2. << CharAt(i) >> \notin Operators
  <2>1. << CharAt(i) >>[1] = CharAt(i)
    OBVIOUS
  <2>2. QED
    BY <2>1, OperatorBegins, Zenon
<1>3. \A other : \A b \in Places : Is(other, i, b) =>
        (IsInteger(i, b) \/ IsFloat(i, b)) /\ ~BetweenDots(b)
  BY <1>1, <1>2, Beginnings, Zenon
<1>4. \A b \in Places : b \in Nat
  BY TextProperties
<1>5. ASSUME NEW kind, NEW end \in Places, read_number(i) = UpTo(kind, i, end),
             Is(kind, i, end),
             \A b \in Nat :
               (IsInteger(i, b) \/ IsFloat(i, b)) /\ ~BetweenDots(b) => b <= end
      PROVE  LET lexeme == read_number(i)
             IN IsLongest(lexeme.kind, i, i + lexeme.length)
  <2>1. \A other : \A b \in Places : Is(other, i, b) => b <= end
    BY <1>3, <1>4, <1>5
  <2>2. QED
    BY <1>5, <2>1, FoundLongest
<1>6. ASSUME NEW class, CharAt(i + 1) \in Prefixes,
             Hex(i) \/ Binary(i), Whole(i) = FirstOutside(class, i + 2),
             NUL \notin class, \A n : CharAt(n) \in class => ~IsDot(n),
             \A b : IsInteger(i, b) <=>
                      Some(Digits, i, b) \/ (b > i + 1 /\ Over(class, i + 2, b))
      PROVE  LET lexeme == read_number(i)
             IN IsLongest(lexeme.kind, i, i + lexeme.length)
  <2> DEFINE end == FirstOutside(class, i + 2)
  <2>1. CharAt(i + 1) \notin Digits /\ CharAt(i + 1) # NUL
        /\ ~IsDot(i + 1) /\ ~IsExp(i + 1)
    BY <1>6, PrefixIs, Zenon
  <2>2. /\ end \in Places /\ Is("integer", i, end)
        /\ \A b \in Nat : IsInteger(i, b) \/ IsFloat(i, b) => b <= end
    BY <1>6, <2>1, PrefixedLongest
  <2>3. read_number(i) = UpTo("integer", i, end)
    BY <1>1, <1>6, Zenon DEF read_number
  <2> HIDE DEF end
  <2>4. QED
    BY <1>5, <2>2, <2>3
<1>7. CASE Hex(i)
  <2>1. CharAt(i + 1) \in {"x", "X"}
    BY <1>7, Zenon DEF Hex, Prefixed
  <2>2. ~Binary(i)
    BY <2>1, Zenon DEF Binary, Prefixed
  <2>3. Whole(i) = FirstOutside(HexDigits, i + 2)
    BY <1>1, <1>7, <2>2, Zenon DEF Whole
  <2>4. NUL \notin HexDigits /\ \A n : CharAt(n) \in HexDigits => ~IsDot(n)
    BY Zenon DEF HexDigits, Digits, NUL, IsDot
  <2>5. \A b : IsInteger(i, b) <=>
                 Some(Digits, i, b) \/ (b > i + 1 /\ Over(HexDigits, i + 2, b))
    BY <1>7, <2>2, Zenon DEF IsInteger
  <2>6. CharAt(i + 1) \in Prefixes
    BY <2>1, Zenon DEF Prefixes
  <2>7. QED
    BY <1>6, <1>7, <2>3, <2>4, <2>5, <2>6
<1>8. CASE Binary(i)
  <2>1. CharAt(i + 1) \in {"b", "B"}
    BY <1>8, Zenon DEF Binary, Prefixed
  <2>2. ~Hex(i)
    BY <2>1, Zenon DEF Hex, Prefixed
  <2>3. Whole(i) = FirstOutside({"0", "1"}, i + 2)
    BY <1>1, <1>8, <2>2, Zenon DEF Whole
  <2>4. NUL \notin {"0", "1"} /\ \A n : CharAt(n) \in {"0", "1"} => ~IsDot(n)
    BY Zenon DEF NUL, IsDot
  <2>5. \A b : IsInteger(i, b) <=>
                 Some(Digits, i, b) \/ (b > i + 1 /\ Over({"0", "1"}, i + 2, b))
    BY <1>8, <2>2, Zenon DEF IsInteger
  <2>6. CharAt(i + 1) \in Prefixes
    BY <2>1, Zenon DEF Prefixes
  <2> DEFINE bits == {"0", "1"}
  <2> HIDE DEF bits
  <2>7. /\ Whole(i) = FirstOutside(bits, i + 2) /\ NUL \notin bits
        /\ \A n : CharAt(n) \in bits => ~IsDot(n)
        /\ \A b : IsInteger(i, b) <=>
                    Some(Digits, i, b) \/ (b > i + 1 /\ Over(bits, i + 2, b))
    BY <2>3, <2>4, <2>5, Zenon DEF bits
  <2>8. QED
    BY <1>6, <1>8, <2>6, <2>7
<1>9. CASE ~Hex(i) /\ ~Binary(i)
  <2> DEFINE whole    == FirstOutside(Digits, i + 1)
             point    == HasFraction(whole)
             decimals == IF point THEN FirstOutside(Digits, whole + 1) ELSE whole
             power    == IF IsSign(decimals + 1) THEN decimals + 2 ELSE decimals + 1
             end      == IF IsExp(decimals) THEN FirstOutside(Digits, power) ELSE decimals
             kind     == IF point \/ IsExp(decimals) THEN "float" ELSE "integer"
  <2>1. /\ end \in Places /\ Is(kind, i, end)
        /\ \A b \in Nat :
             (IsInteger(i, b) \/ IsFloat(i, b)) /\ ~BetweenDots(b) => b <= end
    BY <1>9, PlainLongest
  <2>2. Whole(i) = whole
    BY <1>1, <1>9, Zenon DEF Whole
  <2>3. read_number(i) = UpTo(kind, i, end)
    <3> HIDE DEF whole
    <3>1. QED
      BY <1>1, <1>9, <2>2, Zenon DEF read_number, IsExp, IsSign
  <2> HIDE DEF kind, end
  <2>4. QED
    BY <1>5, <2>1, <2>3
<1>10. QED
  BY <1>7, <1>8, <1>9

(* Where nothing begins, no token of the grammar is.                       *)
LEMMA NoneBegins ==
  ASSUME InText, NEW i \in Places, << CharAt(i) >> \notin Operators,
         CharAt(i) \notin Initials \cup Digits \cup {"#", "\"", "'"},
         NEW kind \in {"error", "EOF"}, NEW b
  PROVE  IsLongest(kind, i, b)
<1>1. \A other : \A c \in Places : ~Is(other, i, c)
  BY Beginnings, Zenon
<1>2. kind = "error" \/ kind = "EOF"
  OBVIOUS
<1>3. QED
  BY <1>1, <1>2, Zenon DEF IsLongest

LEMMA ReadLongest ==
  ASSUME InText, NEW i \in Places, ~(CharAt(i) = "." /\ BeginsNumber(i))
  PROVE  LET lexeme == Read(i)
         IN IsLongest(lexeme.kind, i, i + lexeme.length)
<1> DEFINE lexeme == Read(i)
           none   == Initials \cup Digits \cup {"#", "\"", "'"}
<1>1. \A r : r = Read(i) =>
        \/ CharAt(i) = NUL /\ r = UpTo("EOF", i, i)
        \/ CharAt(i) \in Initials /\ r = read_identifier(i)
        \/ BeginsNumber(i) /\ r = read_number(i)
        \/ CharAt(i) = "#" /\ r = read_preprocessor(i)
        \/ CharAt(i) \in Quotes /\ r = read_string(i)
        \/ << CharAt(i) >> \in Operators /\ r = read_operator(i)
        \/ /\ CharAt(i) \notin Initials /\ ~BeginsNumber(i) /\ CharAt(i) # "#"
           /\ CharAt(i) \notin Quotes /\ << CharAt(i) >> \notin Operators
           /\ r = UpTo("error", i, i + 1)
  BY Zenon DEF Read, Initials, Quotes
<1> HIDE DEF lexeme
<1>2. \A kind, end : UpTo(kind, i, end).kind = kind
  BY DEF UpTo, Lexeme
<1>3. BeginsNumber(i) <=> CharAt(i) \in Digits
  BY Zenon DEF BeginsNumber
<1>4. ASSUME CharAt(i) = NUL, lexeme = UpTo("EOF", i, i)
      PROVE  IsLongest(lexeme.kind, i, i + lexeme.length)
  <2>1. CharAt(i) \notin none
    BY <1>4, ClassesApart, Zenon DEF NUL
  <2>2. << CharAt(i) >> \notin Operators
    BY <1>4, OperatorCharacters
  <2>3. lexeme.kind = "EOF"
    BY <1>2, <1>4
  <2>4. QED
    BY <2>1, <2>2, <2>3, NoneBegins, Zenon
<1>5. ASSUME CharAt(i) \notin Initials, ~BeginsNumber(i), CharAt(i) # "#",
             CharAt(i) \notin Quotes, << CharAt(i) >> \notin Operators,
             lexeme = UpTo("error", i, i + 1)
      PROVE  IsLongest(lexeme.kind, i, i + lexeme.length)
  <2>1. CharAt(i) \notin none
    BY <1>3, <1>5, Zenon DEF Quotes
  <2>2. lexeme.kind = "error"
    BY <1>2, <1>5, Zenon
  <2>3. QED
    BY <1>5, <2>1, <2>2, NoneBegins, Zenon
<1>6. << CharAt(i) >> \in Operators => CharAt(i) # NUL
  BY OperatorCharacters, Zenon
<1>7. QED
  <2>1. lexeme = Read(i)
    BY DEF lexeme
  <2>2. IsLongest(lexeme.kind, i, i + lexeme.length)
    BY <1>1, <1>3, <1>4, <1>5, <1>6, <2>1, IdentifierLongest, NumberLongest,
       PreprocessorLongest, StringLongest, OperatorLongest, Zenon
  <2>3. QED
    BY <2>2 DEF lexeme

(* The grammar speaks of the text alone, which no step changes.            *)
LEMMA SameGrammar ==
  ASSUME source' = source
  PROVE  /\ \A k : CharAt(k)' = CharAt(k) /\ BeginsNumber(k)' = BeginsNumber(k)
         /\ \A kind, a, b : IsLongest(kind, a, b)' = IsLongest(kind, a, b)
<1>1. /\ \A k : CharAt(k)' = CharAt(k)
      /\ \A a, b : Text(a, b)' = Text(a, b) /\ Breaks(a, b)' = Breaks(a, b)
      /\ Places' = Places /\ Len(source)' = Len(source)
  BY DEF CharAt, Text, Breaks, Places
<1>2. \A k : BeginsNumber(k)' = BeginsNumber(k)
  BY <1>1 DEF BeginsNumber
<1>3. \A class, a, b : Over(class, a, b)' = Over(class, a, b)
                       /\ Some(class, a, b)' = Some(class, a, b)
  BY <1>1 DEF Over, Some
<1>4. \A a, b : IsWord(a, b)' = IsWord(a, b)
  BY <1>1, <1>3, Zenon DEF IsWord
<1>5. \A a, b : IsInteger(a, b)' = IsInteger(a, b)
  BY <1>1, <1>3, Zenon DEF IsInteger, Hex, Binary, Prefixed
<1>6. \A a, b : IsDecimal(a, b)' = IsDecimal(a, b) /\ IsPower(a, b)' = IsPower(a, b)
  BY <1>1, <1>3, Zenon DEF IsDecimal, IsPower
<1>7. \A a, b : IsFloat(a, b)' = IsFloat(a, b)
  BY <1>3, <1>6, Zenon DEF IsFloat
<1>8. \A b : BetweenDots(b)' = BetweenDots(b)
  BY <1>1, Zenon DEF BetweenDots
<1>9. \A quote, a, b : IsQuoted(quote, a, b)' = IsQuoted(quote, a, b)
  <2>1. \A k : BehindCharacter(k)' = BehindCharacter(k)
    BY <1>1, Zenon DEF BehindCharacter
  <2>2. \A quote, a, b : IsContents(quote, a, b)' = IsContents(quote, a, b)
    BY <1>1, <2>1 DEF IsContents
  <2>3. QED
    BY <1>1, <2>2 DEF IsQuoted
<1>10. \A a, b : IsHashWord(a, b)' = IsHashWord(a, b)
  BY <1>1, <1>3, Zenon DEF IsHashWord
<1>11. \A a, b : IsDirective(a, b)' = IsDirective(a, b)
  BY <1>1, <1>10 DEF IsDirective
<1>12. ASSUME NEW kind, NEW a, NEW b
       PROVE  Is(kind, a, b)' <=> Is(kind, a, b)
  <2>1. /\ IsWord(a, b)' <=> IsWord(a, b)
        /\ Text(a, b)' = Text(a, b) /\ Text(a + 1, b)' = Text(a + 1, b)
        /\ IsHashWord(a, b)' <=> IsHashWord(a, b)
        /\ IsInteger(a, b)' <=> IsInteger(a, b)
        /\ IsFloat(a, b)' <=> IsFloat(a, b)
        /\ BetweenDots(b)' <=> BetweenDots(b)
        /\ IsQuoted("\"", a, b)' <=> IsQuoted("\"", a, b)
        /\ IsQuoted("'", a, b)' <=> IsQuoted("'", a, b)
        /\ IsDirective(a, b)' <=> IsDirective(a, b)
    BY <1>1, <1>4, <1>5, <1>7, <1>8, <1>9, <1>10, <1>11, Zenon
  <2>2. QED
    BY <2>1, ZenonT(60) DEF Is
<1>13. \A kind, a, b : IsLongest(kind, a, b)' = IsLongest(kind, a, b)
  BY <1>1, <1>12 DEF IsLongest
<1>14. QED
  BY <1>1, <1>2, <1>13

LEMMA LongestStep ==
  ASSUME LexerInv, LongestMatch, Next
  PROVE  LongestMatch'
<1> DEFINE Match(t) == ~(CharAt(t.start) = "." /\ BeginsNumber(t.start))
                         => IsLongest(t.kind, t.start, t.start + t.length)
<1>1. TypeOK /\ source' = source /\ \A n \in DOMAIN Scanned : Match(Scanned[n])
  BY Steps DEF LexerInv, LongestMatch
<1>2. (\A n \in DOMAIN Scanned' : Match(Scanned'[n])) => LongestMatch'
  BY <1>1, SameGrammar DEF LongestMatch
<1>3. InText /\ current \in Places
  BY <1>1 DEF TypeOK, InText
<1>4. CASE Scanned' = Scanned
  BY <1>1, <1>2, <1>4
<1>5. ASSUME NEW i, NEW lexeme, i = skip_whitespace[current], lexeme = Read(i),
             Scanned' = Append(Scanned, TokenAt(i, lexeme))
      PROVE  LongestMatch'
  <2> DEFINE token == TokenAt(i, lexeme)
  <2>1. token \in Token /\ i \in Places
    BY <1>1, <1>5, ReadToken DEF LexerInv
  <2>2. token.start = i /\ token.kind = lexeme.kind /\ token.length = lexeme.length
    BY DEF TokenAt
  <2> HIDE DEF token
  <2>3. Match(token)
    BY <1>3, <1>5, <2>1, <2>2, ReadLongest
  <2> HIDE DEF Match
  <2>4. \A n \in DOMAIN Scanned' :
          \/ Scanned'[n] = token
          \/ n \in DOMAIN Scanned /\ Scanned'[n] = Scanned[n]
    BY <1>1, <1>5, <2>1, ScannedIs, Appended DEF token
  <2>5. QED
    BY <1>1, <1>2, <2>3, <2>4
<1>6. QED
  BY <1>4, <1>5, ScannedStep

-----------------------------------------------------------------------------
LEMMA LexerInitially ==
  ASSUME lexer_create
  PROVE  LexerInv
<1>1. /\ source \in Seq(Characters) /\ current = 1 /\ line = 1 /\ column = 1 /\ peek = << >>
      /\ collects \in BOOLEAN /\ errors = << >> /\ delivered = << >>
  BY WordsAssumption DEF lexer_create
<1>2. 1 \in Places
  <2>1. Len(source) \in Nat
    BY <1>1, LenProperties
  <2>2. QED
    BY <2>1 DEF Places
<1>3. TypeOK
  <2>1. [line |-> line, column |-> column] \in Location
    BY <1>1 DEF Location
  <2>2. \A S : << >> \in Seq(S) /\ Len(<< >>) = 0 /\ DOMAIN << >> = {}
    OBVIOUS
  <2>3. QED
    BY <1>1, <1>2, <2>1, <2>2 DEF TypeOK
<1>4. Located
  <2>1. Breaks(1, 1) = {} /\ Breaks(1, 1) \cup {0} = {0}
    BY DEF Breaks
  <2>2. Cardinality(Breaks(1, 1)) = 0
    BY <2>1, FS_EmptySet
  <2>3. Rightmost(Breaks(1, 1) \cup {0}) = 0
    BY <2>1 DEF Rightmost
  <2>4. QED
    BY <1>1, <2>2, <2>3 DEF Located, Position
<1>5. Scanned = << >> /\ ~Finished /\ Tokens = {}
  BY <1>1 DEF Scanned, Finished, Tokens
<1>6. AtEnd /\ LocationsExact /\ Reached /\ NothingLost
  <2>1. DOMAIN Scanned = {} /\ Len(Scanned) = 0
    BY <1>5
  <2>2. QED
    BY <1>1, <1>5, <2>1 DEF AtEnd, LocationsExact, Reached, BehindScanned, NothingLost
<1>7. ErrorsReportedOnce
  <2>1. BadTokens = {}
    BY <1>5 DEF BadTokens
  <2>2. Cardinality(BadTokens) = 0
    BY <2>1, FS_EmptySet
  <2>3. QED
    BY <1>1, <2>1, <2>2 DEF ErrorsReportedOnce
<1>8. QED
  BY <1>3, <1>4, <1>6, <1>7 DEF LexerInv

LEMMA LexerUnchanged ==
  ASSUME LexerInv, UNCHANGED vars
  PROVE  LexerInv'
<1>1. UNCHANGED << source, current, line, column, peek, collects, errors, delivered >>
  BY DEF vars
<1>2. TypeOK' /\ Located' /\ AtEnd'
  BY <1>1 DEF LexerInv, TypeOK, Located, AtEnd, Places, Position, Breaks, Tokens, EndToken,
              CharAt, Finished
<1>3. Scanned' = Scanned
  BY <1>1 DEF Scanned, Finished
<1>4. \A t : Bad(t)' = Bad(t) /\ Where(t)' = Where(t)
  BY <1>1 DEF Bad, Where, Position, Breaks, Unexpected, BadBinary, Binary, Prefixed, CharAt
<1>5. LocationsExact'
  <2>1. \A i : Position(i)' = Position(i) /\ CharAt(i)' = CharAt(i)
    BY <1>1 DEF Position, Breaks, CharAt
  <2>2. \A i, t : Unexpected(i, t)' = Unexpected(i, t)
    BY <2>1 DEF Unexpected
  <2>3. QED
    BY <1>3, <2>1, <2>2 DEF LexerInv, LocationsExact
<1>6. BadTokens' = BadTokens
  BY <1>3, <1>4 DEF BadTokens
<1>7. ErrorsReportedOnce'
  BY <1>1, <1>3, <1>4, <1>6 DEF LexerInv, ErrorsReportedOnce, Rank
<1>8. Reached' /\ NothingLost'
  <2>1. \A t : Behind(t)' = Behind(t)
    BY <1>1 DEF Behind, CharAt
  <2>2. \A a, b : Skips(a, b)' = Skips(a, b)
    BY <1>1 DEF Skips, Closed, Breaks, CharAt
  <2>3. \A a, b : Gap(a, b)' = Gap(a, b)
    BY <2>2 DEF Gap
  <2>4. Reached'
    BY <1>1, <1>3, <2>1 DEF LexerInv, Reached, BehindScanned
  <2>5. NothingLost'
    BY <1>1, <1>3, <2>1, <2>2, <2>3 DEF LexerInv, NothingLost, Places
  <2>6. QED
    BY <2>4, <2>5
<1>9. QED
  BY <1>2, <1>5, <1>7, <1>8 DEF LexerInv

LEMMA Lexing == Spec => []LexerInv
<1>1. lexer_create => LexerInv
  BY LexerInitially
<1>2. LexerInv /\ [Next]_vars => LexerInv'
  BY TypeStep, AtEndStep, LocationsStep, ErrorsStep, LossStep, LexerUnchanged DEF LexerInv
<1>3. QED
  BY <1>1, <1>2, PTL DEF Spec

LEMMA Matching == Spec => []LongestMatch
<1>1. lexer_create => LongestMatch
  <2>1. SUFFICES ASSUME lexer_create
                 PROVE  LongestMatch
    OBVIOUS
  <2>2. delivered = << >> /\ peek = << >>
    BY <2>1 DEF lexer_create
  <2>3. DOMAIN Scanned = {}
    BY <2>2 DEF Scanned, Finished
  <2>4. QED
    BY <2>3 DEF LongestMatch
<1>2. ASSUME LongestMatch, UNCHANGED vars
      PROVE  LongestMatch'
  <2>1. source' = source /\ Scanned' = Scanned
    BY <1>2 DEF vars, Scanned, Finished
  <2>2. QED
    BY <1>2, <2>1, SameGrammar DEF LongestMatch
<1>3. LexerInv /\ LongestMatch /\ [Next]_vars => LongestMatch'
  BY <1>2, LongestStep
<1>4. QED
  BY <1>1, <1>3, Lexing, PTL DEF Spec

(* Whatever the text, the lexer stays inside it, and every token is a part *)
(* of what it has passed (lexer_advance, lexer_next_token, lexer.c:110-143,*)
(* 189-197).                                                               *)
THEOREM LexerTypeCorrect == Spec => []TypeOK
<1>1. LexerInv => TypeOK
  BY DEF LexerInv
<1>2. QED
  BY <1>1, Lexing, PTL

(* Every token's line and column, counted through blanks, comments and the *)
(* lines of strings and directives, are those of its first character in    *)
(* the whole text, however long it is (lexer_loc, lexer_advance,           *)
(* lexer_skip_whitespace).                                                 *)
THEOREM LocationsAreExact == Spec => []LocationsExact
<1>1. LexerInv => LocationsExact
  BY DEF LexerInv
<1>2. QED
  BY <1>1, Lexing, PTL

(* Peeking at a token and then taking it, or asking again at the end,      *)
(* reports nothing twice and loses nothing: the errors that a collector    *)
(* gets, if there is one, are those of the tokens scanned, one each, in    *)
(* order (lexer_next_token, lexer_peek_token).                             *)
THEOREM ErrorsAreReportedOnce == Spec => []ErrorsReportedOnce
<1>1. LexerInv => ErrorsReportedOnce
  BY DEF LexerInv
<1>2. QED
  BY <1>1, Lexing, PTL

(* What is left out between the tokens of a text, whatever it is, is its   *)
(* blanks, its comments, one that the end of the text cuts off included,   *)
(* and the second dot where two are read as one; no character is read      *)
(* twice, and the end is returned where it is (lexer_skip_whitespace,      *)
(* lexer_next_token, lexer.c:152-187, 339-341, 445-457).                   *)
THEOREM LeftOutBetweenTokens == Spec => []NothingLost
<1>1. LexerInv => NothingLost
  BY DEF LexerInv
<1>2. QED
  BY <1>1, Lexing, PTL

(* Every token of a text, whatever the text, is of its kind, and the       *)
(* longest that the lexical grammar allows where it begins; an error is    *)
(* returned only where the grammar allows none, but for dots in front of   *)
(* digits and literals the end of the text cuts off (the readers of        *)
(* lexer.c:189-471).                                                       *)
THEOREM TokensAreLongest == Spec => []LongestMatch
  BY Matching
=============================================================================
