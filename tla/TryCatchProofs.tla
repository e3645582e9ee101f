--------------------------- MODULE TryCatchProofs ---------------------------
(***************************************************************************)
(* When one global jmp_buf is enough: as long as at most one try body is   *)
(* being executed and nothing is thrown outside it, the generated C keeps  *)
(* the documented promise, for any programs, recursive ones too.           *)
(***************************************************************************)
EXTENDS TryCatch, SequenceTheorems, TLAPS

(* Statements as the parser builds them: their parts are statements, and   *)
(* none of them is the mark of a try body being executed.                  *)
Fragment(Stmts) ==
  /\ \A s \in Stmts :
       s.op \in Ops \ {"end of try"} /\ s.body \in Seq(Stmts) /\ s.handler \in Seq(Stmts)
  /\ Programs \subseteq [main : Seq(Stmts), f : Seq(Stmts)]

(* What an activation may have left to execute.                            *)
Left(Stmts) == Stmts \cup {EndOfTry(handler) : handler \in Seq(Stmts)}

Shape(Stmts) ==
  /\ program \in [main : Seq(Stmts), f : Seq(Stmts)]
  /\ stack \in Seq(Seq(Left(Stmts)))
  /\ outcome \in {"running", "finished", "uncaught", "undefined"}
  /\ jmp_buf \in [depth : Int, code : Seq(Left(Stmts))] /\ jmp_buf.depth >= -1
  /\ outcome = "running" => Depth >= 1 /\ jmp_buf.depth <= Depth

-----------------------------------------------------------------------------
LEMMA OneElement ==
  ASSUME NEW S, NEW e \in S
  PROVE  << e >> \in Seq(S) /\ Len(<< e >>) = 1 /\ << e >>[1] = e
OBVIOUS

(* What is behind a place of a sequence.                                   *)
LEMMA BehindPlace ==
  ASSUME NEW S, NEW s \in Seq(S), NEW n \in Nat, n <= Len(s)
  PROVE  LET rest == SubSeq(s, n + 1, Len(s)) IN
         /\ rest \in Seq(S) /\ Len(rest) = Len(s) - n
         /\ \A k \in 1 .. Len(s) - n : rest[k] = s[n + k]
<1>1. PICK first, last, rest : /\ first = n + 1 /\ last = Len(s)
                               /\ rest = SubSeq(s, first, last)
  OBVIOUS
<1>2. last \in Nat /\ first \in Int /\ last \in Int /\ n \in Nat /\ n <= last
  BY <1>1, LenProperties
<1>3. \A k \in first .. last : s[k] \in S
  BY <1>1, <1>2, ElementOfSeq
<1>4. /\ rest \in Seq(S) /\ Len(rest) = IF first <= last THEN last - first + 1 ELSE 0
      /\ \A k \in 1 .. last - first + 1 : rest[k] = s[first + k - 1]
  BY <1>1, <1>2, <1>3, SubSeqProperties
<1>5. Len(rest) = last - n
  <2>1. CASE first <= last
    BY <1>1, <1>2, <1>4, <2>1
  <2>2. CASE ~(first <= last)
    <3>1. last = n
      BY <1>1, <1>2, <2>2
    <3>2. QED
      BY <1>2, <1>4, <2>2, <3>1
  <2>3. QED
    BY <2>1, <2>2
<1>6. ASSUME NEW k \in 1 .. last - n
      PROVE  rest[k] = s[n + k]
  <2>1. k \in 1 .. last - first + 1 /\ first + k - 1 = n + k
    BY <1>1, <1>2
  <2>2. QED
    BY <1>4, <2>1
<1>7. QED
  BY <1>1, <1>4, <1>5, <1>6

(* What follows the end of a try body is what followed the try.            *)
LEMMA BehindTheEnd ==
  ASSUME NEW S, NEW a \in Seq(S), NEW e \in S, NEW b \in Seq(S),
         NEW code, code = a \o << e >> \o b, NEW n, n = Len(a) + 1
  PROVE  /\ code \in Seq(S) /\ n \in Nat /\ n \in 1 .. Len(code) /\ code[n] = e
         /\ SubSeq(code, n + 1, Len(code)) = b
<1> DEFINE front == a \o << e >>
<1>1. << e >> \in Seq(S) /\ Len(<< e >>) = 1 /\ << e >>[1] = e
  BY OneElement
<1>2. Len(a) \in Nat /\ Len(b) \in Nat /\ n \in Nat /\ n >= 1 /\ n - Len(a) = 1
  BY LenProperties
<1>3. front \in Seq(S) /\ Len(front) = n
  BY <1>1, <1>2, ConcatProperties
<1>4. front[n] = e
  <2>1. n \in 1 .. Len(a) + Len(<< e >>) /\ ~(n <= Len(a))
    BY <1>1, <1>2
  <2>2. front[n] = << e >>[n - Len(a)]
    BY <1>1, <2>1, ConcatProperties
  <2>3. QED
    BY <1>1, <1>2, <2>2
<1> HIDE DEF front
<1>5. code = front \o b
  BY DEF front
<1>6. code \in Seq(S) /\ Len(code) = n + Len(b)
  BY <1>3, <1>5, ConcatProperties
<1>7. n \in 1 .. Len(code)
  BY <1>2, <1>6
<1>8. code[n] = e
  <2>1. n \in 1 .. Len(front) + Len(b) /\ n <= Len(front)
    BY <1>2, <1>3
  <2>2. code[n] = front[n]
    BY <1>3, <1>5, <2>1, ConcatProperties
  <2>3. QED
    BY <1>4, <2>2
<1>9. SubSeq(code, n + 1, Len(code)) = b
  <2>1. CASE b = << >>
    <3>1. Len(code) < n + 1 /\ Len(code) \in Int /\ n + 1 \in Int
      BY <1>2, <1>6, <2>1, EmptySeq
    <3>2. QED
      BY <2>1, <3>1, SubSeqEmpty
  <2>2. CASE b # << >>
    <3>1. Len(b) >= 1
      BY <2>2, EmptySeq
    <3>2. /\ n + 1 \in Len(front) + 1 .. Len(front) + Len(b)
          /\ Len(code) \in Len(front) + 1 .. Len(front) + Len(b)
      BY <1>2, <1>3, <1>6, <3>1
    <3>3. SubSeq(code, n + 1, Len(code)) = SubSeq(b, n + 1 - Len(front), Len(code) - Len(front))
      BY <1>3, <1>5, <3>2, SubSeqOfConcat2
    <3>4. n + 1 - Len(front) = 1 /\ Len(code) - Len(front) = Len(b)
      BY <1>2, <1>3, <1>6
    <3>5. QED
      BY <3>3, <3>4, SubSeqFull
  <2>3. QED
    BY <2>1, <2>2
<1>10. QED
  BY <1>2, <1>6, <1>7, <1>8, <1>9

LEMMA LeftProperties ==
  ASSUME NEW Stmts, Fragment(Stmts)
  PROVE  /\ Seq(Stmts) \subseteq Seq(Left(Stmts))
         /\ \A h \in Seq(Stmts) :
              EndOfTry(h) \in Left(Stmts) /\ EndOfTry(h).op = "end of try"
              /\ EndOfTry(h).handler = h
         /\ \A s \in Left(Stmts) :
              s.op \in Ops /\ s.handler \in Seq(Stmts)
              /\ (s.op # "end of try" => s \in Stmts)
         /\ \A s \in Stmts : s.op # "end of try" /\ s.body \in Seq(Stmts)
<1>1. Stmts \subseteq Left(Stmts)
  BY DEF Left
<1>2. Seq(Stmts) \subseteq Seq(Left(Stmts))
  BY <1>1, SeqMonotonic
<1>3. ASSUME NEW h \in Seq(Stmts)
      PROVE  /\ EndOfTry(h) \in Left(Stmts) /\ EndOfTry(h).op = "end of try"
             /\ EndOfTry(h).handler = h
  BY DEF Left, EndOfTry, Statement
<1>4. ASSUME NEW s \in Left(Stmts)
      PROVE  /\ s.op \in Ops /\ s.handler \in Seq(Stmts)
             /\ s.op # "end of try" => s \in Stmts
  <2>1. CASE s \in Stmts
    BY <2>1 DEF Fragment
  <2>2. CASE s \notin Stmts
    <3>1. PICK h \in Seq(Stmts) : s = EndOfTry(h)
      BY <2>2 DEF Left
    <3>2. s.op = "end of try" /\ s.handler = h
      BY <1>3, <3>1
    <3>3. QED
      BY <3>2 DEF Ops
  <2>3. QED
    BY <2>1, <2>2
<1>5. QED
  BY <1>2, <1>3, <1>4 DEF Fragment

(* What is next in the innermost activation.                               *)
LEMMA NextStatement ==
  ASSUME NEW Stmts, Fragment(Stmts), Shape(Stmts), NEW op, At(op)
  PROVE  /\ Depth \in Nat /\ Depth >= 1 /\ Code \in Seq(Left(Stmts))
         /\ Len(Code) \in Nat /\ Len(Code) >= 1 /\ Head(Code) = Code[1]
         /\ Head(Code) \in Left(Stmts) /\ Head(Code).op = op
         /\ Tail(Code) \in Seq(Left(Stmts)) /\ Len(Tail(Code)) = Len(Code) - 1
         /\ \A i \in 1 .. Len(Code) - 1 : Tail(Code)[i] = Code[i + 1]
<1>1. outcome = "running" /\ Code # << >> /\ Head(Code).op = op
  BY DEF At
<1>2. Depth \in Nat /\ Depth >= 1
  BY <1>1, LenProperties DEF Shape, Depth
<1>3. Code \in Seq(Left(Stmts))
  BY <1>2, ElementOfSeq DEF Shape, Depth, Code
<1>4. Len(Code) \in Nat /\ Len(Code) >= 1
  BY <1>1, <1>3, EmptySeq
<1>5. Head(Code) = Code[1]
  BY <1>3, <1>4
<1>6. QED
  BY <1>1, <1>2, <1>3, <1>4, <1>5, HeadTailProperties

(* Only the innermost activation goes on.                                  *)
LEMMA GoOnProperties ==
  ASSUME NEW Stmts, Shape(Stmts), Depth >= 1, NEW code \in Seq(Left(Stmts)), GoOn(code)
  PROVE  /\ stack' \in Seq(Seq(Left(Stmts))) /\ Len(stack') = Depth
         /\ \A d \in 1 .. Depth : stack'[d] = IF d = Depth THEN code ELSE stack[d]
<1>1. stack \in Seq(Seq(Left(Stmts))) /\ Depth \in Nat /\ Depth \in 1 .. Len(stack)
  BY LenProperties DEF Shape, Depth
<1>2. QED
  BY <1>1, ExceptSeq DEF GoOn, Depth

-----------------------------------------------------------------------------
(* Each step of the generated C keeps the shape of the state.              *)
LEMMA TryShape ==
  ASSUME NEW Stmts, Fragment(Stmts), Shape(Stmts), TRY_STMT
  PROVE  /\ Shape(Stmts)'
         /\ LET body == Head(Code).body  handler == Head(Code).handler IN
            /\ body \in Seq(Stmts) /\ handler \in Seq(Stmts)
            /\ stack'[Depth] = body \o << EndOfTry(handler) >> \o Tail(Code)
            /\ \A d \in 1 .. Depth - 1 : stack'[d] = stack[d]
            /\ Len(stack') = Depth
<1> DEFINE body == Head(Code).body
           handler == Head(Code).handler
           code == body \o << EndOfTry(handler) >> \o Tail(Code)
<1>1. At("try") /\ GoOn(code) /\ UNCHANGED << program, outcome >>
      /\ jmp_buf' = [depth |-> Depth, code |-> handler \o Tail(Code)]
  BY DEF TRY_STMT, EnterTry
<1>2. /\ Depth \in Nat /\ Depth >= 1 /\ Tail(Code) \in Seq(Left(Stmts))
      /\ Head(Code) \in Left(Stmts) /\ Head(Code).op = "try"
  BY <1>1, NextStatement
<1>3. /\ body \in Seq(Stmts) /\ handler \in Seq(Stmts)
      /\ body \in Seq(Left(Stmts)) /\ handler \in Seq(Left(Stmts))
      /\ << EndOfTry(handler) >> \in Seq(Left(Stmts))
  <2>1. Head(Code) \in Stmts
    BY <1>2, LeftProperties
  <2>2. body \in Seq(Stmts) /\ handler \in Seq(Stmts)
    BY <2>1 DEF Fragment
  <2>3. body \in Seq(Left(Stmts)) /\ handler \in Seq(Left(Stmts))
    BY <2>2, LeftProperties
  <2>4. EndOfTry(handler) \in Left(Stmts)
    BY <2>2, LeftProperties
  <2> HIDE DEF body, handler
  <2>5. QED
    BY <2>2, <2>3, <2>4
<1>4. code \in Seq(Left(Stmts)) /\ handler \o Tail(Code) \in Seq(Left(Stmts))
  BY <1>2, <1>3, ConcatProperties
<1> HIDE DEF code
<1>5. /\ stack' \in Seq(Seq(Left(Stmts))) /\ Len(stack') = Depth
      /\ \A d \in 1 .. Depth : stack'[d] = IF d = Depth THEN code ELSE stack[d]
  BY <1>1, <1>2, <1>4, GoOnProperties
<1>6. Shape(Stmts)'
  <2>1. Depth' = Depth
    BY <1>5 DEF Depth
  <2>2. jmp_buf' \in [depth : Int, code : Seq(Left(Stmts))] /\ jmp_buf'.depth = Depth
    BY <1>1, <1>2, <1>4
  <2>3. QED
    BY <1>1, <1>2, <1>5, <2>1, <2>2 DEF Shape
<1>7. stack'[Depth] = code /\ \A d \in 1 .. Depth - 1 : stack'[d] = stack[d]
  BY <1>2, <1>5
<1>8. QED
  BY <1>3, <1>5, <1>6, <1>7 DEF code

LEMMA CatchShape ==
  ASSUME NEW Stmts, Fragment(Stmts), Shape(Stmts), CATCH_STMT
  PROVE  /\ Shape(Stmts)' /\ Len(stack') = Depth /\ jmp_buf' = jmp_buf
         /\ stack'[Depth] = Tail(Code)
         /\ \A d \in 1 .. Depth - 1 : stack'[d] = stack[d]
<1>1. At("end of try") /\ GoOn(Tail(Code)) /\ UNCHANGED << program, outcome, jmp_buf >>
  BY DEF CATCH_STMT, LeaveTry
<1>2. Depth \in Nat /\ Depth >= 1 /\ Tail(Code) \in Seq(Left(Stmts))
  BY <1>1, NextStatement
<1>3. /\ stack' \in Seq(Seq(Left(Stmts))) /\ Len(stack') = Depth
      /\ \A d \in 1 .. Depth : stack'[d] = IF d = Depth THEN Tail(Code) ELSE stack[d]
  BY <1>1, <1>2, GoOnProperties
<1>4. Shape(Stmts)'
  BY <1>1, <1>3 DEF Shape, Depth
<1>5. stack'[Depth] = Tail(Code)
  <2>1. Depth \in 1 .. Depth
    BY <1>2
  <2>2. QED
    BY <1>3, <2>1
<1>6. \A d \in 1 .. Depth - 1 : stack'[d] = stack[d]
  <2> SUFFICES ASSUME NEW d \in 1 .. Depth - 1
               PROVE  stack'[d] = stack[d]
    OBVIOUS
  <2>1. d \in 1 .. Depth /\ d # Depth
    BY <1>2
  <2>2. QED
    BY <1>3, <2>1
<1>7. QED
  BY <1>1, <1>3, <1>4, <1>5, <1>6

LEMMA CallShape ==
  ASSUME NEW Stmts, Fragment(Stmts), Shape(Stmts), CALL_EXPR
  PROVE  /\ Shape(Stmts)' /\ Len(stack') = Depth + 1 /\ jmp_buf' = jmp_buf
         /\ stack'[Depth + 1] \in Seq(Stmts) /\ stack'[Depth] = Tail(Code)
         /\ \A d \in 1 .. Depth - 1 : stack'[d] = stack[d]
<1> DEFINE rest == [stack EXCEPT ![Depth] = Tail(Code)]
<1>1. At("call") /\ stack' = Append(rest, program.f) /\ UNCHANGED << program, outcome, jmp_buf >>
  BY DEF CALL_EXPR, Call
<1>2. Depth \in Nat /\ Depth >= 1 /\ Tail(Code) \in Seq(Left(Stmts))
  BY <1>1, NextStatement
<1>3. stack \in Seq(Seq(Left(Stmts))) /\ Depth \in 1 .. Len(stack)
  BY <1>2 DEF Shape, Depth
<1>4. /\ rest \in Seq(Seq(Left(Stmts))) /\ Len(rest) = Depth
      /\ \A d \in 1 .. Depth : rest[d] = IF d = Depth THEN Tail(Code) ELSE stack[d]
  BY <1>2, <1>3, ExceptSeq DEF Depth
<1> HIDE DEF rest
<1>5. program.f \in Seq(Stmts) /\ program.f \in Seq(Left(Stmts))
  BY LeftProperties DEF Shape
<1>6. /\ stack' \in Seq(Seq(Left(Stmts))) /\ Len(stack') = Depth + 1
      /\ \A d \in 1 .. Depth : stack'[d] = rest[d]
      /\ stack'[Depth + 1] = program.f
  BY <1>1, <1>4, <1>5, AppendProperties
<1>7. Shape(Stmts)'
  BY <1>1, <1>2, <1>6 DEF Shape, Depth, At
<1>8. QED
  BY <1>1, <1>2, <1>4, <1>5, <1>6, <1>7

LEMMA ReturnShape ==
  ASSUME NEW Stmts, Fragment(Stmts), Shape(Stmts), RETURN_STMT
  PROVE  /\ Shape(Stmts)' /\ Depth \in Nat /\ Depth >= 1 /\ Len(stack') = Depth - 1
         /\ \A d \in 1 .. Depth - 1 : stack'[d] = stack[d]
<1>1. /\ outcome = "running" /\ stack' = SubSeq(stack, 1, Depth - 1)
      /\ outcome' = IF Depth = 1 THEN "finished" ELSE outcome
      /\ program' = program
      /\ jmp_buf' = IF jmp_buf.depth = Depth THEN Dangling ELSE jmp_buf
  BY DEF RETURN_STMT, Leave, At
<1>2. stack \in Seq(Seq(Left(Stmts))) /\ Depth \in Nat /\ Depth >= 1 /\ Depth = Len(stack)
  BY <1>1, LenProperties DEF Shape, Depth
<1>3. \A d \in 1 .. Depth - 1 : stack[d] \in Seq(Left(Stmts))
  BY <1>2, ElementOfSeq
<1>4. /\ stack' \in Seq(Seq(Left(Stmts))) /\ Len(stack') = Depth - 1
      /\ \A d \in 1 .. Depth - 1 : stack'[d] = stack[d]
  BY <1>1, <1>2, <1>3, SubSeqProperties
<1>5. /\ jmp_buf' \in [depth : Int, code : Seq(Left(Stmts))]
      /\ jmp_buf'.depth >= -1 /\ jmp_buf'.depth <= Depth - 1
  <2>1. << >> \in Seq(Left(Stmts))
    BY EmptySeq
  <2>2. QED
    BY <1>1, <1>2, <2>1 DEF Dangling, Shape
<1>6. Shape(Stmts)'
  BY <1>1, <1>2, <1>4, <1>5 DEF Shape, Depth
<1>7. QED
  BY <1>2, <1>4, <1>6

(* A longjmp leaves the activations above that of the setjmp.              *)
LEMMA ThrowShape ==
  ASSUME NEW Stmts, Fragment(Stmts), Shape(Stmts), THROW_STMT
  PROVE  Shape(Stmts)'
<1>1. /\ At("throw") /\ UNCHANGED << program, jmp_buf >>
  BY DEF THROW_STMT
<1>2. Depth \in Nat /\ Depth >= 1 /\ stack \in Seq(Seq(Left(Stmts))) /\ Depth = Len(stack)
  BY <1>1, NextStatement DEF Shape, Depth
<1>3. CASE jmp_buf.depth \in 1 .. Depth
  <2> DEFINE below == SubSeq(stack, 1, jmp_buf.depth - 1)
  <2>1. stack' = Append(below, jmp_buf.code) /\ outcome' = outcome
    BY <1>3 DEF THROW_STMT
  <2>2. jmp_buf.depth \in Int /\ jmp_buf.code \in Seq(Left(Stmts))
    BY DEF Shape
  <2>3. \A d \in 1 .. jmp_buf.depth - 1 : stack[d] \in Seq(Left(Stmts))
    BY <1>2, <1>3, <2>2, ElementOfSeq
  <2>4. below \in Seq(Seq(Left(Stmts))) /\ Len(below) = jmp_buf.depth - 1
    BY <1>3, <2>2, <2>3, SubSeqProperties
  <2> HIDE DEF below
  <2>5. stack' \in Seq(Seq(Left(Stmts))) /\ Len(stack') = jmp_buf.depth
    BY <2>1, <2>2, <2>4, AppendProperties
  <2>6. QED
    BY <1>1, <1>3, <2>1, <2>2, <2>5 DEF Shape, Depth
<1>4. CASE jmp_buf.depth \notin 1 .. Depth
  BY <1>1, <1>2, <1>4 DEF THROW_STMT, Shape, Depth
<1>5. QED
  BY <1>3, <1>4

LEMMA ShapeInitially ==
  ASSUME NEW Stmts, Fragment(Stmts), TryCatchInit
  PROVE  Shape(Stmts) /\ stack = << program.main >> /\ program.main \in Seq(Stmts)
<1>1. program \in [main : Seq(Stmts), f : Seq(Stmts)]
  BY DEF TryCatchInit, Init, Fragment
<1>2. program.main \in Seq(Stmts) /\ program.main \in Seq(Left(Stmts))
  BY <1>1, LeftProperties
<1>3. /\ stack = << program.main >> /\ outcome = "running"
      /\ jmp_buf = [depth |-> 0, code |-> << >>] /\ << >> \in Seq(Left(Stmts))
  BY EmptySeq DEF TryCatchInit, Init, Unset
<1>4. stack \in Seq(Seq(Left(Stmts))) /\ Depth = 1
  BY <1>2, <1>3 DEF Depth
<1>5. QED
  BY <1>1, <1>2, <1>3, <1>4 DEF Shape

LEMMA ShapePreserved ==
  ASSUME NEW Stmts, Fragment(Stmts), Shape(Stmts), [TryCatchNext]_tcvars
  PROVE  Shape(Stmts)'
<1>1. CASE UNCHANGED tcvars
  BY <1>1 DEF tcvars, Shape, Depth
<1>2. CASE TryCatchNext
  BY <1>2, TryShape, CatchShape, CallShape, ReturnShape, ThrowShape DEF TryCatchNext
<1>3. QED
  BY <1>1, <1>2

(* In any program, the depth of the buffer is that of an activation that   *)
(* was there when setjmp was called, or the buffer is known to dangle: it  *)
(* never leads above the top of the stack.                                 *)
THEOREM TryCatchTypeCorrect ==
  ASSUME NEW Stmts, Fragment(Stmts)
  PROVE  TryCatchSpec => []TypeOK
<1>1. TryCatchInit => Shape(Stmts)
  BY ShapeInitially
<1>2. Shape(Stmts) /\ [TryCatchNext]_tcvars => Shape(Stmts)'
  BY ShapePreserved
<1>3. Shape(Stmts) => TypeOK
  <2> SUFFICES ASSUME Shape(Stmts)
               PROVE  TypeOK
    OBVIOUS
  <2>1. ASSUME NEW d \in DOMAIN stack, NEW i \in DOMAIN stack[d]
        PROVE  stack[d][i].op \in Ops
    <3>1. stack \in Seq(Seq(Left(Stmts)))
      BY DEF Shape
    <3>2. stack[d] \in Seq(Left(Stmts))
      BY <3>1, LenProperties, ElementOfSeq
    <3>3. stack[d][i] \in Left(Stmts)
      BY <3>2, LenProperties, ElementOfSeq
    <3>4. QED
      BY <3>3, LeftProperties
  <2>2. QED
    BY <2>1 DEF Shape, TypeOK
<1>4. QED
  BY <1>1, <1>2, <1>3, PTL DEF TryCatchSpec

-----------------------------------------------------------------------------
(* What is executed after the try body that ends at place i of activation  *)
(* d is left by a throw: the buffer always leads there.                    *)
IsBody(d, i) == d \in 1 .. Depth /\ i \in 1 .. Len(stack[d]) /\ stack[d][i].op = "end of try"
Resumed(d, i) == stack[d][i].handler \o SubSeq(stack[d], i + 1, Len(stack[d]))
BufferIsCurrent ==
  \A d, i \in Nat : IsBody(d, i) => jmp_buf = [depth |-> d, code |-> Resumed(d, i)]

LEMMA PlacesIn ==
  ASSUME NEW S, NEW stk \in Seq(Seq(S))
  PROVE  /\ Len(stk) \in Nat
         /\ \A d \in 1 .. Len(stk) :
              /\ stk[d] \in Seq(S) /\ Len(stk[d]) \in Nat
              /\ DOMAIN stk[d] = 1 .. Len(stk[d])
<1>1. Len(stk) \in Nat /\ \A d \in 1 .. Len(stk) : stk[d] \in Seq(S)
  BY LenProperties, ElementOfSeq
<1>2. QED
  BY <1>1, LenProperties

LEMMA NaturalPlace == ASSUME NEW n \in Nat, NEW k \in 1 .. n PROVE k \in Nat /\ k >= 1
OBVIOUS

(* TryBodies, of any stack.                                                *)
BodiesOf(stk) ==
  UNION {{<< d, i >> : i \in {j \in DOMAIN stk[d] : stk[d][j].op = "end of try"}}
         : d \in 1 .. Len(stk)}

LEMMA UnionOfPlaces ==
  ASSUME NEW stk
  PROVE  \A p : p \in BodiesOf(stk) <=>
           \E d \in 1 .. Len(stk) : \E i \in DOMAIN stk[d] :
             stk[d][i].op = "end of try" /\ p = << d, i >>
<1> DEFINE Marks(d) == {j \in DOMAIN stk[d] : stk[d][j].op = "end of try"}
           Places(d) == {<< d, i >> : i \in Marks(d)}
<1>1. \A p : p \in BodiesOf(stk) <=> \E d \in 1 .. Len(stk) : p \in Places(d)
  BY DEF BodiesOf
<1>2. \A d, p : p \in Places(d) <=> \E i \in Marks(d) : p = << d, i >>
  OBVIOUS
<1>3. \A d, i : i \in Marks(d) <=> i \in DOMAIN stk[d] /\ stk[d][i].op = "end of try"
  OBVIOUS
<1> HIDE DEF Marks, Places
<1>4. ASSUME NEW p, p \in BodiesOf(stk)
      PROVE  \E d \in 1 .. Len(stk) : \E i \in DOMAIN stk[d] :
               stk[d][i].op = "end of try" /\ p = << d, i >>
  <2>1. PICK d \in 1 .. Len(stk) : p \in Places(d)
    BY <1>1, <1>4
  <2>2. PICK i \in Marks(d) : p = << d, i >>
    BY <1>2, <2>1
  <2>3. QED
    BY <1>3, <2>2
<1>5. ASSUME NEW p, NEW d \in 1 .. Len(stk), NEW i \in DOMAIN stk[d],
             stk[d][i].op = "end of try", p = << d, i >>
      PROVE  p \in BodiesOf(stk)
  <2>1. p \in Places(d)
    BY <1>2, <1>3, <1>5
  <2>2. QED
    BY <1>1, <2>1
<1>6. QED
  BY <1>4, <1>5

LEMMA BodiesIn ==
  ASSUME NEW S, NEW stk \in Seq(Seq(S))
  PROVE  /\ \A d, i \in Nat :
              << d, i >> \in BodiesOf(stk) <=>
                d \in 1 .. Len(stk) /\ i \in 1 .. Len(stk[d]) /\ stk[d][i].op = "end of try"
         /\ \A p \in BodiesOf(stk) : \E d, i \in Nat : p = << d, i >>
<1>1. ASSUME NEW d \in 1 .. Len(stk)
      PROVE  DOMAIN stk[d] = 1 .. Len(stk[d]) /\ Len(stk[d]) \in Nat /\ Len(stk) \in Nat
  BY PlacesIn
<1>2. ASSUME NEW d \in 1 .. Len(stk), NEW i \in DOMAIN stk[d]
      PROVE  d \in Nat /\ i \in Nat
  BY <1>1, NaturalPlace
<1>3. ASSUME NEW d \in Nat, NEW i \in Nat
      PROVE  << d, i >> \in BodiesOf(stk) <=>
               d \in 1 .. Len(stk) /\ i \in 1 .. Len(stk[d]) /\ stk[d][i].op = "end of try"
  <2>1. ASSUME << d, i >> \in BodiesOf(stk)
        PROVE  d \in 1 .. Len(stk) /\ i \in DOMAIN stk[d] /\ stk[d][i].op = "end of try"
    <3>1. PICK e \in 1 .. Len(stk) : \E k \in DOMAIN stk[e] :
            stk[e][k].op = "end of try" /\ << d, i >> = << e, k >>
      BY <2>1, UnionOfPlaces
    <3>2. PICK k \in DOMAIN stk[e] : stk[e][k].op = "end of try" /\ << d, i >> = << e, k >>
      BY <3>1
    <3>3. d = e /\ i = k
      BY <3>2
    <3>4. QED
      BY <3>2, <3>3
  <2>2. ASSUME d \in 1 .. Len(stk), i \in DOMAIN stk[d], stk[d][i].op = "end of try"
        PROVE  << d, i >> \in BodiesOf(stk)
    BY <2>2, UnionOfPlaces
  <2>3. QED
    BY <1>1, <2>1, <2>2
<1>4. ASSUME NEW p \in BodiesOf(stk)
      PROVE  \E d, i \in Nat : p = << d, i >>
  <2>1. PICK d \in 1 .. Len(stk) :
          \E i \in DOMAIN stk[d] : stk[d][i].op = "end of try" /\ p = << d, i >>
    <3>1. \A q : q \in BodiesOf(stk) <=>
            \E d \in 1 .. Len(stk) : \E i \in DOMAIN stk[d] :
              stk[d][i].op = "end of try" /\ q = << d, i >>
      BY UnionOfPlaces
    <3>2. QED
      BY <3>1
  <2>2. PICK i \in DOMAIN stk[d] : p = << d, i >>
    BY <2>1
  <2>3. QED
    BY <1>2, <2>2
<1>5. QED
  BY <1>3, <1>4

LEMMA TryBodiesAre == TryBodies = BodiesOf(stack) /\ TryBodies' = BodiesOf(stack')
BY DEF TryBodies, Depth, BodiesOf

LEMMA BodiesAre ==
  ASSUME NEW Stmts, Shape(Stmts)
  PROVE  /\ \A d, i \in Nat : IsBody(d, i) <=> << d, i >> \in TryBodies
         /\ \A p \in TryBodies : \E d, i \in Nat : p = << d, i >>
<1>1. stack \in Seq(Seq(Left(Stmts)))
  BY DEF Shape
<1>2. /\ \A d, i \in Nat :
           << d, i >> \in TryBodies <=>
             d \in 1 .. Len(stack) /\ i \in 1 .. Len(stack[d]) /\ stack[d][i].op = "end of try"
      /\ \A p \in TryBodies : \E d, i \in Nat : p = << d, i >>
  BY <1>1, BodiesIn, TryBodiesAre
<1>3. QED
  BY <1>2 DEF IsBody, Depth

(* A place in an activation that a step leaves alone.                      *)
LEMMA SamePlace ==
  ASSUME NEW d \in Nat, NEW i \in Nat, BufferIsCurrent, IsBody(d, i)', stack'[d] = stack[d],
         d \in 1 .. Depth, jmp_buf' = jmp_buf
  PROVE  IsBody(d, i) /\ jmp_buf' = [depth |-> d, code |-> Resumed(d, i)']
<1>1. IsBody(d, i)
  BY DEF IsBody
<1>2. Resumed(d, i)' = Resumed(d, i)
  BY DEF Resumed
<1>3. QED
  BY <1>1, <1>2 DEF BufferIsCurrent

(* A place in what is left of the innermost code after its first statement. *)
LEMMA PlaceInTail ==
  ASSUME NEW Stmts, Fragment(Stmts), Shape(Stmts), NEW op, At(op),
         NEW d, d = Depth, NEW i \in Nat, stack'[d] = Tail(Code), IsBody(d, i)'
  PROVE  /\ IsBody(d, i + 1) /\ i >= 1
         /\ Resumed(d, i)' = Resumed(d, i + 1)
<1> DEFINE rest == Tail(Code)
<1>1. /\ Depth \in Nat /\ Depth >= 1 /\ Code \in Seq(Left(Stmts)) /\ Code # << >>
      /\ Len(Code) \in Nat /\ Len(Code) >= 1
      /\ rest \in Seq(Left(Stmts)) /\ Len(rest) = Len(Code) - 1
      /\ \A k \in 1 .. Len(Code) - 1 : rest[k] = Code[k + 1]
  BY NextStatement DEF At
<1>2. rest = SubSeq(Code, 2, Len(Code))
  BY <1>1, TailIsSubSeq
<1>3. DOMAIN rest = 1 .. Len(Code) - 1 /\ DOMAIN Code = 1 .. Len(Code)
  BY <1>1, LenProperties
<1> HIDE DEF rest
<1>4. stack'[d] = rest /\ Code = stack[d] /\ d \in Nat /\ d >= 1
  BY <1>1 DEF rest, Code
<1>5. i \in 1 .. Len(Code) - 1 /\ rest[i].op = "end of try" /\ rest[i] = Code[i + 1]
  BY <1>1, <1>3, <1>4 DEF IsBody
<1>6. i >= 1 /\ i + 1 \in 1 .. Len(Code) /\ i + 1 \in Nat
  <2>1. i \in 1 .. Len(Code) - 1 /\ Len(Code) \in Nat
    BY <1>1, <1>5
  <2>2. QED
    BY <2>1
<1>7. IsBody(d, i + 1)
  <2>1. d \in 1 .. Depth
    BY <1>1
  <2>2. QED
    BY <1>4, <1>5, <1>6, <2>1 DEF IsBody
<1>8. SubSeq(rest, i + 1, Len(rest)) = SubSeq(Code, i + 2, Len(Code))
  <2>1. CASE i + 1 <= Len(rest)
    <3>1. /\ 2 \in 1 .. Len(Code) /\ Len(Code) \in 1 .. Len(Code)
          /\ i + 1 \in 1 .. Len(Code) - 2 + 1 /\ Len(rest) \in 1 .. Len(Code) - 2 + 1
      BY <1>1, <1>6, <2>1
    <3>2. SubSeq(rest, i + 1, Len(rest)) = SubSeq(Code, 2 + (i + 1) - 1, 2 + Len(rest) - 1)
      BY <1>1, <1>2, <3>1, SubSeqOfSubSeq
    <3>3. 2 + (i + 1) - 1 = i + 2 /\ 2 + Len(rest) - 1 = Len(Code)
      BY <1>1
    <3>4. QED
      BY <3>2, <3>3
  <2>2. CASE ~(i + 1 <= Len(rest))
    <3>1. /\ i + 1 \in Int /\ Len(rest) \in Int /\ Len(rest) < i + 1
          /\ i + 2 \in Int /\ Len(Code) \in Int /\ Len(Code) < i + 2
      BY <1>1, <1>6, <2>2
    <3>2. QED
      BY <3>1, SubSeqEmpty
  <2>3. QED
    BY <2>1, <2>2
<1>9. Resumed(d, i)' = rest[i].handler \o SubSeq(rest, i + 1, Len(rest))
  BY <1>4 DEF Resumed
<1>10. Resumed(d, i + 1) = Code[i + 1].handler \o SubSeq(Code, i + 2, Len(Code))
  <2>1. (i + 1) + 1 = i + 2
    OBVIOUS
  <2>2. QED
    BY <1>4, <2>1 DEF Resumed
<1>11. QED
  BY <1>5, <1>6, <1>7, <1>8, <1>9, <1>10

(* The buffer stays current as long as there is one try body at a time.    *)
LEMMA TryKeepsBuffer ==
  ASSUME NEW Stmts, Fragment(Stmts), Shape(Stmts), TRY_STMT, OneTryAtATime'
  PROVE  BufferIsCurrent'
<1> DEFINE body == Head(Code).body
           handler == Head(Code).handler
           rest == Tail(Code)
<1>1. At("try") /\ jmp_buf' = [depth |-> Depth, code |-> handler \o rest]
  BY DEF TRY_STMT, EnterTry
<1>2. /\ Shape(Stmts)' /\ body \in Seq(Stmts) /\ handler \in Seq(Stmts)
      /\ stack'[Depth] = body \o << EndOfTry(handler) >> \o rest /\ Len(stack') = Depth
  BY TryShape
<1>3. /\ Depth \in Nat /\ Depth >= 1 /\ rest \in Seq(Left(Stmts))
      /\ body \in Seq(Left(Stmts)) /\ EndOfTry(handler) \in Left(Stmts)
      /\ EndOfTry(handler).op = "end of try" /\ EndOfTry(handler).handler = handler
  BY <1>1, <1>2, NextStatement, LeftProperties
<1> HIDE DEF body, handler, rest
<1>4. Len(body) + 1 \in Nat
  <2>1. Len(body) \in Nat
    BY <1>3, LenProperties
  <2>2. QED
    BY <2>1
<1>5. PICK d \in Nat, n \in Nat, code \in {stack'[Depth]} :
        d = Depth /\ n = Len(body) + 1 /\ code = stack'[Depth]
  BY <1>3, <1>4
<1>6. /\ n \in 1 .. Len(code) /\ code[n] = EndOfTry(handler)
      /\ SubSeq(code, n + 1, Len(code)) = rest
  <2>1. code = body \o << EndOfTry(handler) >> \o rest
    BY <1>2, <1>5
  <2>2. /\ body \in Seq(Left(Stmts)) /\ rest \in Seq(Left(Stmts))
        /\ EndOfTry(handler) \in Left(Stmts) /\ n = Len(body) + 1
    BY <1>3, <1>5
  <2>3. QED
    BY <2>1, <2>2, BehindTheEnd
<1>7. stack'[d] = code /\ Depth' = d /\ d \in 1 .. d
  <2>1. Depth' = Len(stack')
    BY DEF Depth
  <2>2. d >= 1
    BY <1>3, <1>5
  <2>3. d \in 1 .. d
    BY <2>2
  <2>4. QED
    BY <1>2, <1>5, <2>1, <2>3
<1>8. IsBody(d, n)'
  BY <1>3, <1>6, <1>7 DEF IsBody
<1>9. Resumed(d, n)' = handler \o rest
  BY <1>3, <1>6, <1>7 DEF Resumed
<1>10. ASSUME NEW e \in Nat, NEW i \in Nat, IsBody(e, i)'
       PROVE  e = d /\ i = n
  <2>1. \A f, j \in Nat : IsBody(f, j)' => << f, j >> \in TryBodies'
    <3>1. stack' \in Seq(Seq(Left(Stmts)))
      BY <1>2 DEF Shape
    <3>2. QED
      BY <3>1, BodiesIn, TryBodiesAre DEF IsBody, Depth
  <2>2. << e, i >> = << d, n >>
    BY <1>8, <1>10, <2>1 DEF OneTryAtATime
  <2>3. QED
    BY <2>2
<1>11. QED
  BY <1>1, <1>5, <1>9, <1>10 DEF BufferIsCurrent

(* At the end of its body the one try body is over.                        *)
LEMMA CatchKeepsBuffer ==
  ASSUME NEW Stmts, Fragment(Stmts), Shape(Stmts), CATCH_STMT, OneTryAtATime,
         BufferIsCurrent
  PROVE  BufferIsCurrent'
<1>1. At("end of try")
  BY DEF CATCH_STMT, LeaveTry
<1>2. /\ Len(stack') = Depth /\ jmp_buf' = jmp_buf /\ stack'[Depth] = Tail(Code)
      /\ \A d \in 1 .. Depth - 1 : stack'[d] = stack[d]
  BY CatchShape
<1>3. Depth \in Nat /\ Depth >= 1 /\ Len(Code) >= 1 /\ Len(Code) \in Nat /\ Code[1].op = "end of try"
  BY <1>1, NextStatement
<1>4. PICK e \in Nat : e = Depth
  BY <1>3
<1>5. IsBody(e, 1)
  <2>1. e \in 1 .. Depth /\ 1 \in 1 .. Len(Code)
    <3>1. Depth \in Nat /\ Depth >= 1 /\ Len(Code) \in Nat /\ Len(Code) >= 1
      BY <1>3
    <3>2. QED
      BY <1>4, <3>1
  <2>2. Code = stack[e]
    BY <1>4 DEF Code
  <2>3. QED
    BY <1>3, <2>1, <2>2 DEF IsBody
<1>6. ASSUME NEW d \in Nat, NEW i \in Nat, IsBody(d, i)
      PROVE  d = e /\ i = 1
  <2>1. \A f, j \in Nat : IsBody(f, j) => << f, j >> \in TryBodies
    BY BodiesAre
  <2>2. << d, i >> = << e, 1 >>
    BY <1>5, <1>6, <2>1 DEF OneTryAtATime
  <2>3. QED
    BY <2>2
<1>7. ASSUME NEW d \in Nat, NEW i \in Nat, IsBody(d, i)'
      PROVE  FALSE
  <2>1. d >= 1 /\ d <= e
    <3>1. d \in 1 .. Len(stack')
      BY <1>7 DEF IsBody, Depth
    <3>2. d \in 1 .. e
      BY <1>2, <1>4, <3>1
    <3>3. QED
      BY <3>2
  <2>2. CASE d = e
    <3>1. IsBody(d, i + 1) /\ i >= 1
      BY <1>1, <1>2, <1>4, <1>7, <2>2, PlaceInTail
    <3>2. QED
      BY <1>6, <3>1
  <2>3. CASE d # e
    <3>1. d \in 1 .. Depth - 1 /\ d \in 1 .. Depth
      BY <1>4, <2>1, <2>3
    <3>2. IsBody(d, i)
      BY <1>2, <1>7, <3>1 DEF IsBody
    <3>3. QED
      BY <1>6, <2>3, <3>2
  <2>4. QED
    BY <2>2, <2>3
<1>8. QED
  BY <1>7 DEF BufferIsCurrent

(* A callee starts outside any try body of its own.                        *)
LEMMA CallKeepsBuffer ==
  ASSUME NEW Stmts, Fragment(Stmts), Shape(Stmts), CALL_EXPR, BufferIsCurrent
  PROVE  BufferIsCurrent'
<1>1. At("call")
  BY DEF CALL_EXPR, Call
<1>2. /\ Len(stack') = Depth + 1 /\ jmp_buf' = jmp_buf
      /\ stack'[Depth + 1] \in Seq(Stmts) /\ stack'[Depth] = Tail(Code)
      /\ \A d \in 1 .. Depth - 1 : stack'[d] = stack[d]
  BY CallShape
<1>3. Depth \in Nat /\ Depth >= 1
  BY <1>1, NextStatement
<1>4. PICK e \in Nat : e = Depth
  BY <1>3
<1>5. SUFFICES ASSUME NEW d \in Nat, NEW i \in Nat, IsBody(d, i)'
               PROVE  jmp_buf' = [depth |-> d, code |-> Resumed(d, i)']
  BY DEF BufferIsCurrent
<1>6. d >= 1 /\ d <= e + 1
  <2>1. d \in 1 .. Len(stack')
    BY <1>5 DEF IsBody, Depth
  <2>2. d \in 1 .. e + 1
    BY <1>2, <1>4, <2>1
  <2>3. QED
    BY <2>2
<1>7. CASE d = e + 1
  <2>1. i \in 1 .. Len(stack'[d]) /\ stack'[d][i].op = "end of try"
    BY <1>5 DEF IsBody
  <2>2. stack'[d][i] \in Stmts
    BY <1>2, <1>4, <1>7, <2>1, ElementOfSeq
  <2>3. stack'[d][i].op # "end of try"
    BY <2>2, LeftProperties
  <2>4. QED
    BY <2>1, <2>3
<1>8. CASE d = e
  <2>1. IsBody(d, i + 1) /\ i + 1 \in Nat /\ Resumed(d, i)' = Resumed(d, i + 1)
    BY <1>1, <1>2, <1>4, <1>5, <1>8, PlaceInTail
  <2>2. QED
    BY <1>2, <2>1 DEF BufferIsCurrent
<1>9. CASE d # e /\ d # e + 1
  <2>1. d \in 1 .. Depth - 1 /\ d \in 1 .. Depth
    BY <1>4, <1>6, <1>9
  <2>2. QED
    BY <1>2, <1>5, <2>1, SamePlace
<1>10. QED
  BY <1>7, <1>8, <1>9

(* The buffer dangles when its activation returns, but then no try body is *)
(* left in it.                                                             *)
LEMMA ReturnKeepsBuffer ==
  ASSUME NEW Stmts, Fragment(Stmts), Shape(Stmts), RETURN_STMT, BufferIsCurrent
  PROVE  BufferIsCurrent'
<1>1. /\ Depth \in Nat /\ Depth >= 1 /\ Len(stack') = Depth - 1
      /\ \A d \in 1 .. Depth - 1 : stack'[d] = stack[d]
  BY ReturnShape
<1>2. jmp_buf' = IF jmp_buf.depth = Depth THEN Dangling ELSE jmp_buf
  BY DEF RETURN_STMT
<1>3. SUFFICES ASSUME NEW d \in Nat, NEW i \in Nat, IsBody(d, i)'
               PROVE  jmp_buf' = [depth |-> d, code |-> Resumed(d, i)']
  BY DEF BufferIsCurrent
<1>4. d \in 1 .. Depth - 1
  BY <1>1, <1>3 DEF IsBody, Depth
<1>5. d \in 1 .. Depth /\ d # Depth /\ stack'[d] = stack[d]
  BY <1>1, <1>4
<1>6. IsBody(d, i) /\ Resumed(d, i)' = Resumed(d, i)
  BY <1>3, <1>5 DEF IsBody, Resumed
<1>7. jmp_buf = [depth |-> d, code |-> Resumed(d, i)]
  BY <1>6 DEF BufferIsCurrent
<1>8. jmp_buf' = jmp_buf
  BY <1>2, <1>5, <1>7
<1>9. QED
  BY <1>6, <1>7, <1>8

(* A throw leads to the handler of the one try body, and leaves none.      *)
LEMMA ThrowKeepsBuffer ==
  ASSUME NEW Stmts, Fragment(Stmts), Shape(Stmts), THROW_STMT, OneTryAtATime,
         BufferIsCurrent
  PROVE  BufferIsCurrent' /\ ThrowToHandler
<1>1. At("throw") /\ TryBodies # {} /\ UNCHANGED << program, jmp_buf >>
  BY DEF THROW_STMT, OneTryAtATime
<1>2. /\ \A d, i \in Nat : IsBody(d, i) <=> << d, i >> \in TryBodies
      /\ \A p \in TryBodies : \E d, i \in Nat : p = << d, i >>
  BY BodiesAre
<1>3. PICK e \in Nat, n \in Nat : << e, n >> \in TryBodies
  BY <1>1, <1>2
<1>4. IsBody(e, n) /\ TryBodies = {<< e, n >>}
  BY <1>2, <1>3 DEF OneTryAtATime
<1>5. jmp_buf = [depth |-> e, code |-> Resumed(e, n)]
  BY <1>4 DEF BufferIsCurrent
<1>6. e \in 1 .. Depth /\ n \in 1 .. Len(stack[e])
  BY <1>4 DEF IsBody
<1>7. Innermost = << e, n >>
  <2>1. \A q \in TryBodies : Inner(<< e, n >>, q)
    BY <1>4 DEF Inner
  <2>2. QED
    BY <1>4, <2>1 DEF Innermost
<1>8. Caught(Innermost) = Append(SubSeq(stack, 1, e - 1), Resumed(e, n))
  BY <1>7 DEF Caught, Resumed
<1>9. stack' = Append(SubSeq(stack, 1, e - 1), Resumed(e, n)) /\ outcome' = outcome
  BY <1>5, <1>6 DEF THROW_STMT
<1>10. ThrowToHandler
  BY <1>1, <1>8, <1>9 DEF ThrowToHandler
<1>11. BufferIsCurrent'
  <2> DEFINE below == SubSeq(stack, 1, e - 1)
             code == Resumed(e, n)
  <2>1. /\ stack \in Seq(Seq(Left(Stmts))) /\ Depth = Len(stack) /\ Depth \in Nat
        /\ stack[e] \in Seq(Left(Stmts)) /\ Len(stack[e]) \in Nat
    BY <1>6, PlacesIn DEF Shape, Depth
  <2>2. \A d \in 1 .. e - 1 : d \in 1 .. Depth /\ stack[d] \in Seq(Left(Stmts))
    BY <1>6, <2>1, PlacesIn
  <2>3. /\ below \in Seq(Seq(Left(Stmts))) /\ Len(below) = e - 1
        /\ \A d \in 1 .. e - 1 : below[d] = stack[d]
    BY <1>6, <2>1, <2>2, SubSeqProperties
  <2>4. /\ stack[e][n].handler \in Seq(Stmts)
        /\ SubSeq(stack[e], n + 1, Len(stack[e])) \in Seq(Left(Stmts))
        /\ \A k \in 1 .. Len(stack[e]) - n :
             SubSeq(stack[e], n + 1, Len(stack[e]))[k] = stack[e][n + k]
        /\ Len(SubSeq(stack[e], n + 1, Len(stack[e]))) = Len(stack[e]) - n
    <3>1. stack[e][n] \in Left(Stmts)
      BY <1>6, <2>1, ElementOfSeq
    <3>2. stack[e][n].handler \in Seq(Stmts)
      BY <3>1, LeftProperties
    <3>3. n <= Len(stack[e])
      BY <1>6, <2>1
    <3>4. QED
      BY <2>1, <3>2, <3>3, BehindPlace
  <2>5. PICK handler, after :
          /\ handler = stack[e][n].handler
          /\ after = SubSeq(stack[e], n + 1, Len(stack[e]))
    OBVIOUS
  <2>6. /\ handler \in Seq(Stmts) /\ handler \in Seq(Left(Stmts)) /\ Len(handler) \in Nat
        /\ after \in Seq(Left(Stmts)) /\ Len(after) = Len(stack[e]) - n /\ Len(after) \in Nat
        /\ \A k \in 1 .. Len(after) : after[k] = stack[e][n + k]
        /\ code = handler \o after
    <3>1. handler \in Seq(Stmts) /\ handler \in Seq(Left(Stmts)) /\ code = handler \o after
      BY <2>4, <2>5, LeftProperties DEF Resumed
    <3>2. Len(stack[e]) - n \in Nat /\ n \in Int /\ Len(stack[e]) \in Nat
      BY <1>6, <2>1
    <3>3. Len(after) = Len(stack[e]) - n /\ after \in Seq(Left(Stmts))
      BY <2>4, <2>5
    <3>4. \A k \in 1 .. Len(after) : after[k] = stack[e][n + k]
      BY <2>4, <2>5, <3>3
    <3>5. QED
      BY <3>1, <3>2, <3>3, <3>4, LenProperties
  <2> HIDE DEF code, below
  <2>7. /\ code \in Seq(Left(Stmts)) /\ Len(code) = Len(handler) + Len(after)
        /\ \A k \in 1 .. Len(handler) + Len(after) :
             code[k] = IF k <= Len(handler) THEN handler[k] ELSE after[k - Len(handler)]
    BY <2>6, ConcatProperties
  <2>8. /\ Len(stack') = e /\ stack'[e] = code
        /\ \A d \in 1 .. e - 1 : stack'[d] = stack[d]
    <3>1. stack' = Append(below, code)
      BY <1>9 DEF below, code
    <3>2. (e - 1) + 1 = e
      BY <1>6
    <3>3. QED
      BY <2>3, <2>7, <3>1, <3>2, AppendProperties
  <2>9. ASSUME NEW d \in Nat, NEW i \in Nat, IsBody(d, i)
        PROVE  d = e /\ i = n
    <3>1. << d, i >> = << e, n >>
      BY <1>2, <1>4, <2>9
    <3>2. QED
      BY <3>1
  <2>10. ASSUME NEW d \in Nat, NEW i \in Nat, IsBody(d, i)'
         PROVE  FALSE
    <3>1. d \in 1 .. e /\ i \in 1 .. Len(stack'[d]) /\ stack'[d][i].op = "end of try"
      BY <2>8, <2>10 DEF IsBody, Depth
    <3>2. CASE d = e
      <4>1. i \in 1 .. Len(handler) + Len(after) /\ code[i].op = "end of try"
        BY <2>7, <2>8, <3>1, <3>2
      <4>2. CASE i <= Len(handler)
        <5>1. i \in 1 .. Len(handler) /\ code[i] = handler[i]
          <6>1. Len(handler) \in Nat /\ Len(after) \in Nat
            BY <2>6
          <6>2. i \in 1 .. Len(handler)
            <7> DEFINE h == Len(handler)  a == Len(after)
            <7>1. h \in Nat /\ a \in Nat /\ i \in 1 .. h + a /\ i <= h
              BY <4>1, <4>2, <6>1
            <7> HIDE DEF h, a
            <7>2. i \in 1 .. h
              BY <7>1
            <7>3. QED
              BY <7>2 DEF h
          <6>3. QED
            BY <2>7, <4>1, <4>2, <6>2
        <5>2. handler[i] \in Stmts
          BY <2>6, <5>1, ElementOfSeq
        <5>3. QED
          BY <4>1, <5>1, <5>2, LeftProperties
      <4>3. CASE ~(i <= Len(handler))
        <5>1. PICK k \in 1 .. Len(after) : k = i - Len(handler)
          <6>1. Len(handler) \in Nat /\ Len(after) \in Nat
            BY <2>6
          <6>2. i \in 1 .. Len(handler) + Len(after)
            BY <4>1
          <6>3. i - Len(handler) \in 1 .. Len(after)
            BY <4>3, <6>1, <6>2
          <6>4. QED
            BY <6>3
        <5>2. code[i] = stack[e][n + k]
          BY <2>6, <2>7, <4>1, <4>3, <5>1
        <5>3. n + k \in 1 .. Len(stack[e]) /\ n + k \in Nat /\ n + k # n
          BY <1>6, <2>1, <2>6, <5>1
        <5>4. IsBody(e, n + k)
          BY <1>6, <4>1, <5>2, <5>3 DEF IsBody
        <5>5. QED
          BY <2>9, <5>3, <5>4
      <4>4. QED
        BY <4>2, <4>3
    <3>3. CASE d # e
      <4>1. d \in 1 .. e - 1 /\ d \in 1 .. Depth
        <5>1. d \in 1 .. e /\ e \in 1 .. Depth /\ Depth \in Nat
          BY <1>6, <2>1, <3>1
        <5>2. QED
          BY <3>3, <5>1
      <4>2. IsBody(d, i)
        BY <2>8, <3>1, <4>1 DEF IsBody
      <4>3. QED
        BY <2>9, <3>3, <4>2
    <3>4. QED
      BY <3>2, <3>3
  <2>11. QED
    BY <2>10 DEF BufferIsCurrent
<1>12. QED
  BY <1>10, <1>11

LEMMA BufferInitially ==
  ASSUME NEW Stmts, Fragment(Stmts), TryCatchInit
  PROVE  BufferIsCurrent
<1>1. stack = << program.main >> /\ program.main \in Seq(Stmts)
  BY ShapeInitially
<1>2. SUFFICES ASSUME NEW d \in Nat, NEW i \in Nat, IsBody(d, i)
               PROVE  FALSE
  BY DEF BufferIsCurrent
<1>3. d \in 1 .. 1 /\ stack[1] = program.main
  BY <1>1, <1>2 DEF IsBody, Depth
<1>4. d = 1
  BY <1>3
<1>5. stack[d][i] \in Stmts /\ stack[d][i].op = "end of try"
  BY <1>1, <1>2, <1>3, <1>4, ElementOfSeq DEF IsBody
<1>6. QED
  BY <1>5, LeftProperties

(* Every step of the C program is one of Exceptions.                       *)
LEMMA StepImplements ==
  ASSUME NEW Stmts, Fragment(Stmts), Shape(Stmts), BufferIsCurrent,
         OneTryAtATime, OneTryAtATime', [TryCatchNext]_tcvars
  PROVE  [Next]_<< program, stack, outcome >> /\ BufferIsCurrent'
<1>1. CASE UNCHANGED tcvars
  <2>1. UNCHANGED << program, stack, outcome, jmp_buf >>
    BY <1>1 DEF tcvars
  <2>2. BufferIsCurrent'
    BY <2>1 DEF BufferIsCurrent, IsBody, Resumed, Depth
  <2>3. QED
    BY <2>1, <2>2
<1>2. CASE TRY_STMT
  BY <1>2, TryKeepsBuffer DEF TRY_STMT, Next
<1>3. CASE CATCH_STMT
  BY <1>3, CatchKeepsBuffer DEF CATCH_STMT, Next
<1>4. CASE CALL_EXPR
  BY <1>4, CallKeepsBuffer DEF CALL_EXPR, Next
<1>5. CASE RETURN_STMT
  BY <1>5, ReturnKeepsBuffer DEF RETURN_STMT, Next
<1>6. CASE THROW_STMT
  BY <1>6, ThrowKeepsBuffer DEF Next
<1>7. QED
  BY <1>1, <1>2, <1>3, <1>4, <1>5, <1>6 DEF TryCatchNext

(* setjmp and longjmp with one global buffer (codegen.c:1091-1135) do what *)
(* docs/LANGUAGE.md says of exceptions, in every execution that has one    *)
(* try body at a time and throws inside it only, whatever the programs.    *)
THEOREM OneBufferIsEnough ==
  ASSUME NEW Stmts, Fragment(Stmts)
  PROVE  TryCatchSpec /\ []OneTryAtATime => ImplementsExceptions
<1>1. TryCatchInit => Init /\ Shape(Stmts) /\ BufferIsCurrent
  BY ShapeInitially, BufferInitially DEF TryCatchInit
<1>2. /\ Shape(Stmts) /\ BufferIsCurrent /\ OneTryAtATime /\ OneTryAtATime'
      /\ [TryCatchNext]_tcvars
      => [Next]_<< program, stack, outcome >> /\ Shape(Stmts)' /\ BufferIsCurrent'
  BY ShapePreserved, StepImplements
<1>3. QED
  BY <1>1, <1>2, PTL DEF TryCatchSpec, ImplementsExceptions, Spec
=============================================================================
