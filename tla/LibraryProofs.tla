----------------------------- MODULE LibraryProofs -----------------------------
(***************************************************************************)
(* Proofs about the functions that the rest of the kernel calls, as module *)
(* Library composes them.                                                  *)
(*                                                                         *)
(*   DivisionIsRight  the division of src/math.cpp, for numbers of any     *)
(*                    width                                                *)
(*   ClockIsRight     clock_gettime(), for any times                       *)
(*   OpensAreRight    open(), for any mount points, files and paths        *)
(*   NumbersArePrinted  vprintf(), for words of any width                  *)
(*   ListsAreSound    the list of src/list.cpp, for any values and any     *)
(*                    size of its pool                                     *)
(*                                                                         *)
(* DivideInv says, of the absolute values a and b that the functions take, *)
(* quot * b + num = a and den = b * qbit, where qbit is a power of two:    *)
(* that 2^W is twice 2^(W-1) is shown by counting subsets, because the     *)
(* provers cannot use induction.  ClockInv completes what a call has read  *)
(* by the time that the clock shows: a read leaves the result as it is and *)
(* a second that passes makes it later.  PathInv says, between the steps   *)
(* of open(), which part of the path the strings hold and how many blocks  *)
(* of memory are in use.  PrintInv is about the arguments of vprintf(); a  *)
(* number needs none: DigitsMean is about the loops that take its digits.  *)
(* ListInv says that a walk along the list meets a line of distinct        *)
(* objects in use, unless a call went on at address 0, and that the size   *)
(* and the end are theirs as long as no call was odd.                      *)
(***************************************************************************)
EXTENDS Library, Sequences, FiniteSetTheorems, SequenceTheorems, WellFoundedInduction, TLAPS

-----------------------------------------------------------------------------
(* Powers of two                                                             *)

\* A set with one more element has twice as many subsets.
LEMMA TwiceAsMany ==
  ASSUME NEW S, IsFiniteSet(S), NEW e, e \notin S
  PROVE  Cardinality(SUBSET (S \cup {e})) = 2 * Cardinality(SUBSET S)
<1> DEFINE U == SUBSET S
           Q == {A \cup {e} : A \in U}
           f == [A \in U |-> A \cup {e}]
<1>1. IsFiniteSet(U)
  BY FS_SUBSET
<1>2. f \in Bijection(U, Q)
  <2>1. f \in [U -> Q]
    OBVIOUS
  <2>2. ASSUME NEW A \in U, NEW B \in U, f[A] = f[B] PROVE A = B
    BY <2>2
  <2>3. \A q \in Q : \E A \in U : f[A] = q
    OBVIOUS
  <2> QED BY <2>1, <2>2, <2>3 DEF Bijection, Injection, Surjection, IsInjective
<1>3. IsFiniteSet(Q) /\ Cardinality(Q) = Cardinality(U)
  BY <1>1, <1>2, FS_Bijection DEF ExistsBijection
<1>4. SUBSET (S \cup {e}) = U \cup Q
  <2>1. ASSUME NEW A \in SUBSET (S \cup {e}) PROVE A \in U \cup Q
    <3>1. CASE e \notin A
      BY <3>1
    <3>2. CASE e \in A
      <4>1. A \ {e} \in U /\ A = (A \ {e}) \cup {e}
        BY <3>2
      <4> QED BY <4>1
    <3> QED BY <3>1, <3>2
  <2> QED BY <2>1
<1>5. U \cap Q = {}
  OBVIOUS
<1>6. Cardinality(U \cup Q) = Cardinality(U) + Cardinality(Q) - Cardinality(U \cap Q)
  BY <1>1, <1>3, FS_Union
<1>7. Cardinality(U \cap Q) = 0 /\ Cardinality(U) \in Nat
  BY <1>1, <1>5, FS_EmptySet, FS_CardinalityType
<1> HIDE DEF U, Q
<1>8. Cardinality(U \cup Q) = 2 * Cardinality(U)
  BY <1>3, <1>6, <1>7
<1> QED BY <1>4, <1>8 DEF U

\* What the width of a number is used for.
LEMMA Powers ==
  ASSUME NEW n \in Nat
  PROVE  2^n \in Nat /\ 2^n > 0 /\ 2^(n + 1) = 2 * 2^n /\ 2^0 = 1
<1> DEFINE S == 1..n
<1>1. IsFiniteSet(S) /\ Cardinality(S) = n
  <2>1. 1 \in Int /\ n \in Int
    OBVIOUS
  <2>2. IsFiniteSet(1..n) /\ Cardinality(1..n) = IF 1 > n THEN 0 ELSE n - 1 + 1
    BY <2>1, FS_Interval, Zenon
  <2> QED BY <2>2
<1>2. n + 1 \notin S
  OBVIOUS
<1> HIDE DEF S
<1>3. IsFiniteSet(S \cup {n + 1}) /\ Cardinality(S \cup {n + 1}) = n + 1
  BY <1>1, <1>2, FS_AddElement
<1>4. Cardinality(SUBSET S) = 2^n /\ IsFiniteSet(SUBSET S)
  BY <1>1, FS_SUBSET
<1>5. Cardinality(SUBSET (S \cup {n + 1})) = 2^(n + 1)
  BY <1>3, FS_SUBSET
<1>6. Cardinality(SUBSET (S \cup {n + 1})) = 2 * Cardinality(SUBSET S)
  BY <1>1, <1>2, TwiceAsMany
<1>7. Cardinality(SUBSET S) \in Nat
  BY <1>4, FS_CardinalityType
<1>8. Cardinality(SUBSET S) # 0
  <2>1. {} \in SUBSET S
    OBVIOUS
  <2> QED BY <1>4, <2>1, FS_EmptySet
<1>9. 2^0 = 1
  OBVIOUS
<1>10. 2^n \in Nat /\ 2^n # 0
  BY <1>4, <1>7, <1>8
<1> QED BY <1>4, <1>5, <1>6, <1>9, <1>10

-----------------------------------------------------------------------------
(* Numbers of W bits                                                         *)

\* A quotient and a remainder that fit are the ones.
LEMMA DivUnique ==
  ASSUME NEW a \in Int, NEW b \in Nat \ {0}, NEW q \in Int, NEW r \in 0..b - 1, a = q * b + r
  PROVE  a \div b = q /\ a % b = r
<1>1. a \div b = q
  OBVIOUS
<1>2. a = b * (a \div b) + (a % b)
  OBVIOUS
<1>3. a % b \in Int
  OBVIOUS
<1>4. a = b * q + (a % b)
  BY <1>1, <1>2
<1>5. b * q = q * b /\ q * b \in Int
  OBVIOUS
<1>6. a % b = r
  BY <1>3, <1>4, <1>5
<1> QED BY <1>1, <1>6

\* The numbers are those below twice the value of the sign bit.
LEMMA Widths ==
  ASSUME D!WidthAssumption
  PROVE  /\ D!Half \in Nat \ {0} /\ D!Size = 2 * D!Half /\ D!Size \in Nat \ {0}
         /\ D!Patterns = 0..D!Size - 1 /\ Bits \in Nat \ {0} /\ D!Half = 2^(Bits - 1)
<1>1. Bits \in Nat \ {0} /\ Bits - 1 \in Nat /\ Bits - 1 + 1 = Bits
  BY DEF D!WidthAssumption
<1>2. 2^(Bits - 1) \in Nat /\ 2^(Bits - 1) > 0 /\ 2^(Bits - 1 + 1) = 2 * 2^(Bits - 1)
  BY <1>1, Powers
<1>3. 2^Bits = 2 * 2^(Bits - 1)
  BY <1>1, <1>2
<1> DEFINE h == 2^(Bits - 1)
           s == 2^Bits
<1>4. D!Half = h /\ D!Size = s /\ D!Patterns = 0..s - 1
  BY DEF D!Half, D!Size, D!Patterns
<1> HIDE DEF h, s
<1>5. h \in Nat \ {0} /\ s = 2 * h
  BY <1>2, <1>3 DEF h, s
<1> QED BY <1>1, <1>4, <1>5 DEF h

\* The value of a pattern for a function.
Val(o, v) == IF o \in {"div", "mod"} THEN D!Signed(v) ELSE v

\* What the functions take for the absolute value.
Magnitude(o, v) == IF Val(o, v) < 0 THEN D!Negated(v) ELSE v

\* The value of a pattern fits, and its absolute value is a pattern: negating the least
\* number gives itself, which read without a sign is the absolute value.
LEMMA Magnitudes ==
  ASSUME D!WidthAssumption, NEW o, NEW v \in D!Patterns
  PROVE  /\ v \in Nat /\ v < D!Size
         /\ D!Signed(v) \in Int /\ -D!Half <= D!Signed(v) /\ D!Signed(v) < D!Half
         /\ D!Negated(v) = (IF v = 0 THEN 0 ELSE D!Size - v) /\ D!Negated(v) = (-v) % D!Size
         /\ Val(o, v) \in Int /\ Magnitude(o, v) = D!Abs(Val(o, v)) /\ Magnitude(o, v) \in D!Patterns
<1> DEFINE h == D!Half
           s == D!Size
<1>1. h \in Nat \ {0} /\ s = 2 * h /\ s \in Nat \ {0} /\ v \in 0..s - 1 /\ D!Patterns = 0..s - 1
  BY Widths
<1>2. D!Signed(v) = (IF v >= h THEN v - s ELSE v) /\ D!Negated(v) = (s - v) % s
  BY DEF D!Signed, D!Negated
<1> HIDE DEF h, s
<1>3. (s - v) % s = (IF v = 0 THEN 0 ELSE s - v) /\ (-v) % s = (IF v = 0 THEN 0 ELSE s - v)
  <2>1. CASE v = 0
    <3>1. s - v = 1 * s + 0 /\ -v = 0 * s + 0 /\ 0 \in 0..s - 1 /\ s - v \in Int /\ -v \in Int
      BY <1>1, <2>1
    <3> QED BY <1>1, <2>1, <3>1, DivUnique
  <2>2. CASE v # 0
    <3> DEFINE r == s - v
    <3>1. s - v = 0 * s + r /\ r \in 0..s - 1 /\ s - v \in Int /\ -v \in Int /\ 0 \in Int /\ -1 \in Int
      BY <1>1, <2>2
    <3>2. -v = (-1) * s + r
      BY <1>1
    <3> HIDE DEF r
    <3>3. (s - v) % s = r
      BY <1>1, <3>1, DivUnique
    <3>4. (-v) % s = r
      BY <1>1, <3>1, <3>2, DivUnique
    <3> QED BY <2>2, <3>3, <3>4 DEF r
  <2> QED BY <2>1, <2>2
<1>4. D!Signed(v) \in Int /\ -h <= D!Signed(v) /\ D!Signed(v) < h
  BY <1>1, <1>2
<1>5. D!Negated(v) = (IF v = 0 THEN 0 ELSE s - v) /\ D!Negated(v) = (-v) % s
  BY <1>2, <1>3
<1>6. Val(o, v) \in Int
  BY <1>1, <1>4 DEF Val
<1>7. Magnitude(o, v) = D!Abs(Val(o, v)) /\ Magnitude(o, v) \in 0..s - 1
  <2>1. CASE Val(o, v) < 0
    <3>1. Val(o, v) = v - s /\ v >= h /\ v # 0
      BY <1>1, <1>2, <2>1 DEF Val
    <3> QED BY <1>1, <1>5, <2>1, <3>1 DEF Magnitude, D!Abs
  <2>2. CASE ~(Val(o, v) < 0)
    <3>1. Val(o, v) = v
      BY <1>1, <1>2, <2>2 DEF Val
    <3> QED BY <1>1, <2>2, <3>1 DEF Magnitude, D!Abs
  <2> QED BY <2>1, <2>2
<1> QED BY <1>1, <1>4, <1>5, <1>6, <1>7 DEF h, s

-----------------------------------------------------------------------------
(* The division                                                              *)

\* What qbit holds as long as it holds a bit.
PowerOfTwo(q) == \E k \in 0..Bits - 1 : q = 2^k

\* The places of a call, and patterns.
DTypes ==
  /\ step \in {"idle", "entry", "justify", "loop", "done", "trap"} /\ op \in D!Ops
  /\ x \in D!Patterns /\ y \in D!Patterns /\ minus \in BOOLEAN
  /\ num \in D!Patterns /\ den \in D!Patterns /\ qbit \in D!Patterns /\ quot \in D!Patterns

\* What the numbers are at each place.  a and b are the absolute values.
Running(a, b) ==
  /\ step = "entry" => num = a /\ den = b /\ qbit = 1 /\ quot = 0
  /\ step = "justify" => b > 0 /\ num = a /\ quot = 0 /\ PowerOfTwo(qbit) /\ den = b * qbit
  /\ step = "loop" => /\ b > 0 /\ quot * b + num = a
                      /\ qbit # 0 => PowerOfTwo(qbit) /\ den = b * qbit /\ num < 2 * den
                      /\ qbit = 0 => num < b

\* A call that has begun knows the sign of its result.
Begun ==
  step # "idle" => /\ minus = ((Val(op, x) < 0) # (Val(op, y) < 0))
                   /\ Running(Magnitude(op, x), Magnitude(op, y))

\* The inductive invariant.
DivideInv == DTypes /\ Begun /\ D!DivisionRight

\* A call begins.
LEMMA DivCall ==
  ASSUME D!WidthAssumption, DivideInv, NEW o \in D!Ops, NEW a \in D!Patterns, NEW b \in D!Patterns,
         D!Call(o, a, b)
  PROVE  DivideInv'
<1>1. /\ step' = "entry" /\ op' = o /\ x' = a /\ y' = b /\ quot' = 0 /\ qbit' = 1
      /\ num' = Magnitude(o, a) /\ den' = Magnitude(o, b)
      /\ minus' = ((Val(o, a) < 0) # (Val(o, b) < 0))
  <2>1. a \in Nat /\ b \in Nat
    BY Widths
  <2>2. \A v \in Nat : (o \in {"div", "mod"} /\ D!Signed(v) < 0) = (Val(o, v) < 0)
    BY DEF Val
  <2> QED BY <2>1, <2>2 DEF D!Call, Magnitude
<1>2. Magnitude(o, a) \in D!Patterns /\ Magnitude(o, b) \in D!Patterns
  BY Magnitudes
<1>3. 0 \in D!Patterns /\ 1 \in D!Patterns
  BY Widths
<1>4. DTypes'
  BY <1>1, <1>2, <1>3 DEF DTypes
<1>5. Begun'
  BY <1>1 DEF Begun, Running
<1>6. D!DivisionRight'
  BY <1>1 DEF D!DivisionRight
<1> QED BY <1>4, <1>5, <1>6 DEF DivideInv

\* A division by zero traps; otherwise the bit and the denominator start together.
LEMMA DivEntry ==
  ASSUME D!WidthAssumption, DivideInv, D!Entry
  PROVE  DivideInv'
<1>1. /\ step = "entry" /\ step' = (IF den = 0 THEN "trap" ELSE "justify")
      /\ UNCHANGED <<op, x, y, minus, num, den, qbit, quot>>
  BY DEF D!Entry
<1>2. DTypes /\ Begun /\ op \in D!Ops /\ x \in D!Patterns /\ y \in D!Patterns
  BY DEF DivideInv, DTypes
<1>3. PICK a : a = Magnitude(op, x)
  OBVIOUS
<1>4. PICK b : b = Magnitude(op, y)
  OBVIOUS
<1>5. num = a /\ den = b /\ qbit = 1 /\ quot = 0 /\ minus = ((Val(op, x) < 0) # (Val(op, y) < 0))
  BY <1>1, <1>2, <1>3, <1>4 DEF Begun, Running
<1>6. b \in Nat
  BY <1>2, <1>4, Magnitudes, Widths
<1>7. PowerOfTwo(1)
  <2>1. 2^0 = 1
    OBVIOUS
  <2>2. 0 \in 0..Bits - 1
    BY Widths
  <2> QED BY <2>1, <2>2 DEF PowerOfTwo
<1>8. Running(a, b)'
  BY <1>1, <1>5, <1>6, <1>7 DEF Running
<1>9. DTypes'
  BY <1>1, <1>2 DEF DTypes
<1>10. Begun'
  BY <1>1, <1>3, <1>4, <1>5, <1>8 DEF Begun, Val, Magnitude
<1>11. D!DivisionRight'
  BY <1>1 DEF D!DivisionRight
<1> QED BY <1>9, <1>10, <1>11 DEF DivideInv

\* The denominator moves to the left as long as its sign bit is clear.
LEMMA DivJustify ==
  ASSUME D!WidthAssumption, DivideInv, D!Justify
  PROVE  DivideInv'
<1> DEFINE h == D!Half
           s == D!Size
<1>1. /\ step = "justify" /\ UNCHANGED <<op, x, y, minus, num, quot>>
      /\ \/ /\ D!Signed(den) >= 0 /\ den' = (2 * den) % s /\ qbit' = (2 * qbit) % s /\ step' = "justify"
         \/ ~(D!Signed(den) >= 0) /\ UNCHANGED <<den, qbit>> /\ step' = "loop"
  BY DEF D!Justify
<1>2. DTypes /\ Begun /\ op \in D!Ops /\ x \in D!Patterns /\ y \in D!Patterns
  BY DEF DivideInv, DTypes
<1>3. PICK a : a = Magnitude(op, x)
  OBVIOUS
<1>4. PICK b : b = Magnitude(op, y)
  OBVIOUS
<1>5. /\ b > 0 /\ num = a /\ quot = 0 /\ PowerOfTwo(qbit) /\ den = b * qbit
      /\ minus = ((Val(op, x) < 0) # (Val(op, y) < 0))
  BY <1>1, <1>2, <1>3, <1>4 DEF Begun, Running
<1>6. a \in D!Patterns /\ b \in D!Patterns
  BY <1>2, <1>3, <1>4, Magnitudes
<1>7. /\ h \in Nat \ {0} /\ s = 2 * h /\ s \in Nat \ {0} /\ D!Patterns = 0..s - 1
      /\ Bits \in Nat \ {0} /\ h = 2^(Bits - 1)
  BY Widths
<1>8. D!Signed(den) = IF den >= h THEN den - s ELSE den
  BY DEF D!Signed
<1> HIDE DEF h, s
<1>9. PICK k \in 0..Bits - 1 : qbit = 2^k
  BY <1>5 DEF PowerOfTwo
<1>10. k \in Nat /\ qbit \in Nat /\ qbit > 0 /\ 2^(k + 1) = 2 * qbit
  BY <1>7, <1>9, Powers
<1>11. a \in Nat /\ b \in Nat /\ den \in Nat /\ den < s /\ num < s /\ qbit <= den
  <2>1. a \in Nat /\ b \in Nat /\ den \in Nat /\ den < s /\ a < s
    BY <1>2, <1>6, <1>7 DEF DTypes
  <2>2. qbit <= b * qbit
    BY <1>5, <1>10, <2>1
  <2> QED BY <1>5, <2>1, <2>2
<1>12. Running(a, b)' /\ den' \in D!Patterns /\ qbit' \in D!Patterns
  <2>1. CASE D!Signed(den) >= 0
    <3>1. den < h /\ 2 * den < s /\ 2 * qbit < s
      BY <1>7, <1>8, <1>10, <1>11, <2>1
    <3>2. den' = 2 * den /\ qbit' = 2 * qbit /\ step' = "justify"
      <4>1. (2 * den) % s = 2 * den /\ (2 * qbit) % s = 2 * qbit
        <5>1. 2 * den \in 0..s - 1 /\ 2 * den = 0 * s + 2 * den /\ 2 * den \in Int /\ 0 \in Int
          BY <1>7, <1>11, <3>1
        <5>2. 2 * qbit \in 0..s - 1 /\ 2 * qbit = 0 * s + 2 * qbit /\ 2 * qbit \in Int
          BY <1>7, <1>10, <3>1
        <5> QED BY <1>7, <5>1, <5>2, DivUnique
      <4> QED BY <1>1, <2>1, <4>1
    <3>3. k # Bits - 1
      BY <1>7, <1>9, <1>10, <1>11, <3>1
    <3>4. PowerOfTwo(2 * qbit)
      <4>1. k + 1 \in 0..Bits - 1
        BY <1>7, <3>3
      <4> QED BY <1>10, <4>1 DEF PowerOfTwo
    <3>5. 2 * den = b * (2 * qbit)
      BY <1>5, <1>10, <1>11
    <3>6. Running(a, b)'
      BY <1>1, <1>5, <3>2, <3>4, <3>5 DEF Running
    <3> QED BY <1>7, <1>10, <1>11, <3>1, <3>2, <3>6
  <2>2. CASE ~(D!Signed(den) >= 0)
    <3>1. step' = "loop" /\ den' = den /\ qbit' = qbit /\ num' = num /\ quot' = quot
      BY <1>1, <2>2
    <3>2. den >= h /\ num < 2 * den
      <4>1. den >= h
        BY <1>7, <1>8, <1>11, <2>2
      <4>2. 2 * den >= 2 * h
        BY <1>7, <1>11, <4>1
      <4>3. num \in Nat
        BY <1>2, <1>7 DEF DTypes
      <4> QED BY <1>7, <1>11, <4>1, <4>2, <4>3
    <3>3. quot * b + num = a
      BY <1>5, <1>11
    <3>4. Running(a, b)'
      BY <1>5, <1>10, <3>1, <3>2, <3>3 DEF Running
    <3> QED BY <1>2, <3>1, <3>4 DEF DTypes
  <2> QED BY <2>1, <2>2
<1>13. DTypes'
  BY <1>1, <1>2, <1>12 DEF DTypes
<1>14. Begun'
  BY <1>1, <1>3, <1>4, <1>5, <1>12 DEF Begun, Val, Magnitude
<1>15. D!DivisionRight'
  BY <1>1 DEF D!DivisionRight
<1> QED BY <1>13, <1>14, <1>15 DEF DivideInv

\* One bit of the quotient.
LEMMA DivLoop ==
  ASSUME D!WidthAssumption, DivideInv, D!Loop
  PROVE  DivideInv'
<1> DEFINE s == D!Size
<1>1. /\ step = "loop" /\ qbit # 0 /\ UNCHANGED <<step, op, x, y, minus>>
      /\ den' = den \div 2 /\ qbit' = qbit \div 2
      /\ \/ den <= num /\ num' = num - den /\ quot' = (quot + qbit) % s
         \/ ~(den <= num) /\ UNCHANGED <<num, quot>>
  BY DEF D!Loop
<1>2. DTypes /\ Begun /\ op \in D!Ops /\ x \in D!Patterns /\ y \in D!Patterns
  BY DEF DivideInv, DTypes
<1>3. PICK a : a = Magnitude(op, x)
  OBVIOUS
<1>4. PICK b : b = Magnitude(op, y)
  OBVIOUS
<1>5. /\ b > 0 /\ quot * b + num = a /\ PowerOfTwo(qbit) /\ den = b * qbit /\ num < 2 * den
      /\ minus = ((Val(op, x) < 0) # (Val(op, y) < 0))
  BY <1>1, <1>2, <1>3, <1>4 DEF Begun, Running
<1>6. a \in D!Patterns /\ b \in D!Patterns
  BY <1>2, <1>3, <1>4, Magnitudes
<1>7. s \in Nat \ {0} /\ D!Patterns = 0..s - 1 /\ Bits \in Nat \ {0}
  BY Widths
<1> HIDE DEF s
<1>8. /\ a \in Nat /\ a < s /\ b \in Nat /\ num \in Nat /\ num < s /\ den \in Nat /\ den < s
      /\ quot \in Nat /\ quot < s /\ qbit \in Nat /\ qbit < s /\ qbit > 0
  BY <1>1, <1>2, <1>6, <1>7 DEF DTypes
<1>9. PICK k \in 0..Bits - 1 : qbit = 2^k
  BY <1>5 DEF PowerOfTwo
\* What is taken away, and what is left.
<1>10. num' \in Nat /\ quot' \in Nat /\ num' < den /\ num' < s /\ quot' < s /\ quot' * b + num' = a
  <2>1. CASE den <= num
    <3>1. (quot + qbit) * b = quot * b + den
      BY <1>5, <1>8
    <3>2. quot * b \in Nat /\ den + quot * b <= a
      BY <1>5, <1>8, <2>1
    <3>3. quot + qbit <= (quot + qbit) * b
      BY <1>5, <1>8
    <3>4. quot + qbit < s /\ quot + qbit \in Nat
      <4>1. quot + qbit \in Nat /\ a < s /\ s \in Nat /\ a \in Nat /\ den \in Nat
        BY <1>7, <1>8
      <4>2. quot + qbit <= quot * b + den
        BY <3>1, <3>3
      <4>3. quot * b + den = den + quot * b
        BY <1>8, <3>2
      <4> QED BY <3>2, <4>1, <4>2, <4>3
    <3>5. (quot + qbit) % s = quot + qbit
      <4>1. quot + qbit \in 0..s - 1 /\ quot + qbit = 0 * s + (quot + qbit) /\ quot + qbit \in Int /\ 0 \in Int
        BY <1>7, <3>4
      <4> QED BY <1>7, <4>1, DivUnique
    <3>6. num' = num - den /\ quot' = quot + qbit
      BY <1>1, <2>1, <3>5
    <3>7. (quot + qbit) * b + (num - den) = a
      BY <1>5, <1>8, <3>1, <3>2
    <3>8. num - den \in Nat /\ num - den < den /\ num - den < s
      BY <1>5, <1>7, <1>8, <2>1
    <3>9. quot' * b + num' = a
      BY <3>6, <3>7
    <3> QED BY <3>4, <3>6, <3>8, <3>9
  <2>2. CASE ~(den <= num)
    BY <1>1, <1>5, <1>8, <2>2
  <2> QED BY <2>1, <2>2
<1>11. den' \in Nat /\ den' < s /\ qbit' \in Nat /\ qbit' < s
  <2>1. den \div 2 \in Nat /\ den \div 2 <= den /\ qbit \div 2 \in Nat /\ qbit \div 2 <= qbit
    BY <1>8
  <2> QED BY <1>1, <1>7, <1>8, <2>1
<1>12. /\ qbit' # 0 => PowerOfTwo(qbit') /\ den' = b * qbit' /\ num' < 2 * den'
       /\ qbit' = 0 => num' < b
  <2>1. CASE k = 0
    <3>1. qbit = 1
      BY <1>9, <2>1, Powers
    <3>2. qbit' = 0 /\ den = b
      BY <1>1, <1>5, <1>8, <3>1
    <3> QED BY <1>10, <3>2
  <2>2. CASE k # 0
    <3>1. k - 1 \in Nat /\ k - 1 \in 0..Bits - 1 /\ k - 1 + 1 = k
      BY <1>7, <2>2
    <3>2. PICK q \in Nat : q = 2^(k - 1)
      BY <3>1, Powers
    <3>3. qbit = 2 * q /\ q > 0
      BY <1>9, <3>1, <3>2, Powers
    <3>4. qbit' = q
      BY <1>1, <3>3
    <3>5. den = 2 * (b * q) /\ b * q \in Nat
      BY <1>5, <1>8, <3>3
    <3>6. den' = b * q /\ den = 2 * den'
      BY <1>1, <3>5
    <3>7. PowerOfTwo(q)
      BY <3>1, <3>2 DEF PowerOfTwo
    <3> QED BY <1>10, <3>3, <3>4, <3>6, <3>7
  <2> QED BY <2>1, <2>2
<1>13. Running(a, b)'
  BY <1>1, <1>5, <1>10, <1>12 DEF Running
<1>14. DTypes'
  BY <1>1, <1>2, <1>7, <1>10, <1>11 DEF DTypes
<1>15. Begun'
  BY <1>1, <1>3, <1>4, <1>5, <1>13 DEF Begun, Val, Magnitude
<1>16. D!DivisionRight'
  BY <1>1 DEF D!DivisionRight
<1> QED BY <1>14, <1>15, <1>16 DEF DivideInv

\* The last value of num is the remainder, that of quot the quotient, of the absolute values.
LEMMA DivResult ==
  ASSUME D!WidthAssumption, DivideInv, D!Return
  PROVE  DivideInv'
<1> DEFINE s == D!Size
           h == D!Half
           u == Val(op, x)
           w == Val(op, y)
<1>1. /\ step = "loop" /\ qbit = 0 /\ UNCHANGED <<op, x, y, minus, num, den, qbit, quot>> /\ step' = "done"
      /\ result' = LET v == IF op \in {"udiv", "div"} THEN quot ELSE num
                   IN  IF minus THEN D!Negated(v) ELSE v
  BY DEF D!Return
<1>2. DTypes /\ Begun /\ op \in D!Ops /\ x \in D!Patterns /\ y \in D!Patterns
  BY DEF DivideInv, DTypes
<1>3. PICK a : a = Magnitude(op, x)
  OBVIOUS
<1>4. PICK b : b = Magnitude(op, y)
  OBVIOUS
<1>5. b > 0 /\ quot * b + num = a /\ num < b /\ minus = ((u < 0) # (w < 0))
  BY <1>1, <1>2, <1>3, <1>4 DEF Begun, Running
<1>6. /\ a \in D!Patterns /\ b \in D!Patterns /\ u \in Int /\ w \in Int
      /\ a = D!Abs(u) /\ b = D!Abs(w) /\ D!Signed(y) < h
  BY <1>2, <1>3, <1>4, Magnitudes
<1>7. s \in Nat \ {0} /\ D!Patterns = 0..s - 1 /\ h \in Nat \ {0} /\ s = 2 * h
  BY Widths
<1>8. /\ a \in Nat /\ b \in Nat \ {0} /\ num \in Nat /\ quot \in Nat /\ num < s /\ quot < s
      /\ num \in 0..b - 1
  BY <1>2, <1>5, <1>6, <1>7 DEF DTypes
<1>9. a \div b = quot
  BY <1>5, <1>8, DivUnique
<1>10. DTypes'
  BY <1>1, <1>2 DEF DTypes
<1>11. Begun'
  BY <1>1, <1>2 DEF Begun, Running, Val, Magnitude
<1>12. \A v \in D!Patterns : /\ D!Negated(v) = (IF v = 0 THEN 0 ELSE D!Size - v)
                             /\ D!Negated(v) = (-v) % D!Size
  BY Magnitudes
<1>13. PICK t : t = D!TruncQuotient(u, w)
  OBVIOUS
<1>14. t = IF minus THEN -quot ELSE quot
  <2>1. t = (IF (u < 0) # (w < 0) THEN -1 ELSE 1) * (D!Abs(u) \div D!Abs(w))
    BY <1>13 DEF D!TruncQuotient
  <2>2. t = (IF minus THEN -1 ELSE 1) * quot
    BY <1>5, <1>6, <1>9, <2>1
  <2>3. CASE minus
    BY <1>8, <2>2, <2>3
  <2>4. CASE ~minus
    BY <1>8, <2>2, <2>4
  <2> QED BY <2>3, <2>4
<1> HIDE DEF s, h, u, w
<1>15. D!Value(x)' = u /\ D!Value(y)' = w /\ (op \in {"div", "mod"} <=> D!IsSigned')
  BY <1>1 DEF D!Value, D!IsSigned, Val, u, w
<1>16. ASSUME op \in {"udiv", "div"} PROVE result' = t % s
  <2>1. CASE minus
    <3>1. result' = D!Negated(quot) /\ t = -quot
      BY <1>1, <1>14, <1>16, <2>1
    <3>2. quot \in D!Patterns
      BY <1>2 DEF DTypes
    <3> QED BY <1>12, <3>1, <3>2 DEF s
  <2>2. CASE ~minus
    <3>1. result' = quot /\ t = quot
      BY <1>1, <1>14, <1>16, <2>2
    <3>2. quot \in 0..s - 1 /\ quot = 0 * s + quot /\ quot \in Int /\ 0 \in Int
      BY <1>7, <1>8
    <3>3. quot % s = quot
      BY <1>7, <3>2, DivUnique
    <3> QED BY <3>1, <3>3
  <2> QED BY <2>1, <2>2
<1>17. ASSUME op \in {"umod", "mod"}, w > 0
       PROVE  (IF op \in {"div", "mod"} THEN D!Signed(result') ELSE result') = u - t * w
  <2>1. b = w /\ minus = (u < 0)
    BY <1>5, <1>6, <1>17 DEF D!Abs
  <2>2. quot * w + num = a
    BY <1>5, <2>1
  <2>3. \A v \in Nat : D!Signed(v) = IF v >= h THEN v - s ELSE v
    BY DEF D!Signed, h, s
  <2>4. op = "mod" => num < h
    <3> SUFFICES ASSUME op = "mod" PROVE num < h
      OBVIOUS
    <3>1. w < h
      BY <1>6 DEF Val, w
    <3> QED BY <1>5, <1>6, <1>7, <1>8, <2>1, <3>1
  <2>5. CASE ~(u < 0)
    <3>1. result' = num /\ t = quot /\ a = u
      BY <1>1, <1>5, <1>6, <1>14, <1>17, <2>1, <2>5 DEF D!Abs
    <3>2. u - quot * w = num
      BY <1>6, <1>8, <2>2, <3>1
    <3>3. op = "mod" => D!Signed(num) = num
      BY <1>7, <1>8, <2>3, <2>4
    <3> QED BY <1>17, <3>1, <3>2, <3>3
  <2>6. CASE u < 0
    <3>1. op = "mod"
      BY <1>2, <1>7, <1>17, <2>6 DEF Val, u
    <3>2. result' = D!Negated(num) /\ t = -quot /\ a = -u
      BY <1>1, <1>5, <1>6, <1>14, <1>17, <2>1, <2>6 DEF D!Abs
    <3>3. u - (-quot) * w = -num
      <4>1. (-quot) * w = -(quot * w) /\ quot * w \in Int
        BY <1>6, <1>8
      <4> QED BY <1>6, <1>8, <2>2, <3>2, <4>1
    <3>4. D!Negated(num) = IF num = 0 THEN 0 ELSE s - num
      <4>1. num \in D!Patterns
        BY <1>2 DEF DTypes
      <4> QED BY <1>12, <4>1 DEF s
    <3>5. D!Signed(D!Negated(num)) = -num
      <4>1. CASE num = 0
        BY <1>7, <2>3, <3>4, <4>1
      <4>2. CASE num # 0
        <5>1. s - num \in Nat /\ s - num >= h /\ (s - num) - s = -num
          BY <1>7, <1>8, <2>4, <3>1
        <5> QED BY <2>3, <3>4, <4>2, <5>1
      <4> QED BY <4>1, <4>2
    <3> QED BY <3>1, <3>2, <3>3, <3>5
  <2> QED BY <2>5, <2>6
<1>18. D!DivisionRight'
  <2> SUFFICES
        /\ op \in {"udiv", "div"} => result' = D!TruncQuotient(u, w) % s
        /\ op \in {"umod", "mod"} /\ w > 0 =>
             (IF op \in {"div", "mod"} THEN D!Signed(result') ELSE result') = u - D!TruncQuotient(u, w) * w
    BY <1>1, <1>15 DEF D!DivisionRight, D!Value, s
  <2> QED BY <1>13, <1>16, <1>17
<1> QED BY <1>10, <1>11, <1>18 DEF DivideInv

\* No call has begun at first.
LEMMA DivInit == ASSUME D!WidthAssumption, D!Init PROVE DivideInv
<1>1. 0 \in D!Patterns
  BY Widths
<1>2. DTypes
  BY <1>1 DEF D!Init, DTypes, D!Ops
<1> QED BY <1>2 DEF D!Init, DivideInv, Begun, D!DivisionRight

\* Every step keeps the invariant.
LEMMA DivNext == ASSUME D!WidthAssumption, DivideInv, [D!Next]_(D!vars) PROVE DivideInv'
<1>1. ASSUME UNCHANGED D!vars PROVE DivideInv'
  BY <1>1 DEF D!vars, DivideInv, DTypes, Begun, Running, Val, Magnitude, D!DivisionRight, D!Value,
              D!IsSigned
<1> QED BY <1>1, DivCall, DivEntry, DivJustify, DivLoop, DivResult DEF D!Next, D!Ended

\* Round by round, what is left and what was taken away make up the numerator.
LEMMA DivRounds == ASSUME D!WidthAssumption, DivideInv PROVE D!LoopInvariant
<1> SUFFICES ASSUME step \in {"justify", "loop"} PROVE
      LET a == D!Abs(D!Value(x))
          b == D!Abs(D!Value(y))
      IN  /\ quot * b + num = a
          /\ qbit # 0 => den = b * qbit
          /\ step = "loop" => num < (IF qbit = 0 THEN b ELSE 2 * den)
  BY DEF D!LoopInvariant
<1>1. DTypes /\ Running(Magnitude(op, x), Magnitude(op, y)) /\ x \in D!Patterns /\ y \in D!Patterns
  BY DEF DivideInv, DTypes, Begun
<1>2. PICK a : a = D!Abs(D!Value(x))
  OBVIOUS
<1>3. PICK b : b = D!Abs(D!Value(y))
  OBVIOUS
<1>4. D!Value(x) = Val(op, x) /\ D!Value(y) = Val(op, y)
  BY DEF D!Value, D!IsSigned, Val
<1>5. a = Magnitude(op, x) /\ b = Magnitude(op, y) /\ a \in D!Patterns /\ b \in D!Patterns
  BY <1>1, <1>2, <1>3, <1>4, Magnitudes
<1>6. a \in Nat /\ b \in Nat
  BY <1>5, Widths
<1>7. Running(a, b)
  BY <1>1, <1>5
<1>8. step = "justify" => 0 * b + a = a
  BY <1>6
<1> QED BY <1>2, <1>3, <1>7, <1>8 DEF Running

\* The division functions return the quotient rounded towards zero and the remainder that goes
\* with it, after rounds that lose nothing, for numbers of any width.
THEOREM DivisionIsRight == Spec => []DivideSound
<1> USE LibraryAssumption DEF LibraryAssumption
<1>1. D!Init => DivideInv
  BY DivInit
<1>2. DivideInv /\ [D!Next]_(D!vars) => DivideInv'
  BY DivNext
<1>3. DivideInv => D!DivideSound
  BY DivRounds DEF DivideInv, D!DivideSound
<1>4. Init => D!Init
  BY DEF Init
<1>5. [Next]_vars => [D!Next]_(D!vars)
  BY DEF Next, vars, numbers, D!vars
<1> QED BY <1>1, <1>2, <1>3, <1>4, <1>5, PTL DEF Spec, DivideSound
-----------------------------------------------------------------------------
(* The clock                                                                 *)

Fields == {"seconds", "minutes", "hours", "day", "month", "year"}

Times == [seconds : 0..59, minutes : 0..59, hours : 0..23, day : 1..31, month : 1..12, year : Nat]

\* A reading of which k registers have been read, completed by the time.
Mix(i, t, k) ==
  [seconds |-> IF k >= 1 THEN i.seconds ELSE t.seconds,
   minutes |-> IF k >= 2 THEN i.minutes ELSE t.minutes,
   hours   |-> IF k >= 3 THEN i.hours ELSE t.hours,
   day     |-> IF k >= 4 THEN i.day ELSE t.day,
   month   |-> IF k >= 5 THEN i.month ELSE t.month,
   year    |-> IF k = 7 THEN i.year ELSE IF k = 6 THEN i.year + 100 * (t.year \div 100) ELSE t.year]

\* A reading lies within a call that no minute has ended in.
Within(i, e, t, k) ==
  C!Minute(e) = C!Minute(t) =>
    /\ e.seconds <= t.seconds
    /\ k >= 1 => e.seconds <= i.seconds /\ i.seconds <= t.seconds
    /\ C!Minute(Mix(i, t, k)) = C!Minute(t)

\* What a call has read so far: completed by the time it is no earlier than the call.
Reading(i, e, t, k) ==
  /\ Mix(i, t, k) \in Times
  /\ C!NotLater(e, Mix(i, t, k))
  /\ Within(i, e, t, k)
  /\ k < 6 => i.year = 0
  /\ k = 6 => i.year \in 0..99

ClockInv ==
  /\ now \in Times /\ entered \in Times /\ C!NotLater(entered, now)
  /\ info \in [Fields -> Nat] /\ register \in -1..7 /\ calls \in Nat
  /\ register >= 0 => Reading(info, entered, now, register)

\* The years of a time are two registers.
LEMMA Centuries == ASSUME NEW y0 \in Nat
  PROVE  y0 \div 100 \in Nat /\ y0 % 100 \in 0..99 /\ (y0 % 100) + 100 * (y0 \div 100) = y0
OBVIOUS

\* The fields of a time.
LEMMA TimeFields == ASSUME NEW t \in Times
  PROVE  /\ t.seconds \in 0..59 /\ t.minutes \in 0..59 /\ t.hours \in 0..23
         /\ t.day \in 1..31 /\ t.month \in 1..12 /\ t.year \in Nat
BY DEF Times

\* No field decides that a is later than b.
InOrder(a, b) ==
  \/ a.year < b.year
  \/ a.year = b.year /\ a.month < b.month
  \/ a.year = b.year /\ a.month = b.month /\ a.day < b.day
  \/ a.year = b.year /\ a.month = b.month /\ a.day = b.day /\ a.hours < b.hours
  \/ /\ a.year = b.year /\ a.month = b.month /\ a.day = b.day /\ a.hours = b.hours
     /\ a.minutes < b.minutes \/ (a.minutes = b.minutes /\ a.seconds <= b.seconds)

LEMMA Ordered ==
  ASSUME NEW a \in Times, NEW b \in Times
  PROVE  C!NotLater(a, b) <=> InOrder(a, b)
<1>1. PICK y1 \in Nat, mo1 \in 1..12, d1 \in 1..31, h1 \in 0..23, mi1 \in 0..59, s1 \in 0..59 :
         a.year = y1 /\ a.month = mo1 /\ a.day = d1 /\ a.hours = h1 /\ a.minutes = mi1 /\ a.seconds = s1
  BY TimeFields
<1>2. PICK y2 \in Nat, mo2 \in 1..12, d2 \in 1..31, h2 \in 0..23, mi2 \in 0..59, s2 \in 0..59 :
         b.year = y2 /\ b.month = mo2 /\ b.day = d2 /\ b.hours = h2 /\ b.minutes = mi2 /\ b.seconds = s2
  BY TimeFields
<1>3. C!NotLater(a, b) <=>
        \/ y1 * 372 + mo1 * 31 + d1 < y2 * 372 + mo2 * 31 + d2
        \/ /\ y1 * 372 + mo1 * 31 + d1 = y2 * 372 + mo2 * 31 + d2
           /\ h1 * 3600 + mi1 * 60 + s1 <= h2 * 3600 + mi2 * 60 + s2
  BY <1>1, <1>2 DEF C!NotLater, C!Order
<1>4. InOrder(a, b) <=>
        \/ y1 < y2 \/ (y1 = y2 /\ mo1 < mo2) \/ (y1 = y2 /\ mo1 = mo2 /\ d1 < d2)
        \/ (y1 = y2 /\ mo1 = mo2 /\ d1 = d2 /\ h1 < h2)
        \/ (y1 = y2 /\ mo1 = mo2 /\ d1 = d2 /\ h1 = h2 /\ (mi1 < mi2 \/ (mi1 = mi2 /\ s1 <= s2)))
  BY <1>1, <1>2 DEF InOrder
<1>5. /\ y1 * 372 + mo1 * 31 + d1 < y2 * 372 + mo2 * 31 + d2 <=>
           y1 < y2 \/ (y1 = y2 /\ (mo1 < mo2 \/ (mo1 = mo2 /\ d1 < d2)))
      /\ y1 * 372 + mo1 * 31 + d1 = y2 * 372 + mo2 * 31 + d2 <=> y1 = y2 /\ mo1 = mo2 /\ d1 = d2
  OBVIOUS
<1>6. h1 * 3600 + mi1 * 60 + s1 <= h2 * 3600 + mi2 * 60 + s2 <=>
        h1 < h2 \/ (h1 = h2 /\ (mi1 < mi2 \/ (mi1 = mi2 /\ s1 <= s2)))
  OBVIOUS
<1> QED BY <1>3, <1>4, <1>5, <1>6

\* A time has six fields.
At6(s, mi, h, d, mo, yr) ==
  [seconds |-> s, minutes |-> mi, hours |-> h, day |-> d, month |-> mo, year |-> yr]

\* A second later one of the fields has grown, and those below it have begun anew.
LEMMA Later ==
  ASSUME NEW t \in Times
  PROVE  \/ /\ t.seconds < 59
            /\ C!After(t) = At6(t.seconds + 1, t.minutes, t.hours, t.day, t.month, t.year)
         \/ /\ t.seconds = 59 /\ t.minutes < 59
            /\ C!After(t) = At6(0, t.minutes + 1, t.hours, t.day, t.month, t.year)
         \/ /\ t.minutes = 59 /\ t.hours < 23
            /\ C!After(t) = At6(0, 0, t.hours + 1, t.day, t.month, t.year)
         \/ t.day < 31 /\ C!After(t) = At6(0, 0, 0, t.day + 1, t.month, t.year)
         \/ t.month < 12 /\ C!After(t) = At6(0, 0, 0, 1, t.month + 1, t.year)
         \/ C!After(t) = At6(0, 0, 0, 1, 1, t.year + 1)
<1> DEFINE D0 == C!DaysIn(t.month, t.year)
<1>1. D0 \in 28..31
  BY DEF C!DaysIn
<1>2. t.day \in 1..31
  BY DEF Times
<1> HIDE DEF D0
<1>3. PICK t1 : t1 = [t EXCEPT !.seconds = 0]
  OBVIOUS
<1>4. PICK t2 : t2 = [t1 EXCEPT !.minutes = 0]
  OBVIOUS
<1>5. PICK m : m = [t2 EXCEPT !.hours = 0]
  OBVIOUS
<1>6. t = At6(t.seconds, t.minutes, t.hours, t.day, t.month, t.year)
  BY DEF Times, At6
<1>7. t1 = At6(0, t.minutes, t.hours, t.day, t.month, t.year)
  BY <1>3, <1>6 DEF At6
<1>8. t2 = At6(0, 0, t.hours, t.day, t.month, t.year)
  BY <1>4, <1>7 DEF At6
<1>9. m = At6(0, 0, 0, t.day, t.month, t.year)
  BY <1>5, <1>8 DEF At6
<1>10. CASE t.seconds < 59
  <2>1. C!After(t) = [t EXCEPT !.seconds = @ + 1]
    BY <1>10 DEF C!After
  <2>2. [t EXCEPT !.seconds = @ + 1] = At6(t.seconds + 1, t.minutes, t.hours, t.day, t.month, t.year)
    BY <1>6 DEF At6
  <2> QED BY <1>10, <2>1, <2>2
<1>11. CASE t.seconds = 59 /\ t.minutes < 59
  <2>1. C!After(t) = [t EXCEPT !.seconds = 0, !.minutes = @ + 1]
    BY <1>11 DEF C!After
  <2>2. [t EXCEPT !.seconds = 0, !.minutes = @ + 1] = [t1 EXCEPT !.minutes = t.minutes + 1]
    BY <1>3
  <2>3. [t1 EXCEPT !.minutes = t.minutes + 1]
          = At6(0, t.minutes + 1, t.hours, t.day, t.month, t.year)
    BY <1>7 DEF At6
  <2> QED BY <1>11, <2>1, <2>2, <2>3
<1>12. CASE t.seconds = 59 /\ t.minutes = 59 /\ t.hours < 23
  <2>1. C!After(t) = [t EXCEPT !.seconds = 0, !.minutes = 0, !.hours = @ + 1]
    BY <1>12 DEF C!After
  <2>2. [t EXCEPT !.seconds = 0, !.minutes = 0, !.hours = @ + 1] = [t2 EXCEPT !.hours = t.hours + 1]
    BY <1>3, <1>4
  <2>3. [t2 EXCEPT !.hours = t.hours + 1] = At6(0, 0, t.hours + 1, t.day, t.month, t.year)
    BY <1>8 DEF At6
  <2> QED BY <1>12, <2>1, <2>2, <2>3
<1>13. CASE ~(t.seconds < 59) /\ ~(t.seconds = 59 /\ t.minutes < 59)
            /\ ~(t.seconds = 59 /\ t.minutes = 59 /\ t.hours < 23)
  <2>1. m = [t EXCEPT !.seconds = 0, !.minutes = 0, !.hours = 0]
    BY <1>3, <1>4, <1>5
  <2>2. C!After(t) = CASE t.day < D0 -> [m EXCEPT !.day = @ + 1]
                       [] t.day = D0 /\ t.month < 12 -> [m EXCEPT !.day = 1, !.month = @ + 1]
                       [] OTHER -> [m EXCEPT !.day = 1, !.month = 1, !.year = @ + 1]
    BY <1>13, <2>1 DEF C!After, D0
  <2>3. [m EXCEPT !.day = @ + 1] = At6(0, 0, 0, t.day + 1, t.month, t.year)
    BY <1>9 DEF At6
  <2>4. PICK m1 : m1 = [m EXCEPT !.day = 1]
    OBVIOUS
  <2>5. PICK m2 : m2 = [m1 EXCEPT !.month = 1]
    OBVIOUS
  <2>6. m1 = At6(0, 0, 0, 1, t.month, t.year) /\ m.month = t.month /\ m.year = t.year
    BY <1>9, <2>4 DEF At6
  <2>7. m2 = At6(0, 0, 0, 1, 1, t.year)
    BY <2>5, <2>6 DEF At6
  <2>8. [m EXCEPT !.day = 1, !.month = @ + 1] = At6(0, 0, 0, 1, t.month + 1, t.year)
    <3>1. [m EXCEPT !.day = 1, !.month = @ + 1] = [m1 EXCEPT !.month = t.month + 1]
      BY <2>4, <2>6
    <3>2. [m1 EXCEPT !.month = t.month + 1] = At6(0, 0, 0, 1, t.month + 1, t.year)
      BY <2>6 DEF At6
    <3> QED BY <3>1, <3>2
  <2>9. [m EXCEPT !.day = 1, !.month = 1, !.year = @ + 1] = At6(0, 0, 0, 1, 1, t.year + 1)
    <3>1. [m EXCEPT !.day = 1, !.month = 1, !.year = @ + 1] = [m2 EXCEPT !.year = t.year + 1]
      BY <2>4, <2>5, <2>6
    <3>2. [m2 EXCEPT !.year = t.year + 1] = At6(0, 0, 0, 1, 1, t.year + 1)
      BY <2>7 DEF At6
    <3> QED BY <3>1, <3>2
  <2>10. CASE t.day < D0
    BY <1>1, <1>2, <2>2, <2>3, <2>10
  <2>11. CASE t.day = D0 /\ t.month < 12
    BY <1>1, <1>2, <2>2, <2>8, <2>11
  <2>12. CASE ~(t.day < D0) /\ ~(t.day = D0 /\ t.month < 12)
    BY <1>1, <1>2, <2>2, <2>9, <2>12
  <2> QED BY <2>10, <2>11, <2>12
<1> QED BY <1>10, <1>11, <1>12, <1>13

\* The fields of a time that was completed.
LEMMA MixFields ==
  ASSUME NEW i, NEW t, NEW k
  PROVE  LET m == Mix(i, t, k) IN
         /\ m.seconds = (IF k >= 1 THEN i.seconds ELSE t.seconds)
         /\ m.minutes = (IF k >= 2 THEN i.minutes ELSE t.minutes)
         /\ m.hours = (IF k >= 3 THEN i.hours ELSE t.hours)
         /\ m.day = (IF k >= 4 THEN i.day ELSE t.day)
         /\ m.month = (IF k >= 5 THEN i.month ELSE t.month)
         /\ m.year = (IF k = 7 THEN i.year
                      ELSE IF k = 6 THEN i.year + 100 * (t.year \div 100) ELSE t.year)
BY DEF Mix

\* Being in the same minute is a matter of the other fields.
LEMMA SameMinute ==
  ASSUME NEW a \in Times, NEW b \in Times
  PROVE  C!Minute(a) = C!Minute(b) <=>
           /\ a.minutes = b.minutes /\ a.hours = b.hours
           /\ a.day = b.day /\ a.month = b.month /\ a.year = b.year
<1>1. a = At6(a.seconds, a.minutes, a.hours, a.day, a.month, a.year)
  BY DEF Times, At6
<1>2. b = At6(b.seconds, b.minutes, b.hours, b.day, b.month, b.year)
  BY DEF Times, At6
<1>3. C!Minute(a) = At6(0, a.minutes, a.hours, a.day, a.month, a.year)
  BY <1>1 DEF C!Minute, At6
<1>4. C!Minute(b) = At6(0, b.minutes, b.hours, b.day, b.month, b.year)
  BY <1>2 DEF C!Minute, At6
<1> QED BY <1>3, <1>4 DEF At6

\* Being no later is transitive.
LEMMA NotLaterTrans ==
  ASSUME NEW a \in Times, NEW b \in Times, NEW c \in Times, C!NotLater(a, b), C!NotLater(b, c)
  PROVE  C!NotLater(a, c)
<1>1. PICK y1 \in Nat, mo1 \in 1..12, d1 \in 1..31, h1 \in 0..23, mi1 \in 0..59, s1 \in 0..59 :
         a.year = y1 /\ a.month = mo1 /\ a.day = d1 /\ a.hours = h1 /\ a.minutes = mi1 /\ a.seconds = s1
  BY TimeFields
<1>2. PICK y2 \in Nat, mo2 \in 1..12, d2 \in 1..31, h2 \in 0..23, mi2 \in 0..59, s2 \in 0..59 :
         b.year = y2 /\ b.month = mo2 /\ b.day = d2 /\ b.hours = h2 /\ b.minutes = mi2 /\ b.seconds = s2
  BY TimeFields
<1>3. PICK y3 \in Nat, mo3 \in 1..12, d3 \in 1..31, h3 \in 0..23, mi3 \in 0..59, s3 \in 0..59 :
         c.year = y3 /\ c.month = mo3 /\ c.day = d3 /\ c.hours = h3 /\ c.minutes = mi3 /\ c.seconds = s3
  BY TimeFields
<1>4. \/ y1 < y2 \/ (y1 = y2 /\ mo1 < mo2) \/ (y1 = y2 /\ mo1 = mo2 /\ d1 < d2)
      \/ (y1 = y2 /\ mo1 = mo2 /\ d1 = d2 /\ h1 < h2)
      \/ (y1 = y2 /\ mo1 = mo2 /\ d1 = d2 /\ h1 = h2 /\ (mi1 < mi2 \/ (mi1 = mi2 /\ s1 <= s2)))
  BY <1>1, <1>2, Ordered DEF InOrder
<1>5. \/ y2 < y3 \/ (y2 = y3 /\ mo2 < mo3) \/ (y2 = y3 /\ mo2 = mo3 /\ d2 < d3)
      \/ (y2 = y3 /\ mo2 = mo3 /\ d2 = d3 /\ h2 < h3)
      \/ (y2 = y3 /\ mo2 = mo3 /\ d2 = d3 /\ h2 = h3 /\ (mi2 < mi3 \/ (mi2 = mi3 /\ s2 <= s3)))
  BY <1>2, <1>3, Ordered DEF InOrder
<1>6. \/ y1 < y3 \/ (y1 = y3 /\ mo1 < mo3) \/ (y1 = y3 /\ mo1 = mo3 /\ d1 < d3)
      \/ (y1 = y3 /\ mo1 = mo3 /\ d1 = d3 /\ h1 < h3)
      \/ (y1 = y3 /\ mo1 = mo3 /\ d1 = d3 /\ h1 = h3 /\ (mi1 < mi3 \/ (mi1 = mi3 /\ s1 <= s3)))
  BY <1>4, <1>5
<1>7. InOrder(a, c)
  BY <1>1, <1>3, <1>6 DEF InOrder
<1> QED BY <1>7, Ordered

\* A second later is later, and what is completed by it is no earlier.
LEMMA TickMixes ==
  ASSUME NEW t \in Times, NEW i \in [Fields -> Nat], NEW k \in 0..7, Mix(i, t, k) \in Times
  PROVE  LET u == C!After(t) IN
         u \in Times /\ Mix(i, u, k) \in Times /\ C!NotLater(Mix(i, t, k), Mix(i, u, k))
<1>1. PICK u : u = C!After(t)
  OBVIOUS
<1>2. PICK m : m = Mix(i, t, k)
  OBVIOUS
<1>3. PICK w : w = Mix(i, u, k)
  OBVIOUS
<1>4. /\ t.seconds \in 0..59 /\ t.minutes \in 0..59 /\ t.hours \in 0..23
      /\ t.day \in 1..31 /\ t.month \in 1..12 /\ t.year \in Nat
  BY TimeFields
<1>5. /\ m \in Times /\ m.seconds \in 0..59 /\ m.minutes \in 0..59 /\ m.hours \in 0..23
      /\ m.day \in 1..31 /\ m.month \in 1..12 /\ m.year \in Nat
  BY <1>2, TimeFields
<1>6. /\ u.seconds \in 0..59 /\ u.minutes \in 0..59 /\ u.hours \in 0..23
      /\ u.day \in 1..31 /\ u.month \in 1..12 /\ u.year \in Nat /\ t.year <= u.year
      /\ u = At6(u.seconds, u.minutes, u.hours, u.day, u.month, u.year)
      /\ \/ /\ u.seconds = t.seconds + 1 /\ u.minutes = t.minutes /\ u.hours = t.hours
            /\ u.day = t.day /\ u.month = t.month /\ u.year = t.year
         \/ /\ u.minutes = t.minutes + 1 /\ u.hours = t.hours
            /\ u.day = t.day /\ u.month = t.month /\ u.year = t.year
         \/ /\ u.hours = t.hours + 1
            /\ u.day = t.day /\ u.month = t.month /\ u.year = t.year
         \/ u.day = t.day + 1 /\ u.month = t.month /\ u.year = t.year
         \/ u.month = t.month + 1 /\ u.year = t.year
         \/ u.year = t.year + 1
  BY <1>1, <1>4, Later DEF At6
<1>7. u \in Times
  BY <1>6 DEF Times, At6
<1>8. /\ m.seconds = (IF k >= 1 THEN i.seconds ELSE t.seconds)
      /\ m.minutes = (IF k >= 2 THEN i.minutes ELSE t.minutes)
      /\ m.hours = (IF k >= 3 THEN i.hours ELSE t.hours)
      /\ m.day = (IF k >= 4 THEN i.day ELSE t.day)
      /\ m.month = (IF k >= 5 THEN i.month ELSE t.month)
      /\ m.year = (IF k = 7 THEN i.year
                   ELSE IF k = 6 THEN i.year + 100 * (t.year \div 100) ELSE t.year)
  BY <1>2, MixFields
<1>9. /\ w.seconds = (IF k >= 1 THEN i.seconds ELSE u.seconds)
      /\ w.minutes = (IF k >= 2 THEN i.minutes ELSE u.minutes)
      /\ w.hours = (IF k >= 3 THEN i.hours ELSE u.hours)
      /\ w.day = (IF k >= 4 THEN i.day ELSE u.day)
      /\ w.month = (IF k >= 5 THEN i.month ELSE u.month)
      /\ w.year = (IF k = 7 THEN i.year
                   ELSE IF k = 6 THEN i.year + 100 * (u.year \div 100) ELSE u.year)
  BY <1>3, MixFields
<1>10. t.year \div 100 \in Nat /\ u.year \div 100 \in Nat /\ t.year \div 100 <= u.year \div 100
  BY <1>4, <1>6
<1>11. i.year \in Nat
  BY DEF Fields
<1>12. /\ w.seconds \in 0..59 /\ w.minutes \in 0..59 /\ w.hours \in 0..23
       /\ w.day \in 1..31 /\ w.month \in 1..12 /\ w.year \in Nat
  BY <1>5, <1>6, <1>8, <1>9, <1>10, <1>11
<1>13. w \in Times
  BY <1>3, <1>12 DEF Times, Mix
\* The first field that differs is greater.
<1>14. InOrder(m, w)
  BY <1>4, <1>5, <1>6, <1>8, <1>9, <1>10, <1>11 DEF InOrder
<1>15. C!NotLater(m, w)
  BY <1>5, <1>13, <1>14, Ordered
<1> QED BY <1>1, <1>2, <1>3, <1>7, <1>13, <1>15

\* What a call has read stays right when the clock goes on.
LEMMA TickReads ==
  ASSUME NEW t \in Times, NEW e \in Times, NEW i \in [Fields -> Nat], NEW k \in 0..7,
         C!NotLater(e, t), Reading(i, e, t, k)
  PROVE  Reading(i, e, C!After(t), k)
<1>1. PICK u : u = C!After(t)
  OBVIOUS
<1>2. u \in Times /\ Mix(i, u, k) \in Times /\ C!NotLater(Mix(i, t, k), Mix(i, u, k))
  BY <1>1, TickMixes DEF Reading
<1>3. C!NotLater(e, Mix(i, u, k))
  BY <1>2, NotLaterTrans DEF Reading
<1>4. ASSUME C!Minute(e) = C!Minute(u)
      PROVE  /\ e.seconds <= u.seconds
             /\ k >= 1 => e.seconds <= i.seconds /\ i.seconds <= u.seconds
             /\ C!Minute(Mix(i, u, k)) = C!Minute(u)
  <2>1. e.minutes = u.minutes /\ e.hours = u.hours /\ e.day = u.day /\ e.month = u.month /\ e.year = u.year
    BY <1>2, <1>4, SameMinute
  <2>2. /\ t.seconds \in 0..59 /\ t.minutes \in 0..59 /\ t.hours \in 0..23
        /\ t.day \in 1..31 /\ t.month \in 1..12 /\ t.year \in Nat
        /\ e.seconds \in 0..59 /\ e.minutes \in 0..59 /\ e.hours \in 0..23
        /\ e.day \in 1..31 /\ e.month \in 1..12 /\ e.year \in Nat
    BY TimeFields
  <2>3. InOrder(e, t)
    BY Ordered
  <2>4. /\ u.seconds = t.seconds + 1 /\ u.minutes = t.minutes /\ u.hours = t.hours
        /\ u.day = t.day /\ u.month = t.month /\ u.year = t.year
    <3>1. \/ /\ u.seconds = t.seconds + 1 /\ u.minutes = t.minutes /\ u.hours = t.hours
             /\ u.day = t.day /\ u.month = t.month /\ u.year = t.year
          \/ /\ u.minutes = t.minutes + 1 /\ u.hours = t.hours
             /\ u.day = t.day /\ u.month = t.month /\ u.year = t.year
          \/ /\ u.minutes = 0 /\ u.hours = t.hours + 1
             /\ u.day = t.day /\ u.month = t.month /\ u.year = t.year
          \/ u.day = t.day + 1 /\ u.month = t.month /\ u.year = t.year
          \/ u.day = 1 /\ u.month = t.month + 1 /\ u.year = t.year
          \/ u.day = 1 /\ u.month = 1 /\ u.year = t.year + 1
      BY <1>1, <2>2, Later DEF At6
    <3>2. CASE u.minutes = t.minutes + 1 /\ u.hours = t.hours
               /\ u.day = t.day /\ u.month = t.month /\ u.year = t.year
      BY <2>1, <2>2, <2>3, <3>2 DEF InOrder
    <3>3. CASE u.minutes = 0 /\ u.hours = t.hours + 1
               /\ u.day = t.day /\ u.month = t.month /\ u.year = t.year
      BY <2>1, <2>2, <2>3, <3>3 DEF InOrder
    <3>4. CASE u.day = t.day + 1 /\ u.month = t.month /\ u.year = t.year
      BY <2>1, <2>2, <2>3, <3>4 DEF InOrder
    <3>5. CASE u.day = 1 /\ u.month = t.month + 1 /\ u.year = t.year
      BY <2>1, <2>2, <2>3, <3>5 DEF InOrder
    <3>6. CASE u.day = 1 /\ u.month = 1 /\ u.year = t.year + 1
      BY <2>1, <2>2, <2>3, <3>6 DEF InOrder
    <3> QED BY <3>1, <3>2, <3>3, <3>4, <3>5, <3>6
  <2>5. C!Minute(e) = C!Minute(t)
    BY <2>1, <2>4, SameMinute
  <2>6. /\ e.seconds <= t.seconds
        /\ k >= 1 => e.seconds <= i.seconds /\ i.seconds <= t.seconds
        /\ C!Minute(Mix(i, t, k)) = C!Minute(t)
    BY <2>5 DEF Reading, Within
  <2>7. PICK m : m = Mix(i, t, k)
    OBVIOUS
  <2>8. PICK w : w = Mix(i, u, k)
    OBVIOUS
  <2>9. m.minutes = t.minutes /\ m.hours = t.hours /\ m.day = t.day /\ m.month = t.month /\ m.year = t.year
    BY <2>6, <2>7, SameMinute DEF Reading
  <2>10. w.minutes = m.minutes /\ w.hours = m.hours /\ w.day = m.day /\ w.month = m.month /\ w.year = m.year
    BY <2>4, <2>7, <2>8, MixFields
  <2>11. C!Minute(w) = C!Minute(u)
    BY <1>2, <2>4, <2>8, <2>9, <2>10, SameMinute
  <2>12. i.seconds \in Nat
    BY DEF Fields
  <2> QED BY <2>2, <2>4, <2>6, <2>8, <2>11, <2>12
<1> QED BY <1>1, <1>2, <1>3, <1>4 DEF Reading, Within

-----------------------------------------------------------------------------
(* The call                                                                  *)

\* Two decimal digits are read as what they stand for.
LEMMA DigitsRead == ASSUME NEW n \in Nat PROVE C!bcd(C!Digits(n)) = n
<1>1. PICK a \in Nat, b \in 0..9 : n = 10 * a + b /\ n \div 10 = a /\ n % 10 = b
  OBVIOUS
<1>2. (a * 16 + b) % 16 = b /\ (a * 16 + b) \div 16 = a
  OBVIOUS
<1> QED BY <1>1, <1>2 DEF C!bcd, C!Digits

\* Nothing has been read: the time is what it is.
LEMMA MixNothing == ASSUME NEW i, NEW t \in Times PROVE Mix(i, t, 0) = t
BY DEF Mix, Times

\* Everything has been read.
LEMMA MixAll == ASSUME NEW i \in [Fields -> Nat], NEW t PROVE Mix(i, t, 7) = i
<1>1. i = [r \in Fields |-> i[r]]
  OBVIOUS
<1>2. Mix(i, t, 7) = [seconds |-> i.seconds, minutes |-> i.minutes, hours |-> i.hours,
                      day |-> i.day, month |-> i.month, year |-> i.year]
  BY DEF Mix
<1> QED BY <1>1, <1>2 DEF Fields

\* What a read puts into the info.
LEMMA ReadPuts ==
  ASSUME ClockInv, C!ReadRegister
  PROVE  /\ register \in 0..6 /\ register' = register + 1
         /\ UNCHANGED <<now, entered, calls, tv_sec>>
         /\ register = 0 => info' = [info EXCEPT !.seconds = now.seconds]
         /\ register = 1 => info' = [info EXCEPT !.minutes = now.minutes]
         /\ register = 2 => info' = [info EXCEPT !.hours = now.hours]
         /\ register = 3 => info' = [info EXCEPT !.day = now.day]
         /\ register = 4 => info' = [info EXCEPT !.month = now.month]
         /\ register = 5 => info' = [info EXCEPT !.year = now.year % 100]
         /\ register = 6 => info' = [info EXCEPT !.year = @ + 100 * (now.year \div 100)]
<1>1. /\ register # C!Idle /\ register < Len(C!Registers) /\ register' = register + 1
      /\ UNCHANGED <<now, entered, calls, tv_sec>>
      /\ info' = C!Put(info, C!Registers[register + 1], C!bcd(C!Register(C!Registers[register + 1])))
  BY DEF C!ReadRegister
<1>2. /\ Len(C!Registers) = 7 /\ C!Registers[1] = "seconds" /\ C!Registers[2] = "minutes"
      /\ C!Registers[3] = "hours" /\ C!Registers[4] = "day" /\ C!Registers[5] = "month"
      /\ C!Registers[6] = "year" /\ C!Registers[7] = "century"
  BY DEF C!Registers
<1>3. register \in 0..6
  BY <1>1, <1>2 DEF ClockInv, C!Idle
<1>4. /\ now.seconds \in Nat /\ now.minutes \in Nat /\ now.hours \in Nat /\ now.day \in Nat
      /\ now.month \in Nat /\ now.year \in Nat
  BY DEF ClockInv, Times
<1>5. now.year % 100 \in Nat /\ now.year \div 100 \in Nat
  BY <1>4
<1>6. ASSUME register = 0 PROVE info' = [info EXCEPT !.seconds = now.seconds]
  <2>1. info' = C!Put(info, "seconds", C!bcd(C!Digits(now.seconds)))
    BY <1>1, <1>2, <1>6 DEF C!Register
  <2>2. C!bcd(C!Digits(now.seconds)) = now.seconds
    BY <1>4, DigitsRead
  <2>3. info' = [info EXCEPT !.seconds = now.seconds]
    BY <2>1, <2>2 DEF C!Put
  <2> QED BY <2>3
<1>7. ASSUME register = 1 PROVE info' = [info EXCEPT !.minutes = now.minutes]
  <2>1. info' = C!Put(info, "minutes", C!bcd(C!Digits(now.minutes)))
    BY <1>1, <1>2, <1>7 DEF C!Register
  <2>2. C!bcd(C!Digits(now.minutes)) = now.minutes
    BY <1>4, DigitsRead
  <2>3. info' = [info EXCEPT !.minutes = now.minutes]
    BY <2>1, <2>2 DEF C!Put
  <2> QED BY <2>3
<1>8. ASSUME register = 2 PROVE info' = [info EXCEPT !.hours = now.hours]
  <2>1. info' = C!Put(info, "hours", C!bcd(C!Digits(now.hours)))
    BY <1>1, <1>2, <1>8 DEF C!Register
  <2>2. C!bcd(C!Digits(now.hours)) = now.hours
    BY <1>4, DigitsRead
  <2>3. info' = [info EXCEPT !.hours = now.hours]
    BY <2>1, <2>2 DEF C!Put
  <2> QED BY <2>3
<1>9. ASSUME register = 3 PROVE info' = [info EXCEPT !.day = now.day]
  <2>1. info' = C!Put(info, "day", C!bcd(C!Digits(now.day)))
    BY <1>1, <1>2, <1>9 DEF C!Register
  <2>2. C!bcd(C!Digits(now.day)) = now.day
    BY <1>4, DigitsRead
  <2>3. info' = [info EXCEPT !.day = now.day]
    BY <2>1, <2>2 DEF C!Put
  <2> QED BY <2>3
<1>10. ASSUME register = 4 PROVE info' = [info EXCEPT !.month = now.month]
  <2>1. info' = C!Put(info, "month", C!bcd(C!Digits(now.month)))
    BY <1>1, <1>2, <1>10 DEF C!Register
  <2>2. C!bcd(C!Digits(now.month)) = now.month
    BY <1>4, DigitsRead
  <2>3. info' = [info EXCEPT !.month = now.month]
    BY <2>1, <2>2 DEF C!Put
  <2> QED BY <2>3
<1>11. ASSUME register = 5 PROVE info' = [info EXCEPT !.year = now.year % 100]
  <2>1. info' = C!Put(info, "year", C!bcd(C!Digits(now.year % 100)))
    BY <1>1, <1>2, <1>11 DEF C!Register
  <2>2. C!bcd(C!Digits(now.year % 100)) = now.year % 100
    BY <1>5, DigitsRead
  <2>3. info.year = 0
    BY <1>11 DEF ClockInv, Reading
  <2>4. info' = [info EXCEPT !.year = now.year % 100]
    <3>1. info' = [info EXCEPT !.year = info.year + (now.year % 100)]
      BY <2>1, <2>2 DEF C!Put
    <3>2. info.year + (now.year % 100) = now.year % 100
      BY <1>5, <2>3
    <3> QED BY <3>1, <3>2
  <2> QED BY <2>4
<1>12. ASSUME register = 6 PROVE info' = [info EXCEPT !.year = @ + 100 * (now.year \div 100)]
  <2>1. info' = C!Put(info, "century", C!bcd(C!Digits(now.year \div 100)))
    BY <1>1, <1>2, <1>12 DEF C!Register
  <2>2. info' = [info EXCEPT !.year = @ + (now.year \div 100) * 100]
    <3>1. C!bcd(C!Digits(now.year \div 100)) = now.year \div 100
      BY <1>5, DigitsRead
    <3> QED BY <2>1, <3>1 DEF C!Put
  <2>3. (now.year \div 100) * 100 = 100 * (now.year \div 100)
    BY <1>5
  <2>4. info' = [info EXCEPT !.year = @ + 100 * (now.year \div 100)]
    BY <2>2, <2>3
  <2> QED BY <2>4
<1> QED BY <1>1, <1>3, <1>6, <1>7, <1>8, <1>9, <1>10, <1>11, <1>12

\* Setting a field of an info.
LEMMA PutField ==
  ASSUME NEW i \in [Fields -> Nat], NEW r \in Fields, NEW v \in Nat
  PROVE  LET j == [i EXCEPT ![r] = v] IN
         j \in [Fields -> Nat] /\ \A q \in Fields : j[q] = IF q = r THEN v ELSE i[q]
OBVIOUS

\* Reading a register changes nothing of the time that the reading is completed to.
LEMMA ReadKeeps ==
  ASSUME ClockInv, C!ReadRegister
  PROVE  ClockInv'
<1>1. PICK k \in 0..6 : k = register
  BY ReadPuts
<1>2. register' = k + 1 /\ UNCHANGED <<now, entered, calls, tv_sec>>
  BY <1>1, ReadPuts
<1>3. PICK i \in [Fields -> Nat] : i = info
  BY DEF ClockInv
<1>4. PICK t \in Times : t = now
  BY DEF ClockInv
<1>5. PICK e \in Times : e = entered
  BY DEF ClockInv
<1>6. Reading(i, e, t, k)
  BY <1>1, <1>3, <1>4, <1>5 DEF ClockInv
<1>7. PICK j : j = info'
  OBVIOUS
<1>8. /\ k = 0 => j = [i EXCEPT !.seconds = t.seconds]
      /\ k = 1 => j = [i EXCEPT !.minutes = t.minutes]
      /\ k = 2 => j = [i EXCEPT !.hours = t.hours]
      /\ k = 3 => j = [i EXCEPT !.day = t.day]
      /\ k = 4 => j = [i EXCEPT !.month = t.month]
      /\ k = 5 => j = [i EXCEPT !.year = t.year % 100]
      /\ k = 6 => j = [i EXCEPT !.year = @ + 100 * (t.year \div 100)]
  BY <1>1, <1>3, <1>4, <1>7, ReadPuts
<1>9. /\ t.seconds \in 0..59 /\ t.minutes \in 0..59 /\ t.hours \in 0..23
      /\ t.day \in 1..31 /\ t.month \in 1..12 /\ t.year \in Nat
  BY TimeFields
<1>10. /\ t.year % 100 \in 0..99 /\ t.year \div 100 \in Nat
       /\ (t.year % 100) + 100 * (t.year \div 100) = t.year
  BY <1>9, Centuries
<1>11. \A r \in Fields : i[r] \in Nat
  OBVIOUS
<1>12. /\ j \in [Fields -> Nat] /\ Mix(j, t, k + 1) = Mix(i, t, k)
       /\ j.seconds = (IF k = 0 THEN t.seconds ELSE i.seconds)
       /\ k < 5 => j.year = i.year
       /\ k = 5 => j.year \in 0..99
  <2>1. CASE k = 0
    <3>1. j = [i EXCEPT !["seconds"] = t.seconds] /\ t.seconds \in Nat
      BY <1>8, <1>9, <2>1
    <3>2. j \in [Fields -> Nat] /\ \A q \in Fields : j[q] = IF q = "seconds" THEN t.seconds ELSE i[q]
      BY <3>1, PutField DEF Fields
    <3> QED BY <2>1, <3>2 DEF Fields, Mix
  <2>2. CASE k = 1
    <3>1. j = [i EXCEPT !["minutes"] = t.minutes] /\ t.minutes \in Nat
      BY <1>8, <1>9, <2>2
    <3>2. j \in [Fields -> Nat] /\ \A q \in Fields : j[q] = IF q = "minutes" THEN t.minutes ELSE i[q]
      BY <3>1, PutField DEF Fields
    <3> QED BY <2>2, <3>2 DEF Fields, Mix
  <2>3. CASE k = 2
    <3>1. j = [i EXCEPT !["hours"] = t.hours] /\ t.hours \in Nat
      BY <1>8, <1>9, <2>3
    <3>2. j \in [Fields -> Nat] /\ \A q \in Fields : j[q] = IF q = "hours" THEN t.hours ELSE i[q]
      BY <3>1, PutField DEF Fields
    <3> QED BY <2>3, <3>2 DEF Fields, Mix
  <2>4. CASE k = 3
    <3>1. j = [i EXCEPT !["day"] = t.day] /\ t.day \in Nat
      BY <1>8, <1>9, <2>4
    <3>2. j \in [Fields -> Nat] /\ \A q \in Fields : j[q] = IF q = "day" THEN t.day ELSE i[q]
      BY <3>1, PutField DEF Fields
    <3> QED BY <2>4, <3>2 DEF Fields, Mix
  <2>5. CASE k = 4
    <3>1. j = [i EXCEPT !["month"] = t.month] /\ t.month \in Nat
      BY <1>8, <1>9, <2>5
    <3>2. j \in [Fields -> Nat] /\ \A q \in Fields : j[q] = IF q = "month" THEN t.month ELSE i[q]
      BY <3>1, PutField DEF Fields
    <3> QED BY <2>5, <3>2 DEF Fields, Mix
  <2>6. CASE k = 5
    <3>1. j = [i EXCEPT !["year"] = t.year % 100] /\ t.year % 100 \in Nat
      BY <1>8, <1>10, <2>6
    <3>2. j \in [Fields -> Nat] /\ \A q \in Fields : j[q] = IF q = "year" THEN t.year % 100 ELSE i[q]
      BY <3>1, PutField DEF Fields
    <3> QED BY <1>10, <2>6, <3>2 DEF Fields, Mix
  <2>7. CASE k = 6
    <3>1. PICK z \in Nat : z = i.year + 100 * (t.year \div 100)
      BY <1>10, <1>11 DEF Fields
    <3>2. j = [i EXCEPT !["year"] = z]
      BY <1>8, <2>7, <3>1
    <3>3. j \in [Fields -> Nat] /\ \A q \in Fields : j[q] = IF q = "year" THEN z ELSE i[q]
      BY <3>2, PutField DEF Fields
    <3> QED BY <2>7, <3>1, <3>3 DEF Fields, Mix
  <2> QED BY <2>1, <2>2, <2>3, <2>4, <2>5, <2>6, <2>7
<1>13. Reading(j, e, t, k + 1)
  <2>1. /\ Mix(j, t, k + 1) \in Times /\ C!NotLater(e, Mix(j, t, k + 1))
    BY <1>6, <1>12 DEF Reading
  <2>2. Within(j, e, t, k + 1)
    BY <1>6, <1>9, <1>12 DEF Reading, Within
  <2>3. (k + 1 < 6 => j.year = 0) /\ (k + 1 = 6 => j.year \in 0..99)
    BY <1>6, <1>12 DEF Reading
  <2> QED BY <2>1, <2>2, <2>3 DEF Reading
<1>14. Reading(info', entered', now', register')
  BY <1>2, <1>4, <1>5, <1>7, <1>13
<1>15. register' \in -1..7
  BY <1>2
<1> QED BY <1>2, <1>7, <1>12, <1>14, <1>15 DEF ClockInv

\* The clock goes on.
LEMMA TickKeeps ==
  ASSUME ClockInv, C!Tick
  PROVE  ClockInv'
<1>1. now' = C!After(now) /\ UNCHANGED <<calls, register, info, entered, tv_sec>>
  BY DEF C!Tick
<1>2. now \in Times /\ entered \in Times /\ info \in [Fields -> Nat] /\ register \in -1..7
  BY DEF ClockInv
<1>3. now' \in Times /\ C!NotLater(entered', now')
  <2>1. 0 \in 0..7 /\ Mix(info, now, 0) = now
    BY <1>2, MixNothing
  <2>2. C!After(now) \in Times /\ C!NotLater(Mix(info, now, 0), Mix(info, C!After(now), 0))
    BY <1>2, <2>1, TickMixes
  <2>3. C!NotLater(now, C!After(now))
    BY <2>1, <2>2, MixNothing
  <2> QED BY <1>1, <1>2, <2>2, <2>3, NotLaterTrans DEF ClockInv
<1>4. register >= 0 => Reading(info, entered, C!After(now), register)
  <2>1. register >= 0 => register \in 0..7
    BY <1>2
  <2> QED BY <1>2, <2>1, TickReads DEF ClockInv
<1>5. (register >= 0)' => Reading(info', entered', now', register')
  BY <1>1, <1>4
<1> QED BY <1>1, <1>2, <1>3, <1>5 DEF ClockInv

\* A call begins and ends.
LEMMA CallKeeps ==
  ASSUME ClockInv, C!Call
  PROVE  ClockInv'
<1>1. /\ register' = 0 /\ info' = C!NoInfo /\ entered' = now /\ now' = now /\ calls' = calls + 1
  BY DEF C!Call
<1>2. now \in Times /\ calls \in Nat
  BY DEF ClockInv
<1>3. C!NoInfo \in [Fields -> Nat] /\ C!NoInfo.year = 0
  BY DEF C!NoInfo, Fields
<1>4. C!NotLater(now, now)
  BY <1>2, TimeFields, Ordered DEF InOrder
<1>5. Reading(C!NoInfo, now, now, 0)
  <2>1. Mix(C!NoInfo, now, 0) = now
    BY <1>2, MixNothing
  <2>2. now.seconds <= now.seconds
    BY <1>2, TimeFields
  <2> QED BY <1>2, <1>3, <1>4, <2>1, <2>2 DEF Reading, Within
<1> QED BY <1>1, <1>2, <1>3, <1>4, <1>5 DEF ClockInv

LEMMA ReturnKeeps ==
  ASSUME ClockInv, C!Return
  PROVE  ClockInv'
<1>1. register' = -1 /\ UNCHANGED <<now, calls, info, entered>>
  BY DEF C!Return, C!Idle
<1> QED BY <1>1 DEF ClockInv

\* At first nothing was asked.
LEMMA ClockBegins == ASSUME C!ClockAssumption, C!Init PROVE ClockInv
<1>1. now \in Times /\ entered = now /\ calls = 0 /\ register = -1 /\ info = C!NoInfo
  BY DEF C!Init, C!ClockAssumption, Times, C!Idle
<1>2. C!NoInfo \in [Fields -> Nat]
  BY DEF C!NoInfo, Fields
<1>3. C!NotLater(now, now)
  BY <1>1, TimeFields, Ordered DEF InOrder
<1> QED BY <1>1, <1>2, <1>3 DEF ClockInv

\* The invariant says what was read when a call is over.
LEMMA ClockFollows == ASSUME ClockInv PROVE C!ClockRight
<1>1. ASSUME register = 7 PROVE C!NotLater(entered, info) /\ info \in Times
                                /\ (C!Minute(entered) = C!Minute(now) => C!NotLater(info, now))
  <2>1. Reading(info, entered, now, 7) /\ info \in [Fields -> Nat] /\ now \in Times
    BY <1>1 DEF ClockInv
  <2>2. Mix(info, now, 7) = info
    BY <2>1, MixAll
  <2>3. info \in Times /\ C!NotLater(entered, info)
    BY <2>1, <2>2 DEF Reading
  <2>4. ASSUME C!Minute(entered) = C!Minute(now) PROVE C!NotLater(info, now)
    <3>1. C!Minute(info) = C!Minute(now) /\ info.seconds <= now.seconds
      BY <2>1, <2>2, <2>4 DEF Reading, Within
    <3> QED BY <2>1, <2>3, <3>1, SameMinute, Ordered DEF InOrder
  <2> QED BY <2>3, <2>4
<1>2. C!Whole <=> register = 7
  BY DEF C!Whole, C!Registers
<1>3. C!NotBehind /\ C!ReadInside
  BY <1>1, <1>2 DEF C!NotBehind, C!ReadInside
<1> QED BY <1>3 DEF ClockInv, C!ClockRight

\* For any times and however long a call is kept waiting between two registers: clock_gettime()
\* never reads a time before the call, and reads one within the call when no minute ends in it.
THEOREM ClockIsRight == Spec => []ClockRight
<1> USE LibraryAssumption DEF LibraryAssumption
<1>1. C!Init => ClockInv
  BY ClockBegins
<1>2. ClockInv /\ [C!Next]_(C!vars) => ClockInv'
  <2> SUFFICES ASSUME ClockInv, [C!Next]_(C!vars) PROVE ClockInv'
    OBVIOUS
  <2>1. CASE C!OtherClock \/ UNCHANGED C!vars
    BY <2>1 DEF C!OtherClock, C!vars, ClockInv
  <2> QED BY <2>1, TickKeeps, ReadKeeps, CallKeeps, ReturnKeeps DEF C!Next
<1>3. ClockInv => C!ClockRight
  BY ClockFollows
<1>4. Init => C!Init
  BY DEF Init
<1>5. [Next]_vars => [C!Next]_(C!vars)
  BY DEF Next, vars, clock, C!vars
<1> QED BY <1>1, <1>2, <1>3, <1>4, <1>5, PTL DEF Spec, ClockRight

-----------------------------------------------------------------------------
(* From a path to an open file                                               *)

\* Paths counts as everybody does.
LEMMA PathCount == ASSUME NEW K PROVE P!Cardinality(K) = Cardinality(K)
BY DEF P!Cardinality, Cardinality, P!IsFiniteSet, IsFiniteSet

Letters == Chars \cup {P!Slash}

\* The blocks of memory in use.
Blocks(m) == IsFiniteSet(DOMAIN m) /\ P!Null \notin DOMAIN m
Used(m)   == Cardinality(DOMAIN m)

\* There is always a block that is not in use.
LEMMA UnusedThere ==
  ASSUME NEW m, Blocks(m)
  PROVE  P!Unused(m) \in Nat \ {0} /\ P!Unused(m) \notin DOMAIN m
<1> DEFINE n == Cardinality(DOMAIN m)
<1>1. n \in Nat
  BY FS_CardinalityType DEF Blocks
<1>2. \E b \in 1..n + 1 : b \notin DOMAIN m
  <2> SUFFICES ASSUME 1..n + 1 \subseteq DOMAIN m PROVE FALSE
    OBVIOUS
  <2>1. Cardinality(1..n + 1) = n + 1
    BY <1>1, FS_Interval
  <2>2. Cardinality(1..n + 1) <= n
    BY FS_Subset DEF Blocks
  <2> HIDE DEF n
  <2> QED BY <1>1, <2>1, <2>2
<1>3. P!Unused(m) = CHOOSE b \in 1..n + 1 : b \notin DOMAIN m
  BY PathCount DEF P!Unused
<1> HIDE DEF n
<1>4. P!Unused(m) \in 1..n + 1 /\ P!Unused(m) \notin DOMAIN m
  BY <1>2, <1>3
<1> QED BY <1>1, <1>4

\* A new block, and the others as they were.
LEMMA NewBlock ==
  ASSUME NEW m, Blocks(m), NEW text
  PROVE  LET r == P!New(m, text)
         IN  /\ r.s.str \notin DOMAIN m /\ r.s.str # P!Null /\ r.s.len = Len(text)
             /\ DOMAIN r.mem = DOMAIN m \cup {r.s.str} /\ r.mem[r.s.str] = text
             /\ \A b \in DOMAIN m : r.mem[b] = m[b]
             /\ Blocks(r.mem) /\ Used(r.mem) = Used(m) + 1
<1> DEFINE u == P!Unused(m)
           r == P!New(m, text)
<1>1. u \in Nat \ {0} /\ u \notin DOMAIN m
  BY UnusedThere
<1>2. r.s.str = u /\ r.s.len = Len(text)
  BY DEF P!New
<1>3. DOMAIN r.mem = DOMAIN m \cup {u} /\ r.mem[u] = text /\ \A b \in DOMAIN m : r.mem[b] = m[b]
  BY <1>1 DEF P!New
<1> HIDE DEF u, r
<1>4. IsFiniteSet(DOMAIN m \cup {u}) /\ Cardinality(DOMAIN m \cup {u}) = Cardinality(DOMAIN m) + 1
  BY <1>1, FS_AddElement DEF Blocks
<1>5. Blocks(r.mem) /\ Used(r.mem) = Used(m) + 1
  BY <1>1, <1>3, <1>4 DEF Blocks, Used, P!Null
<1> QED BY <1>1, <1>2, <1>3, <1>5 DEF r, P!Null

\* A block given back.
LEMMA BlockGone ==
  ASSUME NEW m, Blocks(m), NEW s
  PROVE  LET d == P!Destroy(m, s)
         IN  /\ DOMAIN d = DOMAIN m \ {s.str} /\ Blocks(d)
             /\ \A b \in DOMAIN d : d[b] = m[b]
             /\ Used(d) = IF s.str \in DOMAIN m THEN Used(m) - 1 ELSE Used(m)
<1> DEFINE d == P!Destroy(m, s)
<1>1. DOMAIN d = DOMAIN m \ {s.str} /\ \A b \in DOMAIN d : d[b] = m[b]
  BY DEF P!Destroy
<1> HIDE DEF d
<1>2. IsFiniteSet(DOMAIN d)
  BY <1>1, FS_Subset DEF Blocks
<1>3. Used(d) = IF s.str \in DOMAIN m THEN Used(m) - 1 ELSE Used(m)
  <2>1. CASE s.str \in DOMAIN m
    BY <1>1, <2>1, FS_RemoveElement DEF Blocks, Used
  <2>2. CASE s.str \notin DOMAIN m
    <3>1. DOMAIN d = DOMAIN m
      BY <1>1, <2>2
    <3> QED BY <2>2, <3>1 DEF Used
  <2> QED BY <2>1, <2>2
<1> QED BY <1>1, <1>2, <1>3 DEF d, Blocks

\* A part of a text.
LEMMA PartOf ==
  ASSUME NEW S, NEW t \in Seq(S), NEW a \in Nat \ {0}, NEW b \in Nat, a <= b + 1, b <= Len(t)
  PROVE  /\ SubSeq(t, a, b) \in Seq(S) /\ Len(SubSeq(t, a, b)) = b - a + 1
         /\ DOMAIN SubSeq(t, a, b) = 1..b - a + 1
         /\ \A i \in 1..b - a + 1 : SubSeq(t, a, b)[i] = t[a + i - 1]
OBVIOUS

LEMMA WholeText == ASSUME NEW S, NEW t \in Seq(S) PROVE SubSeq(t, 1, Len(t)) = t
OBVIOUS

\* A part of a part.
LEMMA NextPart ==
  ASSUME NEW S, NEW t \in Seq(S), NEW a \in Nat \ {0}, a < Len(t)
  PROVE  SubSeq(SubSeq(t, a, Len(t)), 2, Len(t) - a + 1) = SubSeq(t, a + 1, Len(t))
<1> DEFINE u == SubSeq(t, a, Len(t))
           v == SubSeq(u, 2, Len(t) - a + 1)
           w == SubSeq(t, a + 1, Len(t))
<1>0. Len(t) \in Nat
  OBVIOUS
<1>1. u \in Seq(S) /\ Len(u) = Len(t) - a + 1 /\ \A i \in 1..Len(t) - a + 1 : u[i] = t[a + i - 1]
  BY <1>0, PartOf
<1>2. w \in Seq(S) /\ Len(w) = Len(t) - a /\ \A i \in 1..Len(t) - a : w[i] = t[a + 1 + i - 1]
  BY <1>0, PartOf
<1> HIDE DEF u
<1>3. v \in Seq(S) /\ Len(v) = Len(t) - a /\ \A i \in 1..Len(t) - a : v[i] = u[2 + i - 1]
  <2>1. Len(t) - a + 1 \in Nat /\ Len(t) - a + 1 <= Len(u)
    BY <1>0, <1>1
  <2> QED BY <1>0, <1>1, <2>1, PartOf
<1> HIDE DEF v, w
<1>4. ASSUME NEW i \in 1..Len(t) - a PROVE v[i] = w[i]
  <2>1. i + 1 \in 1..Len(t) - a + 1 /\ 2 + i - 1 = i + 1 /\ a + (i + 1) - 1 = a + 1 + i - 1
    BY <1>0
  <2>2. v[i] = u[i + 1] /\ u[i + 1] = t[a + (i + 1) - 1] /\ w[i] = t[a + 1 + i - 1]
    BY <1>1, <1>2, <1>3, <2>1
  <2> QED BY <2>1, <2>2
<1>5. v = w
  <2> DEFINE n == Len(t) - a
  <2>1. DOMAIN v = 1..n /\ DOMAIN w = 1..n
    BY <1>2, <1>3
  <2>2. v = [i \in 1..n |-> v[i]] /\ w = [i \in 1..n |-> w[i]]
    BY <1>2, <1>3, <2>1
  <2> QED BY <1>4, <2>2
<1> QED BY <1>5 DEF u, v, w

LEMMA SlashRun ==
  ASSUME NEW S, NEW t \in Seq(S), NEW a \in Nat \ {0}, NEW b \in Nat, b <= Len(t)
  PROVE  P!Slashes(SubSeq(t, a, b)) <=> \A i \in a..b : t[i] = P!Slash
<1>1. CASE a <= b + 1
  <2> DEFINE u == SubSeq(t, a, b)
  <2>1. DOMAIN u = 1..b - a + 1 /\ \A i \in 1..b - a + 1 : u[i] = t[a + i - 1]
    BY <1>1, PartOf
  <2> HIDE DEF u
  <2>2. ASSUME \A i \in DOMAIN u : u[i] = P!Slash, NEW i \in a..b PROVE t[i] = P!Slash
    <3>1. i - a + 1 \in 1..b - a + 1 /\ a + (i - a + 1) - 1 = i
      OBVIOUS
    <3> QED BY <2>1, <2>2, <3>1
  <2>3. ASSUME \A i \in a..b : t[i] = P!Slash, NEW i \in DOMAIN u PROVE u[i] = P!Slash
    <3>1. i \in 1..b - a + 1
      BY <2>1
    <3>2. a + i - 1 \in a..b
      BY <3>1
    <3> QED BY <2>1, <2>3, <3>1, <3>2
  <2> QED BY <2>2, <2>3 DEF P!Slashes, u
<1>2. CASE ~(a <= b + 1)
  <2>1. SubSeq(t, a, b) = <<>> /\ a..b = {}
    BY <1>2
  <2> QED BY <2>1 DEF P!Slashes
<1> QED BY <1>1, <1>2

-----------------------------------------------------------------------------
\* Where the name begins.
Begin == Len(fs) + 2
Short == Len(path) < Begin

\* What is left of the path once k slashes are gone.
Rest(k) == SubSeq(path, Begin + k, Len(path))
Slashed(k) == /\ k \in Nat /\ Begin + k <= Len(path)
              /\ \A i \in Begin..Begin + k - 1 : path[i] = P!Slash
Bare == \A i \in Begin..Len(path) : path[i] = P!Slash

Holds(s, text) == s.str \in DOMAIN mem /\ mem[s.str] = text /\ s.len = Len(text)

Under == {"basedir", "copy", "strip", "open"}

\* What a call has in memory between two of its steps.
StepInv ==
  /\ at = "basedir" => Used(mem) = Len(mounts)
  /\ at = "copy" => \/ name.str = P!Null /\ Short /\ Used(mem) = Len(mounts)
                    \/ Holds(name, Rest(0)) /\ ~Short /\ Used(mem) = Len(mounts) + 1
  /\ at = "strip" =>
       \/ name.str = P!Null /\ res = P!NullString(P!Junk) /\ Short /\ Used(mem) = Len(mounts)
       \/ /\ name.str \in DOMAIN mem /\ res.str # name.str
          /\ \E k \in Nat : Slashed(k) /\ Holds(res, Rest(k)) /\ Used(mem) = Len(mounts) + 2 + k
       \/ res.str = P!Null /\ res.len \in Nat \ {0} /\ Bare
  /\ at = "open" =>
       \/ res = P!NullString(0) /\ Short /\ Used(mem) = Len(mounts)
       \/ \E k \in Nat : /\ Slashed(k) /\ path[Begin + k] # P!Slash
                         /\ Holds(res, Rest(k)) /\ Used(mem) = Len(mounts) + 1 + k

PathInv ==
  /\ mounts \in {<<>>, <<Dev>>, <<Dev, Ustar>>} /\ Blocks(mem) /\ path \in Seq(Letters)
  /\ at \in {"idle", "done"} \cup Under
  /\ at = "idle" => opened = "none" /\ fs = <<>> /\ Used(mem) = Len(mounts)
  /\ at \in Under => opened = "none" /\ fs \in {Dev, Ustar} /\ P!startsWith(path, fs)
  /\ StepInv
  /\ at = "done" => P!OpenRight

\* The numbers of the invariant are numbers.
LEMMA PathNumbers ==
  ASSUME P!PathsAssumption, PathInv
  PROVE  /\ Len(path) \in Nat /\ Used(mem) \in Nat /\ Len(mounts) \in Nat
         /\ at \in Under => Len(fs) \in Nat /\ Begin \in Nat \ {0} /\ fs \in Seq(Letters) /\ fs # <<>>
<1>1. Used(mem) \in Nat
  BY FS_CardinalityType DEF PathInv, Blocks, Used
<1>2. at \in Under => fs \in Seq(Letters) /\ fs # <<>>
  BY DEF PathInv, P!PathsAssumption, Letters
<1>3. Len(path) \in Nat
  BY DEF PathInv
<1>4. Len(mounts) \in Nat
  BY DEF PathInv
<1>5. at \in Under => Len(fs) \in Nat
  BY <1>2
<1> QED BY <1>1, <1>2, <1>3, <1>4, <1>5 DEF Begin

\* The slashes that are taken away.
LEMMA RemovedAre ==
  ASSUME path \in Seq(Letters), Len(fs) \in Nat
  PROVE  /\ Short => P!Removed = 0
         /\ \A k \in Nat : Slashed(k) /\ path[Begin + k] # P!Slash => P!Removed = k
<1> DEFINE R == {i \in Begin..Len(path) : P!Slashes(SubSeq(path, Begin, i))}
<1>0. Begin \in Nat \ {0} /\ Len(path) \in Nat
  BY DEF Begin
<1>1. P!Removed = Cardinality(R)
  BY PathCount DEF P!Removed, Begin
<1>2. R = {i \in Begin..Len(path) : \A j \in Begin..i : path[j] = P!Slash}
  <2>1. \A i \in Begin..Len(path) : P!Slashes(SubSeq(path, Begin, i)) <=> \A j \in Begin..i : path[j] = P!Slash
    <3> SUFFICES ASSUME NEW i \in Begin..Len(path)
                 PROVE  P!Slashes(SubSeq(path, Begin, i)) <=> \A j \in Begin..i : path[j] = P!Slash
      OBVIOUS
    <3>1. i \in Nat /\ i <= Len(path)
      BY <1>0
    <3> QED BY <1>0, <3>1, SlashRun
  <2> QED BY <2>1
<1> HIDE DEF R
<1>3. ASSUME Short PROVE P!Removed = 0
  <2>1. R = {}
    BY <1>0, <1>2, <1>3 DEF Short
  <2> QED BY <1>1, <2>1, FS_EmptySet
<1>4. ASSUME NEW k \in Nat, Slashed(k), path[Begin + k] # P!Slash PROVE P!Removed = k
  <2>1. Begin + k <= Len(path) /\ \A i \in Begin..Begin + k - 1 : path[i] = P!Slash
    BY <1>4 DEF Slashed
  <2>2. \A i \in R : i \in Begin..Begin + k - 1
    <3> SUFFICES ASSUME NEW i \in R, i >= Begin + k PROVE FALSE
      BY <1>0, <1>2
    <3>1. Begin + k \in Begin..i
      BY <1>0, <1>2
    <3> QED BY <1>2, <1>4, <3>1
  <2>3. \A i \in Begin..Begin + k - 1 : i \in R
    <3> SUFFICES ASSUME NEW i \in Begin..Begin + k - 1 PROVE i \in R
      OBVIOUS
    <3>1. i \in Begin..Len(path) /\ \A j \in Begin..i : j \in Begin..Begin + k - 1
      BY <1>0, <2>1
    <3> QED BY <1>2, <2>1, <3>1
  <2>4. R = Begin..Begin + k - 1
    BY <2>2, <2>3
  <2>5. Cardinality(Begin..Begin + k - 1) = k
    BY <1>0, FS_Interval
  <2> QED BY <1>1, <2>4, <2>5
<1> QED BY <1>3, <1>4

\* A path that means a name begins with the mount point.
LEMMA MeansBegins ==
  ASSUME NEW S, NEW p \in Seq(S), NEW m, Len(m) \in Nat, NEW n, P!Means(p, m, n)
  PROVE  P!startsWith(p, m)
BY DEF P!Means, P!startsWith

\* VFS::mount() and access().
LEMMA AccessStep ==
  ASSUME P!PathsAssumption, PathInv, (\E p \in {Dev, Ustar} : P!Mount(p)) \/ (\E p \in P!Paths : P!Access(p))
  PROVE  PathInv'
<1>1. at = "idle" /\ opened = "none" /\ fs = <<>> /\ Used(mem) = Len(mounts) /\ Blocks(mem)
      /\ path \in Seq(Letters) /\ mounts \in {<<>>, <<Dev>>, <<Dev, Ustar>>}
  BY DEF PathInv, P!Mount, P!Access
<1>2. CASE \E p \in {Dev, Ustar} : P!Mount(p)
  <2>1. PICK p \in {Dev, Ustar} : P!Mount(p)
    BY <1>2
  <2>2. /\ (mounts = <<>> /\ p = Dev) \/ (mounts = <<Dev>> /\ p = Ustar)
        /\ mounts' = Append(mounts, p) /\ mem' = P!New(mem, p).mem
        /\ at' = at /\ opened' = opened /\ fs' = fs /\ path' = path
    BY <2>1 DEF P!Mount
  <2>3. mounts' \in {<<>>, <<Dev>>, <<Dev, Ustar>>} /\ Len(mounts') = Len(mounts) + 1
    <3>1. CASE mounts = <<>> /\ p = Dev
      <4>1. mounts' = <<Dev>>
        BY <2>2, <3>1
      <4> QED BY <3>1, <4>1
    <3>2. CASE mounts = <<Dev>> /\ p = Ustar
      <4>1. mounts' = Append(<<Dev>>, Ustar)
        <5>1. p = Ustar /\ mounts = <<Dev>>
          BY <3>2
        <5>2. mounts' = Append(mounts, p)
          BY <2>2
        <5> QED BY <5>1, <5>2
      <4>2. Append(<<Dev>>, Ustar) = <<Dev, Ustar>> /\ Len(<<Dev>>) = 1 /\ Len(<<Dev, Ustar>>) = 2
        <5> DEFINE one == <<Dev>>
                   two == <<Dev, Ustar>>
                   app == Append(one, Ustar)
        <5>1. one \in Seq({Dev, Ustar}) /\ Len(one) = 1 /\ one[1] = Dev
          OBVIOUS
        <5>2. two \in Seq({Dev, Ustar}) /\ Len(two) = 2 /\ two[1] = Dev /\ two[2] = Ustar
          OBVIOUS
        <5> HIDE DEF one, two
        <5>3. app \in Seq({Dev, Ustar}) /\ Len(app) = 2 /\ app[1] = Dev /\ app[2] = Ustar
          <6>1. Ustar \in {Dev, Ustar} /\ one \in Seq({Dev, Ustar})
            BY <5>1
          <6> DEFINE S == {Dev, Ustar}
          <6> HIDE DEF S
          <6>2. /\ Append(one, Ustar) \in Seq(S) /\ Len(Append(one, Ustar)) = Len(one) + 1
                /\ \A i \in 1..Len(one) : Append(one, Ustar)[i] = one[i]
                /\ Append(one, Ustar)[Len(one) + 1] = Ustar
            BY <6>1, AppendProperties DEF S
          <6> QED BY <5>1, <6>2 DEF S
        <5> HIDE DEF app
        <5>4. app = two
          <6>1. \A i \in 1..2 : app[i] = two[i]
            BY <5>2, <5>3
          <6>2. app = [i \in 1..2 |-> app[i]] /\ two = [i \in 1..2 |-> two[i]]
            BY <5>2, <5>3
          <6> QED BY <6>1, <6>2
        <5> QED BY <5>1, <5>2, <5>4 DEF one, two, app
      <4> QED BY <3>2, <4>1, <4>2
    <3> QED BY <2>2, <3>1, <3>2
  <2>4. Blocks(mem') /\ Used(mem') = Used(mem) + 1
    BY <1>1, <2>2, NewBlock
  <2> QED BY <1>1, <2>2, <2>3, <2>4 DEF PathInv, StepInv, Under
<1>3. CASE \E p \in P!Paths : P!Access(p)
  <2>1. PICK p \in P!Paths : P!Access(p)
    BY <1>3
  <2> DEFINE hits == {i \in DOMAIN mounts : P!startsWith(p, mounts[i])}
  <2>2. /\ path' = p /\ UNCHANGED <<mounts, mem, name, res>>
        /\ \/ hits = {} /\ at' = "done" /\ opened' = "failed" /\ fs' = fs
           \/ /\ hits # {} /\ fs' = mounts[CHOOSE i \in hits : \A j \in hits : i <= j]
              /\ at' = "basedir" /\ opened' = opened
    BY <2>1 DEF P!Access
  <2>3. path' \in Seq(Letters)
    <3>1. PICK n \in 0..MaxLen : p \in [1..n -> Letters]
      BY DEF P!Paths, Letters
    <3>2. n \in Nat
      <4>1. MaxLen \in Nat
        BY DEF P!PathsAssumption
      <4> QED BY <3>1, <4>1
    <3> QED BY <2>2, <3>1, <3>2
  <2>4. \A i \in DOMAIN mounts : i \in {1, 2} /\ mounts[i] \in {Dev, Ustar}
    BY <1>1
  <2>5. CASE hits # {}
    <3>1. \E i \in hits : \A j \in hits : i <= j
      <4>1. CASE 1 \in hits
        <5>1. \A j \in hits : 1 <= j
          BY <2>4
        <5> QED BY <4>1, <5>1
      <4>2. CASE 1 \notin hits
        <5>1. \A j \in hits : j = 2
          BY <2>4, <4>2
        <5> QED BY <2>5, <5>1
      <4> QED BY <4>1, <4>2
    <3> DEFINE first == CHOOSE i \in hits : \A j \in hits : i <= j
    <3>2. first \in hits
      BY <3>1
    <3>3. fs' = mounts[first] /\ at' = "basedir" /\ opened' = opened
      BY <2>2, <2>5
    <3> HIDE DEF first
    <3>4. fs' \in {Dev, Ustar} /\ P!startsWith(p, fs')
      BY <2>4, <3>2, <3>3
    <3>5. P!startsWith(path, fs)'
      BY <2>2, <3>4 DEF P!startsWith
    <3> QED BY <1>1, <2>2, <2>3, <3>3, <3>4, <3>5 DEF PathInv, StepInv, Under
  <2>6. CASE hits = {}
    <3>1. at' = "done" /\ opened' = "failed" /\ fs' = <<>>
      BY <1>1, <2>2, <2>6
    <3>2. P!OpensNamed'
      <4>1. fs' # Ustar
        BY <3>1 DEF P!PathsAssumption
      <4>2. ASSUME NEW i \in DOMAIN mounts', NEW n \in Files[mounts'[i]] PROVE ~P!Means(path', mounts'[i], n)
        <5>1. i \in DOMAIN mounts /\ mounts' = mounts
          BY <2>2
        <5>2. ~P!startsWith(p, mounts[i])
          BY <2>6, <5>1
        <5>3. Len(mounts[i]) \in Nat
          <6>1. mounts[i] \in Seq(Letters)
            BY <2>4, <5>1 DEF P!PathsAssumption, Letters
          <6> QED BY <6>1
        <5> QED BY <2>2, <2>3, <5>1, <5>2, <5>3, MeansBegins
      <4> QED BY <3>1, <4>1, <4>2 DEF P!OpensNamed
    <3>3. P!UndefinedOnlyEmpty'
      BY <3>1 DEF P!UndefinedOnlyEmpty
    <3>4. P!LeaksPerSlash'
      <4>1. P!Cardinality(DOMAIN mem') = Len(mounts')
        BY <1>1, <2>2, PathCount DEF Used
      <4>2. Len(mounts) \in Nat
        BY PathNumbers
      <4> QED BY <2>2, <3>1, <4>1, <4>2 DEF P!LeaksPerSlash
    <3> QED BY <1>1, <2>2, <2>3, <3>1, <3>2, <3>3, <3>4 DEF PathInv, StepInv, Under, P!OpenRight
  <2> QED BY <2>5, <2>6
<1> QED BY <1>2, <1>3

\* basedir()
LEMMA BasedirStep ==
  ASSUME P!PathsAssumption, PathInv, P!Basedir
  PROVE  PathInv'
<1>1. /\ at = "basedir" /\ at' = "copy" /\ UNCHANGED <<mounts, path, fs, res, opened>>
      /\ Used(mem) = Len(mounts) /\ Blocks(mem)
  BY DEF P!Basedir, PathInv, StepInv
<1>2. Len(path) \in Nat /\ Used(mem) \in Nat /\ Begin \in Nat \ {0} /\ Begin = Len(fs) + 2 /\ path \in Seq(Letters)
      /\ Len(fs) \in Nat
  BY <1>1, PathNumbers DEF Under, Begin, PathInv
<1> DEFINE file == P!New(mem, path)
           r    == P!right(file.mem, file.s, Len(fs) + 1)
<1>3. name' = r.s /\ mem' = P!Destroy(r.mem, file.s)
  BY DEF P!Basedir
<1>4. /\ file.s.str \notin DOMAIN mem /\ file.s.len = Len(path) /\ file.s.str # P!Null
      /\ DOMAIN file.mem = DOMAIN mem \cup {file.s.str} /\ file.mem[file.s.str] = path
      /\ Blocks(file.mem) /\ Used(file.mem) = Used(mem) + 1
  BY <1>1, NewBlock
<1> HIDE DEF file
<1>5. CASE Short
  <2>1. r.mem = file.mem /\ r.s = P!NullString(0)
    BY <1>2, <1>4, <1>5 DEF P!right, Short
  <2>2. mem' = P!Destroy(file.mem, file.s) /\ name' = P!NullString(0)
    BY <1>3, <2>1
  <2> HIDE DEF r
  <2>4. Blocks(mem') /\ Used(mem') = Used(file.mem) - 1
    BY <1>4, <2>2, BlockGone
  <2>3. name'.str = P!Null /\ Short' /\ Used(mem') = Len(mounts')
    BY <1>1, <1>2, <1>4, <1>5, <2>2, <2>4 DEF P!NullString, Short, Begin
  <2> QED BY <1>1, <2>4, <2>3 DEF PathInv, StepInv, Under, P!startsWith
<1>6. CASE ~Short
  <2>1. r = P!New(file.mem, Rest(0))
    <3>1. ~(Len(fs) + 1 >= file.s.len)
      BY <1>2, <1>4, <1>6 DEF Short
    <3>2. (Len(fs) + 1) + 1 = Begin + 0
      BY <1>2
    <3> QED BY <1>4, <3>1, <3>2 DEF P!right, Rest
  <2>2. /\ r.s.str \notin DOMAIN file.mem /\ r.s.str # P!Null /\ r.s.len = Len(Rest(0))
        /\ DOMAIN r.mem = DOMAIN file.mem \cup {r.s.str} /\ r.mem[r.s.str] = Rest(0)
        /\ Blocks(r.mem) /\ Used(r.mem) = Used(file.mem) + 1
    BY <1>4, <2>1, NewBlock
  <2> HIDE DEF r
  <2>3. /\ Blocks(mem') /\ Used(mem') = Used(r.mem) - 1 /\ DOMAIN mem' = DOMAIN r.mem \ {file.s.str}
        /\ \A b \in DOMAIN mem' : mem'[b] = r.mem[b]
    BY <1>3, <1>4, <2>2, BlockGone
  <2>4. Rest(0)' = Rest(0) /\ Short' = Short
    BY <1>1 DEF Rest, Begin, Short
  <2>5. Holds(name, Rest(0))'
    BY <1>3, <1>4, <2>2, <2>3, <2>4 DEF Holds
  <2>6. Used(mem') = Len(mounts') + 1
    BY <1>1, <1>2, <1>4, <2>2, <2>3
  <2> QED BY <1>1, <1>6, <2>3, <2>4, <2>5, <2>6 DEF PathInv, StepInv, Under, P!startsWith
<1> QED BY <1>5, <1>6

\* The copy that stripslash() makes.
LEMMA StripCopyStep ==
  ASSUME P!PathsAssumption, PathInv, P!StripCopy
  PROVE  PathInv'
<1>1. /\ at = "copy" /\ at' = "strip" /\ UNCHANGED <<mounts, path, fs, name, opened>> /\ Blocks(mem)
  BY DEF P!StripCopy, PathInv
<1>2. Len(path) \in Nat /\ Used(mem) \in Nat /\ Begin \in Nat \ {0} /\ path \in Seq(Letters) /\ Len(mounts) \in Nat
  BY <1>1, PathNumbers DEF Under, PathInv
<1> DEFINE r == P!CopyOf(mem, name)
<1>3. mem' = r.mem /\ res' = r.s
  BY DEF P!StripCopy
<1>4. CASE name.str = P!Null /\ Short /\ Used(mem) = Len(mounts)
  <2>1. mem' = mem /\ res' = P!NullString(P!Junk)
    BY <1>3, <1>4 DEF P!CopyOf, P!InitFrom
  <2> QED BY <1>1, <1>4, <2>1 DEF PathInv, StepInv, Under, P!startsWith, Short, Begin, P!NullString
<1>5. CASE Holds(name, Rest(0)) /\ ~Short /\ Used(mem) = Len(mounts) + 1
  <2>1. name.str \in DOMAIN mem /\ mem[name.str] = Rest(0) /\ name.len = Len(Rest(0)) /\ name.str # P!Null
    BY <1>1, <1>5 DEF Holds, Blocks
  <2>2. Rest(0) \in Seq(Letters)
    <3>1. Begin + 0 <= Len(path) + 1 /\ Begin + 0 \in Nat \ {0}
      BY <1>2, <1>5 DEF Short
    <3> QED BY <1>2, <3>1, PartOf DEF Rest
  <2>3. r = P!New(mem, Rest(0))
    <3>1. SubSeq(Rest(0), 1, Len(Rest(0))) = Rest(0)
      BY <2>2, WholeText
    <3> QED BY <2>1, <3>1 DEF P!CopyOf, P!InitFrom
  <2>4. /\ r.s.str \notin DOMAIN mem /\ r.s.len = Len(Rest(0))
        /\ DOMAIN r.mem = DOMAIN mem \cup {r.s.str} /\ r.mem[r.s.str] = Rest(0)
        /\ Blocks(r.mem) /\ Used(r.mem) = Used(mem) + 1
    BY <1>1, <2>3, NewBlock
  <2> HIDE DEF r
  <2>5. /\ Rest(0)' = Rest(0) /\ (Slashed(0)' <=> Slashed(0))
    BY <1>1 DEF Rest, Begin, Slashed
  <2>6. Slashed(0)
    BY <1>2, <1>5 DEF Slashed, Short
  <2>7. Holds(res, Rest(0))'
    BY <1>3, <2>4, <2>5 DEF Holds
  <2>8. name'.str \in DOMAIN mem' /\ res'.str # name'.str /\ Used(mem') = Len(mounts') + 2 + 0
    BY <1>1, <1>2, <1>3, <1>5, <2>1, <2>4
  <2>9. StepInv'
    BY <1>1, <2>5, <2>6, <2>7, <2>8 DEF StepInv
  <2> QED BY <1>1, <1>3, <2>4, <2>9 DEF PathInv, Under, P!startsWith
<1> QED BY <1>1, <1>4, <1>5 DEF PathInv, StepInv

\* What is at the beginning of the String, in the three cases of StepInv.
LEMMA FirstIs ==
  ASSUME P!PathsAssumption, PathInv, at = "strip"
  PROVE  /\ res = P!NullString(P!Junk) => P!First(mem, res) = {P!Nul, "null read"}
         /\ res.str = P!Null /\ res.len \in Nat \ {0} => P!First(mem, res) = {"null read"}
         /\ \A k \in Nat : Slashed(k) /\ Holds(res, Rest(k)) =>
              /\ P!First(mem, res) = {path[Begin + k]} /\ path[Begin + k] \in Letters
              /\ Rest(k) \in Seq(Letters) /\ Len(Rest(k)) = Len(path) - (Begin + k) + 1
<1>1. Len(path) \in Nat /\ Begin \in Nat \ {0} /\ path \in Seq(Letters) /\ Blocks(mem)
  BY PathNumbers DEF Under, PathInv
<1>2. ASSUME res = P!NullString(P!Junk) PROVE P!First(mem, res) = {P!Nul, "null read"}
  <2>1. res.len = -1 /\ ~(res.len = 0)
    BY <1>2 DEF P!NullString, P!Junk
  <2> QED BY <2>1 DEF P!First, P!Junk
<1>3. ASSUME res.str = P!Null, res.len \in Nat \ {0} PROVE P!First(mem, res) = {"null read"}
  <2>1. res.len > 0 /\ res.len # 0 /\ res.len # P!Junk
    BY <1>3 DEF P!Junk
  <2> QED BY <1>3, <2>1 DEF P!First
<1>4. ASSUME NEW k \in Nat, Slashed(k), Holds(res, Rest(k))
      PROVE  /\ P!First(mem, res) = {path[Begin + k]} /\ path[Begin + k] \in Letters
             /\ Rest(k) \in Seq(Letters) /\ Len(Rest(k)) = Len(path) - (Begin + k) + 1
  <2> DEFINE a == Begin + k
             n == Len(path) - a + 1
  <2>1. a \in Nat \ {0} /\ a <= Len(path) /\ n \in Nat \ {0}
    BY <1>1, <1>4 DEF Slashed
  <2>2. Rest(k) \in Seq(Letters) /\ Len(Rest(k)) = n /\ \A i \in 1..n : Rest(k)[i] = path[a + i - 1]
    <3>1. a <= Len(path) + 1
      BY <1>1, <2>1
    <3>2. Rest(k) = SubSeq(path, a, Len(path))
      BY DEF Rest
    <3> HIDE DEF a
    <3> QED BY <1>1, <2>1, <3>1, <3>2, PartOf
  <2>3. Rest(k)[1] = path[a]
    <3>1. 1 \in 1..n /\ a + 1 - 1 = a
      BY <2>1
    <3> QED BY <2>2, <3>1
  <2>4. path[a] \in Letters
    BY <1>1, <2>1
  <2>5. res.str # P!Null /\ mem[res.str] = Rest(k) /\ res.len = n
    BY <1>1, <1>4, <2>2 DEF Holds, Blocks, PathInv
  <2>7. n # 0 /\ n # P!Junk /\ n > 0
    BY <2>1 DEF P!Junk
  <2> HIDE DEF a, n
  <2>6. P!First(mem, res) = {mem[res.str][1]}
    BY <2>5, <2>7 DEF P!First
  <2> QED BY <2>2, <2>3, <2>4, <2>5, <2>6 DEF a, n
<1> QED BY <1>2, <1>3, <1>4

\* One slash goes.
LEMMA StripSlashStep ==
  ASSUME P!PathsAssumption, PathInv, P!StripSlash
  PROVE  PathInv'
<1>1. /\ at = "strip" /\ at' = "strip" /\ UNCHANGED <<mounts, path, fs, name, opened>> /\ Blocks(mem)
      /\ P!Slash \in P!First(mem, res)
  BY DEF P!StripSlash, PathInv
<1>2. Len(path) \in Nat /\ Used(mem) \in Nat /\ Begin \in Nat \ {0} /\ path \in Seq(Letters) /\ Len(mounts) \in Nat
  BY <1>1, PathNumbers DEF Under, PathInv
<1> DEFINE t == P!right(mem, res, 1)
           r == P!Assign(t.mem, res, t.s)
<1>3. res' = r.s /\ mem' = P!Destroy(r.mem, t.s)
  BY DEF P!StripSlash
<1>4. P!Slash # P!Nul /\ P!Slash # "null read"
  BY DEF P!Slash, P!Nul
<1>5. /\ name.str \in DOMAIN mem /\ res.str # name.str
      /\ \E k \in Nat : Slashed(k) /\ Holds(res, Rest(k)) /\ Used(mem) = Len(mounts) + 2 + k
  BY <1>1, <1>4, FirstIs DEF PathInv, StepInv
<1>6. PICK k \in Nat : Slashed(k) /\ Holds(res, Rest(k)) /\ Used(mem) = Len(mounts) + 2 + k
  BY <1>5
<1> DEFINE a == Begin + k
<1>7. /\ path[a] = P!Slash /\ Rest(k) \in Seq(Letters) /\ Len(Rest(k)) = Len(path) - a + 1
  <2>1. /\ P!First(mem, res) = {path[Begin + k]} /\ Rest(k) \in Seq(Letters)
        /\ Len(Rest(k)) = Len(path) - (Begin + k) + 1
    BY <1>1, <1>6, FirstIs
  <2> QED BY <1>1, <2>1
<1>8. a \in Nat \ {0} /\ a <= Len(path) /\ \A i \in Begin..a - 1 : path[i] = P!Slash
  BY <1>2, <1>6 DEF Slashed
<1>9. res.str \in DOMAIN mem /\ mem[res.str] = Rest(k) /\ res.len = Len(path) - a + 1 /\ res.str # P!Null
  BY <1>1, <1>6, <1>7 DEF Holds, Blocks
<1>10. \A i \in Begin..a : path[i] = P!Slash
  BY <1>2, <1>7, <1>8
<1> HIDE DEF a
<1>11. CASE a = Len(path)
  <2>1. t.mem = mem /\ t.s = P!NullString(0)
    BY <1>2, <1>9, <1>11 DEF P!right
  <2> HIDE DEF t
  <2>2. r.mem = mem /\ r.s = P!NullString(res.len)
    BY <2>1 DEF P!Assign, P!InitFrom, P!NullString
  <2> HIDE DEF r
  <2>3. res'.str = P!Null /\ res'.len = 1
    BY <1>2, <1>3, <1>9, <1>11, <2>2 DEF P!NullString
  <2>4. Blocks(mem')
    BY <1>1, <1>3, <2>2, BlockGone
  <2>5. Bare'
    BY <1>1, <1>10, <1>11 DEF Bare, Begin
  <2> QED BY <1>1, <2>3, <2>4, <2>5 DEF PathInv, StepInv, Under, P!startsWith
<1>12. CASE a # Len(path)
  <2>0. a < Len(path)
    BY <1>2, <1>8, <1>12
  <2>1. SubSeq(Rest(k), 2, Len(path) - a + 1) = Rest(k + 1)
    <3>1. Begin + (k + 1) = a + 1
      BY <1>2 DEF a
    <3>2. Rest(k) = SubSeq(path, a, Len(path)) /\ Rest(k + 1) = SubSeq(path, a + 1, Len(path))
      BY <3>1 DEF Rest, a
    <3> QED BY <1>2, <1>8, <2>0, <3>2, NextPart
  <2>2. Rest(k + 1) \in Seq(Letters)
    <3>1. Begin + (k + 1) \in Nat \ {0} /\ Begin + (k + 1) <= Len(path) + 1
      BY <1>2, <2>0 DEF a
    <3> QED BY <1>2, <3>1, PartOf DEF Rest
  <2>3. t = P!New(mem, Rest(k + 1))
    <3>1. ~(1 >= res.len) /\ 1 + 1 = 2
      BY <1>2, <1>8, <1>9, <2>0
    <3> QED BY <1>9, <2>1, <3>1 DEF P!right
  <2>4. /\ t.s.str \notin DOMAIN mem /\ t.s.str # P!Null /\ t.s.len = Len(Rest(k + 1))
        /\ DOMAIN t.mem = DOMAIN mem \cup {t.s.str} /\ t.mem[t.s.str] = Rest(k + 1)
        /\ Blocks(t.mem) /\ Used(t.mem) = Used(mem) + 1
    BY <1>1, <2>3, NewBlock
  <2> HIDE DEF t
  <2>5. r = P!New(t.mem, Rest(k + 1))
    <3>1. SubSeq(Rest(k + 1), 1, Len(Rest(k + 1))) = Rest(k + 1)
      BY <2>2, WholeText
    <3> QED BY <2>4, <3>1 DEF P!Assign, P!InitFrom
  <2>6. /\ r.s.str \notin DOMAIN t.mem /\ r.s.len = Len(Rest(k + 1))
        /\ DOMAIN r.mem = DOMAIN t.mem \cup {r.s.str} /\ r.mem[r.s.str] = Rest(k + 1)
        /\ Blocks(r.mem) /\ Used(r.mem) = Used(t.mem) + 1
    BY <2>4, <2>5, NewBlock
  <2> HIDE DEF r
  <2>7. /\ Blocks(mem') /\ Used(mem') = Used(r.mem) - 1 /\ DOMAIN mem' = DOMAIN r.mem \ {t.s.str}
        /\ \A b \in DOMAIN mem' : mem'[b] = r.mem[b]
    BY <1>3, <2>4, <2>6, BlockGone
  <2>8. Rest(k + 1)' = Rest(k + 1)
    BY <1>1 DEF Rest, Begin
  <2>9. Holds(res, Rest(k + 1))'
    BY <1>3, <2>4, <2>6, <2>7, <2>8 DEF Holds
  <2>10. Slashed(k + 1)'
    <3>1. Slashed(k + 1)
      <4>1. Begin + (k + 1) = a + 1 /\ (a + 1) - 1 = a
        BY <1>2, <1>8 DEF a
      <4> QED BY <1>2, <1>8, <1>10, <2>0, <4>1 DEF Slashed
    <3> QED BY <1>1, <3>1 DEF Slashed, Begin
  <2>11. Used(mem') = Len(mounts') + 2 + (k + 1)
    BY <1>1, <1>2, <1>6, <2>4, <2>6, <2>7
  <2>12. name'.str \in DOMAIN mem' /\ res'.str # name'.str
    BY <1>1, <1>3, <1>5, <2>4, <2>6, <2>7
  <2>13. StepInv'
    <3>1. k + 1 \in Nat
      OBVIOUS
    <3> QED BY <1>1, <2>9, <2>10, <2>11, <2>12, <3>1 DEF StepInv
  <2> QED BY <1>1, <2>7, <2>13 DEF PathInv, Under, P!startsWith
<1> QED BY <1>11, <1>12

\* There are no more.
LEMMA StripEndStep ==
  ASSUME P!PathsAssumption, PathInv, P!StripEnd
  PROVE  PathInv'
<1>1. /\ at = "strip" /\ at' = "open" /\ UNCHANGED <<mounts, path, fs, name, opened>> /\ Blocks(mem)
      /\ \E c \in P!First(mem, res) : c \notin {P!Slash, "null read"}
      /\ mem' = P!Destroy(mem, name)
      /\ res' = IF res.len = P!Junk THEN P!NullString(0) ELSE res
  BY DEF P!StripEnd, PathInv
<1>2. Len(path) \in Nat /\ Used(mem) \in Nat /\ Begin \in Nat \ {0} /\ path \in Seq(Letters) /\ Len(mounts) \in Nat
  BY <1>1, PathNumbers DEF Under, PathInv
<1>3. Blocks(mem') /\ DOMAIN mem' = DOMAIN mem \ {name.str} /\ (\A b \in DOMAIN mem' : mem'[b] = mem[b])
      /\ Used(mem') = IF name.str \in DOMAIN mem THEN Used(mem) - 1 ELSE Used(mem)
  BY <1>1, BlockGone
<1>4. CASE name.str = P!Null /\ res = P!NullString(P!Junk) /\ Short /\ Used(mem) = Len(mounts)
  <2>1. res' = P!NullString(0) /\ Used(mem') = Used(mem)
    BY <1>1, <1>3, <1>4 DEF P!NullString, Blocks
  <2>2. Short' /\ Used(mem') = Len(mounts')
    BY <1>1, <1>4, <2>1 DEF Short, Begin
  <2>3. StepInv'
    BY <1>1, <2>1, <2>2 DEF StepInv, P!NullString
  <2> QED BY <1>1, <1>3, <2>3 DEF PathInv, Under, P!startsWith
<1>5. CASE res.str = P!Null /\ res.len \in Nat \ {0} /\ Bare
  <2>1. P!First(mem, res) = {"null read"}
    BY <1>1, <1>5, FirstIs
  <2> QED BY <1>1, <2>1
<1>6. CASE /\ name.str \in DOMAIN mem /\ res.str # name.str
           /\ \E k \in Nat : Slashed(k) /\ Holds(res, Rest(k)) /\ Used(mem) = Len(mounts) + 2 + k
  <2>1. PICK k \in Nat : Slashed(k) /\ Holds(res, Rest(k)) /\ Used(mem) = Len(mounts) + 2 + k
    BY <1>6
  <2>2. /\ P!First(mem, res) = {path[Begin + k]} /\ Len(Rest(k)) = Len(path) - (Begin + k) + 1
    BY <1>1, <2>1, FirstIs
  <2>3. path[Begin + k] # P!Slash
    BY <1>1, <2>2
  <2>4. res' = res
    <3>1. res.len \in Nat
      BY <1>2, <2>1, <2>2 DEF Holds, Slashed
    <3>2. res.len # P!Junk
      BY <3>1 DEF P!Junk
    <3> QED BY <1>1, <3>2
  <2>5. Holds(res, Rest(k))'
    BY <1>1, <1>3, <1>6, <2>1, <2>4 DEF Holds, Rest, Begin
  <2>6. Slashed(k)' /\ (path[Begin + k] # P!Slash)'
    <3>1. Begin' = Begin /\ path' = path
      BY <1>1 DEF Begin
    <3>2. Slashed(k)'
      BY <2>1, <3>1 DEF Slashed
    <3> QED BY <2>3, <3>1, <3>2
  <2>7. Used(mem') = Len(mounts') + 1 + k
    <3>1. Used(mem') = Used(mem) - 1 /\ mounts' = mounts
      BY <1>1, <1>3, <1>6
    <3>2. Used(mem) = Len(mounts) + 2 + k /\ k \in Nat
      BY <2>1
    <3> QED BY <1>2, <3>1, <3>2
  <2>8. StepInv'
    BY <1>1, <2>5, <2>6, <2>7 DEF StepInv
  <2> QED BY <1>1, <1>3, <2>8 DEF PathInv, Under, P!startsWith
<1> QED BY <1>1, <1>4, <1>5, <1>6 DEF PathInv, StepInv

\* An empty rest names nothing.
LEMMA NothingNamed ==
  ASSUME P!PathsAssumption, PathInv, at \in Under, Short \/ Bare
  PROVE  P!NamesNothing(path, fs)
<1>1. Len(path) \in Nat /\ Begin \in Nat \ {0} /\ path \in Seq(Letters)
  BY PathNumbers DEF Under, PathInv
<1>2. \A i \in Begin..Len(path) : path[i] = P!Slash
  BY <1>1 DEF Short, Bare
<1> QED BY <1>1, <1>2, SlashRun DEF P!NamesNothing, Begin

LEMMA NullReadStep ==
  ASSUME P!PathsAssumption, PathInv, P!NullRead
  PROVE  PathInv'
<1>1. /\ at = "strip" /\ at' = "done" /\ opened' = "undefined" /\ UNCHANGED <<mounts, path, fs, mem, name, res>>
      /\ "null read" \in P!First(mem, res)
  BY DEF P!NullRead
<1>2. Short \/ Bare
  <2>1. \A k \in Nat : ~(Slashed(k) /\ Holds(res, Rest(k)))
    <3>1. "null read" \notin Letters
      BY DEF P!PathsAssumption, Letters, P!Slash
    <3> QED BY <1>1, <3>1, FirstIs
  <2> QED BY <1>1, <2>1 DEF PathInv, StepInv
<1>3. P!NamesNothing(path, fs)
  BY <1>1, <1>2, NothingNamed DEF Under
<1>4. P!NamesNothing(path, fs)'
  BY <1>1, <1>3 DEF P!NamesNothing, P!Slashes
<1>5. fs \in {Dev, Ustar} /\ <<>> \notin {Dev, Ustar}
  BY <1>1 DEF PathInv, Under, P!PathsAssumption
<1>6. P!OpenRight'
  BY <1>1, <1>4, <1>5 DEF P!OpenRight, P!OpensNamed, P!UndefinedOnlyEmpty, P!LeaksPerSlash
<1> QED BY <1>1, <1>6 DEF PathInv, StepInv, Under

\* What a name is that the path means.
LEMMA MeansRest ==
  ASSUME P!PathsAssumption, P!NamesPlain, PathInv, at = "open", NEW n \in Files[fs], P!Means(path, fs, n)
  PROVE  ~Short /\ \A k \in Nat : Slashed(k) /\ path[Begin + k] # P!Slash => n = Rest(k)
<1>1. Len(path) \in Nat /\ Begin \in Nat \ {0} /\ path \in Seq(Letters) /\ fs \in {Dev, Ustar} /\ Len(fs) \in Nat
  BY PathNumbers DEF Under, PathInv
<1>2. PICK i \in Begin..Len(path) : P!Slashes(SubSeq(path, Begin, i - 1)) /\ SubSeq(path, i, Len(path)) = n
  BY DEF P!Means, Begin
<1>3. i \in Nat \ {0} /\ i <= Len(path) /\ Begin <= i /\ i - 1 \in Nat /\ i - 1 <= Len(path)
  BY <1>1
<1>4. \A j \in Begin..i - 1 : path[j] = P!Slash
  BY <1>1, <1>2, <1>3, SlashRun
<1>5. n # <<>> /\ n[1] = path[i]
  <2>1. Len(n) = Len(path) - i + 1 /\ \A j \in 1..Len(path) - i + 1 : n[j] = path[i + j - 1]
    <3>1. i <= Len(path) + 1
      BY <1>1, <1>3
    <3> QED BY <1>1, <1>2, <1>3, <3>1, PartOf
  <2>2. 1 \in 1..Len(path) - i + 1 /\ i + 1 - 1 = i /\ Len(path) - i + 1 # 0
    BY <1>1, <1>3
  <2>3. Len(<<>>) = 0
    OBVIOUS
  <2> QED BY <2>1, <2>2, <2>3
<1>6. path[i] # P!Slash
  BY <1>1, <1>5 DEF P!NamesPlain
<1>7. ASSUME NEW k \in Nat, Slashed(k), path[Begin + k] # P!Slash PROVE n = Rest(k)
  <2>1. \A j \in Begin..Begin + k - 1 : path[j] = P!Slash
    BY <1>7 DEF Slashed
  <2>2. ~(i < Begin + k)
    <3>1. i < Begin + k => i \in Begin..Begin + k - 1
      BY <1>1, <1>3
    <3> QED BY <1>6, <2>1, <3>1
  <2>3. ~(Begin + k < i)
    <3>1. Begin + k < i => Begin + k \in Begin..i - 1
      BY <1>1, <1>3
    <3> QED BY <1>4, <1>7, <3>1
  <2>4. i = Begin + k
    BY <1>1, <1>3, <2>2, <2>3
  <2> QED BY <1>2, <2>4 DEF Rest
<1> QED BY <1>1, <1>3, <1>7 DEF Short

\* A name that the rest is.
LEMMA RestMeans ==
  ASSUME P!PathsAssumption, PathInv, at = "open", NEW k \in Nat, Slashed(k)
  PROVE  P!Means(path, fs, Rest(k))
<1>1. Len(path) \in Nat /\ Begin \in Nat \ {0} /\ path \in Seq(Letters) /\ P!startsWith(path, fs)
  BY PathNumbers DEF Under, PathInv
<1> DEFINE i == Begin + k
<1>2. i \in Begin..Len(path) /\ i - 1 \in Nat /\ i - 1 <= Len(path) /\ \A j \in Begin..i - 1 : path[j] = P!Slash
  BY <1>1 DEF Slashed
<1>3. SubSeq(path, i, Len(path)) = Rest(k)
  BY DEF Rest
<1> HIDE DEF i
<1>4. P!Slashes(SubSeq(path, Begin, i - 1))
  BY <1>1, <1>2, SlashRun
<1>5. SubSeq(path, 1, Len(fs)) = fs
  BY <1>1 DEF P!startsWith
<1> QED BY <1>2, <1>3, <1>4, <1>5 DEF P!Means, Begin

\* open() of the file system, and the end of the call.
LEMMA OpenStep ==
  ASSUME P!PathsAssumption, P!NamesPlain, PathInv, P!OpenFound \/ P!OpenFails \/ P!OpenUndefined
  PROVE  PathInv'
<1>1. /\ at = "open" /\ at' = "done" /\ UNCHANGED <<mounts, path, fs, name, res>> /\ Blocks(mem)
      /\ opened' \in {"opened", "failed", "undefined"}
  BY DEF P!OpenFound, P!OpenFails, P!OpenUndefined, P!Finish, PathInv
<1>2. /\ Len(path) \in Nat /\ Used(mem) \in Nat /\ Begin \in Nat \ {0} /\ path \in Seq(Letters) /\ Len(mounts) \in Nat
      /\ Len(fs) \in Nat /\ fs \in {Dev, Ustar} /\ fs # <<>>
  BY <1>1, PathNumbers DEF Under, PathInv
<1>3. \/ res = P!NullString(0) /\ Short /\ Used(mem) = Len(mounts)
      \/ \E k \in Nat : /\ Slashed(k) /\ path[Begin + k] # P!Slash
                        /\ Holds(res, Rest(k)) /\ Used(mem) = Len(mounts) + 1 + k
  BY <1>1 DEF PathInv, StepInv
<1> DEFINE left == IF res.str \in DOMAIN mem THEN Used(mem) - 1 ELSE Used(mem)
<1>4. left = Len(mounts) + P!Removed
  <2>1. CASE res = P!NullString(0) /\ Short /\ Used(mem) = Len(mounts)
    <3>1. res.str \notin DOMAIN mem
      BY <1>1, <2>1 DEF P!NullString, Blocks
    <3>2. P!Removed = 0
      BY <1>2, <2>1, RemovedAre
    <3> QED BY <1>2, <2>1, <3>1, <3>2
  <2>2. CASE \E k \in Nat : /\ Slashed(k) /\ path[Begin + k] # P!Slash
                            /\ Holds(res, Rest(k)) /\ Used(mem) = Len(mounts) + 1 + k
    <3>1. PICK k \in Nat : /\ Slashed(k) /\ path[Begin + k] # P!Slash
                           /\ Holds(res, Rest(k)) /\ Used(mem) = Len(mounts) + 1 + k
      BY <2>2
    <3>2. P!Removed = k
      BY <1>2, <3>1, RemovedAre
    <3>3. left = Used(mem) - 1
      BY <3>1 DEF Holds
    <3> QED BY <1>2, <3>1, <3>2, <3>3
  <2> QED BY <1>3, <2>1, <2>2
<1>5. P!Removed' = P!Removed
  BY <1>1 DEF P!Removed, P!Slashes
<1>6. CASE opened' = "opened"
  <2>1. /\ res.str # P!Null /\ mem[res.str] \in Files[fs]
        /\ LET p == P!CopyOf(mem, res)
               kept == P!New(P!New(p.mem, <<>>).mem, mem[res.str])
           IN  mem' = P!Destroy(P!Destroy(kept.mem, p.s), res)
    BY <1>6 DEF P!OpenFound, P!OpenFails, P!OpenUndefined, P!Finish
  <2>2. PICK k \in Nat : /\ Slashed(k) /\ path[Begin + k] # P!Slash
                         /\ Holds(res, Rest(k)) /\ Used(mem) = Len(mounts) + 1 + k
    BY <1>3, <2>1 DEF P!NullString
  <2>3. res.str \in DOMAIN mem /\ mem[res.str] = Rest(k)
    BY <2>2 DEF Holds
  <2> DEFINE p    == P!CopyOf(mem, res)
             q    == P!New(p.mem, <<>>)
             kept == P!New(q.mem, mem[res.str])
             d    == P!Destroy(kept.mem, p.s)
  <2>4. mem' = P!Destroy(d, res)
    BY <2>1
  <2>5. p = P!New(mem, SubSeq(mem[res.str], 1, res.len))
    BY <2>1 DEF P!CopyOf, P!InitFrom
  <2>6. p.s.str \notin DOMAIN mem /\ DOMAIN p.mem = DOMAIN mem \cup {p.s.str} /\ Blocks(p.mem) /\ Used(p.mem) = Used(mem) + 1
    BY <1>1, <2>5, NewBlock
  <2> HIDE DEF p
  <2>7. q.s.str \notin DOMAIN p.mem /\ DOMAIN q.mem = DOMAIN p.mem \cup {q.s.str} /\ Blocks(q.mem) /\ Used(q.mem) = Used(p.mem) + 1
    BY <2>6, NewBlock
  <2> HIDE DEF q
  <2>8. DOMAIN kept.mem = DOMAIN q.mem \cup {kept.s.str} /\ Blocks(kept.mem) /\ Used(kept.mem) = Used(q.mem) + 1
    BY <2>7, NewBlock
  <2> HIDE DEF kept
  <2>9. DOMAIN d = DOMAIN kept.mem \ {p.s.str} /\ Blocks(d) /\ Used(d) = Used(kept.mem) - 1
    BY <2>6, <2>7, <2>8, BlockGone
  <2> HIDE DEF d
  <2>10. Blocks(mem') /\ Used(mem') = Used(d) - 1
    BY <2>3, <2>4, <2>6, <2>7, <2>8, <2>9, BlockGone
  <2>11. Used(mem') = left + 2
    BY <1>2, <2>3, <2>6, <2>7, <2>8, <2>9, <2>10
  <2>12. \E n \in Files[fs] : P!Means(path, fs, n)
    BY <1>1, <2>1, <2>2, <2>3, RestMeans
  <2>13. (\E n \in Files[fs] : P!Means(path, fs, n))'
    BY <1>1, <2>12 DEF P!Means, P!Slashes
  <2>14. P!OpensNamed' /\ P!UndefinedOnlyEmpty'
    BY <1>1, <1>2, <1>6, <2>13 DEF P!OpensNamed, P!UndefinedOnlyEmpty
  <2>15. P!LeaksPerSlash'
    <3>1. Used(mem') = Len(mounts) + 2 + P!Removed
      <4>1. P!Removed \in Nat
        BY <1>2, <2>2, RemovedAre
      <4> QED BY <1>2, <1>4, <2>11, <4>1
    <3> QED BY <1>1, <1>2, <1>5, <1>6, <3>1, PathCount DEF P!LeaksPerSlash, Used
  <2> QED BY <1>1, <1>2, <2>10, <2>14, <2>15 DEF PathInv, StepInv, Under, P!OpenRight
<1>7. CASE opened' # "opened"
  <2>1. mem' = P!Destroy(mem, res)
    BY <1>7 DEF P!OpenFound, P!OpenFails, P!OpenUndefined, P!Finish
  <2>2. Blocks(mem') /\ Used(mem') = left
    BY <1>1, <2>1, BlockGone
  <2>3. P!LeaksPerSlash'
    <3>1. P!Removed \in Nat
      BY <1>2, <1>3, RemovedAre
    <3> QED BY <1>1, <1>2, <1>4, <1>5, <1>7, <2>2, <3>1, PathCount DEF P!LeaksPerSlash, Used
  <2>4. P!UndefinedOnlyEmpty'
    <3>1. CASE opened' = "failed"
      BY <3>1 DEF P!UndefinedOnlyEmpty
    <3>2. CASE opened' = "undefined"
      <4>1. res.str = P!Null
        BY <3>2 DEF P!OpenFound, P!OpenFails, P!OpenUndefined, P!Finish
      <4>2. Short
        BY <1>1, <1>3, <4>1 DEF Holds, Blocks
      <4>3. P!NamesNothing(path, fs)
        BY <1>1, <4>2, NothingNamed DEF Under
      <4>4. P!NamesNothing(path, fs)'
        BY <1>1, <4>3 DEF P!NamesNothing, P!Slashes
      <4> QED BY <4>4 DEF P!UndefinedOnlyEmpty
    <3> QED BY <1>1, <1>7, <3>1, <3>2
  <2>5. P!OpensNamed'
    <3>1. ASSUME opened' = "failed", fs = Ustar, NEW n \in Files[fs] PROVE ~P!Means(path, fs, n)
      <4> SUFFICES ASSUME P!Means(path, fs, n) PROVE FALSE
        OBVIOUS
      <4>1. ~Short
        BY <1>1, MeansRest
      <4>2. PICK k \in Nat : Slashed(k) /\ path[Begin + k] # P!Slash /\ Holds(res, Rest(k))
        BY <1>3, <4>1
      <4>3. n = Rest(k)
        BY <1>1, <4>2, MeansRest
      <4>4. res.str # P!Null /\ mem[res.str] = Rest(k)
        BY <1>1, <4>2 DEF Holds, Blocks
      <4>5. fs # Dev
        BY <3>1 DEF P!PathsAssumption
      <4>6. mem[res.str] \notin Files[fs]
        BY <3>1, <4>4, <4>5 DEF P!OpenFound, P!OpenFails, P!OpenUndefined, P!Finish
      <4> QED BY <4>3, <4>4, <4>6
    <3>2. opened' = "failed" /\ fs' = Ustar => \A n \in Files[fs'] : ~P!Means(path, fs, n)'
      BY <1>1, <3>1 DEF P!Means, P!Slashes
    <3> QED BY <1>1, <1>2, <1>7, <3>2 DEF P!OpensNamed
  <2> QED BY <1>1, <1>2, <2>2, <2>3, <2>4, <2>5 DEF PathInv, StepInv, Under, P!OpenRight
<1> QED BY <1>6, <1>7

LEMMA PathBegins == ASSUME P!PathsAssumption, P!Init PROVE PathInv
<1>1. /\ mounts = <<>> /\ at = "idle" /\ path = <<>> /\ fs = <<>> /\ mem = <<>> /\ opened = "none"
  BY DEF P!Init
<1>2. DOMAIN mem = {} /\ path \in Seq(Letters) /\ Len(mounts) = 0
  BY <1>1
<1>3. Blocks(mem) /\ Used(mem) = 0
  BY <1>2, FS_EmptySet DEF Blocks, Used
<1> QED BY <1>1, <1>2, <1>3 DEF PathInv, StepInv, Under

\* While nothing happens, nothing changes.
LEMMA PathSame == ASSUME PathInv, UNCHANGED P!vars PROVE PathInv'
<1>1. UNCHANGED <<mounts, at, path, fs, mem, name, res, opened>>
  BY DEF P!vars
<1>2. StepInv'
  BY <1>1 DEF PathInv, StepInv, Holds, Rest, Slashed, Bare, Short, Begin, P!NullString
<1>3. P!Removed' = P!Removed
  BY <1>1 DEF P!Removed, P!Slashes
<1>4. P!OpenRight => P!OpenRight'
  <2>1. P!OpensNamed => P!OpensNamed'
    BY <1>1 DEF P!OpensNamed
  <2>2. P!UndefinedOnlyEmpty => P!UndefinedOnlyEmpty'
    BY <1>1 DEF P!UndefinedOnlyEmpty
  <2>3. P!LeaksPerSlash => P!LeaksPerSlash'
    BY <1>1, <1>3 DEF P!LeaksPerSlash
  <2> QED BY <2>1, <2>2, <2>3 DEF P!OpenRight
<1> QED BY <1>1, <1>2, <1>4 DEF PathInv, Under, P!startsWith

LEMMA PathSteps == ASSUME P!PathsAssumption, P!NamesPlain, PathInv, [P!Next]_(P!vars) PROVE PathInv'
<1>1. CASE UNCHANGED P!vars \/ P!OpenNull \/ P!Ended
  BY <1>1, PathSame DEF P!OpenNull, P!Ended
<1>2. CASE (\E p \in {Dev, Ustar} : P!Mount(p)) \/ (\E p \in P!Paths : P!Access(p))
  BY <1>2, AccessStep
<1>3. CASE P!Basedir
  BY <1>3, BasedirStep
<1>4. CASE P!StripCopy
  BY <1>4, StripCopyStep
<1>5. CASE P!StripSlash
  BY <1>5, StripSlashStep
<1>6. CASE P!StripEnd
  BY <1>6, StripEndStep
<1>7. CASE P!NullRead
  BY <1>7, NullReadStep
<1>8. CASE P!OpenFound \/ P!OpenFails \/ P!OpenUndefined
  BY <1>8, OpenStep
<1> QED BY <1>1, <1>2, <1>3, <1>4, <1>5, <1>6, <1>7, <1>8 DEF P!Next

\* For any mount points, files and paths: what open() opens is the file that the path names, it finds
\* every file of the archive (whose names do not begin with a slash), it reads the null pointer of an
\* empty String only if the path names nothing, and it loses one block for each slash it removes.
THEOREM OpensAreRight == ASSUME P!NamesPlain PROVE Spec => []OpenRight
<1>1. Init => PathInv
  BY PathBegins, LibraryAssumption DEF Init
<1>2. PathInv /\ [Next]_vars => PathInv'
  <2>1. [Next]_vars => [P!Next]_(P!vars)
    BY DEF Next, vars, paths, P!vars
  <2> QED BY <2>1, PathSteps, LibraryAssumption
<1>3. PathInv => OpenRight
  <2>1. at # "done" /\ PathInv => P!OpenRight
    BY DEF PathInv, Under, P!OpenRight, P!OpensNamed, P!UndefinedOnlyEmpty, P!LeaksPerSlash
  <2> QED BY <2>1 DEF PathInv, OpenRight
<1> QED BY <1>1, <1>2, <1>3, PTL DEF Spec

-----------------------------------------------------------------------------
(* The digits of a number                                                    *)

\* A set of numbers has a least one.
LEMMA LeastNat ==
  ASSUME NEW T \in SUBSET Nat, T # {}
  PROVE  \E i \in T : \A m \in T : i <= m
<1> DEFINE R == OpToRel(<, Nat)
<1>1. IsWellFoundedOn(R, Nat)
  BY NatLessThanWellFounded
<1> HIDE DEF R
<1>2. PICK i \in T : \A m \in T : ~(<<m, i>> \in R)
  BY <1>1, WFMin
<1>3. \A m \in T : <<m, i>> \in R <=> m < i
  BY DEF R, OpToRel
<1>4. i \in Nat /\ \A m \in T : m \in Nat
  OBVIOUS
<1>5. ASSUME NEW m \in T PROVE i <= m
  <2>1. ~(m < i)
    BY <1>2, <1>3
  <2> QED BY <1>4, <2>1
<1> QED BY <1>5

\* The loop that counts the digits, one that takes them from the end, and the sum of digits.
Counts(f, m, r)    == f = [v \in 0..m |-> IF v = 0 THEN 0 ELSE 1 + f[v \div r]]
Lefts(g, v, m, r)  == g = [k \in 0..m |-> IF k = 0 THEN v ELSE g[k - 1] \div r]
Sums(h, ds, m, r) == h = [i \in 0..m |-> IF i = 0 THEN 0 ELSE h[i - 1] * r + ds[i]]

LastDigit(v, r) == v % r

\* The digits s were taken off v, l of them, and those of ds were.
FromEnd(ds, g, r)     == \A i \in 1..Len(ds) : ds[i] = LastDigit(g[Len(ds) - i], r)
TakenOff(s, v, l, r)  == \E g \in [0..l -> Nat] :
                           Lefts(g, v, l, r) /\ s = [i \in 1..l |-> LastDigit(g[l - i], r)]

\* Digits are shifted out one at a time.
LEMMA Shifted ==
  ASSUME NEW v \in Nat, NEW r \in {10, 16}
  PROVE  v \div r \in Nat /\ (v # 0 => v \div r < v)
<1>1. CASE r = 10
  BY <1>1
<1>2. CASE r = 16
  BY <1>2
<1> QED BY <1>1, <1>2

LEMMA ShiftedOut ==
  ASSUME NEW v \in Nat, NEW r \in {10, 16}
  PROVE  /\ v = (v \div r) * r + LastDigit(v, r)
         /\ LastDigit(v, r) \in 0..r - 1 /\ LastDigit(v, r) \in Nat
<1>1. CASE r = 10
  BY <1>1 DEF LastDigit
<1>2. CASE r = 16
  BY <1>2 DEF LastDigit
<1> QED BY <1>1, <1>2

LEMMA FirstDigit ==
  ASSUME NEW v \in Nat, NEW r \in {10, 16}, v < r
  PROVE  LastDigit(v, r) = v
<1>1. CASE r = 10
  BY <1>1 DEF LastDigit
<1>2. CASE r = 16
  BY <1>2 DEF LastDigit
<1> QED BY <1>1, <1>2

LEMMA CountsExist ==
  ASSUME NEW n \in Nat, NEW r \in {10, 16}
  PROVE  \E f \in [0..n -> Nat] : Counts(f, n, r)
<1> DEFINE T == {m \in Nat : ~\E f \in [0..m -> Nat] : Counts(f, m, r)}
<1> SUFFICES ASSUME T # {} PROVE FALSE
  OBVIOUS
<1>1. PICK m \in T : \A i \in T : m <= i
  <2>1. T \in SUBSET Nat
    OBVIOUS
  <2> HIDE DEF T
  <2> QED BY <2>1, LeastNat
<1>2. m \in Nat /\ ~\E f \in [0..m -> Nat] : Counts(f, m, r)
  OBVIOUS
<1>3. CASE m = 0
  <2> DEFINE f == [v \in 0..0 |-> 0]
  <2>1. f \in [0..0 -> Nat] /\ Counts(f, 0, r)
    BY DEF Counts
  <2> QED BY <1>2, <1>3, <2>1
<1>4. CASE m # 0
  <2>1. m - 1 \in Nat /\ m - 1 \notin T
    BY <1>1, <1>2, <1>4
  <2>2. PICK u \in [0..m - 1 -> Nat] : Counts(u, m - 1, r)
    BY <2>1
  <2>3. m \div r \in 0..m - 1
    BY <1>2, <1>4, Shifted
  <2> DEFINE top == 1 + u[m \div r]
             f == [v \in 0..m |-> IF v = m THEN top ELSE u[v]]
  <2>4. top \in Nat
    BY <2>2, <2>3
  <2> HIDE DEF top
  <2>5. f \in [0..m -> Nat] /\ f[m] = top /\ \A v \in 0..m - 1 : f[v] = u[v]
    BY <1>2, <2>2, <2>4
  <2>6. \A v \in 0..m - 1 : u[v] = IF v = 0 THEN 0 ELSE 1 + u[v \div r]
    BY <2>2 DEF Counts
  <2> HIDE DEF f
  <2>7. ASSUME NEW v \in 0..m PROVE f[v] = IF v = 0 THEN 0 ELSE 1 + f[v \div r]
    <3>1. CASE v = m
      BY <1>4, <2>3, <2>5, <3>1 DEF top
    <3>2. CASE v # m
      <4>1. v \in 0..m - 1
        BY <1>2, <3>2
      <4>2. v # 0 => v \div r \in 0..m - 1
        <5>1. v \in Nat
          BY <1>2
        <5>2. v # 0 => v \div r \in Nat /\ v \div r < v
          BY <5>1, Shifted
        <5> QED BY <1>2, <4>1, <5>2
      <4> QED BY <2>5, <2>6, <4>1, <4>2
    <3> QED BY <3>1, <3>2
  <2>8. f = [v \in 0..m |-> f[v]]
    BY <2>5
  <2>9. Counts(f, m, r)
    BY <2>7, <2>8 DEF Counts
  <2> QED BY <1>2, <2>5, <2>9
<1> QED BY <1>3, <1>4

LEMMA LeftsExist ==
  ASSUME NEW v \in Nat, NEW n \in Nat, NEW r \in {10, 16}
  PROVE  \E g \in [0..n -> Nat] : Lefts(g, v, n, r)
<1> DEFINE T == {m \in Nat : ~\E g \in [0..m -> Nat] : Lefts(g, v, m, r)}
<1> SUFFICES ASSUME T # {} PROVE FALSE
  OBVIOUS
<1>1. PICK m \in T : \A i \in T : m <= i
  <2>1. T \in SUBSET Nat
    OBVIOUS
  <2> HIDE DEF T
  <2> QED BY <2>1, LeastNat
<1>2. m \in Nat /\ ~\E g \in [0..m -> Nat] : Lefts(g, v, m, r)
  OBVIOUS
<1>3. CASE m = 0
  <2> DEFINE g == [k \in 0..0 |-> v]
  <2>1. g \in [0..0 -> Nat] /\ Lefts(g, v, 0, r)
    BY DEF Lefts
  <2> QED BY <1>2, <1>3, <2>1
<1>4. CASE m # 0
  <2>1. m - 1 \in Nat /\ m - 1 \notin T
    BY <1>1, <1>2, <1>4
  <2>2. PICK u \in [0..m - 1 -> Nat] : Lefts(u, v, m - 1, r)
    BY <2>1
  <2> DEFINE top == u[m - 1] \div r
             g == [k \in 0..m |-> IF k = m THEN top ELSE u[k]]
  <2>3. top \in Nat
    <3>1. u[m - 1] \in Nat
      BY <1>2, <2>1, <2>2
    <3> QED BY <3>1, Shifted
  <2> HIDE DEF top
  <2>5. g \in [0..m -> Nat] /\ g[m] = top /\ \A k \in 0..m - 1 : g[k] = u[k]
    BY <1>2, <2>2, <2>3
  <2>6. \A k \in 0..m - 1 : u[k] = IF k = 0 THEN v ELSE u[k - 1] \div r
    BY <2>2 DEF Lefts
  <2> HIDE DEF g
  <2>7. ASSUME NEW k \in 0..m PROVE g[k] = IF k = 0 THEN v ELSE g[k - 1] \div r
    <3>1. CASE k = m
      <4>1. m - 1 \in 0..m - 1
        BY <1>2, <1>4
      <4> QED BY <1>4, <2>5, <3>1, <4>1 DEF top
    <3>2. CASE k # m
      <4>1. k \in 0..m - 1 /\ (k # 0 => k - 1 \in 0..m - 1)
        BY <1>2, <3>2
      <4> QED BY <2>5, <2>6, <4>1
    <3> QED BY <3>1, <3>2
  <2>8. g = [k \in 0..m |-> g[k]]
    BY <2>5
  <2>9. Lefts(g, v, m, r)
    BY <2>7, <2>8 DEF Lefts
  <2> QED BY <1>2, <2>5, <2>9
<1> QED BY <1>3, <1>4

LEMMA ValuesExist ==
  ASSUME NEW ds \in Seq(Nat), NEW n \in 0..Len(ds), NEW r \in {10, 16}
  PROVE  \E h \in [0..n -> Nat] : Sums(h, ds, n, r)
<1> DEFINE T == {m \in 0..Len(ds) : ~\E h \in [0..m -> Nat] : Sums(h, ds, m, r)}
<1> SUFFICES ASSUME T # {} PROVE FALSE
  OBVIOUS
<1>1. PICK m \in T : \A i \in T : m <= i
  <2>1. T \in SUBSET Nat
    OBVIOUS
  <2> HIDE DEF T
  <2> QED BY <2>1, LeastNat
<1>2. m \in 0..Len(ds) /\ m \in Nat /\ Len(ds) \in Nat /\ ~\E h \in [0..m -> Nat] : Sums(h, ds, m, r)
  OBVIOUS
<1>3. CASE m = 0
  <2> DEFINE h == [i \in 0..0 |-> 0]
  <2>1. h \in [0..0 -> Nat] /\ Sums(h, ds, 0, r)
    BY DEF Sums
  <2> QED BY <1>2, <1>3, <2>1
<1>4. CASE m # 0
  <2>1. m - 1 \in 0..Len(ds) /\ m - 1 \notin T
    <3>1. m - 1 \in 0..Len(ds) /\ ~(m <= m - 1)
      BY <1>2, <1>4
    <3> HIDE DEF T
    <3> QED BY <1>1, <3>1
  <2>2. PICK u \in [0..m - 1 -> Nat] : Sums(u, ds, m - 1, r)
    BY <2>1
  <2> DEFINE top == u[m - 1] * r + ds[m]
             h == [i \in 0..m |-> IF i = m THEN top ELSE u[i]]
  <2>3. top \in Nat
    <3>1. u[m - 1] \in Nat /\ ds[m] \in Nat
      BY <1>2, <1>4, <2>1, <2>2
    <3>2. r = 10 \/ r = 16
      OBVIOUS
    <3> QED BY <3>1, <3>2
  <2> HIDE DEF top
  <2>5. h \in [0..m -> Nat] /\ h[m] = top /\ \A i \in 0..m - 1 : h[i] = u[i]
    BY <1>2, <2>2, <2>3
  <2>6. \A i \in 0..m - 1 : u[i] = IF i = 0 THEN 0 ELSE u[i - 1] * r + ds[i]
    BY <2>2 DEF Sums
  <2> HIDE DEF h
  <2>7. ASSUME NEW i \in 0..m PROVE h[i] = IF i = 0 THEN 0 ELSE h[i - 1] * r + ds[i]
    <3>1. CASE i = m
      <4>1. m - 1 \in 0..m - 1
        BY <1>2, <1>4
      <4> QED BY <1>4, <2>5, <3>1, <4>1 DEF top
    <3>2. CASE i # m
      <4>1. i \in 0..m - 1 /\ (i # 0 => i - 1 \in 0..m - 1)
        BY <1>2, <3>2
      <4> QED BY <2>5, <2>6, <4>1
    <3> QED BY <3>1, <3>2
  <2>8. h = [i \in 0..m |-> h[i]]
    BY <2>5
  <2>9. Sums(h, ds, m, r)
    BY <2>7, <2>8 DEF Sums
  <2> QED BY <1>2, <2>5, <2>9
<1> QED BY <1>3, <1>4

\* The three loops, as the model states them.
LEMMA DigitLoops ==
  ASSUME NEW v \in Nat \ {0}, NEW r \in {10, 16}
  PROVE  /\ \E f \in [0..v -> Nat] : Counts(f, v, r) /\ F!DigitCount(v, r) = f[v]
         /\ \A l \in Nat : TakenOff(F!LastDigits(v, r, l), v, l, r)
<1> DEFINE f == CHOOSE c : Counts(c, v, r)
<1>1. \E c \in [0..v -> Nat] : Counts(c, v, r)
  BY CountsExist
<1>2. Counts(f, v, r)
  BY <1>1
<1>3. F!DigitCount(v, r) = f[v]
  BY DEF F!DigitCount, Counts
<1>4. f \in [0..v -> Nat]
  <2> HIDE DEF f
  <2>1. DOMAIN f = 0..v /\ f = [i \in 0..v |-> f[i]]
    BY <1>2 DEF Counts
  <2>2. PICK c \in [0..v -> Nat] : Counts(c, v, r)
    BY <1>1
  <2> DEFINE T == {m \in 0..v : f[m] # c[m]}
  <2>3. T = {}
    <3> SUFFICES ASSUME T # {} PROVE FALSE
      OBVIOUS
    <3>1. PICK m \in T : \A i \in T : m <= i
      <4>1. T \in SUBSET Nat
        OBVIOUS
      <4> HIDE DEF T
      <4> QED BY <4>1, LeastNat
    <3>2. m \in 0..v /\ f[m] # c[m] /\ m \in Nat
      OBVIOUS
    <3>3. /\ f[m] = IF m = 0 THEN 0 ELSE 1 + f[m \div r]
          /\ c[m] = IF m = 0 THEN 0 ELSE 1 + c[m \div r]
      BY <1>2, <2>2, <3>2 DEF Counts
    <3>4. m # 0 => m \div r \in Nat /\ m \div r < m
      BY <3>2, Shifted
    <3>5. m # 0 => m \div r \in 0..v /\ ~(m <= m \div r)
      BY <3>2, <3>4
    <3>6. m # 0 => f[m \div r] = c[m \div r]
      BY <3>1, <3>5
    <3> QED BY <3>2, <3>3, <3>6
  <2>4. \A i \in 0..v : f[i] = c[i]
    BY <2>3
  <2> QED BY <2>1, <2>2, <2>4
<1>5. ASSUME NEW l \in Nat
      PROVE  TakenOff(F!LastDigits(v, r, l), v, l, r)
  <2> DEFINE g == CHOOSE c : Lefts(c, v, l, r)
  <2>1. \E c \in [0..l -> Nat] : Lefts(c, v, l, r)
    BY LeftsExist
  <2>2. Lefts(g, v, l, r)
    BY <2>1
  <2>3. F!LastDigits(v, r, l) = [i \in 1..l |-> LastDigit(g[l - i], r)]
    BY DEF F!LastDigits, Lefts, LastDigit
  <2>4. g \in [0..l -> Nat]
    <3> HIDE DEF g
    <3>1. DOMAIN g = 0..l /\ g = [i \in 0..l |-> g[i]]
      BY <2>2 DEF Lefts
    <3> DEFINE T == {m \in 0..l : g[m] \notin Nat}
    <3>2. T = {}
      <4> SUFFICES ASSUME T # {} PROVE FALSE
        OBVIOUS
      <4>1. PICK m \in T : \A i \in T : m <= i
        <5>1. T \in SUBSET Nat
          OBVIOUS
        <5> HIDE DEF T
        <5> QED BY <5>1, LeastNat
      <4>2. m \in 0..l /\ g[m] \notin Nat
        OBVIOUS
      <4>3. g[m] = IF m = 0 THEN v ELSE g[m - 1] \div r
        BY <2>2, <4>2 DEF Lefts
      <4>4. m # 0 => m - 1 \in 0..l /\ ~(m <= m - 1)
        BY <4>2
      <4>5. m # 0 => g[m - 1] \in Nat
        BY <4>1, <4>4
      <4>6. m # 0 => g[m - 1] \div r \in Nat
        BY <4>5, Shifted
      <4> QED BY <4>2, <4>3, <4>6
    <3> QED BY <3>1, <3>2
  <2> HIDE DEF g
  <2> QED BY <2>2, <2>3, <2>4 DEF TakenOff
<1> HIDE DEF f
<1> QED BY <1>2, <1>3, <1>4, <1>5

LEMMA NumberLoop ==
  ASSUME NEW ds \in Seq(Nat), NEW r \in {10, 16}
  PROVE  \E h : Sums(h, ds, Len(ds), r) /\ F!Number(ds, r) = h[Len(ds)]
<1> DEFINE h == CHOOSE c : Sums(c, ds, Len(ds), r)
<1>1. \E c \in [0..Len(ds) -> Nat] : Sums(c, ds, Len(ds), r)
  <2>1. Len(ds) \in 0..Len(ds)
    OBVIOUS
  <2> QED BY <2>1, ValuesExist
<1>2. Sums(h, ds, Len(ds), r)
  BY <1>1
<1>3. F!Number(ds, r) = h[Len(ds)]
  BY DEF F!Number, Sums
<1> HIDE DEF h
<1> QED BY <1>2, <1>3

\* After l digits nothing is left of a number, before that its first digit.
LEMMA DigitsAre ==
  ASSUME NEW v \in Nat \ {0}, NEW r \in {10, 16}, NEW most \in Nat, NEW g \in [0..most -> Nat],
         Lefts(g, v, most, r), F!DigitCount(v, r) <= most
  PROVE  /\ F!DigitCount(v, r) \in Nat \ {0}
         /\ g[F!DigitCount(v, r)] = 0 /\ g[F!DigitCount(v, r) - 1] \in 1..r - 1
<1> DEFINE l == F!DigitCount(v, r)
<1>1. PICK f \in [0..v -> Nat] : Counts(f, v, r) /\ l = f[v]
  BY DigitLoops
<1>2. \A u \in 0..v : /\ f[u] \in Nat
                      /\ u # 0 => u \div r \in 0..v /\ f[u] = 1 + f[u \div r] /\ f[u] # 0
                      /\ u = 0 => f[u] = 0
  <2> SUFFICES ASSUME NEW u \in 0..v
               PROVE  /\ f[u] \in Nat /\ (u = 0 => f[u] = 0)
                      /\ u # 0 => u \div r \in 0..v /\ f[u] = 1 + f[u \div r] /\ f[u] # 0
    OBVIOUS
  <2>1. u # 0 => u \div r \in Nat /\ u \div r < u
    BY Shifted
  <2>2. u # 0 => u \div r \in 0..v
    BY <2>1
  <2>3. f[u] = IF u = 0 THEN 0 ELSE 1 + f[u \div r]
    BY <1>1 DEF Counts
  <2>4. u # 0 => f[u \div r] \in Nat
    BY <1>1, <2>2
  <2>5. f[u] \in Nat
    BY <1>1
  <2> QED BY <2>2, <2>3, <2>4, <2>5
<1>3. l \in Nat /\ l # 0
  <2>1. v \in 0..v /\ v # 0
    OBVIOUS
  <2> QED BY <1>1, <1>2, <2>1
<1> HIDE DEF l
<1>4. \A k \in 0..most : g[k] = IF k = 0 THEN v ELSE g[k - 1] \div r
  BY DEF Lefts
<1>5. l <= most
  BY DEF l
<1> DEFINE T == {k \in 0..l : ~(g[k] \in 0..v /\ f[g[k]] = l - k)}
<1>6. T = {}
  <2> SUFFICES ASSUME T # {} PROVE FALSE
    OBVIOUS
  <2>1. PICK k \in T : \A i \in T : k <= i
    <3>1. T \in SUBSET Nat
      BY <1>3
    <3> HIDE DEF T
    <3> QED BY <3>1, LeastNat
  <2>2. k \in 0..l /\ k \in Nat /\ ~(g[k] \in 0..v /\ f[g[k]] = l - k) /\ k \in 0..most
    BY <1>3, <1>5
  <2>3. CASE k = 0
    <3>1. g[0] = v /\ v \in 0..v
      BY <1>4, <2>2, <2>3
    <3> QED BY <1>1, <1>3, <2>2, <2>3, <3>1
  <2>4. CASE k # 0
    <3>1. k - 1 \in 0..l /\ k - 1 \notin T
      BY <1>3, <2>1, <2>2, <2>4
    <3>2. g[k - 1] \in 0..v /\ f[g[k - 1]] = l - (k - 1)
      BY <3>1
    <3>3. l - (k - 1) \in Nat \ {0} /\ l - (k - 1) = 1 + (l - k)
      BY <1>3, <2>2
    <3>4. g[k - 1] # 0
      BY <1>2, <3>2, <3>3
    <3>5. g[k] = g[k - 1] \div r
      BY <1>4, <2>2, <2>4
    <3>6. g[k] \in 0..v /\ f[g[k - 1]] = 1 + f[g[k]] /\ f[g[k]] \in Nat
      BY <1>2, <3>2, <3>4, <3>5
    <3>7. f[g[k]] = l - k
      <4> DEFINE e == f[g[k]]
                 o == f[g[k - 1]]
      <4>1. e \in Nat /\ o = 1 + e /\ o = 1 + (l - k) /\ l - k \in Int
        BY <1>3, <2>2, <3>2, <3>3, <3>6
      <4> HIDE DEF e, o
      <4>2. e = l - k
        <5>1. l \in Nat /\ k \in Nat
          BY <1>3, <2>2
        <5> HIDE DEF l
        <5> QED BY <4>1, <5>1
      <4> QED BY <4>2 DEF e
    <3> QED BY <2>2, <3>6, <3>7
  <2> QED BY <2>3, <2>4
<1>12. \A k \in 0..l : g[k] \in 0..v /\ f[g[k]] = l - k
  BY <1>6
<1> HIDE DEF T
<1>7. g[l] \in 0..v /\ f[g[l]] = 0
  <2>1. l \in 0..l /\ l - l = 0
    BY <1>3
  <2> QED BY <1>12, <2>1
<1>8. g[l - 1] \in 0..v /\ f[g[l - 1]] = 1
  <2>1. l - 1 \in 0..l /\ l - (l - 1) = 1
    BY <1>3
  <2> QED BY <1>12, <2>1
<1>9. g[l] = 0 /\ g[l - 1] # 0
  BY <1>2, <1>7, <1>8
<1>10. g[l] = g[l - 1] \div r
  BY <1>3, <1>4, <1>5
<1>11. g[l - 1] \in 1..r - 1
  <2> DEFINE u == g[l - 1]
  <2>1. u \in Nat
    BY <1>8
  <2>2. u \div r = 0 /\ u # 0
    BY <1>9, <1>10
  <2> HIDE DEF u
  <2>3. u = (u \div r) * r + LastDigit(u, r) /\ LastDigit(u, r) \in 0..r - 1
    BY <2>1, ShiftedOut
  <2>4. u = LastDigit(u, r)
    BY <2>2, <2>3
  <2>5. u \in 1..r - 1
    BY <2>2, <2>3, <2>4
  <2> QED BY <2>5 DEF u
<1> QED BY <1>3, <1>9, <1>11 DEF l

\* The digits ds stand for v.
StandsFor(ds, v, r) ==
  /\ ds # <<>> /\ ds[1] # 0 /\ \A i \in DOMAIN ds : ds[i] \in 0..15
  /\ F!Number(ds, r) = v

\* The digits that print_ull() and print_l() take from a number stand for it.
LEMMA DigitsMean ==
  ASSUME NEW v \in Nat \ {0}, NEW r \in {10, 16}, NEW most \in Nat, NEW g \in [0..most -> Nat],
         Lefts(g, v, most, r), F!DigitCount(v, r) <= most,
         NEW ds \in Seq(Nat), Len(ds) = F!DigitCount(v, r),
         FromEnd(ds, g, r)
  PROVE  StandsFor(ds, v, r)
<1> DEFINE l == Len(ds)
<1>1. l \in Nat /\ l # 0 /\ l <= most /\ g[l] = 0 /\ g[l - 1] \in 1..r - 1
  BY DigitsAre
<1>2. \A k \in 0..most : g[k] = IF k = 0 THEN v ELSE g[k - 1] \div r
  BY DEF Lefts
<1>4. DOMAIN ds = 1..l
  OBVIOUS
<1>5. PICK h : Sums(h, ds, l, r) /\ F!Number(ds, r) = h[l]
  BY NumberLoop
<1>11. \A i \in 1..l : ds[i] = LastDigit(g[l - i], r)
  BY DEF FromEnd
<1> HIDE DEF l
<1>3. \A i \in 1..l : ds[i] = LastDigit(g[l - i], r) /\ g[l - i] \in Nat
  <2> TAKE i \in 1..l
  <2>1. l - i \in 0..most
    BY <1>1
  <2> QED BY <1>11, <2>1
<1>6. \A i \in 0..l : h[i] = IF i = 0 THEN 0 ELSE h[i - 1] * r + ds[i]
  BY <1>5 DEF Sums
<1>7. ds[1] # 0
  <2> DEFINE u == g[l - 1]
  <2>1. u \in 1..r - 1 /\ ds[1] = LastDigit(u, r)
    BY <1>1, <1>3
  <2> HIDE DEF u
  <2>2. u \in Nat \ {0} /\ u < r
    BY <2>1
  <2>3. LastDigit(u, r) = u
    BY <2>2, FirstDigit
  <2> QED BY <2>1, <2>2, <2>3
<1>8. \A i \in DOMAIN ds : ds[i] \in 0..15
  <2> TAKE i \in DOMAIN ds
  <2> DEFINE u == g[l - i]
             d == ds[i]
  <2>1. d = LastDigit(u, r) /\ u \in Nat
    BY <1>3, <1>4
  <2> HIDE DEF u, d
  <2>2. d \in 0..r - 1
    BY <2>1, ShiftedOut
  <2>3. r - 1 \in 0..15
    OBVIOUS
  <2>4. d \in 0..15
    BY <2>2, <2>3
  <2> QED BY <2>4 DEF d
<1> DEFINE T == {i \in 0..l : h[i] # g[l - i]}
<1>9. T = {}
  <2> SUFFICES ASSUME T # {} PROVE FALSE
    OBVIOUS
  <2>1. PICK i \in T : \A j \in T : i <= j
    <3>1. T \in SUBSET Nat
      BY <1>1
    <3> HIDE DEF T
    <3> QED BY <3>1, LeastNat
  <2>2. i \in 0..l /\ i \in Nat /\ h[i] # g[l - i]
    BY <1>1
  <2>3. CASE i = 0
    <3>1. h[0] = 0 /\ l - 0 = l
      BY <1>1, <1>6, <2>2, <2>3
    <3> QED BY <1>1, <2>2, <2>3, <3>1
  <2>4. CASE i # 0
    <3> DEFINE u == g[l - i]
    <3>1. i \in 1..l /\ u \in Nat /\ ds[i] = LastDigit(u, r)
      BY <1>1, <1>3, <2>2, <2>4
    <3>2. i - 1 \in 0..l /\ i - 1 \notin T
      BY <1>1, <2>1, <2>2, <2>4
    <3>3. h[i - 1] = g[l - (i - 1)]
      BY <3>2
    <3>4. l - (i - 1) \in 0..most /\ l - (i - 1) # 0 /\ l - (i - 1) - 1 = l - i
      BY <1>1, <2>2, <3>1
    <3>5. g[l - (i - 1)] = u \div r
      BY <1>2, <3>4
    <3>6. h[i] = h[i - 1] * r + ds[i]
      BY <1>6, <2>2, <2>4
    <3>7. h[i] = (u \div r) * r + LastDigit(u, r)
      BY <3>1, <3>3, <3>5, <3>6
    <3>8. u = (u \div r) * r + LastDigit(u, r)
      BY <3>1, ShiftedOut
    <3> QED BY <2>2, <3>7, <3>8
  <2> QED BY <2>3, <2>4
<1>10. h[l] = v
  <2>1. l \in 0..l /\ l - l = 0 /\ 0 \in 0..most
    BY <1>1
  <2>2. g[0] = v
    BY <1>2, <2>1
  <2>3. \A i \in 0..l : h[i] = g[l - i]
    BY <1>9
  <2> HIDE DEF T
  <2> QED BY <2>1, <2>2, <2>3
<1> QED BY <1>1, <1>5, <1>7, <1>8, <1>10 DEF l, StandsFor

-----------------------------------------------------------------------------
(* The text of a number                                                      *)

\* A sign and digits stand for the number val.
Fits(body, val, r) ==
  LET ds == IF val < 0 THEN Tail(body) ELSE body
  IN  /\ body # <<>> /\ (val < 0 => body[1] = F!Minus) /\ ds # <<>>
      /\ \A i \in DOMAIN ds : ds[i] \in 0..15
      /\ F!Number(ds, r) = (IF val < 0 THEN -val ELSE val)
      /\ ds[1] # 0 \/ (val = 0 /\ ds = <<0>>)

\* The zeros that a width asks for.
Fill(cnt, want) == IF want - cnt < 0 THEN 0 ELSE IF want - cnt > 255 THEN 255 ELSE want - cnt

\* The text t shows it: zeros up to the width, and then those.
Shown(t, val, r, want) ==
  \E k \in 0..Len(t) :
    LET body == SubSeq(t, k + 1, Len(t))
    IN  (\A i \in 1..k : t[i] = 0) /\ Fits(body, val, r) /\ k = Fill(Len(body), want)

\* Zeros before the text of a number.
LEMMA Padded ==
  ASSUME NEW k \in Nat, NEW body \in Seq(Int), NEW t, t = F!Zeros(k) \o body
  PROVE  /\ k \in 0..Len(t) /\ \A i \in 1..k : t[i] = 0
         /\ SubSeq(t, k + 1, Len(t)) = body
<1> DEFINE z == F!Zeros(k)
<1>1. z \in Seq(Int) /\ Len(z) = k /\ \A i \in 1..k : z[i] = 0
  BY DEF F!Zeros
<1> HIDE DEF z
<1>2. t = z \o body
  BY DEF z
<1>3. t \in Seq(Int) /\ Len(t) = k + Len(body) /\ Len(body) \in Nat
  <2>1. z \o body \in Seq(Int) /\ Len(z \o body) = Len(z) + Len(body)
    BY <1>1, ConcatProperties
  <2>2. Len(body) \in Nat
    OBVIOUS
  <2> QED BY <1>1, <1>2, <2>1, <2>2
<1>4. \A i \in 1..k : t[i] = 0
  BY <1>1, <1>2
<1>5. \A i \in 1..Len(body) : t[k + i] = body[i]
  BY <1>1, <1>2
<1> DEFINE e == Len(t)
           a == k + 1
           s == SubSeq(t, a, e)
<1>6. a \in Nat \ {0} /\ e \in Nat /\ a <= e + 1 /\ e <= Len(t) /\ e - a + 1 = Len(body)
      /\ \A i \in 1..Len(body) : a + i - 1 = k + i
  BY <1>3
<1> HIDE DEF e, a
<1>7. s \in Seq(Int) /\ Len(s) = Len(body) /\ \A i \in 1..Len(body) : s[i] = body[i]
  <2>1. /\ SubSeq(t, a, e) \in Seq(Int) /\ Len(SubSeq(t, a, e)) = e - a + 1
        /\ \A i \in 1..e - a + 1 : SubSeq(t, a, e)[i] = t[a + i - 1]
    BY <1>3, <1>6, PartOf
  <2> HIDE DEF s
  <2>2. s = SubSeq(t, a, e)
    BY DEF s
  <2> QED BY <1>5, <1>6, <2>1, <2>2
<1> HIDE DEF s
<1>8. s = body
  <2>1. s = [i \in 1..Len(s) |-> s[i]] /\ body = [i \in 1..Len(body) |-> body[i]]
    BY <1>7
  <2> QED BY <1>7, <2>1
<1>9. k \in 0..Len(t)
  BY <1>3
<1> QED BY <1>4, <1>8, <1>9 DEF s, a, e

\* How many zeros there are.
LEMMA Missing ==
  ASSUME NEW cnt \in Nat, NEW want \in Nat
  PROVE  Fill(cnt, want) \in Nat /\ F!print_prenull(cnt, want) = F!Zeros(Fill(cnt, want))
<1> DEFINE k == IF cnt < want THEN IF want - cnt > 255 THEN 255 ELSE want - cnt ELSE 0
<1>1. k \in Nat /\ k = Fill(cnt, want)
  BY DEF Fill
<1>2. F!print_prenull(cnt, want) = F!Zeros(k)
  BY DEF F!print_prenull
<1> HIDE DEF k
<1> QED BY <1>1, <1>2

\* What is printed behind them shows the number.
LEMMA ShownIs ==
  ASSUME NEW body \in Seq(Int), NEW val, NEW r, NEW want \in Nat, Fits(body, val, r)
  PROVE  Shown(F!print_prenull(Len(body), want) \o body, val, r, want)
<1>1. Len(body) \in Nat
  OBVIOUS
<1> DEFINE k == Fill(Len(body), want)
           t == F!Zeros(k) \o body
<1>2. k \in Nat /\ F!print_prenull(Len(body), want) = F!Zeros(k)
  BY <1>1, Missing
<1> HIDE DEF k
<1>3. k \in 0..Len(t) /\ (\A i \in 1..k : t[i] = 0) /\ SubSeq(t, k + 1, Len(t)) = body
  BY <1>2, Padded
<1> HIDE DEF t
<1>4. Shown(t, val, r, want)
  BY <1>3 DEF Shown, k
<1> QED BY <1>2, <1>4 DEF t

LEMMA ZeroShown ==
  ASSUME NEW r \in {10, 16}, NEW want \in Nat
  PROVE  Shown(F!print_prenull(1, want) \o <<0>>, 0, r, want)
<1> DEFINE ds == <<0>>
<1>1. ds \in Seq(Nat) /\ Len(ds) = 1 /\ ds[1] = 0 /\ ds # <<>> /\ DOMAIN ds = {1} /\ ds \in Seq(Int)
  OBVIOUS
<1> HIDE DEF ds
<1>2. PICK h : Sums(h, ds, 1, r) /\ F!Number(ds, r) = h[1]
  BY <1>1, NumberLoop
<1>3. h[0] = 0 /\ h[1] = h[0] * r + ds[1]
  BY <1>2 DEF Sums
<1>4. F!Number(ds, r) = 0
  <2>1. r = 10 \/ r = 16
    OBVIOUS
  <2> QED BY <1>1, <1>2, <1>3, <2>1
<1>5. Shown(F!print_prenull(Len(ds), want) \o ds, 0, r, want)
  <2>1. ~(0 < 0) /\ ds = <<0>>
    BY DEF ds
  <2>2. \A i \in DOMAIN ds : ds[i] \in 0..15
    BY <1>1
  <2>3. Fits(ds, 0, r)
    BY <1>1, <1>4, <2>1, <2>2 DEF Fits
  <2> QED BY <1>1, <2>3, ShownIs
<1> QED BY <1>1, <1>5 DEF ds

\* print_ull() shows every number.
LEMMA UnsignedShown ==
  ASSUME NEW val \in Nat, NEW r \in {10, 16}, NEW want \in Nat
  PROVE  Shown(F!print_ull(val, r, want), val, r, want)
<1>1. CASE val = 0
  <2>1. F!print_ull(val, r, want) = F!print_prenull(1, want) \o <<0>>
    BY <1>1 DEF F!print_ull
  <2> QED BY <1>1, <2>1, ZeroShown
<1>2. CASE val # 0
  <2> DEFINE l == F!DigitCount(val, r)
             ds == F!LastDigits(val, r, l)
  <2>1. F!print_ull(val, r, want) = F!print_prenull(l, want) \o ds
    BY <1>2 DEF F!print_ull
  <2>2. val \in Nat \ {0}
    BY <1>2
  <2>3. l \in Nat
    <3>1. PICK f \in [0..val -> Nat] : l = f[val]
      BY <2>2, DigitLoops
    <3> QED BY <3>1
  <2>12. l = F!DigitCount(val, r) /\ ds = F!LastDigits(val, r, l)
    OBVIOUS
  <2> HIDE DEF l, ds
  <2>4. PICK g \in [0..l -> Nat] : Lefts(g, val, l, r) /\ ds = [i \in 1..l |-> LastDigit(g[l - i], r)]
    <3>1. TakenOff(ds, val, l, r)
      BY <2>2, <2>3, <2>12, DigitLoops
    <3> QED BY <3>1 DEF TakenOff
  <2>5. \A i \in 1..l : LastDigit(g[l - i], r) \in Nat
    <3> TAKE i \in 1..l
    <3>1. l - i \in 0..l
      BY <2>3
    <3>2. g[l - i] \in Nat
      BY <3>1
    <3> QED BY <3>2, ShiftedOut
  <2>6. ds \in Seq(Nat) /\ Len(ds) = l /\ \A i \in 1..l : ds[i] = LastDigit(g[l - i], r)
    BY <2>3, <2>4, <2>5
  <2>7. l <= l
    BY <2>3
  <2>8. /\ ds # <<>> /\ ds[1] # 0 /\ \A i \in DOMAIN ds : ds[i] \in 0..15
        /\ F!Number(ds, r) = val
    <3>1. FromEnd(ds, g, r)
      BY <2>6 DEF FromEnd
    <3>2. F!DigitCount(val, r) <= l /\ Len(ds) = F!DigitCount(val, r)
      BY <2>6, <2>7, <2>12
    <3>3. ds \in Seq(Nat) /\ Lefts(g, val, l, r)
      BY <2>4, <2>6
    <3>4. StandsFor(ds, val, r)
      BY <2>2, <2>3, <3>1, <3>2, <3>3, DigitsMean
    <3> QED BY <3>4 DEF StandsFor
  <2>9. ds \in Seq(Int) /\ ~(val < 0)
    BY <2>6
  <2>11. Fits(ds, val, r)
    BY <2>8, <2>9 DEF Fits
  <2>10. Shown(F!print_prenull(Len(ds), want) \o ds, val, r, want)
    BY <2>9, <2>11, ShownIs
  <2> QED BY <2>1, <2>6, <2>10
<1> QED BY <1>1, <1>2

\* print_l() shows every number but the smallest of a word.
LEMMA SignedShown ==
  ASSUME NEW val \in Int, val # -F!Half, NEW want \in Nat
  PROVE  Shown(F!print_l(val, 10, want), val, 10, want)
<1>1. CASE ~(val < 0)
  <2>1. val \in Nat
    BY <1>1
  <2>2. F!DigitCount(val, 10) \in Nat
    <3>1. CASE val = 0
      BY <3>1 DEF F!DigitCount
    <3>2. CASE val # 0
      <4>1. PICK f \in [0..val -> Nat] : F!DigitCount(val, 10) = f[val]
        BY <2>1, <3>2, DigitLoops
      <4> QED BY <2>1, <4>1
    <3> QED BY <3>1, <3>2
  <2>3. F!print_l(val, 10, want) = F!print_ull(val, 10, want)
    <3> DEFINE l == F!DigitCount(val, 10)
    <3>1. l + 0 = l
      BY <2>2
    <3> QED BY <1>1, <3>1, Zenon DEF F!print_l, F!print_ull
  <2>4. Shown(F!print_ull(val, 10, want), val, 10, want)
    BY <2>1, UnsignedShown
  <2> QED BY <2>3, <2>4
<1>2. CASE val < 0
  <2> DEFINE v == -val
             c == F!DigitCount(v, 10)
             l == c + 1
             s == F!LastDigits(v, 10, l)
             body == [s EXCEPT ![1] = F!Minus]
             ds == Tail(body)
  <2>1. v \in Nat \ {0} /\ ~(v < 0) /\ val # 0
    BY <1>2
  <2>2. F!print_l(val, 10, want) = F!print_prenull(l, want) \o body
    BY <1>2, <2>1 DEF F!print_l
  <2> HIDE DEF v
  <2>3. PICK f \in [0..v -> Nat] : c = f[v]
    BY <2>1, DigitLoops
  <2>4. c \in Nat /\ l \in Nat
    BY <2>1, <2>3
  <2> HIDE DEF c
  <2> HIDE DEF s
  <2>5. PICK g \in [0..l -> Nat] : Lefts(g, v, l, 10) /\ s = [i \in 1..l |-> LastDigit(g[l - i], 10)]
    <3>1. TakenOff(s, v, l, 10)
      BY <2>1, <2>4, DigitLoops DEF s
    <3> QED BY <3>1 DEF TakenOff
  <2>6. \A i \in 1..l : LastDigit(g[l - i], 10) \in Nat
    <3> TAKE i \in 1..l
    <3>1. l - i \in 0..l
      BY <2>4
    <3>2. g[l - i] \in Nat
      BY <3>1
    <3> QED BY <3>2, ShiftedOut
  <2>7. s \in Seq(Int) /\ Len(s) = l /\ \A i \in 1..l : s[i] = LastDigit(g[l - i], 10) /\ s[i] \in Nat
    BY <2>4, <2>5, <2>6
  <2>8. body \in Seq(Int) /\ Len(body) = l /\ body[1] = F!Minus /\ \A i \in 2..l : body[i] = s[i]
    BY <2>4, <2>7 DEF F!Minus
  <2> HIDE DEF body
  <2>9. ds \in Seq(Int) /\ Len(ds) = c /\ \A i \in 1..c : ds[i] = body[i + 1]
    BY <2>4, <2>8
  <2>10. \A i \in 1..c : ds[i] = LastDigit(g[c - i], 10) /\ ds[i] \in Nat
    <3> TAKE i \in 1..c
    <3>1. i + 1 \in 2..l /\ i + 1 \in 1..l /\ l - (i + 1) = c - i
      BY <2>4
    <3> QED BY <2>7, <2>8, <2>9, <3>1
  <2> HIDE DEF ds
  <2>11. ds \in Seq(Nat)
    <3>1. ds = [i \in 1..c |-> ds[i]] /\ c \in Nat
      BY <2>4, <2>9
    <3>2. [i \in 1..c |-> ds[i]] \in [1..c -> Nat]
      BY <2>10
    <3>3. \A q \in [1..c -> Nat] : q \in Seq(Nat)
      BY <3>1
    <3> HIDE DEF c
    <3> QED BY <3>1, <3>2, <3>3
  <2>12. c <= l
    BY <2>4
  <2>13. /\ ds # <<>> /\ ds[1] # 0 /\ \A i \in DOMAIN ds : ds[i] \in 0..15
         /\ F!Number(ds, 10) = v
    <3> HIDE DEF l
    <3>1. FromEnd(ds, g, 10)
      BY <2>9, <2>10 DEF FromEnd
    <3>2. StandsFor(ds, v, 10)
      BY <2>1, <2>4, <2>5, <2>9, <2>11, <2>12, <3>1, DigitsMean DEF c
    <3> QED BY <3>2 DEF StandsFor
  <2>14. body # <<>>
    BY <2>4, <2>8
  <2>15. ds = (IF val < 0 THEN Tail(body) ELSE body) /\ v = (IF val < 0 THEN -val ELSE val)
    BY <1>2 DEF ds, v
  <2> HIDE DEF l
  <2>17. Fits(body, val, 10)
    BY <2>1, <2>8, <2>13, <2>14, <2>15 DEF Fits
  <2>16. Shown(F!print_prenull(Len(body), want) \o body, val, 10, want)
    BY <2>8, <2>17, ShownIs
  <2> QED BY <2>2, <2>8, <2>16 DEF body, v, s, c, l
<1> QED BY <1>1, <1>2

-----------------------------------------------------------------------------
(* Formats                                                                   *)

\* The l and the width are those of the format, and only after an odd conversion words are left.
PrintInv ==
  /\ asked \in [ls : Nat, width : Nat] /\ l_cnt = asked.ls /\ fmtcnt = asked.width
  /\ owed \in Seq(F!Words) /\ twisted \in BOOLEAN /\ (~twisted => owed = <<>>)
  /\ F!PrintsRight

\* Words are numbers, and so are their values.
LEMMA WordsAre ==
  ASSUME F!PrintAssumption
  PROVE  /\ F!Size \in Nat /\ F!Half \in Int /\ \A w \in F!Words : w \in Nat /\ F!Signed(w) \in Int
         /\ \A ws \in Seq(F!Words) : Len(ws) \in {1, 2} => F!Unsigned(ws) \in Nat
<1>1. WordBits \in Nat /\ WordBits - 1 \in Nat
  BY DEF F!PrintAssumption
<1>2. F!Size \in Nat /\ F!Half \in Nat
  BY <1>1, Powers DEF F!Size, F!Half
<1>3. \A w \in F!Words : w \in Nat
  BY <1>2 DEF F!Words
<1>4. \A w \in F!Words : F!Signed(w) \in Int
  BY <1>2, <1>3 DEF F!Signed
<1>5. ASSUME NEW ws \in Seq(F!Words), Len(ws) \in {1, 2} PROVE F!Unsigned(ws) \in Nat
  <2>1. CASE Len(ws) = 1
    <3>1. ws[1] \in F!Words
      BY <2>1
    <3> QED BY <1>3, <2>1, <3>1 DEF F!Unsigned
  <2>2. CASE Len(ws) = 2
    <3> DEFINE S == F!Words
    <3> HIDE DEF S
    <3>4. ws \in Seq(S) /\ 1 \in 1..Len(ws) /\ 2 \in 1..Len(ws)
      BY <2>2 DEF S
    <3>1. ws[1] \in F!Words /\ ws[2] \in F!Words
      BY <3>4 DEF S
    <3>2. ws[1] \in Nat /\ ws[2] \in Nat
      BY <1>3, <3>1
    <3>3. F!Size * ws[2] \in Nat
      BY <1>2, <3>2
    <3> QED BY <2>2, <3>2, <3>3 DEF F!Unsigned
  <2> QED BY <1>5, <2>1, <2>2
<1> QED BY <1>2, <1>3, <1>4, <1>5

\* A conversion keeps the invariant: it has taken the words of its own and shown the number.
LEMMA ConvertStep ==
  ASSUME F!PrintAssumption, PrintInv, NEW conv \in F!Conversions, NEW k \in {1, 2},
         NEW own \in [1..k -> F!Words], F!Convert(conv, own)
  PROVE  PrintInv'
<1> DEFINE all == owed \o own
           took == F!Taken(conv)
           ws == SubSeq(all, 1, took)
           text == F!Text(conv, ws)
<1>1. /\ Len(own) = F!Passed(conv)
      /\ owed' = SubSeq(all, took + 1, Len(all))
      /\ last' = [conv |-> conv, own |-> own, read |-> ws, text |-> text]
      /\ twisted' = (twisted \/ (conv = "d" /\ asked.ls = 2) \/ (conv \in {"u", "x"} /\ asked.ls > 2))
      /\ l_cnt' = l_cnt /\ fmtcnt' = fmtcnt /\ asked' = asked
  BY DEF F!Convert
<1>2. own \in Seq(F!Words) /\ Len(own) \in {1, 2} /\ owed \in Seq(F!Words)
  BY DEF PrintInv
<1>3. conv \in {"s", "c", "d", "u", "x"} /\ asked.ls \in Nat /\ asked.width \in Nat
      /\ l_cnt = asked.ls /\ fmtcnt = asked.width
  BY DEF F!Conversions, PrintInv
<1>4. all \in Seq(F!Words) /\ Len(all) = Len(owed) + Len(own) /\ Len(all) \in Nat /\ Len(all) >= Len(own)
  BY <1>2
<1>5. took \in {0, 1, 2} /\ took <= Len(own)
  BY <1>1, <1>2, <1>3 DEF F!Taken, F!Passed
<1> HIDE DEF took
<1>6. ws \in Seq(F!Words) /\ Len(ws) = took /\ \A i \in 1..took : ws[i] = all[i]
  BY <1>2, <1>4, <1>5
<1>7. owed' \in Seq(F!Words)
  <2> DEFINE S == F!Words
             a == all
  <2> HIDE DEF S, a
  <2>1. a \in Seq(S) /\ Len(a) \in Nat /\ took + 1 \in Nat \ {0}
    BY <1>4, <1>5 DEF S, a
  <2>2. SubSeq(a, took + 1, Len(a)) \in Seq(S)
    BY <2>1
  <2> QED BY <1>1, <2>2 DEF S, a
<1>8. ~twisted' => owed' = <<>> /\ ws = own
  <2> SUFFICES ASSUME ~twisted' PROVE owed' = <<>> /\ ws = own
    OBVIOUS
  <2>1. owed = <<>> /\ ~(conv = "d" /\ asked.ls = 2) /\ ~(conv \in {"u", "x"} /\ asked.ls > 2)
    BY <1>1 DEF PrintInv
  <2>2. took = Len(own)
    BY <1>1, <1>3, <2>1 DEF took, F!Taken, F!Passed
  <2>3. all = own
    BY <1>2, <2>1
  <2>4. owed' = <<>>
    BY <1>1, <1>2, <2>2, <2>3
  <2>5. ws = own
    <3>1. \A i \in 1..Len(own) : ws[i] = own[i]
      BY <1>6, <2>2, <2>3
    <3>2. ws = [i \in 1..Len(ws) |-> ws[i]] /\ own = [i \in 1..Len(own) |-> own[i]] /\ Len(ws) = Len(own)
      BY <1>2, <1>6, <2>2
    <3> QED BY <3>1, <3>2
  <2> QED BY <2>4, <2>5
<1> HIDE DEF all, ws
<1>9. /\ last'.conv = conv /\ last'.own = own /\ last'.read = ws /\ last'.text = text
      /\ asked'.width = fmtcnt
  BY <1>1, <1>3
<1>10. F!OwnArgument'
  BY <1>8, <1>9 DEF F!OwnArgument
<1>11. F!IsNumber' /\ F!Printed' # -F!Half =>
         Shown(last'.text, F!Printed', IF last'.conv = "x" THEN 16 ELSE 10, asked'.width)
  <2> SUFFICES ASSUME F!IsNumber', F!Printed' # -F!Half
               PROVE  Shown(text, F!Printed', IF conv = "x" THEN 16 ELSE 10, fmtcnt)
    BY <1>9
  <2>1. conv \in {"d", "u", "x"} /\ ws # <<>>
    BY <1>9 DEF F!IsNumber
  <2>2. Len(ws) \in {1, 2} /\ ws[1] \in F!Words /\ fmtcnt \in Nat
    BY <1>3, <1>5, <1>6, <2>1
  <2>3. CASE conv = "d"
    <3>1. F!Printed' = F!Signed(ws[1]) /\ text = F!print_l(F!Signed(ws[1]), 10, fmtcnt)
      BY <1>9, <2>3 DEF F!Printed, F!Text
    <3>2. F!Signed(ws[1]) \in Int /\ F!Signed(ws[1]) # -F!Half
      BY <2>2, <3>1, WordsAre
    <3>3. Shown(F!print_l(F!Signed(ws[1]), 10, fmtcnt), F!Signed(ws[1]), 10, fmtcnt)
      BY <2>2, <3>2, SignedShown
    <3> QED BY <2>3, <3>1, <3>3
  <2>4. CASE conv \in {"u", "x"}
    <3> DEFINE r == IF conv = "x" THEN 16 ELSE 10
    <3>1. F!Printed' = F!Unsigned(ws) /\ text = F!print_ull(F!Unsigned(ws), r, fmtcnt)
      BY <1>9, <2>1, <2>4 DEF F!Printed, F!Text
    <3>2. F!Unsigned(ws) \in Nat /\ r \in {10, 16}
      BY <1>6, <2>2, WordsAre
    <3> HIDE DEF r
    <3>3. Shown(F!print_ull(F!Unsigned(ws), r, fmtcnt), F!Unsigned(ws), r, fmtcnt)
      BY <2>2, <3>2, UnsignedShown
    <3> QED BY <3>1, <3>3 DEF r
  <2> QED BY <2>1, <2>3, <2>4
<1>12. F!NumberRight'
  BY <1>11 DEF F!NumberRight, Shown, Fits, Fill
<1>13. twisted' \in BOOLEAN /\ asked' \in [ls : Nat, width : Nat]
  BY <1>1 DEF PrintInv
<1> QED BY <1>1, <1>3, <1>7, <1>8, <1>10, <1>12, <1>13 DEF PrintInv, F!PrintsRight

\* The characters between two conversions.
LEMMA CharacterStep ==
  ASSUME PrintInv,
         \/ F!Plain \/ F!Percent \/ F!PercentPercent \/ F!Long \/ F!Ignored
         \/ \E d \in {0, 2} : F!Digit(d)
  PROVE  PrintInv'
<1>1. last' = F!Nothing /\ owed' = owed /\ twisted' = twisted
  BY DEF F!Plain, F!Percent, F!PercentPercent, F!Long, F!Ignored, F!Digit
<1>2. F!PrintsRight'
  <2>1. last'.conv = "none"
    BY <1>1 DEF F!Nothing
  <2>2. ~F!IsNumber'
    BY <2>1 DEF F!IsNumber
  <2>3. F!NumberRight'
    BY <2>2 DEF F!NumberRight
  <2>4. F!OwnArgument'
    BY <1>1 DEF F!OwnArgument
  <2> QED BY <2>3, <2>4 DEF F!PrintsRight
<1>3. asked' \in [ls : Nat, width : Nat] /\ l_cnt' = asked'.ls /\ fmtcnt' = asked'.width
  <2>1. CASE F!Plain \/ F!PercentPercent \/ F!Ignored
    BY <2>1 DEF F!Plain, F!PercentPercent, F!Ignored, PrintInv
  <2>2. CASE F!Percent
    BY <2>2 DEF F!Percent
  <2>3. CASE F!Long
    BY <2>3 DEF F!Long, PrintInv
  <2>4. CASE \E d \in {0, 2} : F!Digit(d)
    BY <2>4 DEF F!Digit, PrintInv
  <2> QED BY <2>1, <2>2, <2>3, <2>4
<1> QED BY <1>1, <1>2, <1>3 DEF PrintInv

LEMMA PrintBegins == ASSUME F!Init PROVE PrintInv
<1>1. last = F!Nothing /\ owed = <<>> /\ twisted = FALSE /\ l_cnt = 0 /\ fmtcnt = 0 /\ asked = [ls |-> 0, width |-> 0]
  BY DEF F!Init
<1>2. F!PrintsRight
  <2>1. ~F!IsNumber
    BY <1>1 DEF F!IsNumber, F!Nothing
  <2>2. F!NumberRight
    BY <2>1 DEF F!NumberRight
  <2>3. F!OwnArgument
    BY <1>1 DEF F!OwnArgument
  <2> QED BY <2>2, <2>3 DEF F!PrintsRight
<1>3. owed \in Seq(F!Words) /\ twisted \in BOOLEAN /\ (~twisted => owed = <<>>)
  <2>1. \A S : <<>> \in Seq(S)
    OBVIOUS
  <2>2. owed \in Seq(F!Words)
    BY <1>1, <2>1
  <2> QED BY <1>1, <2>2
<1>4. asked \in [ls : Nat, width : Nat] /\ l_cnt = asked.ls /\ fmtcnt = asked.width
  BY <1>1
<1> QED BY <1>2, <1>3, <1>4 DEF PrintInv

LEMMA PrintSame == ASSUME PrintInv, UNCHANGED F!vars PROVE PrintInv'
<1>1. UNCHANGED <<l_cnt, fmtcnt, owed, last, asked, twisted>>
  BY DEF F!vars
<1>2. F!OwnArgument'
  BY <1>1 DEF PrintInv, F!PrintsRight, F!OwnArgument
<1>3. F!NumberRight'
  <2>1. F!IsNumber' = F!IsNumber /\ F!Printed' = F!Printed
    BY <1>1 DEF F!IsNumber, F!Printed
  <2>2. (F!IsNumber /\ F!Printed # -F!Half) =>
          Shown(last.text, F!Printed, IF last.conv = "x" THEN 16 ELSE 10, asked.width)
    BY DEF PrintInv, F!PrintsRight, F!NumberRight, Shown, Fits, Fill
  <2>3. (F!IsNumber' /\ F!Printed' # -F!Half) =>
          Shown(last'.text, F!Printed', IF last'.conv = "x" THEN 16 ELSE 10, asked'.width)
    BY <1>1, <2>1, <2>2
  <2> QED BY <2>3 DEF F!NumberRight, Shown, Fits, Fill
<1> QED BY <1>1, <1>2, <1>3 DEF PrintInv, F!PrintsRight

\* For words of any number of bits, any formats and any arguments: the text of a number is what the
\* format asks for, digit by digit, and a conversion takes the argument passed for it as long as
\* the format had no %lld and no conversion with three l.
THEOREM NumbersArePrinted == Spec => []PrintsRight
<1> USE LibraryAssumption DEF LibraryAssumption
<1>1. F!Init => PrintInv
  BY PrintBegins
<1>2. PrintInv /\ [F!Next]_(F!vars) => PrintInv'
  <2> SUFFICES ASSUME PrintInv, [F!Next]_(F!vars) PROVE PrintInv'
    OBVIOUS
  <2>1. CASE UNCHANGED F!vars \/ F!End
    BY <2>1, PrintSame DEF F!End
  <2>2. CASE \/ F!Plain \/ F!Percent \/ F!PercentPercent \/ F!Long \/ F!Ignored
             \/ \E d \in {0, 2} : F!Digit(d)
    BY <2>2, CharacterStep
  <2>3. CASE \E conv \in F!Conversions, k \in {1, 2} : \E own \in [1..k -> F!Words] : F!Convert(conv, own)
    BY <2>3, ConvertStep
  <2> QED BY <2>1, <2>2, <2>3 DEF F!Next
<1>3. PrintInv => F!PrintsRight
  BY DEF PrintInv
<1>4. Init => F!Init
  BY DEF Init
<1>5. [Next]_vars => [F!Next]_(F!vars)
  BY DEF Next, vars, format, F!vars
<1> QED BY <1>1, <1>2, <1>3, <1>4, <1>5, PTL DEF Spec, PrintsRight

-----------------------------------------------------------------------------
(* The objects of a list                                                     *)

ListRecords ==
  [first : L!Places, last : L!Places, size : Int, next : [L!Objects -> L!Places],
   ptr : [L!Objects -> Values \cup {0}], freed : Seq(L!Objects), live : SUBSET L!Objects]

PoolOf(l) == {l.freed[k] : k \in DOMAIN l.freed}

\* The pool holds objects that exist, none twice.
Kept(l) ==
  /\ l \in ListRecords /\ PoolOf(l) \subseteq l.live
  /\ \A i, j \in DOMAIN l.freed : l.freed[i] = l.freed[j] => i = j

\* An object that is in use, with a value.
Owned(l, o) == o \in l.live \ PoolOf(l) /\ l.ptr[o] \in Values

\* A walk from the first object meets the n objects of q, each once.
Line(l, q, n) ==
  /\ n \in Nat /\ q \in [1..n -> L!Objects]
  /\ \A i, j \in 1..n : q[i] = q[j] => i = j
  /\ l.first = IF n = 0 THEN 0 ELSE q[1]
  /\ \A i \in 1..n : l.next[q[i]] = IF i = n THEN 0 ELSE q[i + 1]

Good(l, q, n) == Kept(l) /\ Line(l, q, n) /\ \A i \in 1..n : Owned(l, q[i])

\* The end and the size are known.
Ends(l, q, n) == l.size = n /\ l.last = IF n = 0 THEN 0 ELSE q[n]

\* The place a walk of i steps comes to.
Place(i, n) == IF i < n THEN i + 1 ELSE n

\* Nobody has more objects than there are.
LEMMA LineFits ==
  ASSUME L!ListsAssumption, NEW l, NEW q, NEW n, Line(l, q, n)
  PROVE  n <= MaxObjects
<1> SUFFICES ASSUME ~(n <= MaxObjects) PROVE FALSE
  OBVIOUS
<1>1. n \in Nat /\ MaxObjects \in Nat /\ MaxObjects < n
  BY DEF Line, L!ListsAssumption
<1>2. IsFiniteSet(1..n) /\ Cardinality(1..n) = n
  BY <1>1, FS_Interval
<1>3. IsFiniteSet(1..MaxObjects) /\ Cardinality(1..MaxObjects) = MaxObjects
  BY <1>1, FS_Interval
<1>4. q \in [1..n -> 1..MaxObjects]
  BY DEF Line, L!Objects
<1> DEFINE S == 1..n
           T == 1..MaxObjects
<1> HIDE DEF S, T
<1>5. \E i, j \in S : i # j /\ q[i] = q[j]
  BY <1>1, <1>2, <1>3, <1>4, FS_PigeonHole DEF S, T
<1> QED BY <1>5 DEF Line, S

\* A walk.
Ways(l, o, n, w) ==
  w = [k \in 0..n |-> IF k = 0 THEN o
                      ELSE IF l.next[w[k - 1]] = 0 THEN w[k - 1] ELSE l.next[w[k - 1]]]

LEMMA WalkIs ==
  ASSUME NEW l, NEW q, NEW n, Line(l, q, n), n # 0, NEW i \in Nat
  PROVE  L!Walk(l, l.first, i) = q[Place(i, n)]
<1> DEFINE o == l.first
           w == CHOOSE f : Ways(l, o, i, f)
           u == [k \in 0..i |-> q[Place(k, n)]]
<1>1. L!Walk(l, o, i) = w[i]
  BY DEF L!Walk, Ways, L!Nil
<1>2. n \in Nat \ {0} /\ q \in [1..n -> L!Objects] /\ o = q[1]
      /\ \A k \in 1..n : l.next[q[k]] = IF k = n THEN 0 ELSE q[k + 1]
  BY DEF Line
<1>3. \A k \in 1..n : q[k] # 0
  BY <1>2 DEF L!Objects
<1> HIDE DEF o
<1>4. \A k \in 0..i : q[Place(k, n)] = IF k = 0 THEN o
                       ELSE IF l.next[q[Place(k - 1, n)]] = 0 THEN q[Place(k - 1, n)]
                            ELSE l.next[q[Place(k - 1, n)]]
  <2> TAKE k \in 0..i
  <2>1. CASE k = 0
    BY <1>2, <2>1 DEF Place
  <2>2. CASE k # 0
    <3> DEFINE p == Place(k - 1, n)
    <3>1. k - 1 \in Nat /\ k \in Nat
      BY <2>2
    <3>2. p \in 1..n /\ Place(k, n) = IF p = n THEN n ELSE p + 1
      BY <1>2, <3>1 DEF Place
    <3> HIDE DEF p
    <3>3. l.next[q[p]] = IF p = n THEN 0 ELSE q[p + 1]
      BY <1>2, <3>2
    <3>4. p # n => p + 1 \in 1..n
      BY <1>2, <3>2
    <3>5. p # n => q[p + 1] # 0
      BY <1>3, <3>4
    <3>6. q[Place(k, n)] = IF l.next[q[p]] = 0 THEN q[p] ELSE l.next[q[p]]
      BY <3>2, <3>3, <3>5
    <3> QED BY <2>2, <3>6 DEF p
  <2> QED BY <2>1, <2>2
<1>5. Ways(l, o, i, u)
  <2>1. \A k \in 0..i : k # 0 => k - 1 \in 0..i
    OBVIOUS
  <2>2. \A k \in 0..i : u[k] = IF k = 0 THEN o
                         ELSE IF l.next[u[k - 1]] = 0 THEN u[k - 1] ELSE l.next[u[k - 1]]
    BY <1>4, <2>1
  <2>3. u = [k \in 0..i |-> u[k]]
    OBVIOUS
  <2> HIDE DEF u
  <2> QED BY <2>2, <2>3 DEF Ways
<1>6. Ways(l, o, i, w)
  BY <1>5
<1> HIDE DEF w
<1>7. \A k \in 0..i : w[k] = u[k]
  <2> DEFINE T == {k \in 0..i : w[k] # u[k]}
  <2> SUFFICES ASSUME T # {} PROVE FALSE
    OBVIOUS
  <2>1. PICK k \in T : \A j \in T : k <= j
    <3>1. T \in SUBSET Nat
      OBVIOUS
    <3> HIDE DEF T
    <3> QED BY <3>1, LeastNat
  <2>2. k \in 0..i /\ w[k] # u[k]
    OBVIOUS
  <2> HIDE DEF u
  <2>3. /\ w[k] = IF k = 0 THEN o ELSE IF l.next[w[k - 1]] = 0 THEN w[k - 1] ELSE l.next[w[k - 1]]
        /\ u[k] = IF k = 0 THEN o ELSE IF l.next[u[k - 1]] = 0 THEN u[k - 1] ELSE l.next[u[k - 1]]
    BY <1>5, <1>6, <2>2 DEF Ways
  <2>4. k # 0 => k - 1 \in 0..i /\ ~(k <= k - 1)
    BY <2>2
  <2>5. k # 0 => w[k - 1] = u[k - 1]
    BY <2>1, <2>4
  <2> QED BY <2>2, <2>3, <2>5
<1>8. i \in 0..i
  OBVIOUS
<1> QED BY <1>1, <1>7, <1>8 DEF o

\* Steps counts those that are taken.
LEMMA StepsAre ==
  ASSUME NEW l, NEW q, NEW n, Line(l, q, n), n # 0, NEW i \in Nat
  PROVE  L!Steps(l, i) = Place(i, n) - 1
<1> DEFINE Taking(c) == /\ \A k \in 0..c - 1 : l.next[L!Walk(l, l.first, k)] # 0
                        /\ c = i \/ l.next[L!Walk(l, l.first, c)] = 0
           m == Place(i, n) - 1
<1>1. n \in Nat \ {0} /\ \A k \in 1..n : q[k] # 0 /\ l.next[q[k]] = IF k = n THEN 0 ELSE q[k + 1]
  BY DEF Line, L!Objects
<1>2. \A k \in 0..i : l.next[L!Walk(l, l.first, k)] = 0 <=> k >= n - 1
  <2> TAKE k \in 0..i
  <2>1. k \in Nat /\ Place(k, n) \in 1..n /\ (Place(k, n) = n <=> k >= n - 1)
    BY <1>1 DEF Place
  <2>2. L!Walk(l, l.first, k) = q[Place(k, n)]
    BY <2>1, WalkIs
  <2> DEFINE p == Place(k, n)
  <2> HIDE DEF p
  <2>3. l.next[q[p]] = IF p = n THEN 0 ELSE q[p + 1]
    BY <1>1, <2>1 DEF p
  <2>4. p # n => p + 1 \in 1..n
    BY <1>1, <2>1 DEF p
  <2>5. p # n => q[p + 1] # 0
    BY <1>1, <2>4
  <2> QED BY <2>1, <2>2, <2>3, <2>5 DEF p
<1>3. m \in 0..i /\ m <= n - 1 /\ (m = i \/ m = n - 1)
  BY <1>1 DEF Place
<1> HIDE DEF m
<1>4. Taking(m)
  <2>1. \A k \in 0..m - 1 : k \in 0..i /\ ~(k >= n - 1)
    BY <1>1, <1>3
  <2> QED BY <1>1, <1>2, <1>3, <2>1
<1>5. ASSUME NEW c \in 0..i, Taking(c) PROVE c = m
  <2>1. c = i \/ c >= n - 1
    BY <1>2, <1>5
  <2>2. CASE c < m
    BY <1>1, <1>3, <2>1, <2>2
  <2>3. CASE c > m
    <3>1. m \in 0..c - 1 /\ m # i
      BY <1>3, <2>3
    <3>2. m >= n - 1
      BY <1>1, <1>3, <3>1
    <3> QED BY <1>2, <1>3, <1>5, <3>1, <3>2
  <2> QED BY <1>3, <2>2, <2>3
<1>6. L!Steps(l, i) = CHOOSE c \in 0..i : Taking(c)
  BY DEF L!Steps, L!Nil
<1> HIDE DEF Taking
<1>7. (CHOOSE c \in 0..i : Taking(c)) = m
  BY <1>3, <1>4, <1>5
<1> QED BY <1>6, <1>7 DEF m

\* The values of the list.
Vals(l, q, n) == [i \in 1..n |-> l.ptr[q[i]]]

LEMMA ItemsAre ==
  ASSUME L!ListsAssumption, NEW l, NEW q, NEW n, Line(l, q, n)
  PROVE  L!Items(l) = Vals(l, q, n)
<1>1. n \in Nat /\ MaxObjects \in Nat /\ n <= MaxObjects /\ (l.first = 0 <=> n = 0)
  <2>1. n <= MaxObjects /\ MaxObjects \in Nat
    BY LineFits DEF L!ListsAssumption
  <2>2. n # 0 => 1 \in 1..n
    BY DEF Line
  <2> QED BY <2>1, <2>2 DEF Line, L!Objects
<1>2. CASE n = 0
  <2>1. Vals(l, q, n) = <<>>
    BY <1>2 DEF Vals
  <2> QED BY <1>1, <1>2, <2>1 DEF L!Items, L!Nil
<1>3. CASE n # 0
  <2>1. L!Steps(l, MaxObjects) + 1 = n
    <3>1. Place(MaxObjects, n) = n
      BY <1>1 DEF Place
    <3> QED BY <1>1, <1>3, <3>1, StepsAre
  <2>2. \A k \in 1..n : L!Walk(l, l.first, k - 1) = q[k]
    <3> TAKE k \in 1..n
    <3>1. k - 1 \in Nat /\ Place(k - 1, n) = k
      BY <1>1 DEF Place
    <3> QED BY <1>3, <3>1, WalkIs
  <2>3. L!Items(l) = [k \in 1..n |-> l.ptr[L!Walk(l, l.first, k - 1)]]
    BY <1>1, <1>3, <2>1 DEF L!Items, L!Nil
  <2> QED BY <2>2, <2>3 DEF Vals
<1> QED BY <1>2, <1>3

\* What a call of at() finds.
LEMMA AtIs ==
  ASSUME L!ListsAssumption, NEW l, NEW q, NEW n, Good(l, q, n), NEW i \in Nat
  PROVE  L!At(l, i) = IF i < n THEN l.ptr[q[i + 1]] ELSE 0
<1>1. Line(l, q, n) /\ n \in Nat /\ (l.first = 0 <=> n = 0)
  <2>1. n # 0 => 1 \in 1..n
    BY DEF Line, Good
  <2> QED BY <2>1 DEF Good, Line, L!Objects
<1>2. CASE n = 0
  BY <1>1, <1>2 DEF L!At, L!Nil
<1>3. CASE n # 0
  <2>1. L!Steps(l, i) = Place(i, n) - 1 /\ L!Walk(l, l.first, i) = q[Place(i, n)]
    BY <1>1, <1>3, StepsAre, WalkIs
  <2>2. Place(i, n) - 1 = i <=> i < n
    BY <1>1, <1>3 DEF Place
  <2>3. i < n => Place(i, n) = i + 1
    BY DEF Place
  <2> QED BY <1>1, <1>3, <2>1, <2>2, <2>3 DEF L!At, L!Nil
<1> QED BY <1>2, <1>3

\* Whatever else changes, the pool and the values are the same.
LEMMA Changed ==
  ASSUME NEW l, Kept(l), NEW l2 \in ListRecords,
         l2.ptr = l.ptr, l2.freed = l.freed, l2.live = l.live
  PROVE  Kept(l2) /\ \A o : Owned(l2, o) <=> Owned(l, o)
<1>1. PoolOf(l2) = PoolOf(l)
  BY DEF PoolOf
<1> QED BY <1>1 DEF Kept, Owned

LEMMA NilPlace == ASSUME L!ListsAssumption PROVE 0 \in L!Places
BY DEF L!ListsAssumption, L!Places

\* A list with other fields.
With(l, fr, lv, nx, pt) == [l EXCEPT !.freed = fr, !.live = lv, !.next = nx, !.ptr = pt]

HasFields(l2, l, fr, lv, nx, pt) ==
  /\ l2.freed = fr /\ l2.live = lv /\ l2.next = nx /\ l2.ptr = pt
  /\ l2.first = l.first /\ l2.last = l.last /\ l2.size = l.size

LEMMA ListFields ==
  ASSUME NEW l \in ListRecords, NEW nx \in [L!Objects -> L!Places],
         NEW pt \in [L!Objects -> Values \cup {0}], NEW fr \in Seq(L!Objects), NEW lv \in SUBSET L!Objects
  PROVE  With(l, fr, lv, nx, pt) \in ListRecords /\ HasFields(With(l, fr, lv, nx, pt), l, fr, lv, nx, pt)
<1> DEFINE l2 == With(l, fr, lv, nx, pt)
<1> DEFINE N == [L!Objects -> L!Places]
           P_ == [L!Objects -> Values \cup {0}]
           S == Seq(L!Objects)
           V == SUBSET L!Objects
<1>1. l \in [first : L!Places, last : L!Places, size : Int, next : N, ptr : P_, freed : S, live : V]
  BY DEF ListRecords
<1>2. nx \in N /\ pt \in P_ /\ fr \in S /\ lv \in V
  OBVIOUS
<1> HIDE DEF N, P_, S, V
<1>3. l2 \in [first : L!Places, last : L!Places, size : Int, next : N, ptr : P_, freed : S, live : V]
  BY <1>1, <1>2 DEF With
<1>4. /\ l2.freed = fr /\ l2.live = lv /\ l2.next = nx /\ l2.ptr = pt
      /\ l2.first = l.first /\ l2.last = l.last /\ l2.size = l.size
  BY <1>1 DEF With
<1> QED BY <1>3, <1>4 DEF ListRecords, HasFields, N, P_, S, V

\* The object of a new value is not in use.
LEMMA GetFreeIs ==
  ASSUME NEW l, Kept(l), L!CanGet(l)
  PROVE  L!GetFree(l) \in L!Objects /\ (L!GetFree(l) \in PoolOf(l) \/ L!GetFree(l) \notin l.live)
<1>1. l.freed \in Seq(L!Objects)
  BY DEF Kept, ListRecords
<1>2. CASE l.freed # <<>>
  <2>1. Len(l.freed) \in DOMAIN l.freed
    BY <1>1, <1>2
  <2>2. L!GetFree(l) = l.freed[Len(l.freed)]
    BY <1>2 DEF L!GetFree, L!Last
  <2> QED BY <1>1, <2>1, <2>2 DEF PoolOf
<1>3. CASE l.freed = <<>>
  <2>1. \E o : o \in L!Fresh(l)
    BY <1>3 DEF L!CanGet
  <2>2. L!GetFree(l) = CHOOSE o \in L!Fresh(l) : TRUE
    BY <1>3 DEF L!GetFree
  <2>3. L!GetFree(l) \in L!Fresh(l)
    BY <2>1, <2>2
  <2> QED BY <2>3 DEF L!Fresh
<1> QED BY <1>2, <1>3

LEMMA GotKeeps ==
  ASSUME L!ListsAssumption, NEW l, Kept(l), L!CanGet(l), NEW v \in Values,
         NEW g, g = L!GetFree(l), NEW l2, l2 = L!Got(l, v)
  PROVE  /\ Kept(l2) /\ g \in L!Objects /\ ~Owned(l, g) /\ Owned(l2, g)
         /\ l2.next[g] = 0 /\ l2.ptr[g] = v
         /\ l2.first = l.first /\ l2.last = l.last /\ l2.size = l.size
         /\ \A o : Owned(l, o) => /\ Owned(l2, o) /\ o # g
                                  /\ l2.next[o] = l.next[o] /\ l2.ptr[o] = l.ptr[o]
<1>1. g \in L!Objects /\ (g \in PoolOf(l) \/ g \notin l.live)
  BY GetFreeIs
<1> DEFINE rest == IF l.freed = <<>> THEN l.freed ELSE L!Front(l.freed)
<1>2. l2 = [l EXCEPT !.freed = rest, !.live = @ \cup {g}, !.next[g] = 0, !.ptr[g] = v]
  BY DEF L!Got, L!Nil
<1>3. l \in ListRecords /\ l.freed \in Seq(L!Objects) /\ l.live \in SUBSET L!Objects
  BY DEF Kept, ListRecords
<1>4. /\ rest \in Seq(L!Objects) /\ PoolOf(l) \ {g} = {rest[k] : k \in DOMAIN rest}
      /\ \A i, j \in DOMAIN rest : rest[i] = rest[j] => i = j
  <2>1. CASE l.freed = <<>>
    <3>1. DOMAIN l.freed = {} /\ rest = l.freed
      BY <2>1
    <3>2. PoolOf(l) = {}
      BY <3>1 DEF PoolOf
    <3> HIDE DEF rest
    <3>3. {rest[k] : k \in DOMAIN rest} = {}
      BY <3>1
    <3> QED BY <1>3, <3>1, <3>2, <3>3
  <2>2. CASE l.freed # <<>>
    <3> DEFINE f == l.freed
               m == Len(f)
    <3>1. f \in Seq(L!Objects) /\ m \in Nat \ {0} /\ g = f[m] /\ rest = SubSeq(f, 1, m - 1)
      BY <1>3, <2>2 DEF L!GetFree, L!Last, L!Front
    <3>2. \A i, j \in 1..m : f[i] = f[j] => i = j
      BY <1>3 DEF Kept
    <3>3. PoolOf(l) = {f[k] : k \in 1..m}
      BY <1>3 DEF PoolOf
    <3> HIDE DEF f, m, rest
    <3>4. m - 1 \in Nat /\ 1 <= m - 1 + 1 /\ 1 \in Nat \ {0}
      BY <3>1
    <3>5. m - 1 <= Len(f)
      BY <3>1 DEF m
    <3>6. /\ rest \in Seq(L!Objects) /\ DOMAIN rest = 1..m - 1
          /\ \A i \in 1..m - 1 : rest[i] = f[i]
      <4>1. /\ rest \in Seq(L!Objects) /\ DOMAIN rest = 1..m - 1 - 1 + 1
            /\ \A i \in 1..m - 1 - 1 + 1 : rest[i] = f[1 + i - 1]
        BY <3>1, <3>4, <3>5, PartOf
      <4>2. m - 1 - 1 + 1 = m - 1 /\ \A i \in 1..m - 1 : 1 + i - 1 = i
        BY <3>1
      <4> QED BY <4>1, <4>2
    <3>7. \A i \in 1..m - 1 : i \in 1..m /\ i # m
      BY <3>1
    <3>8. \A i \in 1..m : i = m \/ i \in 1..m - 1
      BY <3>1
    <3>9. PoolOf(l) \ {g} = {rest[k] : k \in 1..m - 1}
      <4>1. ASSUME NEW o \in PoolOf(l) \ {g} PROVE o \in {rest[k] : k \in 1..m - 1}
        BY <3>1, <3>3, <3>6, <3>8
      <4>2. ASSUME NEW k \in 1..m - 1 PROVE rest[k] \in PoolOf(l) \ {g}
        <5>1. m \in 1..m
          BY <3>1
        <5> QED BY <3>1, <3>2, <3>3, <3>6, <3>7, <5>1
      <4> QED BY <4>1, <4>2
    <3> QED BY <3>2, <3>6, <3>7, <3>9
  <2> QED BY <2>1, <2>2
<1> HIDE DEF rest
<1>5. /\ l2 \in ListRecords /\ l2.freed = rest /\ l2.live = l.live \cup {g}
      /\ l2.next = [l.next EXCEPT ![g] = 0] /\ l2.ptr = [l.ptr EXCEPT ![g] = v]
      /\ l2.first = l.first /\ l2.last = l.last /\ l2.size = l.size
  <2> DEFINE nx == [l.next EXCEPT ![g] = 0]
             pt == [l.ptr EXCEPT ![g] = v]
             lv == l.live \cup {g}
  <2>1. l2 = With(l, rest, lv, nx, pt)
    BY <1>2 DEF With
  <2>2. nx \in [L!Objects -> L!Places] /\ pt \in [L!Objects -> Values \cup {0}] /\ lv \in SUBSET L!Objects
    BY <1>1, <1>3, NilPlace DEF ListRecords
  <2> HIDE DEF nx, pt, lv
  <2>3. /\ l2 \in ListRecords /\ l2.freed = rest /\ l2.live = lv /\ l2.next = nx /\ l2.ptr = pt
        /\ l2.first = l.first /\ l2.last = l.last /\ l2.size = l.size
    <3>1. l2 \in ListRecords /\ HasFields(l2, l, rest, lv, nx, pt)
      BY <1>3, <1>4, <2>1, <2>2, ListFields
    <3> QED BY <3>1 DEF HasFields
  <2> HIDE DEF rest
  <2> QED BY <2>3 DEF nx, pt, lv
<1>6. PoolOf(l2) = PoolOf(l) \ {g}
  <2> DEFINE R == {rest[k] : k \in DOMAIN rest}
  <2>1. PoolOf(l2) = R
    BY <1>5 DEF PoolOf
  <2>2. R = PoolOf(l) \ {g}
    BY <1>4
  <2> QED BY <2>1, <2>2
<1>7. Kept(l2)
  BY <1>4, <1>5, <1>6 DEF Kept
<1>8. l.next \in [L!Objects -> L!Places] /\ l.ptr \in [L!Objects -> Values \cup {0}]
  BY <1>3 DEF ListRecords
<1>9. ~Owned(l, g)
  BY <1>1 DEF Owned
<1>10. l2.next[g] = 0 /\ l2.ptr[g] = v
  BY <1>1, <1>5, <1>8
<1>11. Owned(l2, g)
  BY <1>5, <1>6, <1>10 DEF Owned
<1>12. ASSUME NEW o, Owned(l, o)
       PROVE  Owned(l2, o) /\ o # g /\ l2.next[o] = l.next[o] /\ l2.ptr[o] = l.ptr[o]
  <2>1. o \in L!Objects /\ o # g
    BY <1>3, <1>9, <1>12 DEF Owned
  <2>2. l2.next[o] = l.next[o] /\ l2.ptr[o] = l.ptr[o]
    BY <1>5, <1>8, <2>1
  <2> QED BY <1>5, <1>6, <1>12, <2>1, <2>2 DEF Owned
<1> QED BY <1>1, <1>5, <1>7, <1>9, <1>10, <1>11, <1>12

LEMMA FreedKeeps ==
  ASSUME L!ListsAssumption, NEW l, Kept(l), NEW o, Owned(l, o), NEW l2, l2 = L!Freed(l, o)
  PROVE  /\ Kept(l2)
         /\ l2.first = l.first /\ l2.last = l.last /\ l2.size = l.size
         /\ \A p : Owned(l, p) /\ p # o => /\ Owned(l2, p)
                                           /\ l2.next[p] = l.next[p] /\ l2.ptr[p] = l.ptr[p]
<1> DEFINE full == Len(l.freed) + 1 >= LIST_MAX_FREED
           pool == IF full THEN l.freed ELSE Append(l.freed, o)
           there == IF full THEN l.live \ {o} ELSE l.live
<1>1. l \in ListRecords /\ l.freed \in Seq(L!Objects) /\ l.live \in SUBSET L!Objects
      /\ l.next \in [L!Objects -> L!Places] /\ l.ptr \in [L!Objects -> Values \cup {0}]
  BY DEF Kept, ListRecords
<1>2. o \in L!Objects /\ o \in l.live /\ o \notin PoolOf(l) /\ PoolOf(l) \subseteq l.live
  BY <1>1 DEF Owned, Kept
<1>3. /\ pool \in Seq(L!Objects) /\ {pool[k] : k \in DOMAIN pool} \subseteq PoolOf(l) \cup {o}
      /\ full => {pool[k] : k \in DOMAIN pool} = PoolOf(l)
      /\ \A i, j \in DOMAIN pool : pool[i] = pool[j] => i = j
  <2>1. CASE full
    BY <1>1, <2>1 DEF PoolOf, Kept
  <2>2. CASE ~full
    <3> DEFINE f == l.freed
               m == Len(f)
    <3>1. f \in Seq(L!Objects) /\ m \in Nat /\ pool = Append(f, o)
      BY <1>1, <2>2
    <3>2. (\A i, j \in 1..m : f[i] = f[j] => i = j) /\ \A i \in 1..m : f[i] \in PoolOf(l)
      BY <1>1 DEF Kept, PoolOf
    <3>3. Len(f) = m
      OBVIOUS
    <3> HIDE DEF f, m, pool
    <3>4. pool \in Seq(L!Objects) /\ Len(pool) = m + 1 /\ pool[m + 1] = o
          /\ \A i \in 1..m : pool[i] = f[i]
      BY <1>2, <3>1, <3>3, AppendProperties
    <3>5. DOMAIN pool = 1..m + 1
      BY <3>4
    <3>6. \A i \in 1..m + 1 : i = m + 1 \/ i \in 1..m
      BY <3>1
    <3>7. \A i \in 1..m + 1 : pool[i] \in PoolOf(l) \cup {o}
      BY <3>2, <3>4, <3>6
    <3>8. ASSUME NEW i \in 1..m + 1, NEW j \in 1..m + 1, pool[i] = pool[j] PROVE i = j
      BY <1>2, <3>2, <3>4, <3>6, <3>8
    <3> QED BY <2>2, <3>4, <3>5, <3>7, <3>8
  <2> QED BY <2>1, <2>2
<1>4. there \in SUBSET L!Objects /\ there \subseteq l.live /\ (\A p \in l.live : p # o => p \in there)
      /\ (~full => o \in there) /\ (full => there = l.live \ {o})
  BY <1>1, <1>2
<1> DEFINE nx == [l.next EXCEPT ![o] = 0]
           pt == [l.ptr EXCEPT ![o] = 0]
<1>5. nx \in [L!Objects -> L!Places] /\ pt \in [L!Objects -> Values \cup {0}]
  BY <1>1, <1>2, NilPlace
<1>6. /\ l2 \in ListRecords /\ l2.freed = pool /\ l2.live = there /\ l2.next = nx /\ l2.ptr = pt
      /\ l2.first = l.first /\ l2.last = l.last /\ l2.size = l.size
  <2> DEFINE fr == l.freed
             lv == l.live
             c == With(l, fr, lv, nx, pt)
  <2>1. [l EXCEPT !.ptr[o] = 0, !.next[o] = 0] = c
    BY <1>1 DEF ListRecords, With
  <2>2. fr \in Seq(L!Objects) /\ lv \in SUBSET L!Objects
    BY <1>1
  <2>3. /\ c \in ListRecords /\ c.freed = fr /\ c.live = lv /\ c.next = nx /\ c.ptr = pt
        /\ c.first = l.first /\ c.last = l.last /\ c.size = l.size
    <3> HIDE DEF nx, pt, fr, lv
    <3>1. c \in ListRecords /\ HasFields(c, l, fr, lv, nx, pt)
      BY <1>1, <1>5, <2>2, ListFields
    <3> QED BY <3>1 DEF HasFields
  <2>4. l2 = IF full THEN [c EXCEPT !.live = there] ELSE [c EXCEPT !.freed = pool]
    <3>1. l2 = IF full THEN [c EXCEPT !.live = @ \ {o}] ELSE [c EXCEPT !.freed = Append(@, o)]
      BY <2>1 DEF L!Freed, L!Nil
    <3> HIDE DEF c
    <3> QED BY <2>3, <3>1
  <2> HIDE DEF c, nx, pt
  <2>5. CASE full
    <3>1. l2 = [c EXCEPT !.live = there] /\ pool = l.freed
      BY <2>4, <2>5
    <3> HIDE DEF pool, there
    <3> QED BY <1>4, <2>3, <3>1 DEF ListRecords
  <2>6. CASE ~full
    <3>1. l2 = [c EXCEPT !.freed = pool] /\ there = l.live
      BY <2>4, <2>6
    <3> HIDE DEF pool, there
    <3> QED BY <1>3, <2>3, <3>1 DEF ListRecords
  <2> QED BY <2>5, <2>6
<1> HIDE DEF pool, there
<1>7. PoolOf(l2) \subseteq PoolOf(l) \cup {o} /\ (full => PoolOf(l2) = PoolOf(l))
  <2> DEFINE R == {pool[k] : k \in DOMAIN pool}
  <2>1. PoolOf(l2) = R
    BY <1>6 DEF PoolOf
  <2>2. R \subseteq PoolOf(l) \cup {o} /\ (full => R = PoolOf(l))
    BY <1>3
  <2> HIDE DEF R, full
  <2> QED BY <2>1, <2>2
<1> HIDE DEF nx, pt
<1>8. PoolOf(l2) \subseteq l2.live
  BY <1>2, <1>4, <1>6, <1>7
<1> HIDE DEF full
<1>9. Kept(l2)
  BY <1>3, <1>6, <1>8 DEF Kept
<1>10. ASSUME NEW p, Owned(l, p), p # o
       PROVE  Owned(l2, p) /\ l2.next[p] = l.next[p] /\ l2.ptr[p] = l.ptr[p]
  <2>1. p \in L!Objects /\ p \in l.live /\ p \notin PoolOf(l) /\ l.ptr[p] \in Values
    BY <1>1, <1>10 DEF Owned
  <2>2. l2.next[p] = l.next[p] /\ l2.ptr[p] = l.ptr[p]
    BY <1>1, <1>6, <1>10, <2>1 DEF nx, pt
  <2>3. p \in l2.live /\ p \notin PoolOf(l2)
    BY <1>4, <1>6, <1>7, <1>10, <2>1
  <2> QED BY <2>1, <2>2, <2>3 DEF Owned
<1> QED BY <1>6, <1>9, <1>10

\* A list with another order.
Reordered(l, f, la, sz, nx) == [l EXCEPT !.first = f, !.last = la, !.size = sz, !.next = nx]

HasOrder(l2, l, f, la, sz, nx) ==
  /\ l2.first = f /\ l2.last = la /\ l2.size = sz /\ l2.next = nx
  /\ l2.freed = l.freed /\ l2.live = l.live /\ l2.ptr = l.ptr

LEMMA OrderFields ==
  ASSUME NEW l \in ListRecords, NEW f \in L!Places, NEW la \in L!Places, NEW sz \in Int,
         NEW nx \in [L!Objects -> L!Places]
  PROVE  Reordered(l, f, la, sz, nx) \in ListRecords /\ HasOrder(Reordered(l, f, la, sz, nx), l, f, la, sz, nx)
<1> DEFINE l2 == Reordered(l, f, la, sz, nx)
           N == [L!Objects -> L!Places]
           V == [L!Objects -> Values \cup {0}]
           S == Seq(L!Objects)
           E == SUBSET L!Objects
<1>1. l \in [first : L!Places, last : L!Places, size : Int, next : N, ptr : V, freed : S, live : E]
  BY DEF ListRecords
<1>2. nx \in N
  OBVIOUS
<1> HIDE DEF N, V, S, E
<1>3. l2 \in [first : L!Places, last : L!Places, size : Int, next : N, ptr : V, freed : S, live : E]
  BY <1>1, <1>2 DEF Reordered
<1>4. HasOrder(l2, l, f, la, sz, nx)
  BY <1>1 DEF Reordered, HasOrder
<1> QED BY <1>3, <1>4 DEF ListRecords, N, V, S, E

\* What the fields of a list are.
LEMMA FieldTypes ==
  ASSUME L!ListsAssumption, NEW l \in ListRecords
  PROVE  /\ l.first \in L!Places /\ l.last \in L!Places /\ l.size \in Int
         /\ l.next \in [L!Objects -> L!Places] /\ L!Objects \subseteq L!Places /\ 0 \notin L!Objects
BY DEF ListRecords, L!Objects, L!Places, L!ListsAssumption

-----------------------------------------------------------------------------
(* What becomes of the line of objects                                       *)

Ins(q, n, j, g) == [i \in 1..n + 1 |-> IF i <= j THEN q[i] ELSE IF i = j + 1 THEN g ELSE q[i - 1]]
Cut(q, j) == [i \in 1..j |-> q[i]]

\* The line is another one, all of the rest is the same.
Same(l2, l) == l2 \in ListRecords /\ l2.ptr = l.ptr /\ l2.freed = l.freed /\ l2.live = l.live

LEMMA InsertLine ==
  ASSUME L!ListsAssumption, NEW l, NEW q, NEW n, Good(l, q, n), NEW g, NEW g2, NEW v,
         Kept(g2), g \in L!Objects, Owned(g2, g), g2.ptr[g] = v,
         \A o : Owned(l, o) => Owned(g2, o) /\ o # g /\ g2.ptr[o] = l.ptr[o],
         NEW j \in 0..n, NEW l2, Same(l2, g2),
         l2.first = IF j = 0 THEN g ELSE l.first,
         l2.next[g] = IF j = n THEN 0 ELSE q[j + 1],
         j # 0 => l2.next[q[j]] = g,
         \A i \in 1..n : i # j => l2.next[q[i]] = l.next[q[i]]
  PROVE  Good(l2, Ins(q, n, j, g), n + 1) /\ Vals(l2, Ins(q, n, j, g), n + 1) = Ins(Vals(l, q, n), n, j, v)
<1> DEFINE p == Ins(q, n, j, g)
<1>1. /\ n \in Nat /\ j \in Nat /\ j <= n /\ q \in [1..n -> L!Objects]
      /\ \A i, k \in 1..n : q[i] = q[k] => i = k
      /\ l.first = IF n = 0 THEN 0 ELSE q[1]
      /\ \A i \in 1..n : l.next[q[i]] = IF i = n THEN 0 ELSE q[i + 1]
      /\ \A i \in 1..n : Owned(l, q[i])
  BY DEF Good, Line
<1>2. Kept(l2) /\ \A o : Owned(l2, o) <=> Owned(g2, o)
  BY Changed DEF Same
<1>3. \A i \in 1..n : q[i] # g /\ Owned(l2, q[i]) /\ l2.ptr[q[i]] = l.ptr[q[i]]
  BY <1>1, <1>2 DEF Same
<1>4. \A i \in 1..n + 1 : /\ i <= j => i \in 1..n /\ p[i] = q[i]
                          /\ i = j + 1 => p[i] = g
                          /\ i > j + 1 => i - 1 \in 1..n /\ p[i] = q[i - 1]
                          /\ i <= j \/ i = j + 1 \/ i > j + 1
  BY <1>1 DEF Ins
<1>5. p \in [1..n + 1 -> L!Objects]
  <2>1. \A i \in 1..n + 1 : p[i] \in L!Objects
    BY <1>1, <1>4
  <2>2. p = [i \in 1..n + 1 |-> p[i]]
    BY DEF Ins
  <2> HIDE DEF p
  <2> QED BY <2>1, <2>2
<1> HIDE DEF p
<1>6. ASSUME NEW i \in 1..n + 1, NEW k \in 1..n + 1, p[i] = p[k] PROVE i = k
  BY <1>1, <1>3, <1>4, <1>6
<1>7. l2.first = p[1]
  <2>1. CASE j = 0
    BY <1>1, <1>4, <2>1
  <2>2. CASE j # 0
    <3>1. 1 \in 1..n + 1 /\ 1 <= j /\ n # 0
      BY <1>1, <2>2
    <3>2. p[1] = q[1]
      BY <1>4, <3>1
    <3> QED BY <1>1, <2>2, <3>1, <3>2
  <2> QED BY <2>1, <2>2
<1>8. ASSUME NEW i \in 1..n + 1 PROVE l2.next[p[i]] = IF i = n + 1 THEN 0 ELSE p[i + 1]
  <2>0. i \in Nat /\ (i # n + 1 => i + 1 \in 1..n + 1)
    BY <1>1
  <2>1. CASE i < j
    <3>1. i \in 1..n /\ i # j /\ i # n /\ p[i] = q[i] /\ p[i + 1] = q[i + 1] /\ i # n + 1
      BY <1>1, <1>4, <2>0, <2>1
    <3> QED BY <1>1, <3>1
  <2>2. CASE i = j
    <3>1. p[i] = q[j] /\ p[i + 1] = g /\ j # 0 /\ i # n + 1
      BY <1>1, <1>4, <2>0, <2>2
    <3> QED BY <3>1
  <2>3. CASE i = j + 1
    <3>1. p[i] = g
      BY <1>4, <2>3
    <3>2. i # n + 1 => p[i + 1] = q[j + 1]
      <4>1. i + 1 > j + 1 /\ i + 1 - 1 = j + 1
        BY <1>1, <2>3
      <4> QED BY <1>4, <2>0, <4>1
    <3>3. i = n + 1 <=> j = n
      BY <1>1, <2>3
    <3> QED BY <3>1, <3>2, <3>3
  <2>4. CASE i > j + 1
    <3>1. i - 1 \in 1..n /\ p[i] = q[i - 1] /\ i - 1 # j
      BY <1>1, <1>4, <2>4
    <3>2. l2.next[q[i - 1]] = IF i - 1 = n THEN 0 ELSE q[i - 1 + 1]
      BY <1>1, <3>1
    <3>3. i # n + 1 => p[i + 1] = q[i]
      <4>1. i + 1 > j + 1 /\ i + 1 - 1 = i
        BY <1>1, <2>0, <2>4
      <4> QED BY <1>4, <2>0, <4>1
    <3>4. i - 1 + 1 = i /\ (i - 1 = n <=> i = n + 1)
      BY <1>1, <2>0
    <3> QED BY <3>1, <3>2, <3>3, <3>4
  <2> QED BY <1>1, <2>0, <2>1, <2>2, <2>3, <2>4
<1>9. \A i \in 1..n + 1 : Owned(l2, p[i])
  BY <1>2, <1>3, <1>4
<1>10. Line(l2, p, n + 1)
  <2>1. n + 1 \in Nat /\ n + 1 # 0
    BY <1>1
  <2> QED BY <1>5, <1>6, <1>7, <1>8, <2>1 DEF Line
<1>11. Vals(l2, p, n + 1) = Ins(Vals(l, q, n), n, j, v)
  <2> DEFINE s == Vals(l, q, n)
  <2>1. \A i \in 1..n : s[i] = l.ptr[q[i]]
    BY DEF Vals
  <2> HIDE DEF s
  <2>2. \A i \in 1..n + 1 : l2.ptr[p[i]] = IF i <= j THEN s[i] ELSE IF i = j + 1 THEN v ELSE s[i - 1]
    <3> TAKE i \in 1..n + 1
    <3>1. CASE i <= j
      BY <1>3, <1>4, <2>1, <3>1
    <3>2. CASE i = j + 1
      <4>1. ~(i <= j) /\ p[i] = g
        BY <1>1, <1>4, <3>2
      <4> QED BY <3>2, <4>1 DEF Same
    <3>3. CASE i > j + 1
      <4>1. ~(i <= j) /\ i # j + 1 /\ i - 1 \in 1..n /\ p[i] = q[i - 1]
        BY <1>1, <1>4, <3>3
      <4> QED BY <1>3, <2>1, <4>1
    <3> QED BY <1>4, <3>1, <3>2, <3>3
  <2> QED BY <2>2 DEF Vals, Ins, s
<1> QED BY <1>2, <1>9, <1>10, <1>11 DEF Good, p

-----------------------------------------------------------------------------
(* Lines made of the objects of another one                                  *)

Taken(q, f, m) == [i \in 1..m |-> q[f[i]]]

\* They are linked one behind the other.
Linking(l2, q, f, m) ==
  /\ l2.first = IF m = 0 THEN 0 ELSE q[f[1]]
  /\ \A i \in 1..m : l2.next[q[f[i]]] = IF i = m THEN 0 ELSE q[f[i + 1]]

Choosing(f, m, n) == f \in [1..m -> 1..n] /\ \A i, k \in 1..m : f[i] = f[k] => i = k

\* The f[i]-th objects of a line make another one.
LEMMA TakenLine ==
  ASSUME NEW l, NEW q, NEW n, Good(l, q, n), NEW m \in Nat,
         NEW f, Choosing(f, m, n), NEW l2, Same(l2, l), Linking(l2, q, f, m)
  PROVE  Good(l2, Taken(q, f, m), m) /\ Vals(l2, Taken(q, f, m), m) = Taken(Vals(l, q, n), f, m)
<1> DEFINE p == Taken(q, f, m)
<1>1. /\ n \in Nat /\ q \in [1..n -> L!Objects]
      /\ \A i, k \in 1..n : q[i] = q[k] => i = k
      /\ \A i \in 1..n : Owned(l, q[i])
  BY DEF Good, Line
<1>0. /\ f \in [1..m -> 1..n]
      /\ \A i, k \in 1..m : f[i] = f[k] => i = k
      /\ l2.first = IF m = 0 THEN 0 ELSE q[f[1]]
      /\ \A i \in 1..m : l2.next[q[f[i]]] = IF i = m THEN 0 ELSE q[f[i + 1]]
  BY DEF Choosing, Linking
<1>2. Kept(l2) /\ \A o : Owned(l2, o) <=> Owned(l, o)
  <2>1. Kept(l)
    BY DEF Good
  <2> QED BY <2>1, Changed DEF Same
<1>3. \A i \in 1..m : p[i] = q[f[i]] /\ f[i] \in 1..n
  BY <1>0 DEF Taken
<1>4. p \in [1..m -> L!Objects]
  <2>1. p = [i \in 1..m |-> p[i]]
    BY DEF Taken
  <2> HIDE DEF p
  <2>2. \A i \in 1..m : p[i] \in L!Objects
    BY <1>1, <1>3
  <2> QED BY <2>1, <2>2
<1>5. Vals(l2, p, m) = Taken(Vals(l, q, n), f, m)
  <2>1. \A i \in 1..m : l2.ptr[p[i]] = Vals(l, q, n)[f[i]]
    BY <1>3 DEF Vals, Same
  <2> HIDE DEF p
  <2> QED BY <2>1 DEF Vals, Taken
<1> HIDE DEF p
<1>6. \A i, k \in 1..m : p[i] = p[k] => i = k
  BY <1>0, <1>1, <1>3
<1>7. l2.first = IF m = 0 THEN 0 ELSE p[1]
  <2>1. m # 0 => 1 \in 1..m
    OBVIOUS
  <2> QED BY <1>0, <1>3, <2>1
<1>8. \A i \in 1..m : l2.next[p[i]] = IF i = m THEN 0 ELSE p[i + 1]
  <2>1. \A i \in 1..m : i # m => i + 1 \in 1..m
    OBVIOUS
  <2> QED BY <1>0, <1>3, <2>1
<1>9. Line(l2, p, m)
  BY <1>4, <1>6, <1>7, <1>8 DEF Line
<1>10. \A i \in 1..m : Owned(l2, p[i])
  BY <1>1, <1>2, <1>3
<1> QED BY <1>2, <1>5, <1>9, <1>10 DEF Good, p

\* An object that is not in the line is freed.
LEMMA FreeLine ==
  ASSUME L!ListsAssumption, NEW l, NEW p, NEW m, Good(l, p, m), NEW o, Owned(l, o),
         \A i \in 1..m : p[i] # o, NEW l2, l2 = L!Freed(l, o)
  PROVE  /\ Good(l2, p, m) /\ Vals(l2, p, m) = Vals(l, p, m)
         /\ l2.first = l.first /\ l2.last = l.last /\ l2.size = l.size
         /\ \A i \in 1..m : l2.next[p[i]] = l.next[p[i]]
<1>1. Kept(l) /\ Line(l, p, m) /\ \A i \in 1..m : Owned(l, p[i])
  BY DEF Good
<1>2. /\ Kept(l2)
      /\ l2.first = l.first /\ l2.last = l.last /\ l2.size = l.size
      /\ \A i \in 1..m : Owned(l2, p[i]) /\ l2.next[p[i]] = l.next[p[i]] /\ l2.ptr[p[i]] = l.ptr[p[i]]
  BY <1>1, FreedKeeps
<1>3. Line(l2, p, m)
  BY <1>1, <1>2 DEF Line
<1>4. Vals(l2, p, m) = Vals(l, p, m)
  BY <1>2 DEF Vals
<1> QED BY <1>2, <1>3, <1>4 DEF Good

-----------------------------------------------------------------------------
(* Parts of a line                                                           *)

Without1(n, j) == [i \in 1..n - 1 |-> IF i < j THEN i ELSE i + 1]
Front1(j)      == [i \in 1..j |-> i]
Turned(j)      == [i \in 1..j |-> IF i < j THEN i + 1 ELSE 1]

\* What Good says of a list, for the lemmas below.
LEMMA GoodSays ==
  ASSUME L!ListsAssumption, NEW l, NEW q, NEW n, Good(l, q, n)
  PROVE  /\ n \in Nat /\ q \in [1..n -> L!Objects] /\ Kept(l) /\ l \in ListRecords
         /\ \A i, k \in 1..n : q[i] = q[k] => i = k
         /\ l.first = IF n = 0 THEN 0 ELSE q[1]
         /\ \A i \in 1..n : l.next[q[i]] = IF i = n THEN 0 ELSE q[i + 1]
         /\ \A i \in 1..n : Owned(l, q[i]) /\ q[i] # 0 /\ q[i] \in L!Places /\ q[i] \in L!Objects
         /\ l.first = 0 <=> n = 0
         /\ n # 0 => 1 \in 1..n /\ n \in 1..n
<1>1. n \in Nat /\ q \in [1..n -> L!Objects] /\ Kept(l) /\ l \in ListRecords
  BY DEF Good, Line, Kept
<1>2. n # 0 => 1 \in 1..n /\ n \in 1..n
  BY <1>1
<1>3. L!Objects \subseteq L!Places /\ 0 \notin L!Objects
  BY <1>1, FieldTypes
<1>4. \A i \in 1..n : q[i] # 0 /\ q[i] \in L!Places /\ q[i] \in L!Objects
  BY <1>1, <1>3
<1>5. /\ \A i, k \in 1..n : q[i] = q[k] => i = k
      /\ l.first = IF n = 0 THEN 0 ELSE q[1]
      /\ \A i \in 1..n : l.next[q[i]] = IF i = n THEN 0 ELSE q[i + 1]
      /\ \A i \in 1..n : Owned(l, q[i])
  BY DEF Good, Line
<1> QED BY <1>1, <1>2, <1>4, <1>5

\* The j-th object is taken out.
LEMMA RemoveLine ==
  ASSUME L!ListsAssumption, NEW l, NEW q, NEW n, Good(l, q, n), NEW j \in 1..n,
         NEW l2, Same(l2, l),
         l2.first = IF j = 1 THEN l.next[q[1]] ELSE l.first,
         j # 1 => l2.next[q[j - 1]] = l.next[q[j]],
         \A i \in 1..n : i # j - 1 /\ i # j => l2.next[q[i]] = l.next[q[i]]
  PROVE  LET p == Taken(q, Without1(n, j), n - 1) IN
         /\ Good(l2, p, n - 1) /\ Vals(l2, p, n - 1) = Taken(Vals(l, q, n), Without1(n, j), n - 1)
         /\ \A i \in 1..n - 1 : p[i] # q[j]
<1> DEFINE m == n - 1
           f == Without1(n, j)
<1>1. /\ n \in Nat /\ j \in Nat /\ j >= 1 /\ j <= n
      /\ \A i, k \in 1..n : q[i] = q[k] => i = k
      /\ l.first = IF n = 0 THEN 0 ELSE q[1]
      /\ \A i \in 1..n : l.next[q[i]] = IF i = n THEN 0 ELSE q[i + 1]
  BY GoodSays
<1>2. \A i \in 1..m : /\ i \in Nat /\ i < n /\ i >= 1 /\ f[i] \in 1..n /\ f[i] # j
                      /\ i < j => f[i] = i
                      /\ i >= j => f[i] = i + 1
  BY <1>1 DEF Without1
<1>3. f = [i \in 1..m |-> f[i]]
  BY DEF Without1
<1>4. m \in Nat /\ m + 1 = n
  BY <1>1
<1> HIDE DEF f, m
<1>5. f \in [1..m -> 1..n]
  BY <1>2, <1>3
<1>6. \A i, k \in 1..m : f[i] = f[k] => i = k
  BY <1>1, <1>2
<1>7. ASSUME NEW i \in 1..m PROVE l2.next[q[f[i]]] = IF i = m THEN 0 ELSE q[f[i + 1]]
  <2>1. i \in Nat /\ i < n /\ i >= 1
    BY <1>2
  <2>2. i # m => i + 1 \in 1..m
    BY <1>4, <2>1
  <2>3. CASE i < j - 1
    <3>1. f[i] = i /\ i \in 1..n /\ i # j /\ i # j - 1 /\ i # n /\ i # m
      BY <1>1, <1>2, <1>4, <2>1, <2>3
    <3>2. f[i + 1] = i + 1
      BY <1>1, <1>2, <2>2, <2>3, <3>1
    <3> QED BY <1>1, <3>1, <3>2
  <2>4. CASE i = j - 1
    <3>1. f[i] = j - 1 /\ j # 1
      BY <1>1, <1>2, <2>1, <2>4
    <3>2. l2.next[q[f[i]]] = IF j = n THEN 0 ELSE q[j + 1]
      BY <1>1, <3>1
    <3>3. j = n <=> i = m
      BY <1>1, <1>4, <2>1, <2>4
    <3>4. i # m => f[i + 1] = j + 1
      BY <1>1, <1>2, <2>2, <2>4
    <3> QED BY <3>2, <3>3, <3>4
  <2>5. CASE i >= j
    <3>1. f[i] = i + 1 /\ i + 1 \in 1..n /\ i + 1 # j /\ i + 1 # j - 1
      BY <1>1, <1>2, <2>1, <2>5
    <3>2. l2.next[q[f[i]]] = IF i + 1 = n THEN 0 ELSE q[i + 1 + 1]
      BY <1>1, <3>1
    <3>3. i # m => f[i + 1] = i + 1 + 1
      BY <1>1, <1>2, <2>1, <2>2, <2>5
    <3>4. i + 1 = n <=> i = m
      BY <1>1, <1>4, <2>1
    <3> QED BY <3>2, <3>3, <3>4
  <2> QED BY <1>1, <2>1, <2>3, <2>4, <2>5
<1>8. l2.first = IF m = 0 THEN 0 ELSE q[f[1]]
  <2>1. m # 0 => 1 \in 1..m
    BY <1>4
  <2>2. 1 \in 1..n /\ n # 0 /\ (1 = n <=> m = 0)
    BY <1>1, <1>4
  <2>3. CASE j = 1
    <3>1. m # 0 => f[1] = 1 + 1
      BY <1>2, <2>1, <2>3
    <3>2. l2.first = IF 1 = n THEN 0 ELSE q[1 + 1]
      BY <1>1, <2>2, <2>3
    <3> QED BY <2>2, <3>1, <3>2
  <2>4. CASE j # 1
    <3>1. m # 0 /\ 1 < j
      BY <1>1, <1>4, <2>4
    <3>2. f[1] = 1
      BY <1>2, <2>1, <3>1
    <3> QED BY <1>1, <2>2, <2>4, <3>1, <3>2
  <2> QED BY <2>3, <2>4
<1>9. \A i \in 1..m : Taken(q, f, m)[i] # q[j]
  BY <1>1, <1>2 DEF Taken
<1> DEFINE p == Taken(q, f, m)
<1>10. Good(l2, p, m) /\ Vals(l2, p, m) = Taken(Vals(l, q, n), f, m)
  <2>1. Choosing(f, m, n) /\ Linking(l2, q, f, m)
    BY <1>5, <1>6, <1>7, <1>8 DEF Choosing, Linking
  <2> QED BY <1>4, <2>1, TakenLine
<1> QED BY <1>9, <1>10 DEF f, m

\* The line ends behind its j-th object.
LEMMA CutLine ==
  ASSUME L!ListsAssumption, NEW l, NEW q, NEW n, Good(l, q, n), NEW j \in 0..n,
         NEW l2, Same(l2, l),
         l2.first = IF j = 0 THEN 0 ELSE l.first,
         j # 0 => l2.next[q[j]] = 0,
         \A i \in 1..n : i < j => l2.next[q[i]] = l.next[q[i]]
  PROVE  /\ Good(l2, Taken(q, Front1(j), j), j)
         /\ Vals(l2, Taken(q, Front1(j), j), j) = Taken(Vals(l, q, n), Front1(j), j)
<1> DEFINE f == Front1(j)
<1>1. /\ n \in Nat /\ j \in Nat /\ j <= n
      /\ l.first = IF n = 0 THEN 0 ELSE q[1]
      /\ \A i \in 1..n : l.next[q[i]] = IF i = n THEN 0 ELSE q[i + 1]
  BY GoodSays
<1>2. \A i \in 1..j : f[i] = i /\ i \in 1..n /\ (i # j => i < j /\ i # n /\ i + 1 \in 1..j)
  BY <1>1 DEF Front1
<1>3. f = [i \in 1..j |-> f[i]]
  BY DEF Front1
<1> HIDE DEF f
<1>4. f \in [1..j -> 1..n] /\ \A i, k \in 1..j : f[i] = f[k] => i = k
  BY <1>2, <1>3
<1>5. \A i \in 1..j : l2.next[q[f[i]]] = IF i = j THEN 0 ELSE q[f[i + 1]]
  <2> TAKE i \in 1..j
  <2>1. CASE i = j
    BY <1>1, <1>2, <2>1
  <2>2. CASE i # j
    <3>1. f[i] = i /\ i \in 1..n /\ i < j /\ i # n /\ f[i + 1] = i + 1
      BY <1>2, <2>2
    <3> QED BY <1>1, <2>2, <3>1
  <2> QED BY <2>1, <2>2
<1>6. l2.first = IF j = 0 THEN 0 ELSE q[f[1]]
  <2>1. j # 0 => 1 \in 1..j /\ n # 0
    BY <1>1
  <2> QED BY <1>1, <1>2, <2>1
<1>7. Choosing(f, j, n) /\ Linking(l2, q, f, j)
  BY <1>4, <1>5, <1>6 DEF Choosing, Linking
<1>8. Good(l2, Taken(q, f, j), j) /\ Vals(l2, Taken(q, f, j), j) = Taken(Vals(l, q, n), f, j)
  BY <1>1, <1>7, TakenLine
<1> QED BY <1>8 DEF f

\* The first object comes behind the j-th one, and the line ends there.
LEMMA TurnLine ==
  ASSUME L!ListsAssumption, NEW l, NEW q, NEW n, Good(l, q, n), NEW j \in 2..n,
         NEW l2, Same(l2, l),
         l2.first = l.next[q[1]], l2.next[q[1]] = 0, l2.next[q[j]] = q[1],
         \A i \in 1..n : i # 1 /\ i < j => l2.next[q[i]] = l.next[q[i]]
  PROVE  /\ Good(l2, Taken(q, Turned(j), j), j)
         /\ Vals(l2, Taken(q, Turned(j), j), j) = Taken(Vals(l, q, n), Turned(j), j)
<1> DEFINE f == Turned(j)
<1>1. /\ n \in Nat /\ j \in Nat /\ j <= n /\ j >= 2 /\ 1 \in 1..n /\ 1 # n
      /\ \A i \in 1..n : l.next[q[i]] = IF i = n THEN 0 ELSE q[i + 1]
  BY GoodSays
<1>2. \A i \in 1..j : /\ i < j => f[i] = i + 1 /\ i + 1 \in 1..j /\ i + 1 # 1
                      /\ i = j => f[i] = 1
                      /\ i < j \/ i = j
                      /\ f[i] \in 1..n
  BY <1>1 DEF Turned
<1>3. f = [i \in 1..j |-> f[i]]
  BY DEF Turned
<1> HIDE DEF f
<1>4. f \in [1..j -> 1..n]
  BY <1>2, <1>3
<1>5. \A i, k \in 1..j : f[i] = f[k] => i = k
  BY <1>1, <1>2
<1>6. \A i \in 1..j : l2.next[q[f[i]]] = IF i = j THEN 0 ELSE q[f[i + 1]]
  <2> TAKE i \in 1..j
  <2>1. CASE i = j
    BY <1>2, <2>1
  <2>2. CASE i < j
    <3>1. f[i] = i + 1 /\ i + 1 \in 1..j /\ i # j
      BY <1>2, <2>2
    <3>2. CASE i + 1 = j
      BY <1>2, <3>1, <3>2
    <3>3. CASE i + 1 < j
      <4>1. i + 1 \in 1..n /\ i + 1 # 1 /\ i + 1 # n
        BY <1>1, <1>2, <3>1, <3>3
      <4>2. l2.next[q[i + 1]] = q[i + 1 + 1]
        BY <1>1, <3>3, <4>1
      <4>3. f[i + 1] = i + 1 + 1
        BY <1>2, <3>1, <3>3
      <4> QED BY <3>1, <4>2, <4>3
    <3> QED BY <1>2, <3>1, <3>2, <3>3
  <2> QED BY <1>2, <2>1, <2>2
<1>7. l2.first = IF j = 0 THEN 0 ELSE q[f[1]]
  <2>1. f[1] = 1 + 1 /\ j # 0
    BY <1>1, <1>2
  <2> QED BY <1>1, <2>1
<1>8. Choosing(f, j, n) /\ Linking(l2, q, f, j)
  BY <1>4, <1>5, <1>6, <1>7 DEF Choosing, Linking
<1>9. Good(l2, Taken(q, f, j), j) /\ Vals(l2, Taken(q, f, j), j) = Taken(Vals(l, q, n), f, j)
  BY <1>1, <1>8, TakenLine
<1> QED BY <1>9 DEF f

-----------------------------------------------------------------------------
(* What the calls do to the line and its values                              *)

\* A list whose objects are in line again, with these values and with its end known, if that can be said.
Results(l, s, valued, ended) ==
  \E q, n : Good(l, q, n) /\ (valued => Vals(l, q, n) = s) /\ (ended => Ends(l, q, n))

\* The links once obj is behind the j-th object.
Spliced(nx, old, q, n, j, obj) ==
  /\ nx \in [L!Objects -> L!Places]
  /\ nx[obj] = IF j = n THEN 0 ELSE q[j + 1]
  /\ j # 0 => nx[q[j]] = obj
  /\ \A o \in L!Objects : o # obj /\ (j # 0 => o # q[j]) => nx[o] = old[o]

FirstWith(l, j) == IF j = 0 THEN L!GetFree(l) ELSE l.first

\* A new object behind the j-th one.
LEMMA InsertOp ==
  ASSUME L!ListsAssumption, NEW l, NEW q, NEW n, Good(l, q, n), L!CanGet(l), NEW v \in Values,
         NEW j \in 0..n, NEW la \in L!Places,
         NEW nx, Spliced(nx, L!Got(l, v).next, q, n, j, L!GetFree(l)),
         NEW l2, l2 = Reordered(L!Got(l, v), FirstWith(l, j), la, l.size + 1, nx),
         NEW e \in BOOLEAN, e => Ends(l, q, n) /\ la = IF j = n THEN L!GetFree(l) ELSE l.last
  PROVE  Results(l2, Ins(Vals(l, q, n), n, j, v), TRUE, e)
<1> DEFINE obj == L!GetFree(l)
           g == L!Got(l, v)
           f == FirstWith(l, j)
<1>0. /\ nx \in [L!Objects -> L!Places]
      /\ nx[obj] = IF j = n THEN 0 ELSE q[j + 1]
      /\ j # 0 => nx[q[j]] = obj
      /\ \A o \in L!Objects : o # obj /\ (j # 0 => o # q[j]) => nx[o] = g.next[o]
  BY DEF Spliced
<1>1. /\ n \in Nat /\ Kept(l) /\ l \in ListRecords
      /\ \A i, k \in 1..n : q[i] = q[k] => i = k
      /\ \A i \in 1..n : Owned(l, q[i]) /\ q[i] \in L!Objects
  BY GoodSays
<1>2. /\ Kept(g) /\ obj \in L!Objects /\ Owned(g, obj) /\ g.ptr[obj] = v
      /\ g.first = l.first /\ g.last = l.last /\ g.size = l.size
      /\ \A o : Owned(l, o) => /\ Owned(g, o) /\ o # obj
                               /\ g.next[o] = l.next[o] /\ g.ptr[o] = l.ptr[o]
  BY <1>1, GotKeeps
<1>3. g \in ListRecords /\ f = IF j = 0 THEN obj ELSE l.first
  BY <1>2 DEF Kept, FirstWith
<1>12. l2 = Reordered(g, f, la, l.size + 1, nx)
  OBVIOUS
<1>13. e => Ends(l, q, n) /\ la = IF j = n THEN obj ELSE l.last
  OBVIOUS
<1> HIDE DEF g, obj, f
<1>4. f \in L!Places /\ l.size + 1 \in Int
  BY <1>1, <1>2, <1>3, FieldTypes
<1>5. /\ l2 \in ListRecords /\ l2.first = f /\ l2.last = la /\ l2.size = l.size + 1 /\ l2.next = nx
      /\ l2.freed = g.freed /\ l2.live = g.live /\ l2.ptr = g.ptr
  <2>1. l2 \in ListRecords /\ HasOrder(l2, g, f, la, l.size + 1, nx)
    BY <1>0, <1>3, <1>4, <1>12, OrderFields
  <2> QED BY <2>1 DEF HasOrder
<1>6. Same(l2, g)
  BY <1>5 DEF Same
<1>7. j \in Nat /\ j <= n /\ (j # 0 => j \in 1..n)
  BY <1>1
<1>8. \A i \in 1..n : i # j => l2.next[q[i]] = l.next[q[i]]
  BY <1>0, <1>1, <1>2, <1>5, <1>7
<1>9. l2.first = (IF j = 0 THEN obj ELSE l.first) /\ l2.next[obj] = (IF j = n THEN 0 ELSE q[j + 1])
      /\ (j # 0 => l2.next[q[j]] = obj)
  BY <1>0, <1>3, <1>5
<1> DEFINE p == Ins(q, n, j, obj)
<1>10. Good(l2, p, n + 1) /\ Vals(l2, p, n + 1) = Ins(Vals(l, q, n), n, j, v)
  BY <1>2, <1>6, <1>8, <1>9, InsertLine
<1>11. ASSUME e PROVE Ends(l2, p, n + 1)
  <2>1. l2.size = n + 1 /\ n + 1 # 0 /\ n + 1 \in 1..n + 1
    BY <1>1, <1>5, <1>11 DEF Ends
  <2>2. CASE j = n
    <3>1. p[n + 1] = obj
      BY <1>1, <2>1, <2>2 DEF Ins
    <3> QED BY <1>5, <1>11, <1>13, <2>1, <2>2, <3>1 DEF Ends
  <2>3. CASE j # n
    <3>1. n # 0 /\ ~(n + 1 <= j) /\ n + 1 # j + 1 /\ n + 1 - 1 = n
      BY <1>1, <1>7, <2>3
    <3>2. p[n + 1] = q[n + 1 - 1]
      BY <1>1, <2>1, <3>1 DEF Ins
    <3>3. p[n + 1] = q[n]
      BY <3>1, <3>2
    <3> HIDE DEF p
    <3>4. la = q[n]
      BY <1>11, <1>13, <2>3, <3>1 DEF Ends
    <3> QED BY <1>5, <2>1, <3>3, <3>4 DEF Ends
  <2> QED BY <2>2, <2>3
<1> HIDE DEF p
<1> QED BY <1>10, <1>11 DEF Results

LEMMA AddFirstOp ==
  ASSUME L!ListsAssumption, NEW l, NEW q, NEW n, Good(l, q, n), L!CanGet(l), NEW v \in Values
  PROVE  Results(L!addFirst(l, v), Ins(Vals(l, q, n), n, 0, v), TRUE, Ends(l, q, n))
<1> DEFINE obj == L!GetFree(l)
           g == L!Got(l, v)
           la == IF l.first # 0 THEN l.last ELSE obj
           nx == [g.next EXCEPT ![obj] = l.first]
           f == FirstWith(l, 0)
           l2 == L!addFirst(l, v)
<1>1. /\ n \in Nat /\ Kept(l) /\ l \in ListRecords /\ (l.first = 0 <=> n = 0)
      /\ l.first = IF n = 0 THEN 0 ELSE q[1]
  BY GoodSays
<1>2. /\ Kept(g) /\ obj \in L!Objects /\ Owned(g, obj) /\ g.next[obj] = 0
      /\ g.first = l.first /\ g.last = l.last /\ g.size = l.size
  BY <1>1, GotKeeps
<1>3. g \in ListRecords /\ g.next \in [L!Objects -> L!Places] /\ l.first \in L!Places /\ l.last \in L!Places
      /\ obj \in L!Places
  <2>1. g \in ListRecords
    BY <1>2 DEF Kept
  <2> QED BY <1>1, <1>2, <2>1, FieldTypes
<1> HIDE DEF g, obj
<1>4. nx \in [L!Objects -> L!Places] /\ nx[obj] = l.first
      /\ \A o \in L!Objects : o # obj => nx[o] = g.next[o]
  BY <1>2, <1>3
<1>5. l.first = 0 => nx = g.next
  BY <1>2, <1>3
<1>6. l2 = Reordered(g, f, la, l.size + 1, nx)
  <2>1. l2 = IF l.first # 0 THEN [g EXCEPT !.next[obj] = l.first, !.first = obj, !.size = @ + 1]
             ELSE [g EXCEPT !.last = obj, !.first = obj, !.size = @ + 1]
    BY DEF L!addFirst, L!Nil, g, obj
  <2>2. CASE l.first # 0
    <3>1. l2 = [g EXCEPT !.next[obj] = l.first, !.first = obj, !.size = @ + 1] /\ la = l.last /\ f = obj
      BY <2>1, <2>2 DEF FirstWith, obj
    <3> HIDE DEF la, f, l2
    <3> QED BY <1>2, <1>3, <3>1 DEF Reordered, ListRecords
  <2>3. CASE l.first = 0
    <3>1. l2 = [g EXCEPT !.last = obj, !.first = obj, !.size = @ + 1] /\ la = obj /\ f = obj
      BY <2>1, <2>3 DEF FirstWith, obj
    <3> HIDE DEF nx, la, f, l2
    <3> QED BY <1>2, <1>3, <1>5, <2>3, <3>1 DEF Reordered, ListRecords
  <2> QED BY <2>2, <2>3
<1>7. 0 \in 0..n /\ la \in L!Places /\ la = IF 0 = n THEN obj ELSE l.last
  BY <1>1, <1>3, <1>4
<1> DEFINE s == Ins(Vals(l, q, n), n, 0, v)
<1>9. Spliced(nx, g.next, q, n, 0, obj)
  <2> HIDE DEF nx
  <2> QED BY <1>1, <1>4 DEF Spliced
<1>8. Spliced(nx, L!Got(l, v).next, q, n, 0, L!GetFree(l))
      /\ l2 = Reordered(L!Got(l, v), FirstWith(l, 0), la, l.size + 1, nx)
      /\ la = IF 0 = n THEN L!GetFree(l) ELSE l.last
  <2> HIDE DEF nx, la, l2
  <2> QED BY <1>6, <1>7, <1>9 DEF g, obj
<1> HIDE DEF nx, la, f, l2
<1>10. Results(l2, s, TRUE, Ends(l, q, n))
  <2>1. Ends(l, q, n) \in BOOLEAN
    BY DEF Ends
  <2> QED BY <2>1, <1>7, <1>8, InsertOp
<1> QED BY <1>10 DEF l2

\* The links with a new object behind obj.
LinksBehind(l, v, obj) ==
  [L!Got(l, v).next EXCEPT ![L!GetFree(l)] = l.next[obj], ![obj] = L!GetFree(l)]

\* A new object behind the one that a walk comes to.
LEMMA BehindOp ==
  ASSUME L!ListsAssumption, NEW l, NEW q, NEW n, Good(l, q, n), n # 0, L!CanGet(l), NEW v \in Values,
         NEW j \in 1..n, NEW la \in L!Places,
         NEW l2, l2 = Reordered(L!Got(l, v), l.first, la, l.size + 1, LinksBehind(l, v, q[j])),
         NEW e \in BOOLEAN, e => Ends(l, q, n) /\ la = IF j = n THEN L!GetFree(l) ELSE l.last
  PROVE  Results(l2, Ins(Vals(l, q, n), n, j, v), TRUE, e)
<1> DEFINE g == L!Got(l, v)
           got == L!GetFree(l)
           obj == q[j]
           nx == LinksBehind(l, v, q[j])
<1>1. /\ n \in Nat /\ Kept(l) /\ l \in ListRecords
      /\ \A i \in 1..n : Owned(l, q[i]) /\ q[i] \in L!Objects
      /\ \A i \in 1..n : l.next[q[i]] = IF i = n THEN 0 ELSE q[i + 1]
  BY GoodSays
<1>2. /\ Kept(g) /\ got \in L!Objects /\ \A o : Owned(l, o) => o # got
  BY <1>1, GotKeeps
<1>3. g.next \in [L!Objects -> L!Places] /\ l.next \in [L!Objects -> L!Places] /\ L!Objects \subseteq L!Places
  <2>1. g \in ListRecords
    BY <1>2 DEF Kept
  <2> QED BY <1>1, <2>1, FieldTypes
<1>4. obj \in L!Objects /\ obj # got /\ l.next[obj] = IF j = n THEN 0 ELSE q[j + 1]
  BY <1>1, <1>2
<1>5. nx = [g.next EXCEPT ![got] = l.next[obj], ![obj] = got]
  BY DEF LinksBehind
<1> HIDE DEF g, got, nx
<1>6. nx \in [L!Objects -> L!Places] /\ nx[got] = l.next[obj] /\ nx[obj] = got
      /\ \A o \in L!Objects : o # got /\ o # obj => nx[o] = g.next[o]
  BY <1>2, <1>3, <1>4, <1>5
<1>7. j \in 0..n /\ j # 0
  BY <1>1
<1>8. Spliced(nx, g.next, q, n, j, got)
  <2> HIDE DEF obj
  <2>1. Spliced(nx, g.next, q, n, j, got)
    BY <1>4, <1>6, <1>7 DEF Spliced, obj
  <2> QED BY <2>1
<1>9. FirstWith(l, j) = l.first
  BY <1>7 DEF FirstWith
<1>10. /\ l2 = Reordered(L!Got(l, v), FirstWith(l, j), la, l.size + 1, nx)
       /\ Spliced(nx, L!Got(l, v).next, q, n, j, L!GetFree(l))
  BY <1>8, <1>9 DEF g, nx, got
<1> QED BY <1>7, <1>10, InsertOp

\* The list of such a call.
PutBehind(l, v, obj) ==
  [L!Got(l, v) EXCEPT !.next = [@ EXCEPT ![L!GetFree(l)] = l.next[obj], ![obj] = L!GetFree(l)],
                      !.size = @ + 1]

PutLast(l, v, obj, la) ==
  [L!Got(l, v) EXCEPT !.next = [@ EXCEPT ![L!GetFree(l)] = l.next[obj], ![obj] = L!GetFree(l)],
                      !.last = la, !.size = @ + 1]

LEMMA BehindIs ==
  ASSUME L!ListsAssumption, NEW l, NEW q, NEW n, Good(l, q, n), L!CanGet(l), NEW v \in Values,
         NEW obj \in L!Objects, NEW la
  PROVE  /\ PutBehind(l, v, obj) = Reordered(L!Got(l, v), l.first, l.last, l.size + 1, LinksBehind(l, v, obj))
         /\ PutLast(l, v, obj, la) = Reordered(L!Got(l, v), l.first, la, l.size + 1, LinksBehind(l, v, obj))
<1> DEFINE g == L!Got(l, v)
           got == L!GetFree(l)
           nx == LinksBehind(l, v, obj)
<1>1. Kept(l)
  BY GoodSays
<1>2. g \in ListRecords /\ g.first = l.first /\ g.last = l.last /\ g.size = l.size
  <2>1. Kept(g) /\ g.first = l.first /\ g.last = l.last /\ g.size = l.size
    BY <1>1, GotKeeps
  <2> QED BY <2>1 DEF Kept
<1>0. nx = [g.next EXCEPT ![got] = l.next[obj], ![obj] = got]
  BY DEF LinksBehind
<1>7. /\ PutBehind(l, v, obj) = [g EXCEPT !.next = [@ EXCEPT ![got] = l.next[obj], ![obj] = got], !.size = @ + 1]
      /\ PutLast(l, v, obj, la)
         = [g EXCEPT !.next = [@ EXCEPT ![got] = l.next[obj], ![obj] = got], !.last = la, !.size = @ + 1]
  BY DEF PutBehind, PutLast
<1> HIDE DEF g, got, nx
<1>3. [g EXCEPT !.next = [@ EXCEPT ![got] = l.next[obj], ![obj] = got], !.size = @ + 1]
      = [g EXCEPT !.next = nx, !.size = @ + 1]
  BY <1>0
<1>4. [g EXCEPT !.next = [@ EXCEPT ![got] = l.next[obj], ![obj] = got], !.last = la, !.size = @ + 1]
      = [g EXCEPT !.next = nx, !.last = la, !.size = @ + 1]
  BY <1>0
<1>5. [g EXCEPT !.next = nx, !.size = @ + 1] = Reordered(g, l.first, l.last, l.size + 1, nx)
  BY <1>2 DEF Reordered, ListRecords
<1>6. [g EXCEPT !.next = nx, !.last = la, !.size = @ + 1] = Reordered(g, l.first, la, l.size + 1, nx)
  BY <1>2 DEF Reordered, ListRecords
<1>8. /\ PutBehind(l, v, obj) = Reordered(g, l.first, l.last, l.size + 1, nx)
      /\ PutLast(l, v, obj, la) = Reordered(g, l.first, la, l.size + 1, nx)
  BY <1>3, <1>4, <1>5, <1>6, <1>7
<1> QED BY <1>8 DEF g, nx

LEMMA AppendAfterOp ==
  ASSUME L!ListsAssumption, NEW l, NEW q, NEW n, Good(l, q, n), L!CanGet(l), NEW v \in Values, NEW i \in Nat
  PROVE  Results(L!appendAfter(l, i, v), Ins(Vals(l, q, n), n, Place(i, n), v), TRUE, Ends(l, q, n))
<1>1. n \in Nat /\ (l.first = 0 <=> n = 0) /\ l \in ListRecords /\ Kept(l)
      /\ (\A k \in 1..n : q[k] \in L!Objects /\ q[k] \in L!Places)
      /\ \A k \in 1..n : q[k] # 0 /\ l.next[q[k]] = IF k = n THEN 0 ELSE q[k + 1]
  BY GoodSays
<1>2. CASE n = 0
  <2>1. L!appendAfter(l, i, v) = L!addFirst(l, v) /\ Place(i, n) = 0
    BY <1>1, <1>2 DEF L!appendAfter, L!Nil, Place
  <2> QED BY <2>1, AddFirstOp
<1>3. CASE n # 0
  <2> DEFINE j == Place(i, n)
             obj == q[j]
             g == L!Got(l, v)
             got == L!GetFree(l)
             la == IF l.next[obj] = 0 THEN got ELSE l.last
             nx == LinksBehind(l, v, obj)
             l2 == L!appendAfter(l, i, v)
             e == Ends(l, q, n)
  <2>1. j \in 1..n
    BY <1>1, <1>3 DEF Place
  <2>2. L!Walk(l, l.first, i) = obj
    BY <1>3, WalkIs DEF Good
  <2>3. obj \in L!Objects
    BY <1>1, <2>1
  <2>4. l2 = PutLast(l, v, obj, la)
    <3>1. g.last = l.last
      BY <1>1, GotKeeps
    <3> HIDE DEF obj
    <3> QED BY <1>1, <1>3, <2>2, <3>1 DEF L!appendAfter, L!Nil, PutLast
  <2>5. l2 = Reordered(g, l.first, la, l.size + 1, nx)
    <3> HIDE DEF obj, la, l2
    <3> QED BY <2>3, <2>4, BehindIs
  <2>6. l.next[obj] = 0 <=> j = n
    <3>1. l.next[obj] = (IF j = n THEN 0 ELSE q[j + 1])
      BY <1>1, <2>1
    <3>2. j # n => j + 1 \in 1..n
      BY <1>1, <2>1
    <3> HIDE DEF j, obj
    <3> QED BY <1>1, <3>1, <3>2
  <2>7. got \in L!Places /\ l.last \in L!Places
    BY <1>1, FieldTypes, GotKeeps
  <2>8. la \in L!Places /\ la = IF j = n THEN got ELSE l.last
    BY <2>6, <2>7
  <2>9. e \in BOOLEAN
    BY DEF Ends
  <2> HIDE DEF j, la, l2, e
  <2>10. e => Ends(l, q, n) /\ la = IF j = n THEN got ELSE l.last
    BY <2>8 DEF e
  <2>11. Results(l2, Ins(Vals(l, q, n), n, j, v), TRUE, e)
    BY <1>3, <2>1, <2>5, <2>8, <2>9, <2>10, BehindOp
  <2> QED BY <2>11 DEF j, l2, e
<1> QED BY <1>2, <1>3

\* The place where addAt() puts an item.
Spot(i, n) == IF i < n THEN i ELSE n

LEMMA AddAtOp ==
  ASSUME L!ListsAssumption, NEW l, NEW q, NEW n, Good(l, q, n), L!CanGet(l), NEW v \in Values, NEW i \in Nat
  PROVE  Results(L!addAt(l, i, v), Ins(Vals(l, q, n), n, Spot(i, n), v), TRUE, Ends(l, q, n) /\ ~L!BehindLast(l, i))
<1>1. n \in Nat /\ (l.first = 0 <=> n = 0) /\ l \in ListRecords /\ Kept(l)
      /\ (\A k \in 1..n : q[k] \in L!Objects /\ q[k] \in L!Places)
      /\ \A k \in 1..n : q[k] # 0 /\ l.next[q[k]] = IF k = n THEN 0 ELSE q[k + 1]
  BY GoodSays
<1> DEFINE e == Ends(l, q, n) /\ ~L!BehindLast(l, i)
<1>2. CASE n = 0 \/ i = 0
  <2>1. L!addAt(l, i, v) = L!addFirst(l, v) /\ Spot(i, n) = 0 /\ ~L!BehindLast(l, i)
    BY <1>1, <1>2 DEF L!addAt, L!Nil, Spot, L!BehindLast
  <2>2. Results(L!addAt(l, i, v), Ins(Vals(l, q, n), n, Spot(i, n), v), TRUE, Ends(l, q, n))
    BY <2>1, AddFirstOp
  <2> QED BY <2>2 DEF Results
<1>3. CASE n # 0 /\ i # 0
  <2> DEFINE j == Spot(i, n)
             obj == q[j]
             g == L!Got(l, v)
             got == L!GetFree(l)
             la == l.last
             nx == LinksBehind(l, v, obj)
             l2 == L!addAt(l, i, v)
  <2>1. j \in 1..n /\ i - 1 \in Nat /\ Place(i - 1, n) = j
    BY <1>1, <1>3 DEF Place, Spot
  <2>2. L!Walk(l, l.first, i - 1) = obj
    BY <1>3, <2>1, WalkIs DEF Good
  <2>3. obj \in L!Objects
    BY <1>1, <2>1
  <2>4. l2 = PutBehind(l, v, obj)
    <3> HIDE DEF obj
    <3> QED BY <1>1, <1>3, <2>2 DEF L!addAt, L!Nil, PutBehind
  <2>5. l2 = Reordered(g, l.first, la, l.size + 1, nx)
    <3> HIDE DEF obj, l2
    <3> QED BY <2>3, <2>4, BehindIs
  <2>6. l.next[obj] = 0 <=> j = n
    <3>1. l.next[obj] = (IF j = n THEN 0 ELSE q[j + 1])
      BY <1>1, <2>1
    <3>2. j # n => j + 1 \in 1..n
      BY <1>1, <2>1
    <3> HIDE DEF j, obj
    <3> QED BY <1>1, <3>1, <3>2
  <2>7. la \in L!Places
    BY <1>1, FieldTypes
  <2>8. e \in BOOLEAN
    BY DEF Ends
  <2>9. e => j # n
    BY <1>1, <1>3, <2>2, <2>6 DEF L!BehindLast, L!Nil
  <2>10. e => Ends(l, q, n) /\ la = IF j = n THEN got ELSE l.last
    BY <2>9
  <2> HIDE DEF j, la, l2, e
  <2>11. Results(l2, Ins(Vals(l, q, n), n, j, v), TRUE, e)
    BY <1>3, <2>1, <2>5, <2>7, <2>8, <2>10, BehindOp
  <2> QED BY <2>11 DEF j, l2, e
<1> QED BY <1>2, <1>3

-----------------------------------------------------------------------------
(* The calls at the ends                                                     *)

LEMMA AppendOp ==
  ASSUME L!ListsAssumption, NEW l, NEW q, NEW n, Good(l, q, n), L!CanGet(l), NEW v \in Values
  PROVE  Results(L!append(l, v), Ins(Vals(l, q, n), n, n, v), Ends(l, q, n), Ends(l, q, n))
<1> DEFINE l2 == L!append(l, v)
           g == L!Got(l, v)
           got == L!GetFree(l)
           nx == [g.next EXCEPT ![l.last] = got]
           e == Ends(l, q, n)
<1>1. /\ n \in Nat /\ q \in [1..n -> L!Objects] /\ Kept(l) /\ l \in ListRecords
      /\ \A i, k \in 1..n : q[i] = q[k] => i = k
      /\ l.first = IF n = 0 THEN 0 ELSE q[1]
      /\ \A i \in 1..n : l.next[q[i]] = IF i = n THEN 0 ELSE q[i + 1]
      /\ \A i \in 1..n : Owned(l, q[i]) /\ q[i] # 0 /\ q[i] \in L!Places /\ q[i] \in L!Objects
      /\ n # 0 => 1 \in 1..n /\ n \in 1..n
  BY GoodSays
<1>2. CASE l.last = 0
  <2>1. l2 = L!addFirst(l, v)
    BY <1>2 DEF L!append, L!Nil
  <2>2. e => n = 0
    BY <1>1, <1>2 DEF Ends
  <2>3. Results(l2, Ins(Vals(l, q, n), n, 0, v), TRUE, e)
    BY <2>1, AddFirstOp
  <2> HIDE DEF l2, e
  <2>4. Results(l2, Ins(Vals(l, q, n), n, n, v), e, e)
    BY <2>2, <2>3 DEF Results
  <2> QED BY <2>4 DEF l2, e
<1>3. CASE l.last # 0
  <2>1. /\ Kept(g) /\ got \in L!Objects /\ Owned(g, got) /\ g.next[got] = 0 /\ g.ptr[got] = v
        /\ g.first = l.first /\ g.last = l.last /\ g.size = l.size
        /\ \A o : Owned(l, o) => /\ Owned(g, o) /\ o # got
                                 /\ g.next[o] = l.next[o] /\ g.ptr[o] = l.ptr[o]
    BY <1>1, GotKeeps
  <2>2. /\ l.last \in L!Objects /\ l.first \in L!Places /\ got \in L!Places /\ l.size + 1 \in Int
        /\ g.next \in [L!Objects -> L!Places] /\ g \in ListRecords
    <3>1. g \in ListRecords
      BY <2>1 DEF Kept
    <3>2. L!Objects = L!Places \ {0}
      BY DEF L!ListsAssumption, L!Objects, L!Places
    <3>3. g.next \in [L!Objects -> L!Places]
      BY <3>1, FieldTypes
    <3>4. l.last \in L!Places /\ l.first \in L!Places /\ l.size \in Int
      BY <1>1, FieldTypes
    <3>5. l.last \in L!Objects /\ got \in L!Places
      BY <1>3, <2>1, <3>2, <3>4
    <3> QED BY <3>1, <3>3, <3>4, <3>5
  <2>3. l2 = [g EXCEPT !.next[l.last] = got, !.last = got, !.size = @ + 1]
    BY <1>3 DEF L!append, L!Nil
  <2>4. g = L!Got(l, v) /\ got = L!GetFree(l)
    OBVIOUS
  <2> HIDE DEF g, got, l2
  <2>5. nx \in [L!Objects -> L!Places] /\ nx[l.last] = got /\ \A o \in L!Objects : o # l.last => nx[o] = g.next[o]
    BY <2>2
  <2>6. l2 = Reordered(g, l.first, got, l.size + 1, nx)
    BY <2>1, <2>2, <2>3 DEF Reordered, ListRecords
  <2>7. /\ l2 \in ListRecords /\ l2.first = l.first /\ l2.last = got /\ l2.size = l.size + 1 /\ l2.next = nx
        /\ l2.freed = g.freed /\ l2.live = g.live /\ l2.ptr = g.ptr
    <3> HIDE DEF nx
    <3>1. l2 \in ListRecords /\ HasOrder(l2, g, l.first, got, l.size + 1, nx)
      BY <2>2, <2>5, <2>6, OrderFields
    <3> QED BY <3>1 DEF HasOrder
  <2>8. Same(l2, g)
    BY <2>7 DEF Same
  <2> HIDE DEF nx
  <2>9. CASE n # 0 /\ l.last = q[n]
    <3>1. Spliced(nx, g.next, q, n, n, got)
      <4>1. nx[got] = 0
        BY <1>1, <2>1, <2>5, <2>9
      <4> QED BY <2>5, <2>9, <4>1 DEF Spliced
    <3>2. FirstWith(l, n) = l.first /\ n \in 0..n
      BY <1>1, <2>9 DEF FirstWith
    <3>3. /\ Spliced(nx, L!Got(l, v).next, q, n, n, L!GetFree(l))
          /\ l2 = Reordered(L!Got(l, v), FirstWith(l, n), got, l.size + 1, nx)
      BY <2>4, <2>6, <3>1, <3>2
    <3>4. got = (IF n = n THEN L!GetFree(l) ELSE l.last) /\ e \in BOOLEAN
      BY <2>4 DEF Ends
    <3>5. e => Ends(l, q, n) /\ got = IF n = n THEN L!GetFree(l) ELSE l.last
      BY <3>4
    <3> HIDE DEF e
    <3>6. Results(l2, Ins(Vals(l, q, n), n, n, v), TRUE, e)
      BY <2>2, <3>2, <3>3, <3>4, <3>5, InsertOp
    <3>7. Results(l2, Ins(Vals(l, q, n), n, n, v), e, e)
      BY <3>6 DEF Results
    <3> QED BY <3>7 DEF l2, e
  <2>10. CASE ~(n # 0 /\ l.last = q[n])
    <3>1. ~e
      BY <1>3, <2>10 DEF Ends
    <3> SUFFICES \E p, m : Good(l2, p, m)
      BY <3>1 DEF l2, Results
    <3>2. CASE \E j \in 1..n : l.last = q[j]
      <4>1. PICK j \in 1..n : l.last = q[j]
        BY <3>2
      <4>2. j # n /\ j < n /\ j \in Nat /\ j # 0 /\ j \in 0..n /\ n # 0
        BY <1>1, <2>10, <4>1
      <4> DEFINE nx1 == [l.next EXCEPT ![q[j]] = 0]
                 c == Reordered(l, l.first, l.last, l.size, nx1)
                 p == Taken(q, Front1(j), j)
      <4>3. l.next \in [L!Objects -> L!Places] /\ l.last \in L!Places /\ l.size \in Int
        BY <1>1, FieldTypes
      <4>4. nx1 \in [L!Objects -> L!Places] /\ nx1[q[j]] = 0 /\ \A o \in L!Objects : o # q[j] => nx1[o] = l.next[o]
        BY <1>1, <4>1, <4>3, NilPlace
      <4> HIDE DEF nx1
      <4>5. c \in ListRecords /\ HasOrder(c, l, l.first, l.last, l.size, nx1)
        BY <1>1, <2>2, <4>3, <4>4, OrderFields
      <4> HIDE DEF c
      <4>6. /\ Same(c, l) /\ c.first = l.first /\ c.next = nx1
        BY <4>5 DEF HasOrder, Same
      <4>7. \A i \in 1..n : i # j => c.next[q[i]] = l.next[q[i]]
        BY <1>1, <4>4, <4>6
      <4>8. c.next[q[j]] = 0 /\ \A i \in 1..n : i < j => c.next[q[i]] = l.next[q[i]]
        BY <1>1, <4>2, <4>4, <4>6, <4>7
      <4>9. Good(c, p, j)
        BY <4>2, <4>6, <4>8, CutLine
      <4>10. \A i \in 1..j : p[i] = q[i] /\ i \in 1..n
        <5>1. \A i \in 1..j : p[i] = q[Front1(j)[i]] /\ Front1(j)[i] = i
          BY DEF Taken, Front1
        <5> HIDE DEF p
        <5> QED BY <1>1, <4>2, <5>1
      <4>11. p[j] = q[j]
        BY <4>2, <4>10
      <4> HIDE DEF p
      <4>12. \A o : Owned(c, o) => Owned(g, o) /\ o # got /\ g.ptr[o] = c.ptr[o]
        <5>1. \A o : Owned(c, o) <=> Owned(l, o)
          BY <1>1, <4>6, Changed DEF Same
        <5> QED BY <2>1, <4>6, <5>1 DEF Same
      <4>13. l2.first = (IF j = 0 THEN got ELSE c.first) /\ (j # 0 => l2.next[p[j]] = got) /\ j \in 0..j
        BY <2>5, <2>7, <4>1, <4>2, <4>6, <4>11
      <4>14. l2.next[got] = IF j = j THEN 0 ELSE p[j + 1]
        BY <1>1, <2>1, <2>5, <2>7, <4>1
      <4>15. \A i \in 1..j : i # j => l2.next[p[i]] = c.next[p[i]]
        BY <1>1, <2>1, <2>5, <2>7, <4>1, <4>7, <4>10
      <4>16. Good(l2, Ins(p, j, j, got), j + 1)
        BY <2>1, <2>8, <4>9, <4>12, <4>13, <4>14, <4>15, InsertLine
      <4> QED BY <4>16
    <3>3. CASE ~\E j \in 1..n : l.last = q[j]
      <4>1. \A i \in 1..n : Owned(l2, q[i]) /\ l2.next[q[i]] = l.next[q[i]]
        <5>1. Kept(l2) /\ \A o : Owned(l2, o) <=> Owned(g, o)
          BY <2>1, <2>8, Changed DEF Same
        <5> QED BY <1>1, <2>1, <2>5, <2>7, <3>3, <5>1
      <4>2. Kept(l2)
        BY <2>1, <2>8, Changed DEF Same
      <4>3. Line(l2, q, n)
        BY <1>1, <2>7, <4>1 DEF Line
      <4>4. Good(l2, q, n)
        BY <4>1, <4>2, <4>3 DEF Good
      <4> QED BY <4>4
    <3> QED BY <3>2, <3>3
  <2> QED BY <2>9, <2>10
<1> QED BY <1>2, <1>3

\* The first object leaves the line, and is not freed.
LEMMA DropFirst ==
  ASSUME L!ListsAssumption, NEW l, NEW q, NEW n, Good(l, q, n), n # 0,
         NEW l2, Same(l2, l), l2.first = l.next[q[1]],
         \A i \in 1..n : i # 1 => l2.next[q[i]] = l.next[q[i]]
  PROVE  LET p == Taken(q, Without1(n, 1), n - 1) IN
         /\ Good(l2, p, n - 1) /\ Vals(l2, p, n - 1) = Taken(Vals(l, q, n), Without1(n, 1), n - 1)
         /\ \A i \in 1..n - 1 : p[i] # q[1] /\ p[i] = q[i + 1]
<1>1. n \in Nat /\ 1 \in 1..n
  BY GoodSays
<1>2. l2.first = (IF 1 = 1 THEN l.next[q[1]] ELSE l.first) /\ (1 # 1 => l2.next[q[1 - 1]] = l.next[q[1]])
      /\ \A i \in 1..n : i # 1 - 1 /\ i # 1 => l2.next[q[i]] = l.next[q[i]]
  OBVIOUS
<1> DEFINE p == Taken(q, Without1(n, 1), n - 1)
<1>3. /\ Good(l2, p, n - 1) /\ Vals(l2, p, n - 1) = Taken(Vals(l, q, n), Without1(n, 1), n - 1)
      /\ \A i \in 1..n - 1 : p[i] # q[1]
  BY <1>1, <1>2, RemoveLine
<1>4. \A i \in 1..n - 1 : p[i] = q[i + 1]
  <2>1. \A i \in 1..n - 1 : ~(i < 1)
    BY <1>1
  <2> QED BY <2>1 DEF Taken, Without1
<1> QED BY <1>3, <1>4

LEMMA TakeFirstOp ==
  ASSUME L!ListsAssumption, NEW l, NEW q, NEW n, Good(l, q, n), n # 0
  PROVE  Results(L!takeFirst(l), Taken(Vals(l, q, n), Without1(n, 1), n - 1), TRUE, Ends(l, q, n))
<1> DEFINE l2 == L!takeFirst(l)
           f == l.next[l.first]
           la == IF f = 0 THEN 0 ELSE l.last
           sz == l.size - 1
           c == Reordered(l, f, la, sz, l.next)
           p == Taken(q, Without1(n, 1), n - 1)
<1>1. /\ n \in Nat /\ Kept(l) /\ l \in ListRecords /\ l.first = q[1] /\ 1 \in 1..n /\ n \in 1..n
      /\ \A i \in 1..n : l.next[q[i]] = IF i = n THEN 0 ELSE q[i + 1]
      /\ \A i \in 1..n : Owned(l, q[i]) /\ q[i] # 0 /\ q[i] \in L!Places /\ q[i] \in L!Objects
  BY GoodSays
<1>2. /\ l.next \in [L!Objects -> L!Places] /\ l.last \in L!Places /\ l.size \in Int
  BY <1>1, FieldTypes
<1>3. f \in L!Places /\ la \in L!Places /\ sz \in Int
  BY <1>1, <1>2, NilPlace
<1>4. f = 0 <=> n = 1
  <2>1. f = IF n = 1 THEN 0 ELSE q[1 + 1]
    BY <1>1
  <2>2. n # 1 => 1 + 1 \in 1..n
    BY <1>1
  <2> HIDE DEF f
  <2> QED BY <1>1, <2>1, <2>2
<1>5. l2 = L!Freed([l EXCEPT !.first = f, !.last = IF f = 0 THEN 0 ELSE @, !.size = @ - 1], l.first)
  BY <1>1 DEF L!takeFirst, L!Nil
<1>6. [l EXCEPT !.first = f, !.last = IF f = 0 THEN 0 ELSE @, !.size = @ - 1] = c
  <2> HIDE DEF f
  <2> QED BY <1>1 DEF Reordered, ListRecords
<1>7. l2 = L!Freed(c, q[1])
  BY <1>1, <1>5, <1>6
<1> HIDE DEF f, la, sz, l2
<1>8. c \in ListRecords /\ HasOrder(c, l, f, la, sz, l.next)
  BY <1>1, <1>2, <1>3, OrderFields
<1> HIDE DEF c
<1>9. Same(c, l) /\ c.first = f /\ c.next = l.next /\ c.last = la /\ c.size = sz
  BY <1>8 DEF HasOrder, Same
<1>10. c.first = l.next[q[1]] /\ \A i \in 1..n : i # 1 => c.next[q[i]] = l.next[q[i]]
  BY <1>1, <1>9 DEF f
<1>11. /\ Good(c, p, n - 1) /\ Vals(c, p, n - 1) = Taken(Vals(l, q, n), Without1(n, 1), n - 1)
       /\ \A i \in 1..n - 1 : p[i] # q[1] /\ p[i] = q[i + 1]
  BY <1>9, <1>10, DropFirst
<1>12. Owned(c, q[1])
  BY <1>1, <1>9, Changed DEF Same
<1> HIDE DEF p
<1> DEFINE m == n - 1
<1>13. Good(c, p, m) /\ \A i \in 1..m : p[i] # q[1]
  BY <1>11
<1> HIDE DEF m
<1>14. /\ Good(l2, p, m) /\ Vals(l2, p, m) = Vals(c, p, m)
       /\ l2.first = c.first /\ l2.last = c.last /\ l2.size = c.size
  BY <1>7, <1>12, <1>13, FreeLine
<1>15. Ends(l, q, n) => Ends(l2, p, m)
  <2> SUFFICES ASSUME Ends(l, q, n) PROVE Ends(l2, p, m)
    OBVIOUS
  <2>1. l.size = n /\ l.last = q[n] /\ l2.size = m
    BY <1>1, <1>9, <1>14 DEF Ends, sz, m
  <2>2. CASE n = 1
    BY <1>4, <1>9, <1>14, <2>1, <2>2 DEF Ends, m, la
  <2>3. CASE n # 1
    <3>1. m \in 1..m /\ m + 1 = n /\ m # 0
      BY <1>1, <2>3 DEF m
    <3>2. p[m] = q[n]
      BY <1>11, <3>1 DEF m
    <3> QED BY <1>4, <1>9, <1>14, <2>1, <2>3, <3>1, <3>2 DEF Ends, la
  <2> QED BY <2>2, <2>3
<1> QED BY <1>11, <1>14, <1>15 DEF Results, m, l2

LEMMA RotateOp ==
  ASSUME L!ListsAssumption, NEW l, NEW q, NEW n, Good(l, q, n), n # 0
  PROVE  Results(L!rotateFirstLast(l), Taken(Vals(l, q, n), Turned(n), n), Ends(l, q, n), Ends(l, q, n))
<1> DEFINE l2 == L!rotateFirstLast(l)
           e == Ends(l, q, n)
           nx == [o \in L!Objects |-> IF o = l.first THEN 0 ELSE IF o = l.last THEN l.first ELSE l.next[o]]
           f == l.next[l.first]
           la == l.first
           sz == l.size
           c == Reordered(l, f, la, sz, nx)
<1>1. /\ n \in Nat /\ q \in [1..n -> L!Objects] /\ Kept(l) /\ l \in ListRecords /\ l.first = q[1] /\ 1 \in 1..n /\ n \in 1..n
      /\ \A i, k \in 1..n : q[i] = q[k] => i = k
      /\ \A i \in 1..n : l.next[q[i]] = IF i = n THEN 0 ELSE q[i + 1]
      /\ \A i \in 1..n : Owned(l, q[i]) /\ q[i] # 0 /\ q[i] \in L!Places /\ q[i] \in L!Objects
  BY GoodSays
<1>2. CASE l.last = q[1]
  <2>1. l2 = l
    BY <1>1, <1>2 DEF L!rotateFirstLast
  <2>2. e => n = 1
    BY <1>1, <1>2 DEF Ends
  <2>3. n = 1 => Vals(l, q, n) = Taken(Vals(l, q, n), Turned(n), n)
    <3>1. ASSUME n = 1 PROVE \A i \in 1..n : l.ptr[q[i]] = l.ptr[q[Turned(n)[i]]] /\ Turned(n)[i] \in 1..n
      BY <3>1 DEF Turned
    <3> QED BY <3>1 DEF Vals, Taken
  <2> HIDE DEF l2, e
  <2>4. Good(l2, q, n) /\ (e => Vals(l2, q, n) = Taken(Vals(l, q, n), Turned(n), n)) /\ (e => Ends(l2, q, n))
    BY <2>1, <2>2, <2>3 DEF e
  <2>5. Results(l2, Taken(Vals(l, q, n), Turned(n), n), e, e)
    BY <2>4 DEF Results
  <2> QED BY <2>5 DEF l2, e
<1>3. CASE l.last # q[1]
  <2>1. /\ l.next \in [L!Objects -> L!Places] /\ l.last \in L!Places /\ sz \in Int /\ la \in L!Places
        /\ f \in L!Places
    BY <1>1, FieldTypes
  <2>2. nx \in [L!Objects -> L!Places]
    BY <2>1, NilPlace
  <2>3. l2 = [l EXCEPT !.first = f, !.next = nx, !.last = la]
    <3>1. l2 = [l EXCEPT !.first = l.next[l.first],
                         !.next = [o \in L!Objects |-> IF o = l.first THEN 0
                                                       ELSE IF o = l.last THEN l.first ELSE @[o]],
                         !.last = l.first]
      BY <1>1, <1>3 DEF L!rotateFirstLast, L!Nil
    <3> QED BY <3>1
  <2>4. \A o \in L!Objects : nx[o] = IF o = q[1] THEN 0 ELSE IF o = l.last THEN q[1] ELSE l.next[o]
    BY <1>1
  <2> HIDE DEF f, nx, l2
  <2>5. l2 = c
    BY <1>1, <2>3 DEF Reordered, ListRecords
  <2>6. c \in ListRecords /\ HasOrder(c, l, f, la, sz, nx)
    BY <1>1, <2>1, <2>2, OrderFields
  <2> HIDE DEF c, sz
  <2>7. Same(l2, l) /\ l2.first = l.next[q[1]] /\ l2.next = nx /\ l2.last = q[1] /\ l2.size = l.size
    BY <1>1, <2>5, <2>6 DEF HasOrder, Same, f, sz
  <2>8. CASE \E j \in 1..n : l.last = q[j]
    <3>1. PICK j \in 1..n : l.last = q[j]
      BY <2>8
    <3>2. j \in 2..n /\ j \in Nat /\ (e => j = n)
      BY <1>1, <1>3, <3>1 DEF Ends
    <3>3. l2.next[q[1]] = 0 /\ l2.next[q[j]] = q[1]
      BY <1>1, <1>3, <2>4, <2>7, <3>1
    <3>4. \A i \in 1..n : i # 1 /\ i < j => l2.next[q[i]] = l.next[q[i]]
      BY <1>1, <2>4, <2>7, <3>1
    <3>5. /\ Good(l2, Taken(q, Turned(j), j), j)
          /\ Vals(l2, Taken(q, Turned(j), j), j) = Taken(Vals(l, q, n), Turned(j), j)
      BY <2>7, <3>2, <3>3, <3>4, TurnLine
    <3> DEFINE p == Taken(q, Turned(j), j)
    <3>6. p[j] = q[1]
      BY <3>2 DEF Taken, Turned
    <3> HIDE DEF p
    <3>7. e => Ends(l2, p, j)
      BY <1>1, <2>7, <3>2, <3>6 DEF Ends
    <3>8. /\ Good(l2, p, j) /\ (e => Vals(l2, p, j) = Taken(Vals(l, q, n), Turned(n), n))
      BY <3>2, <3>5 DEF p
    <3> HIDE DEF e
    <3>9. Results(l2, Taken(Vals(l, q, n), Turned(n), n), e, e)
      BY <3>7, <3>8 DEF Results
    <3> QED BY <3>9 DEF l2, e
  <2>9. CASE ~\E j \in 1..n : l.last = q[j]
    <3>1. ~e
      BY <1>1, <2>9 DEF Ends
    <3>2. \A i \in 1..n : i # 1 => l2.next[q[i]] = l.next[q[i]]
      BY <1>1, <2>4, <2>7, <2>9
    <3>3. Good(l2, Taken(q, Without1(n, 1), n - 1), n - 1)
      BY <2>7, <3>2, DropFirst
    <3> QED BY <3>1, <3>3 DEF Results, l2
  <2> QED BY <2>8, <2>9
<1> QED BY <1>2, <1>3

LEMMA EmptyLine ==
  ASSUME L!ListsAssumption, NEW l, Kept(l), NEW l2, Same(l2, l), l2.first = 0
  PROVE  Good(l2, <<>>, 0) /\ Vals(l2, <<>>, 0) = <<>> /\ (l2.size = 0 /\ l2.last = 0 => Ends(l2, <<>>, 0))
<1>1. Kept(l2)
  BY Changed DEF Same
<1>2. 1..0 = {} /\ <<>> \in [1..0 -> L!Objects]
  OBVIOUS
<1>3. Line(l2, <<>>, 0)
  BY <1>2 DEF Line
<1> QED BY <1>1, <1>2, <1>3 DEF Good, Vals, Ends

\* The values that deleteAt() leaves.
Remaining(s, i, n) == IF i < n THEN Taken(s, Without1(n, i + 1), n - 1) ELSE s

LEMMA DeleteAtOp ==
  ASSUME L!ListsAssumption, NEW l, NEW q, NEW n, Good(l, q, n), NEW i \in Nat
  PROVE  Results(L!deleteAt(l, i), Remaining(Vals(l, q, n), i, n), i # n \/ n = 0, Ends(l, q, n))
<1> DEFINE l2 == L!deleteAt(l, i)
           s == Remaining(Vals(l, q, n), i, n)
           e == Ends(l, q, n)
           d == i # n \/ n = 0
<1>1. /\ n \in Nat /\ q \in [1..n -> L!Objects] /\ Kept(l) /\ l \in ListRecords
      /\ \A k, j \in 1..n : q[k] = q[j] => k = j
      /\ l.first = IF n = 0 THEN 0 ELSE q[1]
      /\ \A k \in 1..n : l.next[q[k]] = IF k = n THEN 0 ELSE q[k + 1]
      /\ \A k \in 1..n : Owned(l, q[k]) /\ q[k] # 0 /\ q[k] \in L!Places /\ q[k] \in L!Objects
      /\ n # 0 => 1 \in 1..n /\ n \in 1..n
      /\ l.first = 0 <=> n = 0
  BY GoodSays
<1>2. /\ l.next \in [L!Objects -> L!Places] /\ l.last \in L!Places /\ l.size \in Int
      /\ l.first \in L!Places
  BY <1>1, FieldTypes
<1>3. CASE n = 0 \/ i > n
  <2>1. l2 = l
    <3>1. CASE n = 0
      BY <1>1, <3>1 DEF L!deleteAt, L!Nil
    <3>2. CASE n # 0
      <4>1. i - 1 \in Nat /\ i # 0 /\ Place(i - 1, n) - 1 # i - 1
        BY <1>1, <1>3, <3>2 DEF Place
      <4>2. L!Steps(l, i - 1) # i - 1
        BY <3>2, <4>1, StepsAre DEF Good
      <4> QED BY <1>1, <3>2, <4>1, <4>2 DEF L!deleteAt, L!Nil
    <3> QED BY <3>1, <3>2
  <2>2. s = Vals(l, q, n)
    BY <1>1, <1>3 DEF Remaining
  <2> HIDE DEF l2, s, e, d
  <2>3. Results(l2, s, d, e)
    BY <2>1, <2>2 DEF Results, e
  <2> QED BY <2>3 DEF l2, s, e, d
<1>4. CASE n # 0 /\ i = 0
  <2>1. /\ l.next[l.first] = (IF n = 1 THEN 0 ELSE q[2]) /\ (n # 1 => 2 \in 1..n)
        /\ (l.next[l.first] = 0 <=> n = 1)
    <3>1. n # 1 => 2 \in 1..n
      BY <1>1, <1>4
    <3>2. l.next[l.first] = (IF n = 1 THEN 0 ELSE q[1 + 1]) /\ 1 + 1 = 2
      BY <1>1, <1>4
    <3> QED BY <1>1, <3>1, <3>2
  <2>2. s = Taken(Vals(l, q, n), Without1(n, 1), n - 1)
    BY <1>1, <1>4 DEF Remaining
  <2>3. CASE n = 1
    <3> DEFINE nx == l.next
               c == Reordered(l, 0, 0, 0, nx)
    <3>1. l2 = [l EXCEPT !.first = 0, !.last = 0, !.size = 0]
      BY <1>1, <1>4, <2>1, <2>3 DEF L!deleteAt, L!Nil
    <3>2. l2 = c
      BY <1>1, <3>1 DEF Reordered, ListRecords
    <3> HIDE DEF nx, l2
    <3>3. c \in ListRecords /\ HasOrder(c, l, 0, 0, 0, nx)
      BY <1>1, <1>2, NilPlace, OrderFields DEF nx
    <3> HIDE DEF c
    <3>4. Same(l2, l) /\ l2.first = 0 /\ l2.size = 0 /\ l2.last = 0
      BY <3>2, <3>3 DEF HasOrder, Same
    <3>5. Good(l2, <<>>, 0) /\ Vals(l2, <<>>, 0) = <<>> /\ Ends(l2, <<>>, 0)
      BY <1>1, <3>4, EmptyLine
    <3>6. s = <<>>
      BY <2>2, <2>3 DEF Taken
    <3> HIDE DEF s
    <3>7. Results(l2, s, d, e)
      BY <3>5, <3>6 DEF Results
    <3> QED BY <3>7 DEF l2, s, e, d
  <2>4. CASE n # 1
    <3> DEFINE nx == l.next
               f == l.next[l.first]
               la == l.last
               sz == l.size - 1
               c == Reordered(l, f, la, sz, nx)
    <3>1. l2 = [l EXCEPT !.first = f, !.size = @ - 1]
      BY <1>1, <1>4, <2>1, <2>4 DEF L!deleteAt, L!Nil
    <3>0. f \in L!Places /\ sz \in Int /\ la \in L!Places /\ nx \in [L!Objects -> L!Places]
      BY <1>1, <1>2, <1>4
    <3> HIDE DEF f, l2
    <3>2. l2 = c
      BY <1>1, <3>1 DEF Reordered, ListRecords
    <3> HIDE DEF nx, la, sz
    <3>3. c \in ListRecords /\ HasOrder(c, l, f, la, sz, nx)
      BY <1>1, <3>0, OrderFields
    <3> HIDE DEF c
    <3>4. Same(l2, l) /\ l2.first = f /\ l2.size = sz /\ l2.last = la /\ l2.next = nx
      BY <3>2, <3>3 DEF HasOrder, Same
    <3> DEFINE p == Taken(q, Without1(n, 1), n - 1)
               m == n - 1
    <3>5. l2.first = l.next[q[1]] /\ \A k \in 1..n : k # 1 => l2.next[q[k]] = l.next[q[k]]
      BY <1>1, <1>4, <3>4 DEF f, nx
    <3>6. /\ Good(l2, p, m) /\ Vals(l2, p, m) = s
          /\ \A k \in 1..m : p[k] = q[k + 1]
      BY <1>4, <2>2, <3>4, <3>5, DropFirst
    <3> HIDE DEF p
    <3>7. e => Ends(l2, p, m)
      <4>1. m \in 1..m /\ m + 1 = n /\ m # 0
        BY <1>1, <1>4, <2>4
      <4>2. p[m] = q[n]
        BY <3>6, <4>1
      <4> QED BY <1>4, <3>4, <4>1, <4>2 DEF Ends, la, sz
    <3> HIDE DEF m, s
    <3>8. Results(l2, s, d, e)
      BY <3>6, <3>7 DEF Results
    <3> QED BY <3>8 DEF l2, s, e, d
  <2> QED BY <2>3, <2>4
<1>5. CASE n # 0 /\ i # 0 /\ i <= n
  <2> DEFINE obj == q[i]
             tmp == l.next[obj]
  <2>1. i - 1 \in Nat /\ i \in 1..n /\ Place(i - 1, n) = i
    BY <1>1, <1>5 DEF Place
  <2>2. L!Steps(l, i - 1) = i - 1 /\ L!Walk(l, l.first, i - 1) = obj
    BY <1>5, <2>1, StepsAre, WalkIs DEF Good
  <2>3. tmp = (IF i = n THEN 0 ELSE q[i + 1]) /\ (i # n => i + 1 \in 1..n)
    BY <1>1, <2>1
  <2>4. l2 = IF tmp = 0 THEN L!Freed([l EXCEPT !.first = 0, !.last = 0, !.size = 0], obj)
             ELSE L!Freed([l EXCEPT !.next[obj] = l.next[tmp],
                                    !.last = IF l.next[tmp] = 0 THEN obj
                                             ELSE IF @ = tmp THEN l.next[tmp] ELSE @,
                                    !.size = @ - 1], tmp)
    <3> HIDE DEF tmp, obj
    <3> QED BY <1>1, <1>5, <2>2 DEF L!deleteAt, L!Nil, tmp
  <2> HIDE DEF tmp, l2
  <2>5. CASE i = n
    <3> DEFINE nx == l.next
               c == Reordered(l, 0, 0, 0, nx)
    <3>1. l2 = L!Freed([l EXCEPT !.first = 0, !.last = 0, !.size = 0], obj)
      BY <2>3, <2>4, <2>5
    <3>2. [l EXCEPT !.first = 0, !.last = 0, !.size = 0] = c
      BY <1>1 DEF Reordered, ListRecords
    <3> HIDE DEF nx
    <3>3. c \in ListRecords /\ HasOrder(c, l, 0, 0, 0, nx)
      BY <1>1, <1>2, NilPlace, OrderFields DEF nx
    <3> HIDE DEF c
    <3>4. Same(c, l) /\ c.first = 0 /\ c.size = 0 /\ c.last = 0
      BY <3>2, <3>3 DEF HasOrder, Same
    <3>5. Good(c, <<>>, 0)
      BY <1>1, <3>4, EmptyLine
    <3>6. Owned(c, obj)
      BY <1>1, <2>1, <3>4, Changed DEF Same
    <3>7. \A k \in 1..0 : <<>>[k] # obj
      OBVIOUS
    <3> HIDE DEF obj
    <3>8. l2 = L!Freed(c, obj)
      BY <3>1, <3>2
    <3>9. Good(l2, <<>>, 0) /\ l2.first = c.first /\ l2.last = c.last /\ l2.size = c.size
      BY <3>5, <3>6, <3>7, <3>8, FreeLine
    <3>10. Ends(l2, <<>>, 0)
      BY <3>4, <3>9 DEF Ends
    <3>11. ~d
      BY <1>5, <2>5
    <3> HIDE DEF s, d, e
    <3>12. Results(l2, s, d, e)
      BY <3>9, <3>10, <3>11 DEF Results
    <3> QED BY <3>12 DEF l2, s, e, d
  <2>6. CASE i # n
    <3> DEFINE j == i + 1
               m == n - 1
               la == IF l.next[tmp] = 0 THEN obj ELSE IF l.last = tmp THEN l.next[tmp] ELSE l.last
               sz == l.size - 1
               nx == [l.next EXCEPT ![obj] = l.next[tmp]]
               f == l.first
               c == Reordered(l, f, la, sz, nx)
               p == Taken(q, Without1(n, j), m)
    <3>1. tmp = q[j] /\ j \in 1..n /\ j # 1 /\ j - 1 = i /\ i < n
      BY <1>1, <2>1, <2>3, <2>6
    <3>2. tmp # 0 /\ obj # tmp /\ obj \in L!Objects /\ tmp \in L!Objects /\ obj \in L!Places
      BY <1>1, <2>1, <3>1
    <3>3. l2 = L!Freed([l EXCEPT !.next[obj] = l.next[tmp],
                                 !.last = IF l.next[tmp] = 0 THEN obj
                                          ELSE IF @ = tmp THEN l.next[tmp] ELSE @,
                                 !.size = @ - 1], tmp)
      BY <2>4, <3>2
    <3> HIDE DEF obj, j
    <3>4. [l EXCEPT !.next[obj] = l.next[tmp],
                    !.last = IF l.next[tmp] = 0 THEN obj ELSE IF @ = tmp THEN l.next[tmp] ELSE @,
                    !.size = @ - 1] = c
      BY <1>1 DEF Reordered, ListRecords
    <3>5. /\ nx \in [L!Objects -> L!Places] /\ la \in L!Places /\ sz \in Int /\ f \in L!Places
          /\ nx[obj] = l.next[tmp] /\ \A o \in L!Objects : o # obj => nx[o] = l.next[o]
      BY <1>2, <3>2
    <3> HIDE DEF nx, la, sz, f
    <3>6. c \in ListRecords /\ HasOrder(c, l, f, la, sz, nx)
      BY <1>1, <3>5, OrderFields
    <3> HIDE DEF c
    <3>7. Same(c, l) /\ c.first = f /\ c.next = nx /\ c.last = la /\ c.size = sz
      BY <3>6 DEF HasOrder, Same
    <3>8. l2 = L!Freed(c, tmp) /\ Owned(c, tmp)
      <4>1. Owned(c, tmp)
        BY <1>1, <3>1, <3>7, Changed DEF Same
      <4> QED BY <3>3, <3>4, <4>1
    <3>9. /\ c.first = (IF j = 1 THEN l.next[q[1]] ELSE l.first)
          /\ (j # 1 => c.next[q[j - 1]] = l.next[q[j]])
      BY <3>1, <3>5, <3>7 DEF f, obj
    <3>10. \A k \in 1..n : k # j - 1 /\ k # j => c.next[q[k]] = l.next[q[k]]
      BY <1>1, <2>1, <3>1, <3>5, <3>7 DEF obj
    <3>11. /\ Good(c, p, m) /\ Vals(c, p, m) = Taken(Vals(l, q, n), Without1(n, j), m)
           /\ \A k \in 1..m : p[k] # q[j]
      BY <3>1, <3>7, <3>9, <3>10, RemoveLine
    <3>12. m \in Nat \ {0} /\ m \in 1..m /\ m + 1 = n
      BY <1>1, <2>1, <3>1
    <3>13. p[m] = IF j = n THEN q[i] ELSE q[n]
      <4>1. p[m] = IF m < j THEN q[m] ELSE q[m + 1]
        BY <3>12 DEF Taken, Without1
      <4>2. (m < j <=> j = n) /\ (j = n => m = i)
        BY <1>1, <2>1, <3>1, <3>12 DEF j
      <4> QED BY <3>12, <4>1, <4>2
    <3> HIDE DEF p, m
    <3>14. /\ Good(l2, p, m) /\ Vals(l2, p, m) = Vals(c, p, m)
           /\ l2.first = c.first /\ l2.last = c.last /\ l2.size = c.size
      BY <3>1, <3>8, <3>11, FreeLine
    <3>15. e => Ends(l2, p, m)
      <4> SUFFICES ASSUME e PROVE Ends(l2, p, m)
        OBVIOUS
      <4>1. l.size = n /\ l.last = q[n] /\ l2.size = m
        BY <1>5, <3>7, <3>14 DEF Ends, sz, m
      <4>2. l.next[tmp] = 0 <=> j = n
        <5>1. l.next[tmp] = (IF j = n THEN 0 ELSE q[j + 1]) /\ (j # n => j + 1 \in 1..n)
          BY <1>1, <3>1
        <5>2. j # n => q[j + 1] # 0
          BY <1>1, <5>1
        <5> QED BY <5>1, <5>2
      <4>3. l.last = tmp => j = n
        BY <1>1, <1>5, <3>1, <4>1
      <4>4. la = IF j = n THEN q[i] ELSE q[n]
        BY <4>1, <4>2, <4>3 DEF la, obj
      <4> QED BY <3>7, <3>12, <3>13, <3>14, <4>1, <4>4 DEF Ends
    <3>16. s = Taken(Vals(l, q, n), Without1(n, j), m)
      BY <3>1 DEF Remaining, j, m
    <3> HIDE DEF s, d, e
    <3>17. Results(l2, s, d, e)
      BY <3>11, <3>14, <3>15, <3>16 DEF Results
    <3> QED BY <3>17 DEF l2, s, e, d
  <2> QED BY <2>5, <2>6
<1> QED BY <1>1, <1>3, <1>4, <1>5

-----------------------------------------------------------------------------
(* deleteAll(): what one round unlinks                                       *)

LEMMA UnlinkedFields ==
  ASSUME L!ListsAssumption, NEW r, NEW l, l = r.l, Kept(l), NEW prev, prev = r.prev, NEW obj, obj = r.obj,
         prev \in L!Places, obj \in L!Objects
  PROVE  \E c : /\ L!Unlinked(r) = L!Freed(c, obj) /\ Same(c, l) /\ c.size = l.size - 1
                /\ c.first = IF prev = 0 THEN l.next[obj] ELSE l.first
                /\ c.last = IF l.last = obj THEN prev ELSE l.last
                /\ prev # 0 => c.next[prev] = IF l.last = obj THEN 0 ELSE l.next[obj]
                /\ \A o \in L!Objects : o # prev => c.next[o] = l.next[o]
<1> DEFINE la == IF l.last = obj THEN prev ELSE l.last
           sz == l.size - 1
           f == IF prev = 0 THEN l.next[obj] ELSE l.first
           mid == IF prev = 0 THEN l.next ELSE [l.next EXCEPT ![prev] = l.next[obj]]
           nx == IF l.last = obj THEN [o \in L!Objects |-> IF o = prev THEN 0 ELSE mid[o]] ELSE mid
           linked == IF prev = 0 THEN [l EXCEPT !.first = l.next[obj]]
                     ELSE [l EXCEPT !.next[prev] = l.next[obj]]
           ended == IF l.last = obj
                    THEN [linked EXCEPT !.last = prev,
                                        !.next = [o \in L!Objects |-> IF o = prev THEN 0 ELSE @[o]]]
                    ELSE linked
           c == Reordered(l, f, la, sz, nx)
<1>1. /\ l \in ListRecords /\ l.next \in [L!Objects -> L!Places] /\ l.last \in L!Places /\ l.size \in Int
      /\ l.first \in L!Places
  <2>1. l \in ListRecords
    BY DEF Kept
  <2> QED BY <2>1, FieldTypes
<1>2. 0 \notin L!Objects /\ (prev # 0 => prev \in L!Objects)
  BY DEF L!Objects, L!Places, L!ListsAssumption
<1>3. L!Unlinked(r) = L!Freed([ended EXCEPT !.size = @ - 1], obj)
  BY DEF L!Unlinked, L!Nil
<1>4. linked = Reordered(l, f, l.last, l.size, mid)
  BY <1>1 DEF Reordered, ListRecords
<1>5. /\ mid \in [L!Objects -> L!Places] /\ (prev # 0 => mid[prev] = l.next[obj])
      /\ \A o \in L!Objects : o # prev => mid[o] = l.next[o]
  BY <1>1, <1>2
<1>6. f \in L!Places /\ la \in L!Places /\ sz \in Int
  BY <1>1
<1> HIDE DEF mid, linked, f, la, sz
<1>7. linked \in ListRecords /\ HasOrder(linked, l, f, l.last, l.size, mid)
  BY <1>1, <1>4, <1>5, <1>6, OrderFields
<1>8. /\ nx \in [L!Objects -> L!Places] /\ (prev # 0 => nx[prev] = IF l.last = obj THEN 0 ELSE l.next[obj])
      /\ \A o \in L!Objects : o # prev => nx[o] = l.next[o]
  BY <1>1, <1>2, <1>5, NilPlace
<1>9. ended = Reordered(linked, f, la, l.size, nx)
  <2>1. CASE l.last = obj
    <3>1. ended = [linked EXCEPT !.last = prev,
                                 !.next = [o \in L!Objects |-> IF o = prev THEN 0 ELSE @[o]]]
      BY <2>1
    <3>2. linked.next = mid
      BY <1>7 DEF HasOrder
    <3>3. [linked EXCEPT !.last = prev, !.next = [o \in L!Objects |-> IF o = prev THEN 0 ELSE @[o]]]
          = [linked EXCEPT !.last = prev, !.next = nx]
      BY <1>7, <2>1, <3>2 DEF ListRecords
    <3>4. la = prev
      BY <2>1 DEF la
    <3> HIDE DEF nx, ended
    <3> QED BY <1>7, <3>1, <3>3, <3>4 DEF Reordered, ListRecords, HasOrder
  <2>2. CASE l.last # obj
    <3>1. ended = linked /\ nx = mid /\ la = l.last
      BY <2>2 DEF la
    <3> HIDE DEF nx, ended
    <3> QED BY <1>7, <3>1 DEF Reordered, ListRecords, HasOrder
  <2> QED BY <2>1, <2>2
<1> HIDE DEF nx, ended
<1>10. ended \in ListRecords /\ HasOrder(ended, linked, f, la, l.size, nx)
  BY <1>1, <1>6, <1>7, <1>8, <1>9, OrderFields
<1>11. [ended EXCEPT !.size = @ - 1] = c
  <2>1. [ended EXCEPT !.size = @ - 1] = [ended EXCEPT !.size = sz]
    BY <1>10 DEF HasOrder, sz
  <2>2. [ended EXCEPT !.size = sz] = c
    <3>1. /\ ended.first = f /\ ended.last = la /\ ended.next = nx
          /\ ended.freed = l.freed /\ ended.live = l.live /\ ended.ptr = l.ptr
      BY <1>7, <1>10 DEF HasOrder
    <3> QED BY <1>1, <1>10, <3>1 DEF Reordered, ListRecords
  <2> QED BY <2>1, <2>2
<1>12. c \in ListRecords /\ HasOrder(c, l, f, la, sz, nx)
  BY <1>1, <1>6, <1>8, OrderFields
<1> HIDE DEF c
<1>13. /\ Same(c, l) /\ c.size = l.size - 1
       /\ c.first = IF prev = 0 THEN l.next[obj] ELSE l.first
       /\ c.last = IF l.last = obj THEN prev ELSE l.last
  BY <1>12 DEF HasOrder, Same, sz, f, la
<1>14. c.next = nx
  BY <1>12 DEF HasOrder
<1> QED BY <1>3, <1>8, <1>11, <1>13, <1>14

\* The object behind the m-th one goes; when m_last was that object the line ends there.
LEMMA UnlinkedLine ==
  ASSUME L!ListsAssumption, NEW r, NEW l, l = r.l, NEW q, NEW n, Good(l, q, n), NEW m \in 1..n - 1,
         r.prev = q[m], r.obj = q[m + 1]
  PROVE  \E q2, n2 : /\ Good(L!Unlinked(r), q2, n2) /\ m <= n2 /\ q2[m] = q[m]
                     /\ Ends(l, q, n) =>
                          /\ n2 = n - 1 /\ Ends(L!Unlinked(r), q2, n2)
                          /\ Vals(L!Unlinked(r), q2, n2) = Taken(Vals(l, q, n), Without1(n, m + 1), n - 1)
<1> DEFINE prev == q[m]
           obj == q[m + 1]
           j == m + 1
           l2 == L!Unlinked(r)
<1>1. /\ n \in Nat /\ Kept(l) /\ l \in ListRecords /\ n # 0 /\ m \in Nat \ {0} /\ m \in 1..n /\ j \in 1..n
      /\ \A k, i \in 1..n : q[k] = q[i] => k = i
      /\ l.first = IF n = 0 THEN 0 ELSE q[1]
      /\ \A k \in 1..n : l.next[q[k]] = IF k = n THEN 0 ELSE q[k + 1]
      /\ \A k \in 1..n : Owned(l, q[k]) /\ q[k] # 0 /\ q[k] \in L!Places /\ q[k] \in L!Objects
  <2>1. n \in Nat /\ (n # 0 => n \in 1..n)
    BY GoodSays
  <2>2. n # 0 /\ m \in Nat \ {0} /\ m \in 1..n /\ j \in 1..n
    BY <2>1
  <2> QED BY <2>2, GoodSays
<1>2. prev \in L!Objects /\ prev \in L!Places /\ prev # 0 /\ obj \in L!Objects /\ obj # prev
  BY <1>1
<1>3. PICK c : /\ l2 = L!Freed(c, obj) /\ Same(c, l) /\ c.size = l.size - 1
               /\ c.first = IF prev = 0 THEN l.next[obj] ELSE l.first
               /\ c.last = IF l.last = obj THEN prev ELSE l.last
               /\ prev # 0 => c.next[prev] = IF l.last = obj THEN 0 ELSE l.next[obj]
               /\ \A o \in L!Objects : o # prev => c.next[o] = l.next[o]
  BY <1>1, <1>2, UnlinkedFields
<1> HIDE DEF l2
<1>4. Owned(c, obj)
  BY <1>1, <1>3, Changed DEF Same
<1>5. \A k \in 1..n : k # m => c.next[q[k]] = l.next[q[k]]
  BY <1>1, <1>3
<1>6. CASE l.last # obj
  <2> DEFINE p == Taken(q, Without1(n, j), n - 1)
             k == n - 1
  <2>1. c.first = (IF j = 1 THEN l.next[q[1]] ELSE l.first) /\ (j # 1 => c.next[q[j - 1]] = l.next[q[j]])
    BY <1>1, <1>2, <1>3, <1>6
  <2>2. \A i \in 1..n : i # j - 1 /\ i # j => c.next[q[i]] = l.next[q[i]]
    BY <1>1, <1>5
  <2>3. /\ Good(c, p, k) /\ Vals(c, p, k) = Taken(Vals(l, q, n), Without1(n, j), n - 1)
        /\ \A i \in 1..k : p[i] # q[j]
    <3> HIDE DEF j
    <3> QED BY <1>1, <1>3, <2>1, <2>2, RemoveLine
  <2>4. m \in 1..k /\ k \in 1..k /\ k \in Nat
    BY <1>1
  <2>5. p[m] = q[m] /\ (p[k] = IF k < j THEN q[k] ELSE q[n])
    <3>1. \A i \in 1..k : p[i] = q[IF i < j THEN i ELSE i + 1]
      BY DEF Taken, Without1
    <3> HIDE DEF p
    <3> QED BY <1>1, <2>4, <3>1
  <2> HIDE DEF p, k
  <2>6. /\ Good(l2, p, k) /\ Vals(l2, p, k) = Vals(c, p, k)
        /\ l2.first = c.first /\ l2.last = c.last /\ l2.size = c.size
    BY <1>3, <1>4, <2>3, FreeLine
  <2>7. ASSUME Ends(l, q, n) PROVE k = n - 1 /\ Ends(l2, p, k)
    <3>1. l.size = n /\ l.last = q[n] /\ k # 0 /\ j # n
      BY <1>1, <1>6, <2>4, <2>7 DEF Ends
    <3>2. k = n - 1 /\ ~(k < j)
      BY <1>1, <3>1 DEF k
    <3> QED BY <1>3, <1>6, <2>5, <2>6, <3>1, <3>2 DEF Ends
  <2>8. Good(l2, p, k) /\ m <= k /\ p[m] = q[m]
    BY <2>4, <2>5, <2>6
  <2> QED BY <2>3, <2>6, <2>7, <2>8 DEF l2
<1>7. CASE l.last = obj
  <2> DEFINE p == Taken(q, Front1(m), m)
  <2>1. c.first = (IF m = 0 THEN 0 ELSE l.first) /\ c.next[q[m]] = 0 /\ m \in 0..n
    BY <1>1, <1>2, <1>3, <1>7
  <2>2. \A i \in 1..n : i < m => c.next[q[i]] = l.next[q[i]]
    BY <1>1, <1>5
  <2>3. /\ Good(c, p, m) /\ Vals(c, p, m) = Taken(Vals(l, q, n), Front1(m), m)
    BY <1>1, <1>3, <2>1, <2>2, CutLine
  <2>4. \A i \in 1..m : p[i] = q[i] /\ i \in 1..n /\ i # j
    <3>1. \A i \in 1..m : p[i] = q[i]
      BY DEF Taken, Front1
    <3> HIDE DEF p
    <3> QED BY <1>1, <3>1
  <2>5. p[m] = q[m] /\ \A i \in 1..m : p[i] # obj
    <3> HIDE DEF p
    <3>1. m \in 1..m
      BY <1>1
    <3> QED BY <1>1, <2>4, <3>1
  <2> HIDE DEF p
  <2>6. /\ Good(l2, p, m) /\ Vals(l2, p, m) = Vals(c, p, m)
        /\ l2.first = c.first /\ l2.last = c.last /\ l2.size = c.size
    BY <1>3, <1>4, <2>3, <2>5, FreeLine
  <2>7. ASSUME Ends(l, q, n) PROVE m = n - 1 /\ Ends(l2, p, m)
    <3>1. l.size = n /\ l.last = q[n] /\ j = n
      <4>1. l.size = n /\ l.last = q[n] /\ n \in 1..n
        BY <1>1, <2>7 DEF Ends
      <4>2. q[n] = q[j]
        BY <1>7, <4>1
      <4> HIDE DEF j
      <4> QED BY <1>1, <4>1, <4>2
    <3>2. m = n - 1 /\ m # 0
      BY <1>1, <3>1
    <3> QED BY <1>3, <1>7, <2>5, <2>6, <3>1, <3>2 DEF Ends
  <2>8. ASSUME m = n - 1
        PROVE  Taken(Vals(l, q, n), Front1(m), m) = Taken(Vals(l, q, n), Without1(n, j), n - 1)
    <3>1. \A i \in 1..m : i < j
      BY <1>1
    <3> QED BY <2>8, <3>1 DEF Taken, Front1, Without1
  <2>9. Good(l2, p, m) /\ m <= m /\ p[m] = q[m]
    BY <1>1, <2>5, <2>6
  <2>10. Vals(l2, p, m) = Taken(Vals(l, q, n), Front1(m), m)
    BY <2>3, <2>6
  <2> QED BY <2>7, <2>8, <2>9, <2>10 DEF l2
<1> QED BY <1>6, <1>7

\* The only object goes.
LEMMA UnlinkedOnly ==
  ASSUME L!ListsAssumption, NEW r, NEW l, l = r.l, NEW q, Good(l, q, 1), r.prev = 0, r.obj = q[1]
  PROVE  /\ Good(L!Unlinked(r), <<>>, 0)
         /\ Vals(L!Unlinked(r), <<>>, 0) = <<>>
         /\ Ends(l, q, 1) => Ends(L!Unlinked(r), <<>>, 0)
<1> DEFINE obj == q[1]
           l2 == L!Unlinked(r)
<1>1. /\ Kept(l) /\ l.next[obj] = 0 /\ Owned(l, obj) /\ obj \in L!Objects /\ 0 \in L!Places
  <2>1. 1 \in 1..1
    OBVIOUS
  <2> QED BY <2>1, GoodSays, NilPlace
<1>2. PICK c : /\ l2 = L!Freed(c, obj) /\ Same(c, l) /\ c.size = l.size - 1
               /\ c.first = IF 0 = 0 THEN l.next[obj] ELSE l.first
               /\ c.last = IF l.last = obj THEN 0 ELSE l.last
  <2> DEFINE prev == 0
  <2>1. prev = r.prev /\ prev \in L!Places
    BY <1>1
  <2> HIDE DEF prev, obj, l2
  <2>2. PICK c : /\ L!Unlinked(r) = L!Freed(c, obj) /\ Same(c, l) /\ c.size = l.size - 1
                 /\ c.first = IF prev = 0 THEN l.next[obj] ELSE l.first
                 /\ c.last = IF l.last = obj THEN prev ELSE l.last
                 /\ prev # 0 => c.next[prev] = IF l.last = obj THEN 0 ELSE l.next[obj]
                 /\ \A o \in L!Objects : o # prev => c.next[o] = l.next[o]
    <3>1. obj = r.obj /\ Kept(l) /\ obj \in L!Objects
      BY <1>1 DEF obj
    <3> QED BY <2>1, <3>1, UnlinkedFields
  <2> QED BY <2>2 DEF prev, l2
<1> HIDE DEF l2
<1>3. Good(c, <<>>, 0) /\ Vals(c, <<>>, 0) = <<>>
  BY <1>1, <1>2, EmptyLine
<1>4. Owned(c, obj) /\ \A i \in 1..0 : <<>>[i] # obj
  BY <1>1, <1>2, Changed DEF Same
<1> HIDE DEF obj
<1>5. /\ Good(l2, <<>>, 0) /\ l2.first = c.first /\ l2.last = c.last /\ l2.size = c.size
  BY <1>2, <1>3, <1>4, FreeLine
<1>6. Ends(l, q, 1) => Ends(l2, <<>>, 0)
  BY <1>2, <1>5 DEF Ends, obj
<1>7. Vals(l2, <<>>, 0) = <<>>
  BY DEF Vals
<1> QED BY <1>5, <1>6, <1>7 DEF l2

-----------------------------------------------------------------------------
(* deleteAll(): the values that are kept                                     *)

\* The values kept of the first ones, as Without() counts them.
KeptBy(s, n, v, w) ==
  w = [k \in 0..n |-> IF k = 0 THEN <<>> ELSE IF s[k] = v THEN w[k - 1] ELSE Append(w[k - 1], s[k])]

LEMMA KeptByIs ==
  ASSUME NEW s, NEW n \in Nat, NEW v, NEW w, KeptBy(s, n, v, w)
  PROVE  /\ DOMAIN w = 0..n /\ w[0] = <<>>
         /\ \A k \in 1..n : w[k] = IF s[k] = v THEN w[k - 1] ELSE Append(w[k - 1], s[k])
<1> DEFINE W(k) == IF k = 0 THEN <<>> ELSE IF s[k] = v THEN w[k - 1] ELSE Append(w[k - 1], s[k])
<1>1. w = [k \in 0..n |-> W(k)]
  BY DEF KeptBy
<1> HIDE DEF W
<1>2. DOMAIN w = 0..n /\ \A k \in 0..n : w[k] = W(k)
  BY <1>1
<1>3. 0 \in 0..n /\ \A k \in 1..n : k \in 0..n /\ k # 0
  OBVIOUS
<1> QED BY <1>2, <1>3 DEF W

LEMMA WithoutIs ==
  ASSUME NEW s, NEW v, Len(s) \in Nat
  PROVE  \E w : KeptBy(s, Len(s), v, w) /\ L!Without(s, v) = w[Len(s)]
<1> DEFINE n == Len(s)
           T == {m \in 0..n : ~\E w : KeptBy(s, m, v, w)}
           u == CHOOSE w : KeptBy(s, n, v, w)
<1>1. n \in Nat /\ L!Without(s, v) = u[n]
  BY DEF L!Without, KeptBy
<1> HIDE DEF n
<1>2. T = {}
  <2> SUFFICES ASSUME T # {} PROVE FALSE
    OBVIOUS
  <2>1. PICK m \in T : \A j \in T : m <= j
    <3>1. T \in SUBSET Nat
      BY <1>1
    <3> HIDE DEF T
    <3> QED BY <3>1, LeastNat
  <2>2. m \in Nat /\ m <= n /\ ~\E w : KeptBy(s, m, v, w)
    BY <1>1
  <2>3. CASE m = 0
    <3> DEFINE w == [k \in 0..0 |-> <<>>]
    <3>1. w = [k \in 0..0 |-> IF k = 0 THEN <<>> ELSE IF s[k] = v THEN w[k - 1] ELSE Append(w[k - 1], s[k])]
      <4>1. \A k \in 0..0 : k = 0
        OBVIOUS
      <4> QED BY <4>1
    <3> HIDE DEF w
    <3>2. KeptBy(s, 0, v, w)
      BY <3>1 DEF KeptBy
    <3> QED BY <2>2, <2>3, <3>2
  <2>4. CASE m # 0
    <3> DEFINE k1 == m - 1
    <3>1. k1 \in 0..n /\ ~(m <= k1) /\ k1 \in Nat /\ k1 = m - 1
      BY <1>1, <2>2, <2>4
    <3> HIDE DEF k1
    <3>2. k1 \notin T
      BY <2>1, <3>1
    <3>3. PICK w : KeptBy(s, k1, v, w)
      BY <3>1, <3>2
    <3> DEFINE x1 == IF s[m] = v THEN w[k1] ELSE Append(w[k1], s[m])
               y1 == [k \in 0..m |-> IF k = m THEN x1 ELSE w[k]]
               W(k) == IF k = 0 THEN <<>> ELSE IF s[k] = v THEN y1[k - 1] ELSE Append(y1[k - 1], s[k])
    <3>4. w[0] = <<>> /\ \A k \in 1..k1 : w[k] = IF s[k] = v THEN w[k - 1] ELSE Append(w[k - 1], s[k])
      BY <3>1, <3>3, KeptByIs
    <3>5. \A k \in 0..m : y1[k] = IF k = m THEN x1 ELSE w[k]
      OBVIOUS
    <3> HIDE DEF y1, x1
    <3>6. ASSUME NEW k \in 0..m PROVE y1[k] = W(k)
      <4>1. CASE k = 0
        BY <2>4, <3>4, <3>5, <4>1
      <4>2. CASE k = m
        <5>1. y1[m] = x1 /\ y1[m - 1] = w[k1]
          BY <2>2, <2>4, <3>1, <3>5
        <5> QED BY <2>4, <3>1, <4>2, <5>1 DEF x1
      <4>3. CASE k # 0 /\ k # m
        <5>1. k \in 1..k1 /\ k - 1 \in 0..m /\ k - 1 # m
          BY <2>2, <3>1, <4>3
        <5>2. y1[k] = w[k] /\ y1[k - 1] = w[k - 1]
          BY <3>5, <4>3, <5>1
        <5> QED BY <3>4, <4>3, <5>1, <5>2
      <4> QED BY <4>1, <4>2, <4>3
    <3>7. y1 = [k \in 0..m |-> W(k)]
      <4>1. y1 = [k \in 0..m |-> y1[k]]
        BY DEF y1
      <4> HIDE DEF W
      <4> QED BY <3>6, <4>1
    <3>8. KeptBy(s, m, v, y1)
      BY <3>7 DEF KeptBy
    <3> QED BY <2>2, <3>8
  <2> QED BY <2>3, <2>4
<1>3. \E w : KeptBy(s, n, v, w)
  <2>1. n \in 0..n
    BY <1>1
  <2> QED BY <1>2, <2>1
<1>4. KeptBy(s, n, v, u)
  BY <1>3
<1> HIDE DEF u
<1> QED BY <1>1, <1>4 DEF n

LEMMA CutMore ==
  ASSUME NEW n \in Nat, NEW z \in [1..n -> Values], NEW m \in 0..n - 1
  PROVE  Cut(z, m + 1) = Append(Cut(z, m), z[m + 1])
<1> DEFINE c == Cut(z, m)
           y1 == z[m + 1]
           a == Append(c, y1)
<1>1. m \in Nat /\ y1 \in Values /\ \A i \in 1..m : i \in 1..n
  OBVIOUS
<1>2. c = [i \in 1..m |-> z[i]]
  BY DEF Cut
<1> HIDE DEF y1
<1>3. c \in [1..m -> Values]
  BY <1>1, <1>2
<1>4. c \in Seq(Values)
  BY <1>1, <1>3, IsASeq
<1>6. Len(c) = m
  BY <1>1, <1>3, <1>4
<1> HIDE DEF c
<1>5. a \in Seq(Values) /\ Len(a) = m + 1 /\ a[m + 1] = y1 /\ \A i \in 1..m : a[i] = c[i]
  BY <1>1, <1>4, <1>6, AppendProperties
<1> HIDE DEF a
<1>7. a = [i \in 1..m + 1 |-> a[i]]
  BY <1>5
<1>8. \A i \in 1..m + 1 : a[i] = z[i]
  <2>1. \A i \in 1..m + 1 : i = m + 1 \/ i \in 1..m
    BY <1>1
  <2> QED BY <1>2, <1>5, <2>1 DEF y1
<1> QED BY <1>7, <1>8 DEF Cut, a, c, y1

-----------------------------------------------------------------------------
(* deleteAll(): the place that it has come to                                *)

\* The first m values of z are what is kept of s before place p, the others are those of s from there.
Half(z, n, m, p, s, N, w) ==
  /\ p \in 1..N + 1 /\ n - m = N - p + 1 /\ m < p
  /\ Cut(z, m) = w[p - 1]
  /\ \A i \in 1..n - m : z[m + i] = s[p - 1 + i]

LEMMA HalfNext ==
  ASSUME NEW N \in Nat, NEW s, NEW v, NEW w, KeptBy(s, N, v, w), NEW n \in Nat,
         NEW z \in [1..n -> Values], NEW m \in 0..n - 1, NEW p, Half(z, n, m, p, s, N, w)
  PROVE  /\ p \in 1..N /\ z[m + 1] = s[p]
         /\ s[p] # v => Half(z, n, m + 1, p + 1, s, N, w)
         /\ s[p] = v => Half(Taken(z, Without1(n, m + 1), n - 1), n - 1, m, p + 1, s, N, w)
<1>1. /\ p \in 1..N + 1 /\ n - m = N - p + 1 /\ m < p
      /\ Cut(z, m) = w[p - 1]
      /\ \A i \in 1..n - m : z[m + i] = s[p - 1 + i]
  BY DEF Half
<1>2. p \in 1..N /\ p \in Nat /\ m \in Nat /\ m < n
  BY <1>1
<1>3. w[p] = IF s[p] = v THEN w[p - 1] ELSE Append(w[p - 1], s[p])
  BY <1>2, KeptByIs
<1>4. z[m + 1] = s[p]
  <2>1. 1 \in 1..n - m /\ p - 1 + 1 = p
    BY <1>2
  <2> QED BY <1>1, <2>1
<1>5. p + 1 \in 1..N + 1 /\ p + 1 - 1 = p
  BY <1>2
<1>6. ASSUME s[p] # v PROVE Half(z, n, m + 1, p + 1, s, N, w)
  <2>1. Cut(z, m + 1) = w[p + 1 - 1]
    BY <1>1, <1>3, <1>4, <1>5, <1>6, CutMore
  <2>2. n - (m + 1) = N - (p + 1) + 1 /\ m + 1 < p + 1
    BY <1>1, <1>2
  <2>3. ASSUME NEW i \in 1..n - (m + 1) PROVE z[m + 1 + i] = s[p + 1 - 1 + i]
    <3>1. i + 1 \in 1..n - m /\ m + (i + 1) = m + 1 + i /\ p - 1 + (i + 1) = p + 1 - 1 + i
      BY <1>2
    <3> QED BY <1>1, <3>1
  <2> QED BY <1>5, <2>1, <2>2, <2>3 DEF Half
<1>7. ASSUME s[p] = v PROVE Half(Taken(z, Without1(n, m + 1), n - 1), n - 1, m, p + 1, s, N, w)
  <2> DEFINE y1 == Taken(z, Without1(n, m + 1), n - 1)
  <2>1. \A i \in 1..n - 1 : y1[i] = IF i < m + 1 THEN z[i] ELSE z[i + 1]
    BY DEF Taken, Without1
  <2> HIDE DEF y1
  <2>2. Cut(y1, m) = Cut(z, m)
    <3>1. \A i \in 1..m : y1[i] = z[i]
      BY <1>2, <2>1
    <3> QED BY <3>1 DEF Cut
  <2>3. n - 1 - m = N - (p + 1) + 1 /\ m < p + 1
    BY <1>1, <1>2
  <2>4. ASSUME NEW i \in 1..n - 1 - m PROVE y1[m + i] = s[p + 1 - 1 + i]
    <3>1. /\ m + i \in 1..n - 1 /\ ~(m + i < m + 1) /\ i + 1 \in 1..n - m
          /\ m + (i + 1) = m + i + 1 /\ p - 1 + (i + 1) = p + 1 - 1 + i
      BY <1>2
    <3> QED BY <1>1, <2>1, <3>1
  <2>5. Cut(y1, m) = w[p + 1 - 1]
    BY <1>1, <1>3, <1>5, <1>7, <2>2
  <2> QED BY <1>5, <2>3, <2>4, <2>5 DEF Half, y1
<1> QED BY <1>2, <1>4, <1>6, <1>7

LEMMA HalfStarts ==
  ASSUME NEW N \in Nat, NEW s \in [1..N -> Values], NEW v, NEW w, KeptBy(s, N, v, w)
  PROVE  Half(s, N, 0, 1, s, N, w)
<1>1. Cut(s, 0) = w[1 - 1]
  <2>1. 1..0 = {} /\ 1 - 1 = 0
    OBVIOUS
  <2> QED BY <2>1, KeptByIs DEF Cut
<1>2. 1 \in 1..N + 1 /\ N - 0 = N - 1 + 1 /\ 0 < 1 /\ \A i \in 1..N - 0 : s[0 + i] = s[1 - 1 + i]
  OBVIOUS
<1> QED BY <1>1, <1>2 DEF Half

LEMMA HalfEnds ==
  ASSUME NEW N \in Nat, NEW s, NEW w, NEW n \in Nat, NEW z \in [1..n -> Values], NEW p,
         Half(z, n, n, p, s, N, w)
  PROVE  z = w[N]
<1>1. p - 1 = N /\ Cut(z, n) = w[p - 1]
  BY DEF Half
<1>2. Cut(z, n) = z
  BY DEF Cut
<1> QED BY <1>1, <1>2

\* A round begins at the object behind the m-th one.
Cursor(x1, q, n, m) ==
  /\ x1 = [l |-> x1.l, prev |-> x1.prev, obj |-> x1.obj]
  /\ Good(x1.l, q, n) /\ m \in 0..n
  /\ x1.obj = IF m = n THEN 0 ELSE q[m + 1]
  /\ m # n => x1.prev = IF m = 0 THEN 0 ELSE q[m]

\* What is known after k rounds of a call on l with the N values s.
Reached(x1, l, k, e, s, N, w) ==
  \E q, n, m, p :
    /\ Cursor(x1, q, n, m) /\ (m = 0 /\ n # 0 => x1.l = l)
    /\ e => /\ Ends(x1.l, q, n) /\ Half(Vals(x1.l, q, n), n, m, p, s, N, w)
            /\ k < p \/ m = n

\* The next object, when the one at the cursor stays.
LEMMA AdvanceCursor ==
  ASSUME L!ListsAssumption, NEW l, NEW q, NEW n, Good(l, q, n), NEW m \in 0..n - 1,
         NEW x1, x1 = [l |-> l, prev |-> q[m + 1], obj |-> l.next[q[m + 1]]]
  PROVE  Cursor(x1, q, n, m + 1)
<1>1. n \in Nat /\ m \in Nat /\ m + 1 \in 1..n /\ m + 1 \in 0..n /\ m + 1 # 0
  <2>1. n \in Nat
    BY GoodSays
  <2> QED BY <2>1
<1>2. l.next[q[m + 1]] = IF m + 1 = n THEN 0 ELSE q[m + 1 + 1]
  BY <1>1, GoodSays
<1>3. x1.l = l /\ x1.prev = q[m + 1] /\ x1.obj = l.next[q[m + 1]]
  OBVIOUS
<1> QED BY <1>1, <1>2, <1>3 DEF Cursor

MovedTo(x1, a, b) == [x1 EXCEPT !.prev = a, !.obj = b]

LEMMA MovedIs ==
  ASSUME NEW c, NEW a, NEW b, NEW x1, x1 = [l |-> c, prev |-> a, obj |-> b], NEW a2, NEW b2
  PROVE  MovedTo(x1, a2, b2) = [l |-> c, prev |-> a2, obj |-> b2]
<1> DEFINE Cs == {c}
           As == {a, a2}
           Bs == {b, b2}
<1>1. c \in Cs /\ a \in As /\ a2 \in As /\ b \in Bs /\ b2 \in Bs
  OBVIOUS
<1> HIDE DEF Cs, As, Bs
<1>2. x1 \in [l : Cs, prev : As, obj : Bs]
  BY <1>1
<1> DEFINE y1 == MovedTo(x1, a2, b2)
<1>3. y1 \in [l : Cs, prev : As, obj : Bs]
  BY <1>1, <1>2 DEF MovedTo
<1>4. y1.l = c /\ y1.prev = a2 /\ y1.obj = b2
  BY <1>2 DEF MovedTo
<1> HIDE DEF y1
<1>5. y1 = [l |-> c, prev |-> a2, obj |-> b2]
  BY <1>3, <1>4
<1> QED BY <1>5 DEF y1

LEMMA RoundReaches ==
  ASSUME L!ListsAssumption, NEW l, NEW q0, NEW N, Good(l, q0, N), NEW v \in Values, ~L!FollowsNull(l, v),
         NEW s, s = Vals(l, q0, N), NEW w, KeptBy(s, N, v, w),
         NEW e \in BOOLEAN, e => ~L!PassesOver(l, v),
         NEW k \in Nat, NEW x1, Reached(x1, l, k, e, s, N, w), x1.obj # 0
  PROVE  Reached(L!Round(x1, v), l, k + 1, e, s, N, w)
<1>1. PICK q, n, m, p :
        /\ Cursor(x1, q, n, m) /\ (m = 0 /\ n # 0 => x1.l = l)
        /\ e => /\ Ends(x1.l, q, n) /\ Half(Vals(x1.l, q, n), n, m, p, s, N, w)
                /\ k < p \/ m = n
  BY DEF Reached
<1> DEFINE c == x1.l
           y1 == L!Round(x1, v)
           z == Vals(c, q, n)
<1>2. /\ Good(c, q, n) /\ m \in 0..n /\ m # n /\ x1.obj = q[m + 1] /\ x1.prev = IF m = 0 THEN 0 ELSE q[m]
      /\ x1 = [l |-> c, prev |-> x1.prev, obj |-> x1.obj]
  BY <1>1 DEF Cursor
<1>3. n \in Nat /\ m \in Nat /\ m \in 0..n - 1 /\ m + 1 \in 1..n /\ N \in Nat
  <2>1. n \in Nat /\ N \in Nat
    BY <1>2, GoodSays
  <2> QED BY <1>2, <2>1
<1>4. z \in [1..n -> Values] /\ z[m + 1] = c.ptr[q[m + 1]] /\ s \in [1..N -> Values]
  <2>1. \A a, b, d, i : Good(a, b, d) /\ i \in 1..d => a.ptr[b[i]] \in Values
    BY DEF Good, Owned
  <2>2. z \in [1..n -> Values]
    BY <1>2, <2>1 DEF Vals
  <2>3. s \in [1..N -> Values]
    BY <2>1 DEF Vals
  <2> QED BY <1>3, <2>2, <2>3 DEF Vals
<1>5. e => p \in 1..N /\ z[m + 1] = s[p] /\ p \in Nat /\ k < p
  BY <1>1, <1>2, <1>3, <1>4, HalfNext
<1>6. CASE c.ptr[q[m + 1]] # v
  <2>1. y1 = [l |-> c, prev |-> q[m + 1], obj |-> c.next[q[m + 1]]]
    <3>1. y1 = [x1 EXCEPT !.prev = x1.obj, !.obj = c.next[x1.obj]]
      BY <1>2, <1>6 DEF L!Round
    <3> HIDE DEF c
    <3>2. [x1 EXCEPT !.prev = x1.obj, !.obj = c.next[x1.obj]] = [l |-> c, prev |-> x1.obj, obj |-> c.next[x1.obj]]
      <4> DEFINE a == x1.prev
                 b == x1.obj
                 b2 == c.next[x1.obj]
      <4>1. x1 = [l |-> c, prev |-> a, obj |-> b]
        BY <1>2
      <4> HIDE DEF a, b, b2
      <4>2. MovedTo(x1, b, b2) = [l |-> c, prev |-> b, obj |-> b2]
        BY <4>1, MovedIs
      <4> QED BY <4>2 DEF b, b2, MovedTo
    <3> QED BY <1>2, <3>1, <3>2
  <2> HIDE DEF y1
  <2>2. Cursor(y1, q, n, m + 1) /\ y1.l = c
    BY <1>2, <1>3, <2>1, AdvanceCursor
  <2>3. e => Half(z, n, m + 1, p + 1, s, N, w)
    BY <1>1, <1>3, <1>4, <1>5, <1>6, HalfNext
  <2>4. m + 1 # 0 /\ (e => k + 1 < p + 1)
    BY <1>3, <1>5
  <2>5. /\ Cursor(y1, q, n, m + 1) /\ (m + 1 = 0 /\ n # 0 => y1.l = l)
        /\ e => /\ Ends(y1.l, q, n) /\ Half(Vals(y1.l, q, n), n, m + 1, p + 1, s, N, w)
                /\ k + 1 < p + 1 \/ m + 1 = n
    BY <1>1, <2>2, <2>3, <2>4
  <2>6. Reached(y1, l, k + 1, e, s, N, w)
    BY <2>5 DEF Reached
  <2> QED BY <2>6 DEF y1
<1>7. CASE c.ptr[q[m + 1]] = v /\ m = 0
  <2>1. c = l /\ x1.obj = q[1] /\ x1.prev = 0 /\ 1 \in 1..n
    BY <1>1, <1>2, <1>3, <1>7
  <2>2. n = 1
    <3> SUFFICES ASSUME n # 1 PROVE FALSE
      OBVIOUS
    <3>1. 0 < n /\ 1 < n /\ 1 + 1 \in 1..n /\ 0 + 1 = 1
      BY <1>3
    <3>2. L!At(l, 0) = v
      BY <1>2, <1>7, <2>1, <3>1, AtIs
    <3>3. L!At(l, 1) = l.ptr[q[1 + 1]] /\ l.ptr[q[1 + 1]] \in Values
      BY <1>2, <2>1, <3>1, AtIs DEF Good, Owned
    <3> QED BY <3>2, <3>3 DEF L!FollowsNull, L!Nil, L!ListsAssumption
  <2> DEFINE u == L!Unlinked(x1)
  <2>3. y1 = [l |-> u, prev |-> 0, obj |-> 0]
    BY <1>2, <1>7, <2>1 DEF L!Round, L!Nil
  <2>4. /\ Good(u, <<>>, 0) /\ Vals(u, <<>>, 0) = <<>> /\ (Ends(c, q, n) => Ends(u, <<>>, 0))
    BY <1>2, <2>1, <2>2, UnlinkedOnly
  <2> HIDE DEF y1, u
  <2>5. Cursor(y1, <<>>, 0, 0) /\ y1.l = u
    BY <2>3, <2>4 DEF Cursor
  <2>6. e => Half(Vals(u, <<>>, 0), 0, 0, p + 1, s, N, w)
    <3>1. e => Half(Taken(z, Without1(n, m + 1), n - 1), n - 1, m, p + 1, s, N, w)
      BY <1>1, <1>3, <1>4, <1>5, <1>7, HalfNext
    <3>2. Taken(z, Without1(n, m + 1), n - 1) = <<>> /\ n - 1 = 0
      BY <2>2 DEF Taken
    <3> QED BY <1>7, <2>4, <3>1, <3>2
  <2>7. /\ Cursor(y1, <<>>, 0, 0)
        /\ e => Ends(y1.l, <<>>, 0) /\ Half(Vals(y1.l, <<>>, 0), 0, 0, p + 1, s, N, w)
    BY <1>1, <2>4, <2>5, <2>6
  <2>8. Reached(y1, l, k + 1, e, s, N, w)
    <3> DEFINE a == <<>>
               b == 0
    <3>1. /\ Cursor(y1, a, b, b) /\ (b = 0 /\ b # 0 => y1.l = l)
          /\ e => Ends(y1.l, a, b) /\ Half(Vals(y1.l, a, b), b, b, p + 1, s, N, w) /\ (k + 1 < p + 1 \/ b = b)
      BY <2>7
    <3> HIDE DEF a, b
    <3> QED BY <3>1 DEF Reached
  <2> QED BY <2>8 DEF y1
<1>8. CASE c.ptr[q[m + 1]] = v /\ m # 0
  <2> DEFINE u == L!Unlinked(x1)
  <2>1. m \in 1..n - 1 /\ x1.prev = q[m] /\ q[m] # 0 /\ m \in 1..n
    <3>1. m \in 1..n - 1 /\ x1.prev = q[m] /\ m \in 1..n
      BY <1>2, <1>3, <1>8
    <3> QED BY <1>2, <3>1, GoodSays
  <2>2. PICK q2, n2 :
           /\ Good(u, q2, n2) /\ m <= n2 /\ q2[m] = q[m]
           /\ Ends(c, q, n) => /\ n2 = n - 1 /\ Ends(u, q2, n2)
                               /\ Vals(u, q2, n2) = Taken(z, Without1(n, m + 1), n - 1)
    BY <1>2, <2>1, UnlinkedLine
  <2> DEFINE obj == u.next[q[m]]
             z2 == Vals(u, q2, n2)
  <2>3. y1 = [l |-> u, prev |-> obj, obj |-> IF obj = 0 THEN 0 ELSE u.next[obj]]
    BY <1>2, <1>8, <2>1 DEF L!Round, L!Nil
  <2> HIDE DEF y1, u
  <2>4. n2 \in Nat /\ m \in 1..n2 /\ m \in 0..n2 /\ obj = (IF m = n2 THEN 0 ELSE q2[m + 1])
    <3>1. n2 \in Nat
      BY <2>2, GoodSays
    <3>2. m \in 1..n2 /\ m \in 0..n2
      BY <1>3, <1>8, <2>2, <3>1
    <3>3. u.next[q2[m]] = IF m = n2 THEN 0 ELSE q2[m + 1]
      BY <2>2, <3>2, GoodSays
    <3> QED BY <2>2, <3>1, <3>2, <3>3
  <2>5. e => Ends(u, q2, n2) /\ n2 = n - 1 /\ Half(z2, n2, m, p + 1, s, N, w)
    <3>1. e => Half(Taken(z, Without1(n, m + 1), n - 1), n - 1, m, p + 1, s, N, w)
      BY <1>1, <1>3, <1>4, <1>5, <1>8, HalfNext
    <3> QED BY <1>1, <2>2, <3>1
  <2>6. CASE m = n2
    <3>1. y1 = [l |-> u, prev |-> 0, obj |-> 0]
      BY <2>3, <2>4, <2>6
    <3>2. Cursor(y1, q2, n2, m) /\ y1.l = u
      BY <2>2, <2>4, <2>6, <3>1 DEF Cursor
    <3>3. /\ Cursor(y1, q2, n2, m) /\ (m = 0 /\ n2 # 0 => y1.l = l)
          /\ e => /\ Ends(y1.l, q2, n2) /\ Half(Vals(y1.l, q2, n2), n2, m, p + 1, s, N, w)
                  /\ k + 1 < p + 1 \/ m = n2
      BY <1>8, <2>5, <2>6, <3>2
    <3>4. Reached(y1, l, k + 1, e, s, N, w)
      BY <3>3 DEF Reached
    <3> QED BY <3>4 DEF y1
  <2>7. CASE m # n2
    <3>1. obj = q2[m + 1] /\ m \in 0..n2 - 1 /\ m + 1 \in 1..n2
      BY <2>4, <2>7
    <3>2. q2[m + 1] # 0
      BY <2>2, <3>1, GoodSays
    <3>3. y1 = [l |-> u, prev |-> q2[m + 1], obj |-> u.next[q2[m + 1]]]
      BY <2>3, <3>1, <3>2
    <3>4. Cursor(y1, q2, n2, m + 1) /\ y1.l = u
      BY <2>2, <3>1, <3>3, AdvanceCursor
    <3>5. z2 \in [1..n2 -> Values]
      BY <2>2 DEF Vals, Good, Owned
    <3> HIDE DEF z2
    <3>6. e => p + 1 \in 1..N /\ z2[m + 1] = s[p + 1] /\ (s[p + 1] # v => Half(z2, n2, m + 1, p + 1 + 1, s, N, w))
      BY <1>3, <2>4, <2>5, <3>1, <3>5, HalfNext
    <3>7. e => s[p + 1] # v
      <4> SUFFICES ASSUME e, s[p + 1] = v PROVE FALSE
        OBVIOUS
      <4>1. p \in Nat /\ p + 1 \in 1..N /\ p \in 1..N /\ m < p /\ s[p] = v
        BY <1>1, <1>5, <1>4, <1>8, <3>6 DEF Half
      <4> DEFINE j == p - 1
      <4>2. j \in Nat \ {0} /\ j + 1 = p /\ j < N /\ j + 1 < N /\ j + 1 + 1 = p + 1 /\ p \in Nat
        BY <1>3, <1>8, <4>1
      <4> HIDE DEF j
      <4>3. L!At(l, j) = s[p]
        <5>1. L!At(l, j) = l.ptr[q0[j + 1]]
          BY <4>2, AtIs
        <5> QED BY <4>1, <4>2, <5>1 DEF Vals
      <4>4. L!At(l, j + 1) = s[p + 1]
        <5>1. j + 1 \in Nat
          BY <4>2
        <5>2. L!At(l, j + 1) = l.ptr[q0[j + 1 + 1]]
          BY <4>2, <5>1, AtIs
        <5> QED BY <4>1, <4>2, <5>2 DEF Vals
      <4>5. j \in 1..MaxObjects - 1
        <5>1. N <= MaxObjects /\ MaxObjects \in Nat
          BY LineFits DEF Good, L!ListsAssumption
        <5> QED BY <1>3, <4>2, <5>1
      <4>6. L!PassesOver(l, v)
        BY <4>1, <4>3, <4>4, <4>5 DEF L!PassesOver
      <4> QED BY <4>6
    <3>8. m + 1 # 0 /\ (e => k + 1 < p + 1 + 1)
      BY <1>3, <1>5
    <3> DEFINE m1 == m + 1
               p1 == p + 1 + 1
    <3>9. /\ Cursor(y1, q2, n2, m1) /\ (m1 = 0 /\ n2 # 0 => y1.l = l)
          /\ e => /\ Ends(y1.l, q2, n2) /\ Half(Vals(y1.l, q2, n2), n2, m1, p1, s, N, w)
                  /\ k + 1 < p1 \/ m1 = n2
      BY <2>5, <3>4, <3>6, <3>7, <3>8 DEF z2
    <3> HIDE DEF m1, p1
    <3>10. Reached(y1, l, k + 1, e, s, N, w)
      BY <3>9 DEF Reached
    <3> QED BY <3>10 DEF y1
  <2> QED BY <2>6, <2>7
<1> QED BY <1>6, <1>7, <1>8

-----------------------------------------------------------------------------
(* deleteAll(): all rounds                                                   *)

RoundOrStop(x1, v) == IF x1.obj = 0 THEN x1 ELSE L!Round(x1, v)

Runs(l, v, n, r) ==
  r = [k \in 0..n |-> IF k = 0 THEN [l |-> l, prev |-> 0, obj |-> l.first] ELSE RoundOrStop(r[k - 1], v)]

LEMMA RunsAre ==
  ASSUME NEW l, NEW v, NEW n \in Nat, NEW r, Runs(l, v, n, r)
  PROVE  /\ r[0] = [l |-> l, prev |-> 0, obj |-> l.first]
         /\ \A k \in 1..n : r[k] = RoundOrStop(r[k - 1], v)
<1> DEFINE x1 == [l |-> l, prev |-> 0, obj |-> l.first]
           W(k) == IF k = 0 THEN x1 ELSE RoundOrStop(r[k - 1], v)
<1>1. r = [k \in 0..n |-> W(k)]
  BY DEF Runs
<1> HIDE DEF W
<1>2. \A k \in 0..n : r[k] = W(k)
  BY <1>1
<1>3. 0 \in 0..n /\ \A k \in 1..n : k \in 0..n /\ k # 0
  OBVIOUS
<1> HIDE DEF x1
<1>4. r[0] = x1 /\ \A k \in 1..n : r[k] = RoundOrStop(r[k - 1], v)
  BY <1>2, <1>3 DEF W
<1> QED BY <1>4 DEF x1

LEMMA DeleteAllIs ==
  ASSUME L!ListsAssumption, NEW l, NEW v
  PROVE  \E r : Runs(l, v, MaxObjects, r) /\ L!deleteAll(l, v) = r[MaxObjects].l
<1> DEFINE n == MaxObjects
           x0 == [l |-> l, prev |-> 0, obj |-> l.first]
           T == {m \in 0..n : ~\E r : Runs(l, v, m, r)}
           u == CHOOSE r : Runs(l, v, n, r)
<1>1. n \in Nat
  BY DEF L!ListsAssumption
<1>5. L!deleteAll(l, v) = u[n].l
  BY DEF L!deleteAll, Runs, RoundOrStop, L!Nil
<1> HIDE DEF n
<1>2. T = {}
  <2> SUFFICES ASSUME T # {} PROVE FALSE
    OBVIOUS
  <2>1. PICK m \in T : \A j \in T : m <= j
    <3>1. T \in SUBSET Nat
      BY <1>1
    <3> HIDE DEF T
    <3> QED BY <3>1, LeastNat
  <2>2. m \in Nat /\ m <= n /\ ~\E r : Runs(l, v, m, r)
    BY <1>1
  <2>3. CASE m = 0
    <3> HIDE DEF x0
    <3> DEFINE r == [k \in 0..0 |-> x0]
    <3>1. r = [k \in 0..0 |-> IF k = 0 THEN x0 ELSE RoundOrStop(r[k - 1], v)]
      <4>1. \A k \in 0..0 : k = 0
        OBVIOUS
      <4> QED BY <4>1
    <3> HIDE DEF r
    <3>2. Runs(l, v, 0, r)
      BY <3>1 DEF Runs, x0
    <3> QED BY <2>2, <2>3, <3>2
  <2>4. CASE m # 0
    <3> DEFINE k1 == m - 1
    <3>1. k1 \in 0..n /\ ~(m <= k1) /\ k1 \in Nat /\ k1 = m - 1
      BY <1>1, <2>2, <2>4
    <3> HIDE DEF k1
    <3>2. k1 \notin T
      BY <2>1, <3>1
    <3>3. PICK r : Runs(l, v, k1, r)
      BY <3>1, <3>2
    <3> DEFINE x1 == RoundOrStop(r[k1], v)
               y1 == [k \in 0..m |-> IF k = m THEN x1 ELSE r[k]]
               W(k) == IF k = 0 THEN x0 ELSE RoundOrStop(y1[k - 1], v)
    <3> HIDE DEF x0
    <3>4. r[0] = x0 /\ \A k \in 1..k1 : r[k] = RoundOrStop(r[k - 1], v)
      BY <3>1, <3>3, RunsAre DEF x0
    <3>5. \A k \in 0..m : y1[k] = IF k = m THEN x1 ELSE r[k]
      OBVIOUS
    <3> HIDE DEF y1, x1
    <3>6. ASSUME NEW k \in 0..m PROVE y1[k] = W(k)
      <4>1. CASE k = 0
        BY <2>4, <3>4, <3>5, <4>1
      <4>2. CASE k = m
        <5>1. y1[m] = x1 /\ y1[m - 1] = r[k1]
          BY <2>2, <2>4, <3>1, <3>5
        <5> QED BY <2>4, <3>1, <4>2, <5>1 DEF x1
      <4>3. CASE k # 0 /\ k # m
        <5>1. k \in 1..k1 /\ k - 1 \in 0..m /\ k - 1 # m
          BY <2>2, <3>1, <4>3
        <5>2. y1[k] = r[k] /\ y1[k - 1] = r[k - 1]
          BY <3>5, <4>3, <5>1
        <5> QED BY <3>4, <4>3, <5>1, <5>2
      <4> QED BY <4>1, <4>2, <4>3
    <3>7. y1 = [k \in 0..m |-> W(k)]
      <4>1. y1 = [k \in 0..m |-> y1[k]]
        BY DEF y1
      <4> HIDE DEF W
      <4> QED BY <3>6, <4>1
    <3>8. Runs(l, v, m, y1)
      BY <3>7 DEF Runs, x0
    <3> QED BY <2>2, <3>8
  <2> QED BY <2>3, <2>4
<1>3. \E r : Runs(l, v, n, r)
  <2>1. n \in 0..n
    BY <1>1
  <2> QED BY <1>2, <2>1
<1>4. Runs(l, v, n, u)
  BY <1>3
<1> HIDE DEF u
<1> QED BY <1>4, <1>5 DEF n

LEMMA DeleteAllOp ==
  ASSUME L!ListsAssumption, NEW l, NEW q, NEW n, Good(l, q, n), NEW v \in Values, ~L!FollowsNull(l, v),
         NEW e \in BOOLEAN, e => Ends(l, q, n) /\ ~L!PassesOver(l, v)
  PROVE  Results(L!deleteAll(l, v), L!Without(Vals(l, q, n), v), e, e)
<1> DEFINE s == Vals(l, q, n)
           M == MaxObjects
<1>1. n \in Nat /\ n <= M /\ M \in Nat /\ l.first = IF n = 0 THEN 0 ELSE q[1]
  <2>1. Line(l, q, n)
    BY DEF Good
  <2> QED BY <2>1, LineFits, GoodSays DEF L!ListsAssumption
<1>2. s \in [1..n -> Values] /\ Len(s) = n
  <2>1. s \in [1..n -> Values]
    BY DEF Good, Owned, Vals
  <2> HIDE DEF s
  <2> QED BY <1>1, <2>1
<1> HIDE DEF s
<1>3. PICK w : KeptBy(s, n, v, w) /\ L!Without(s, v) = w[n]
  BY <1>1, <1>2, WithoutIs
<1>4. PICK r : Runs(l, v, M, r) /\ L!deleteAll(l, v) = r[M].l
  BY DeleteAllIs
<1> HIDE DEF M
<1>5. r[0] = [l |-> l, prev |-> 0, obj |-> l.first] /\ \A k \in 1..M : r[k] = RoundOrStop(r[k - 1], v)
  BY <1>1, <1>4, RunsAre
<1>6. Reached(r[0], l, 0, e, s, n, w)
  <2> DEFINE x1 == r[0]
  <2>1. x1 = [l |-> x1.l, prev |-> x1.prev, obj |-> x1.obj] /\ x1.l = l /\ x1.prev = 0 /\ x1.obj = l.first
    BY <1>5
  <2> HIDE DEF x1
  <2>2. Cursor(x1, q, n, 0)
    <3>1. 0 \in 0..n /\ 0 + 1 = 1
      BY <1>1
    <3> QED BY <1>1, <2>1, <3>1 DEF Cursor
  <2>3. Half(s, n, 0, 1, s, n, w)
    BY <1>1, <1>2, <1>3, HalfStarts
  <2>4. /\ Cursor(x1, q, n, 0) /\ (0 = 0 /\ n # 0 => x1.l = l)
        /\ e => /\ Ends(x1.l, q, n) /\ Half(Vals(x1.l, q, n), n, 0, 1, s, n, w)
                /\ 0 < 1 \/ 0 = n
    BY <2>1, <2>2, <2>3 DEF s
  <2>5. Reached(x1, l, 0, e, s, n, w)
    BY <2>4 DEF Reached
  <2> QED BY <2>5 DEF x1
<1>7. \A k \in 0..M : Reached(r[k], l, k, e, s, n, w)
  <2> DEFINE T == {k \in 0..M : ~Reached(r[k], l, k, e, s, n, w)}
  <2> SUFFICES ASSUME T # {} PROVE FALSE
    OBVIOUS
  <2>1. PICK k \in T : \A j \in T : k <= j
    <3>1. T \in SUBSET Nat
      BY <1>1
    <3> HIDE DEF T
    <3> QED BY <3>1, LeastNat
  <2>2. k \in 0..M /\ ~Reached(r[k], l, k, e, s, n, w) /\ k # 0
    BY <1>6
  <2> DEFINE j == k - 1
             x1 == r[j]
  <2>3. j \in 0..M /\ ~(k <= j) /\ j \in Nat /\ j + 1 = k /\ k \in 1..M
    BY <1>1, <2>2
  <2>4. r[k] = RoundOrStop(x1, v)
    BY <1>5, <2>3
  <2> HIDE DEF j
  <2>5. Reached(x1, l, j, e, s, n, w)
    BY <2>1, <2>3
  <2> HIDE DEF x1, T
  <2>6. CASE x1.obj = 0
    <3>1. PICK q1, n1, m, p :
            /\ Cursor(x1, q1, n1, m) /\ (m = 0 /\ n1 # 0 => x1.l = l)
            /\ e => /\ Ends(x1.l, q1, n1) /\ Half(Vals(x1.l, q1, n1), n1, m, p, s, n, w)
                    /\ j < p \/ m = n1
      BY <2>5 DEF Reached
    <3>2. m = n1
      <4> SUFFICES ASSUME m # n1 PROVE FALSE
        OBVIOUS
      <4>1. Good(x1.l, q1, n1) /\ x1.obj = q1[m + 1] /\ m \in 0..n1
        BY <3>1 DEF Cursor
      <4>2. n1 \in Nat
        BY <4>1, GoodSays
      <4>3. m + 1 \in 1..n1
        BY <4>1, <4>2
      <4>4. q1[m + 1] # 0
        BY <4>1, <4>3, GoodSays
      <4> QED BY <2>6, <4>1, <4>4
    <3>3. Reached(x1, l, k, e, s, n, w)
      BY <3>1, <3>2 DEF Reached
    <3>4. r[k] = x1
      BY <2>4, <2>6 DEF RoundOrStop
    <3> QED BY <2>2, <3>3, <3>4
  <2>7. CASE x1.obj # 0
    <3>1. r[k] = L!Round(x1, v)
      BY <2>4, <2>7 DEF RoundOrStop
    <3>2. s = Vals(l, q, n)
      BY DEF s
    <3>3. Reached(L!Round(x1, v), l, j + 1, e, s, n, w)
      BY <1>3, <2>3, <2>5, <2>7, <3>2, RoundReaches
    <3> QED BY <2>2, <2>3, <3>1, <3>3
  <2> QED BY <2>6, <2>7
<1> DEFINE x1 == r[M]
           l2 == L!deleteAll(l, v)
<1>8. Reached(x1, l, M, e, s, n, w)
  <2>1. M \in 0..M
    BY <1>1
  <2> QED BY <1>7, <2>1
<1>9. PICK q1, n1, m, p :
        /\ Cursor(x1, q1, n1, m)
        /\ e => /\ Ends(x1.l, q1, n1) /\ Half(Vals(x1.l, q1, n1), n1, m, p, s, n, w)
                /\ M < p \/ m = n1
  BY <1>8 DEF Reached
<1>10. x1.l = l2
  BY <1>4
<1> HIDE DEF x1, l2
<1>11. Good(l2, q1, n1) /\ n1 \in Nat
  <2>1. Good(l2, q1, n1)
    BY <1>9, <1>10 DEF Cursor
  <2> QED BY <2>1, GoodSays
<1> DEFINE z == Vals(l2, q1, n1)
<1>12. z \in [1..n1 -> Values]
  BY <1>11 DEF Vals, Good, Owned
<1> HIDE DEF z
<1>13. e => z = w[n]
  <2> SUFFICES ASSUME e PROVE z = w[n]
    OBVIOUS
  <2>1. Half(z, n1, m, p, s, n, w) /\ (M < p \/ m = n1)
    BY <1>9, <1>10 DEF z
  <2>2. m \in 0..n1
    BY <1>9 DEF Cursor
  <2>3. m = n1
    <3>1. p \in 1..n + 1 /\ n1 - m = n - p + 1
      BY <2>1 DEF Half
    <3> QED BY <1>1, <1>11, <2>1, <2>2, <3>1
  <2> QED BY <1>1, <1>2, <1>11, <1>12, <2>1, <2>3, HalfEnds
<1>14. Good(l2, q1, n1) /\ (e => Vals(l2, q1, n1) = L!Without(s, v)) /\ (e => Ends(l2, q1, n1))
  BY <1>3, <1>9, <1>10, <1>11, <1>13 DEF z
<1>15. Results(l2, L!Without(s, v), e, e)
  BY <1>14 DEF Results
<1> QED BY <1>15 DEF l2, s

-----------------------------------------------------------------------------
(* The sequences that the calls should make                                  *)

\* A sequence as a function of its places.
LEMMA IsSequenceOf ==
  ASSUME NEW n \in Nat, NEW s \in [1..n -> Values]
  PROVE  s \in Seq(Values) /\ Len(s) = n /\ DOMAIN s = 1..n /\ (s # <<>> <=> n # 0)
<1>1. s = [i \in 1..n |-> s[i]] /\ \A i \in 1..n : s[i] \in Values
  OBVIOUS
<1>2. s \in Seq(Values)
  BY <1>1, IsASeq
<1>3. DOMAIN s = 1..n /\ Len(s) = n
  BY <1>2
<1>4. s # <<>> <=> n # 0
  BY <1>2, <1>3, EmptySeq
<1> QED BY <1>2, <1>3, <1>4

LEMMA Joined ==
  ASSUME NEW S, NEW a \in Seq(S), NEW b \in Seq(S), NEW k, k = Len(a), NEW m, m = Len(b)
  PROVE  /\ a \o b \in Seq(S) /\ Len(a \o b) = k + m
         /\ \A i \in 1..k + m : (a \o b)[i] = IF i <= k THEN a[i] ELSE b[i - k]
BY ConcatProperties

LEMMA InsertAtIs ==
  ASSUME NEW n \in Nat, NEW s \in [1..n -> Values], NEW v \in Values, NEW j \in 0..n
  PROVE  L!InsertAt(s, j + 1, v) = Ins(s, n, j, v)
<1> DEFINE a == SubSeq(s, 1, j)
           b == <<v>>
           c == SubSeq(s, j + 1, n)
           ab == a \o b
           t == ab \o c
<1>1. s \in Seq(Values) /\ Len(s) = n /\ j \in Nat /\ j <= n
  BY IsSequenceOf
<1>2. L!InsertAt(s, j + 1, v) = t
  <2>1. j + 1 - 1 = j
    BY <1>1
  <2> QED BY <1>1, <2>1 DEF L!InsertAt
<1>3. a \in Seq(Values) /\ Len(a) = j /\ \A i \in 1..j : a[i] = s[i]
  <2>1. 1 <= j + 1 /\ j - 1 + 1 = j /\ \A i \in 1..j : 1 + i - 1 = i
    BY <1>1
  <2> QED BY <1>1, <2>1, PartOf
<1>4. b \in Seq(Values) /\ Len(b) = 1 /\ b[1] = v
  OBVIOUS
<1>5. c \in Seq(Values) /\ Len(c) = n - j /\ \A i \in 1..n - j : c[i] = s[j + i]
  <2>1. j + 1 \in Nat \ {0} /\ j + 1 <= n + 1 /\ n - (j + 1) + 1 = n - j /\ \A i \in 1..n - j : j + 1 + i - 1 = j + i
    BY <1>1
  <2> QED BY <1>1, <2>1, PartOf
<1> HIDE DEF a, b, c
<1>6. ab \in Seq(Values) /\ Len(ab) = j + 1 /\ \A i \in 1..j + 1 : ab[i] = IF i <= j THEN a[i] ELSE b[i - j]
  <2> DEFINE k == j
             m == 1
  <2>1. Len(a) = k /\ Len(b) = m
    BY <1>3, <1>4
  <2> HIDE DEF k, m
  <2>2. ab \in Seq(Values) /\ Len(ab) = k + m /\ \A i \in 1..k + m : ab[i] = IF i <= k THEN a[i] ELSE b[i - k]
    <3>1. a \in Seq(Values) /\ b \in Seq(Values)
      BY <1>3, <1>4
    <3> QED BY <2>1, <3>1, Joined
  <2> HIDE DEF ab
  <2> QED BY <2>2 DEF k, m
<1>7. \A i \in 1..j + 1 : ab[i] = IF i <= j THEN s[i] ELSE v
  <2> TAKE i \in 1..j + 1
  <2>1. i <= j => i \in 1..j
    BY <1>1
  <2>2. ~(i <= j) => i - j = 1
    BY <1>1
  <2> QED BY <1>3, <1>4, <1>6, <2>1, <2>2
<1> HIDE DEF ab
<1>8. /\ t \in Seq(Values) /\ Len(t) = j + 1 + (n - j)
      /\ \A i \in 1..j + 1 + (n - j) : t[i] = IF i <= j + 1 THEN ab[i] ELSE c[i - (j + 1)]
  <2> DEFINE k == j + 1
             m == n - j
  <2>1. Len(ab) = k /\ Len(c) = m
    BY <1>5, <1>6
  <2> HIDE DEF k, m
  <2>2. t \in Seq(Values) /\ Len(t) = k + m /\ \A i \in 1..k + m : t[i] = IF i <= k THEN ab[i] ELSE c[i - k]
    <3>1. ab \in Seq(Values) /\ c \in Seq(Values)
      BY <1>5, <1>6
    <3> QED BY <2>1, <3>1, Joined
  <2> HIDE DEF t
  <2> QED BY <2>2 DEF k, m
<1>9. j + 1 + (n - j) = n + 1
  BY <1>1
<1> HIDE DEF t
<1>10. \A i \in 1..n + 1 : t[i] = IF i <= j THEN s[i] ELSE IF i = j + 1 THEN v ELSE s[i - 1]
  <2> TAKE i \in 1..n + 1
  <2>1. CASE i <= j + 1
    <3>1. i \in 1..j + 1 /\ (i <= j \/ i = j + 1)
      BY <1>1, <2>1
    <3> QED BY <1>7, <1>8, <1>9, <2>1, <3>1
  <2>2. CASE ~(i <= j + 1)
    <3>1. i - (j + 1) \in 1..n - j /\ j + (i - (j + 1)) = i - 1 /\ ~(i <= j) /\ i # j + 1
      BY <1>1, <2>2
    <3> QED BY <1>5, <1>8, <1>9, <2>2, <3>1
  <2> QED BY <2>1, <2>2
<1>11. t = [i \in 1..n + 1 |-> t[i]]
  BY <1>8, <1>9
<1> QED BY <1>2, <1>10, <1>11 DEF Ins

LEMMA RemoveAtIs ==
  ASSUME NEW n \in Nat, NEW s \in [1..n -> Values], NEW j \in 1..n
  PROVE  L!RemoveAt(s, j) = Taken(s, Without1(n, j), n - 1)
<1> DEFINE a == SubSeq(s, 1, j - 1)
           c == SubSeq(s, j + 1, n)
           t == a \o c
<1>1. s \in Seq(Values) /\ Len(s) = n /\ j \in Nat \ {0} /\ j <= n
  BY IsSequenceOf
<1>2. L!RemoveAt(s, j) = t
  BY <1>1 DEF L!RemoveAt
<1>3. a \in Seq(Values) /\ Len(a) = j - 1 /\ \A i \in 1..j - 1 : a[i] = s[i]
  <2>1. j - 1 \in Nat /\ 1 <= j - 1 + 1 /\ j - 1 <= n /\ j - 1 - 1 + 1 = j - 1 /\ \A i \in 1..j - 1 : 1 + i - 1 = i
    BY <1>1
  <2> DEFINE k == j - 1
  <2>2. k \in Nat /\ 1 <= k + 1 /\ k <= Len(s) /\ k - 1 + 1 = k /\ 1 \in Nat \ {0}
    BY <1>1, <2>1
  <2>3. \A i \in 1..k : 1 + i - 1 = i
    OBVIOUS
  <2> HIDE DEF k
  <2>4. /\ SubSeq(s, 1, k) \in Seq(Values) /\ Len(SubSeq(s, 1, k)) = k - 1 + 1
        /\ \A i \in 1..k - 1 + 1 : SubSeq(s, 1, k)[i] = s[1 + i - 1]
    BY <1>1, <2>2, PartOf
  <2> QED BY <2>2, <2>3, <2>4 DEF k
<1>5. c \in Seq(Values) /\ Len(c) = n - j /\ \A i \in 1..n - j : c[i] = s[j + i]
  <2>1. j + 1 \in Nat \ {0} /\ j + 1 <= n + 1 /\ n - (j + 1) + 1 = n - j /\ \A i \in 1..n - j : j + 1 + i - 1 = j + i
    BY <1>1
  <2> QED BY <1>1, <2>1, PartOf
<1> HIDE DEF a, c
<1>8. /\ t \in Seq(Values) /\ Len(t) = j - 1 + (n - j)
      /\ \A i \in 1..j - 1 + (n - j) : t[i] = IF i <= j - 1 THEN a[i] ELSE c[i - (j - 1)]
  <2> DEFINE k == j - 1
             m == n - j
  <2>1. Len(a) = k /\ Len(c) = m
    BY <1>3, <1>5
  <2> HIDE DEF k, m
  <2>2. t \in Seq(Values) /\ Len(t) = k + m /\ \A i \in 1..k + m : t[i] = IF i <= k THEN a[i] ELSE c[i - k]
    BY <1>3, <1>5, <2>1, Joined
  <2> HIDE DEF t
  <2> QED BY <2>2 DEF k, m
<1>9. j - 1 + (n - j) = n - 1
  BY <1>1
<1> HIDE DEF t
<1>10. \A i \in 1..n - 1 : t[i] = IF i < j THEN s[i] ELSE s[i + 1]
  <2> TAKE i \in 1..n - 1
  <2>1. CASE i < j
    <3>1. i \in 1..j - 1 /\ i <= j - 1
      BY <1>1, <2>1
    <3> QED BY <1>3, <1>8, <1>9, <2>1, <3>1
  <2>2. CASE ~(i < j)
    <3>1. i - (j - 1) \in 1..n - j /\ j + (i - (j - 1)) = i + 1 /\ ~(i <= j - 1)
      BY <1>1, <2>2
    <3> QED BY <1>5, <1>8, <1>9, <2>2, <3>1
  <2> QED BY <2>1, <2>2
<1>11. t = [i \in 1..n - 1 |-> t[i]]
  BY <1>8, <1>9
<1>12. Taken(s, Without1(n, j), n - 1) = [i \in 1..n - 1 |-> IF i < j THEN s[i] ELSE s[i + 1]]
  BY DEF Taken, Without1
<1> QED BY <1>2, <1>10, <1>11, <1>12

LEMMA EndsAre ==
  ASSUME NEW n \in Nat, NEW s \in [1..n -> Values], NEW v \in Values
  PROVE  Append(s, v) = Ins(s, n, n, v) /\ <<v>> \o s = Ins(s, n, 0, v)
<1>1. s \in Seq(Values) /\ Len(s) = n
  BY IsSequenceOf
<1> DEFINE a == Append(s, v)
           b == <<v>>
           c == b \o s
<1>2. a \in Seq(Values) /\ Len(a) = n + 1 /\ a[n + 1] = v /\ \A i \in 1..n : a[i] = s[i]
  BY <1>1, AppendProperties
<1>3. b \in Seq(Values) /\ Len(b) = 1 /\ b[1] = v
  OBVIOUS
<1> HIDE DEF a, b
<1>4. /\ c \in Seq(Values) /\ Len(c) = 1 + n
      /\ \A i \in 1..1 + n : c[i] = IF i <= 1 THEN b[i] ELSE s[i - 1]
  <2> DEFINE k == 1
             m == n
  <2>1. Len(b) = k /\ Len(s) = m
    BY <1>1, <1>3
  <2> HIDE DEF k, m
  <2>2. c \in Seq(Values) /\ Len(c) = k + m /\ \A i \in 1..k + m : c[i] = IF i <= k THEN b[i] ELSE s[i - k]
    <3>1. b \in Seq(Values) /\ s \in Seq(Values)
      BY <1>1, <1>3
    <3> QED BY <2>1, <3>1, Joined
  <2> HIDE DEF c
  <2> QED BY <2>2 DEF k, m
<1> HIDE DEF c
<1>5. a = [i \in 1..n + 1 |-> a[i]] /\ c = [i \in 1..n + 1 |-> c[i]]
  BY <1>2, <1>4
<1>6. \A i \in 1..n + 1 : a[i] = IF i <= n THEN s[i] ELSE IF i = n + 1 THEN v ELSE s[i - 1]
  <2>1. \A i \in 1..n + 1 : (i <= n => i \in 1..n) /\ (~(i <= n) => i = n + 1)
    OBVIOUS
  <2> QED BY <1>2, <2>1
<1>7. \A i \in 1..n + 1 : c[i] = IF i <= 0 THEN s[i] ELSE IF i = 0 + 1 THEN v ELSE s[i - 1]
  <2>1. \A i \in 1..n + 1 : i \in 1..1 + n /\ ~(i <= 0) /\ (i <= 1 <=> i = 1) /\ 0 + 1 = 1
    OBVIOUS
  <2> QED BY <1>3, <1>4, <2>1
<1> QED BY <1>5, <1>6, <1>7 DEF Ins, a, b, c

LEMMA TailIs ==
  ASSUME NEW n \in Nat \ {0}, NEW s \in [1..n -> Values]
  PROVE  Tail(s) = Taken(s, Without1(n, 1), n - 1) /\ Append(Tail(s), Head(s)) = Taken(s, Turned(n), n)
<1>1. s \in Seq(Values) /\ Len(s) = n /\ s # <<>>
  BY IsSequenceOf
<1> DEFINE t == Tail(s)
           h == Head(s)
           m == n - 1
           a == Append(t, h)
<1>2. t \in Seq(Values) /\ Len(t) = m /\ \A i \in 1..m : t[i] = s[i + 1]
  BY <1>1, HeadTailProperties
<1>3. h = s[1] /\ h \in Values
  BY <1>1, HeadTailProperties
<1>4. m \in Nat /\ m + 1 = n
  OBVIOUS
<1> HIDE DEF t, h, m
<1>5. t = [i \in 1..m |-> t[i]]
  BY <1>2
<1>6. t = Taken(s, Without1(n, 1), n - 1)
  <2>1. \A i \in 1..m : ~(i < 1)
    BY <1>4
  <2> QED BY <1>2, <1>5, <2>1 DEF Taken, Without1, m
<1>7. a \in Seq(Values) /\ Len(a) = m + 1 /\ a[m + 1] = h /\ \A i \in 1..m : a[i] = t[i]
  BY <1>2, <1>3, AppendProperties
<1> HIDE DEF a
<1>8. a = [i \in 1..n |-> a[i]]
  BY <1>4, <1>7
<1>9. \A i \in 1..n : a[i] = s[IF i < n THEN i + 1 ELSE 1]
  <2>1. \A i \in 1..n : (i < n => i \in 1..m) /\ (~(i < n) => i = m + 1)
    BY <1>4
  <2> QED BY <1>2, <1>3, <1>7, <2>1
<1>10. Taken(s, Turned(n), n) = [i \in 1..n |-> s[IF i < n THEN i + 1 ELSE 1]]
  BY DEF Taken, Turned
<1> QED BY <1>6, <1>8, <1>9, <1>10 DEF a, t, h

-----------------------------------------------------------------------------
(* The list, as a whole                                                      *)

\* Whatever was called, the objects are in line, as long as no call went on at address 0; the end is
\* known as long as every call did what it says.
ListInv ==
  "null" \notin odd => \E q, n : Good(list, q, n) /\ (odd = {} => Ends(list, q, n))

LEMMA ResultsKeep ==
  ASSUME NEW s, NEW d, NEW e, Results(list', s, d, e), odd' = {} => e
  PROVE  ListInv'
BY DEF Results, ListInv, Good, Ends, Line, Kept, Owned, PoolOf, ListRecords

LEMMA NoResults ==
  ASSUME NEW l, NEW l2, l2 = l, NEW q, NEW n, Good(l, q, n)
  PROVE  Results(l2, Vals(l, q, n), TRUE, Ends(l, q, n))
BY DEF Results

LEMMA NothingDone == ASSUME ListInv, list' = list, odd' = odd PROVE ListInv'
<1>1. CASE "null" \in odd
  BY <1>1 DEF ListInv
<1>2. CASE "null" \notin odd
  <2>1. PICK q, n : Good(list, q, n) /\ (odd = {} => Ends(list, q, n))
    BY <1>2 DEF ListInv
  <2>2. Results(list', Vals(list, q, n), TRUE, Ends(list, q, n))
    BY <2>1, NoResults
  <2> QED BY <2>1, <2>2, ResultsKeep
<1> QED BY <1>1, <1>2

LEMMA ItemsAfter ==
  ASSUME L!ListsAssumption, NEW l, NEW s, NEW e, Results(l, s, TRUE, e)
  PROVE  L!Items(l) = s
<1>1. PICK q, n : Good(l, q, n) /\ Vals(l, q, n) = s
  BY DEF Results
<1> QED BY <1>1, ItemsAre DEF Good

LEMMA ListBegins == ASSUME L!ListsAssumption, L!Init PROVE ListInv
<1> DEFINE N == [L!Objects -> L!Places]
           P_ == [L!Objects -> Values \cup {0}]
           S == Seq(L!Objects)
           V == SUBSET L!Objects
           nx == [o \in L!Objects |-> 0]
<1>1. list = [first |-> 0, last |-> 0, size |-> 0, next |-> nx, ptr |-> nx, freed |-> <<>>, live |-> {}]
  BY DEF L!Init, L!Nil
<1>2. 0 \in L!Places /\ nx \in N /\ nx \in P_ /\ <<>> \in S /\ {} \in V
  BY NilPlace
<1> HIDE DEF N, P_, S, V, nx
<1>3. list \in [first : L!Places, last : L!Places, size : Int, next : N, ptr : P_, freed : S, live : V]
  BY <1>1, <1>2
<1>4. list.freed = <<>> /\ list.first = 0 /\ list.last = 0 /\ list.size = 0
  BY <1>1
<1>5. list \in ListRecords
  BY <1>3 DEF ListRecords, N, P_, S, V
<1>6. DOMAIN list.freed = {}
  BY <1>4
<1>7. PoolOf(list) = {}
  BY <1>6 DEF PoolOf
<1>8. Kept(list)
  BY <1>5, <1>6, <1>7 DEF Kept
<1>9. Same(list, list)
  BY <1>5 DEF Same
<1>10. Good(list, <<>>, 0) /\ Ends(list, <<>>, 0)
  BY <1>4, <1>8, <1>9, EmptyLine
<1> QED BY <1>10 DEF ListInv

LEMMA ListGoesOn == ASSUME L!ListsAssumption, ListInv, L!Next \/ UNCHANGED L!vars PROVE ListInv'
<1>1. CASE UNCHANGED L!vars \/ L!Lost
  <2>1. list' = list /\ odd' = odd
    BY <1>1 DEF L!vars, L!Lost
  <2> QED BY <2>1, NothingDone
<1>2. ASSUME "null" \notin odd,
             \/ \E v \in Values : L!AddFirst(v) \/ L!Append_(v) \/ L!DeleteAll(v)
             \/ \E v \in Values, i \in L!Places : L!AppendAfter(i, v) \/ L!AddAt(i, v)
             \/ L!RotateFirstLast \/ L!TakeFirst
             \/ \E i \in L!Places : L!DeleteAt(i)
      PROVE  ListInv'
  <2>1. PICK q, n : Good(list, q, n) /\ (odd = {} => Ends(list, q, n))
    BY <1>2 DEF ListInv
  <2>2. L!Places \subseteq Nat
    BY DEF L!Places
  <2>3. Ends(list, q, n) \in BOOLEAN /\ (n = 0 <=> list.first = 0) /\ n \in Nat
    BY <2>1, GoodSays DEF Ends
  <2>4. ASSUME list' = list, odd' = odd PROVE ListInv'
    BY <2>4, NothingDone
  <2>5. ASSUME NEW v \in Values, L!AddFirst(v) PROVE ListInv'
    <3>1. L!CanGet(list) /\ list' = L!addFirst(list, v) /\ odd' = odd
      BY <2>5 DEF L!AddFirst, L!Do
    <3>2. Results(list', Ins(Vals(list, q, n), n, 0, v), TRUE, Ends(list, q, n))
      BY <2>1, <3>1, AddFirstOp
    <3> QED BY <2>1, <3>1, <3>2, ResultsKeep
  <2>6. ASSUME NEW v \in Values, L!Append_(v) PROVE ListInv'
    <3>1. L!CanGet(list) /\ list' = L!append(list, v) /\ odd' = odd
      BY <2>6 DEF L!Append_, L!Do
    <3>2. Results(list', Ins(Vals(list, q, n), n, n, v), Ends(list, q, n), Ends(list, q, n))
      BY <2>1, <3>1, AppendOp
    <3> QED BY <2>1, <3>1, <3>2, ResultsKeep
  <2>7. ASSUME NEW v \in Values, L!DeleteAll(v) PROVE ListInv'
    <3>1. /\ list' = L!deleteAll(list, v)
          /\ odd' = odd \cup (IF L!FollowsNull(list, v) THEN {"null"} ELSE {})
                        \cup (IF L!PassesOver(list, v) THEN {"odd"} ELSE {})
      BY <2>7 DEF L!DeleteAll
    <3>2. CASE L!FollowsNull(list, v)
      BY <3>1, <3>2 DEF ListInv
    <3>3. CASE ~L!FollowsNull(list, v)
      <4> DEFINE e == Ends(list, q, n) /\ ~L!PassesOver(list, v)
      <4>1. e \in BOOLEAN /\ (e => Ends(list, q, n) /\ ~L!PassesOver(list, v))
        BY <2>3
      <4>2. odd' = {} => e
        BY <2>1, <3>1
      <4> HIDE DEF e
      <4>3. Results(list', L!Without(Vals(list, q, n), v), e, e)
        BY <2>1, <3>1, <3>3, <4>1, DeleteAllOp
      <4> QED BY <4>2, <4>3, ResultsKeep
    <3> QED BY <3>2, <3>3
  <2>8. ASSUME NEW v \in Values, NEW i \in L!Places, L!AppendAfter(i, v) PROVE ListInv'
    <3>1. L!CanGet(list) /\ list' = L!appendAfter(list, i, v) /\ odd' = odd /\ i \in Nat
      BY <2>2, <2>8 DEF L!AppendAfter, L!Do
    <3>2. Results(list', Ins(Vals(list, q, n), n, Place(i, n), v), TRUE, Ends(list, q, n))
      BY <2>1, <3>1, AppendAfterOp
    <3> QED BY <2>1, <3>1, <3>2, ResultsKeep
  <2>9. ASSUME NEW v \in Values, NEW i \in L!Places, L!AddAt(i, v) PROVE ListInv'
    <3>1. /\ L!CanGet(list) /\ list' = L!addAt(list, i, v) /\ i \in Nat
          /\ odd' = odd \cup (IF L!BehindLast(list, i) THEN {"odd"} ELSE {})
      BY <2>2, <2>9 DEF L!AddAt
    <3>2. Results(list', Ins(Vals(list, q, n), n, Spot(i, n), v), TRUE, Ends(list, q, n) /\ ~L!BehindLast(list, i))
      BY <2>1, <3>1, AddAtOp
    <3>3. odd' = {} => Ends(list, q, n) /\ ~L!BehindLast(list, i)
      BY <2>1, <3>1
    <3> QED BY <3>2, <3>3, ResultsKeep
  <2>10. CASE L!RotateFirstLast
    <3>1. list' = L!rotateFirstLast(list) /\ odd' = odd
      BY <2>10 DEF L!RotateFirstLast, L!Do
    <3>2. CASE n = 0
      <4>1. list' = list
        BY <2>3, <3>1, <3>2 DEF L!rotateFirstLast, L!Nil
      <4> QED BY <2>4, <3>1, <4>1
    <3>3. CASE n # 0
      <4>1. Results(list', Taken(Vals(list, q, n), Turned(n), n), Ends(list, q, n), Ends(list, q, n))
        BY <2>1, <3>1, <3>3, RotateOp
      <4> QED BY <2>1, <3>1, <4>1, ResultsKeep
    <3> QED BY <3>2, <3>3
  <2>11. CASE L!TakeFirst
    <3>1. list' = L!takeFirst(list) /\ odd' = odd
      BY <2>11 DEF L!TakeFirst, L!Do
    <3>2. CASE n = 0
      <4>1. list' = list
        BY <2>3, <3>1, <3>2 DEF L!takeFirst, L!Nil
      <4> QED BY <2>4, <3>1, <4>1
    <3>3. CASE n # 0
      <4>1. Results(list', Taken(Vals(list, q, n), Without1(n, 1), n - 1), TRUE, Ends(list, q, n))
        BY <2>1, <3>1, <3>3, TakeFirstOp
      <4> QED BY <2>1, <3>1, <4>1, ResultsKeep
    <3> QED BY <3>2, <3>3
  <2>12. ASSUME NEW i \in L!Places, L!DeleteAt(i) PROVE ListInv'
    <3>1. list' = L!deleteAt(list, i) /\ i \in Nat /\ (odd' = {} => odd = {})
      BY <2>2, <2>12 DEF L!DeleteAt
    <3>2. Results(list', Remaining(Vals(list, q, n), i, n), i # n \/ n = 0, Ends(list, q, n))
      BY <2>1, <3>1, DeleteAtOp
    <3> QED BY <2>1, <3>1, <3>2, ResultsKeep
  <2> QED BY <1>2, <2>5, <2>6, <2>7, <2>8, <2>9, <2>10, <2>11, <2>12
<1> QED BY <1>1, <1>2 DEF L!Next

LEMMA ListIsSound == ASSUME L!ListsAssumption, ListInv PROVE L!ListSound
<1>1. L!Consistent
  <2> SUFFICES ASSUME odd = {}
      PROVE  /\ list.size = Len(L!Items(list))
             /\ list.last = IF list.first = 0 THEN 0 ELSE L!Walk(list, list.first, MaxObjects)
    BY DEF L!Consistent, L!Nil
  <2>1. PICK q, n : Good(list, q, n) /\ Ends(list, q, n)
    BY DEF ListInv
  <2>2. Line(list, q, n) /\ n \in Nat /\ (list.first = 0 <=> n = 0) /\ n <= MaxObjects /\ MaxObjects \in Nat
    <3>1. Line(list, q, n) /\ MaxObjects \in Nat
      BY <2>1 DEF Good, L!ListsAssumption
    <3> QED BY <2>1, <3>1, GoodSays, LineFits
  <2>3. Len(L!Items(list)) = n
    <3>1. L!Items(list) = [i \in 1..n |-> list.ptr[q[i]]]
      BY <2>2, ItemsAre DEF Vals
    <3> QED BY <2>2, <3>1
  <2>4. n # 0 => L!Walk(list, list.first, MaxObjects) = q[n]
    <3>1. Place(MaxObjects, n) = n
      BY <2>2 DEF Place
    <3> QED BY <2>2, <3>1, WalkIs
  <2> QED BY <2>1, <2>2, <2>3, <2>4 DEF Ends
<1>2. L!WalksSafe
  <2> SUFFICES ASSUME "null" \notin odd
      PROVE  /\ list.first = 0 \/ list.next[L!Walk(list, list.first, MaxObjects)] = 0
             /\ L!Linked \subseteq list.live \ L!Pool
    BY DEF L!WalksSafe, L!Nil
  <2>1. PICK q, n : Good(list, q, n)
    BY DEF ListInv
  <2>2. Line(list, q, n) /\ n \in Nat /\ (list.first = 0 <=> n = 0) /\ n <= MaxObjects /\ MaxObjects \in Nat
    <3>1. Line(list, q, n) /\ MaxObjects \in Nat
      BY <2>1 DEF Good, L!ListsAssumption
    <3> QED BY <2>1, <3>1, GoodSays, LineFits
  <2>3. list.first = 0 \/ list.next[L!Walk(list, list.first, MaxObjects)] = 0
    <3>1. Place(MaxObjects, n) = n
      BY <2>2 DEF Place
    <3>2. n # 0 => L!Walk(list, list.first, MaxObjects) = q[n]
      BY <2>2, <3>1, WalkIs
    <3>3. n # 0 => list.next[q[n]] = 0
      BY <2>1, <2>2, GoodSays
    <3> QED BY <2>2, <3>2, <3>3
  <2>4. L!Pool = PoolOf(list)
    BY DEF L!Pool, PoolOf
  <2>5. ASSUME NEW o \in L!Linked PROVE o \in list.live \ L!Pool
    <3>1. n # 0
      BY <2>2, <2>5 DEF L!Linked, L!Nil
    <3>2. PICK k \in 0..MaxObjects : o = L!Walk(list, list.first, k)
      BY <2>2, <3>1 DEF L!Linked, L!Nil
    <3>3. k \in Nat /\ Place(k, n) \in 1..n
      BY <2>2, <3>1 DEF Place
    <3>4. o = q[Place(k, n)]
      BY <2>2, <3>1, <3>2, <3>3, WalkIs
    <3>5. Owned(list, o)
      BY <2>1, <3>3, <3>4 DEF Good
    <3> QED BY <2>4, <3>5 DEF Owned
  <2> QED BY <2>3, <2>5
<1>3. L!IsSequence
  <2> SUFFICES ASSUME odd = {} PROVE L!IsSequence
    BY DEF L!IsSequence
  <2>1. PICK q, n : Good(list, q, n) /\ Ends(list, q, n)
    BY DEF ListInv
  <2> DEFINE s == L!Items(list)
  <2>2. s = Vals(list, q, n)
    BY <2>1, ItemsAre DEF Good
  <2>3. n \in Nat /\ s \in [1..n -> Values]
    BY <2>1, <2>2, GoodSays DEF Good, Owned, Vals
  <2>4. s \in Seq(Values) /\ Len(s) = n /\ DOMAIN s = 1..n /\ (s # <<>> <=> n # 0)
    <3> HIDE DEF s
    <3> QED BY <2>3, IsSequenceOf
  <2>0. L!Places \subseteq Nat
    BY DEF L!Places
  <2> HIDE DEF s
  <2>5. s # <<>> => L!Items(L!takeFirst(list)) = Tail(s)
    <3> SUFFICES ASSUME n # 0 PROVE L!Items(L!takeFirst(list)) = Tail(s)
      BY <2>4
    <3>1. Results(L!takeFirst(list), Taken(s, Without1(n, 1), n - 1), TRUE, Ends(list, q, n))
      BY <2>1, <2>2, TakeFirstOp
    <3> QED BY <2>3, <3>1, ItemsAfter, TailIs
  <2>6. s # <<>> => L!Items(L!rotateFirstLast(list)) = Append(Tail(s), Head(s))
    <3> SUFFICES ASSUME n # 0 PROVE L!Items(L!rotateFirstLast(list)) = Append(Tail(s), Head(s))
      BY <2>4
    <3>1. Results(L!rotateFirstLast(list), Taken(s, Turned(n), n), Ends(list, q, n), Ends(list, q, n))
      BY <2>1, <2>2, RotateOp
    <3>2. Results(L!rotateFirstLast(list), Taken(s, Turned(n), n), TRUE, TRUE)
      BY <2>1, <3>1 DEF Results
    <3> QED BY <2>3, <3>2, ItemsAfter, TailIs
  <2>7. ASSUME NEW i \in L!Places, i # Len(s) \/ Len(s) = 0
        PROVE  L!Items(L!deleteAt(list, i)) = Remaining(s, i, n)
    <3>1. Results(L!deleteAt(list, i), Remaining(s, i, n), i # n \/ n = 0, Ends(list, q, n))
      BY <2>0, <2>1, <2>2, DeleteAtOp
    <3>2. Results(L!deleteAt(list, i), Remaining(s, i, n), TRUE, TRUE)
      BY <2>1, <2>4, <2>7, <3>1 DEF Results
    <3> QED BY <3>2, ItemsAfter
  <2>8. \A i \in L!Places : i < Len(s) => L!Items(L!deleteAt(list, i)) = L!RemoveAt(s, i + 1)
    <3> SUFFICES ASSUME NEW i \in L!Places, i < n
        PROVE  L!Items(L!deleteAt(list, i)) = L!RemoveAt(s, i + 1)
      BY <2>4
    <3>1. i + 1 \in 1..n /\ i # n
      BY <2>0, <2>3
    <3>2. L!RemoveAt(s, i + 1) = Remaining(s, i, n)
      BY <2>3, <3>1, RemoveAtIs DEF Remaining
    <3> QED BY <2>4, <2>7, <3>1, <3>2
  <2>9. \A i \in L!Places : i > Len(s) => L!Items(L!deleteAt(list, i)) = s
    <3> SUFFICES ASSUME NEW i \in L!Places, i > n
        PROVE  L!Items(L!deleteAt(list, i)) = s
      BY <2>4
    <3>1. ~(i < n) /\ i # n
      BY <2>0, <2>3
    <3> QED BY <2>4, <2>7, <3>1 DEF Remaining
  <2>10. \A v \in Values : ~(L!PassesOver(list, v) \/ L!FollowsNull(list, v)) =>
            L!Items(L!deleteAll(list, v)) = L!Without(s, v)
    <3> SUFFICES ASSUME NEW v \in Values, ~L!PassesOver(list, v), ~L!FollowsNull(list, v)
        PROVE  L!Items(L!deleteAll(list, v)) = L!Without(s, v)
      OBVIOUS
    <3> DEFINE e == TRUE
    <3>1. e \in BOOLEAN /\ (e => Ends(list, q, n) /\ ~L!PassesOver(list, v))
      BY <2>1
    <3> HIDE DEF e
    <3>2. Results(L!deleteAll(list, v), L!Without(s, v), e, e)
      BY <2>1, <2>2, <3>1, DeleteAllOp
    <3>3. Results(L!deleteAll(list, v), L!Without(s, v), TRUE, TRUE)
      BY <3>2 DEF e
    <3> QED BY <3>3, ItemsAfter
  <2>11. ASSUME L!CanGet(list), NEW v \in Values
         PROVE  /\ L!Items(L!addFirst(list, v)) = <<v>> \o s
                /\ L!Items(L!append(list, v)) = Append(s, v)
                /\ \A i \in L!Places : /\ L!Items(L!addAt(list, i, v)) = L!Inserted(s, i, v)
                                       /\ L!Items(L!appendAfter(list, i, v)) = L!Inserted(s, i + 1, v)
    <3>1. L!Items(L!addFirst(list, v)) = <<v>> \o s
      <4>1. Results(L!addFirst(list, v), Ins(s, n, 0, v), TRUE, Ends(list, q, n))
        BY <2>1, <2>2, <2>11, AddFirstOp
      <4> QED BY <2>3, <4>1, ItemsAfter, EndsAre
    <3>2. L!Items(L!append(list, v)) = Append(s, v)
      <4>1. Results(L!append(list, v), Ins(s, n, n, v), Ends(list, q, n), Ends(list, q, n))
        BY <2>1, <2>2, <2>11, AppendOp
      <4>2. Results(L!append(list, v), Ins(s, n, n, v), TRUE, TRUE)
        BY <2>1, <4>1 DEF Results
      <4> QED BY <2>3, <4>2, ItemsAfter, EndsAre
    <3>3. ASSUME NEW i \in L!Places PROVE L!Items(L!addAt(list, i, v)) = L!Inserted(s, i, v)
      <4> DEFINE j == Spot(i, n)
      <4>1. i \in Nat /\ j \in 0..n /\ (IF i < n THEN i + 1 ELSE n + 1) = j + 1
        BY <2>0, <2>3 DEF Spot
      <4>2. L!Inserted(s, i, v) = L!InsertAt(s, j + 1, v)
        BY <2>4, <4>1 DEF L!Inserted
      <4>3. Results(L!addAt(list, i, v), Ins(s, n, j, v), TRUE, Ends(list, q, n) /\ ~L!BehindLast(list, i))
        BY <2>1, <2>2, <2>11, <4>1, AddAtOp
      <4> HIDE DEF j
      <4> QED BY <2>3, <4>1, <4>2, <4>3, ItemsAfter, InsertAtIs
    <3>4. ASSUME NEW i \in L!Places PROVE L!Items(L!appendAfter(list, i, v)) = L!Inserted(s, i + 1, v)
      <4> DEFINE j == Place(i, n)
      <4>1. i \in Nat /\ j \in 0..n /\ (IF i + 1 < n THEN i + 1 + 1 ELSE n + 1) = j + 1
        BY <2>0, <2>3 DEF Place
      <4>2. L!Inserted(s, i + 1, v) = L!InsertAt(s, j + 1, v)
        BY <2>4, <4>1 DEF L!Inserted
      <4>3. Results(L!appendAfter(list, i, v), Ins(s, n, j, v), TRUE, Ends(list, q, n))
        BY <2>1, <2>2, <2>11, <4>1, AppendAfterOp
      <4> HIDE DEF j
      <4> QED BY <2>3, <4>1, <4>2, <4>3, ItemsAfter, InsertAtIs
    <3> QED BY <3>1, <3>2, <3>3, <3>4
  <2> QED BY <2>5, <2>6, <2>8, <2>9, <2>10, <2>11 DEF L!IsSequence, s
<1> QED BY <1>1, <1>2, <1>3 DEF L!ListSound

\* For any number of objects and values and any size of the pool: a walk along the list ends and meets
\* no object that was freed; and as long as no call was odd, m_size and m_last are right and the next call
\* changes the sequence of values the way its name says.
THEOREM ListsAreSound == Spec => []ListSound
<1> USE LibraryAssumption DEF LibraryAssumption
<1>1. L!Init => ListInv
  BY ListBegins
<1>2. ListInv /\ [L!Next]_(L!vars) => ListInv'
  BY ListGoesOn
<1>3. ListInv => L!ListSound
  BY ListIsSound
<1>4. Init => L!Init
  BY DEF Init
<1>5. [Next]_vars => [L!Next]_(L!vars)
  BY DEF Next, vars, lists, L!vars
<1> QED BY <1>1, <1>2, <1>3, <1>4, <1>5, PTL DEF Spec, ListSound
================================================================================
