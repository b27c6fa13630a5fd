--------------------------------- MODULE Divide ---------------------------------
(***************************************************************************)
(* Division of 64 bit numbers on a 32 bit processor (src/math.cpp): the     *)
(* compiler calls __udivdi3(), __umoddi3(), __divdi3() and __moddi3() for   *)
(* it, and all of them shift and subtract in my__udivmoddi4().  Numbers are *)
(* bit patterns of W bits.                                                  *)
(***************************************************************************)
EXTENDS Integers

CONSTANT W   \* bits of a number

WidthAssumption == W \in Nat \ {0}

Size == 2^W
Half == 2^(W - 1)

Patterns == 0..(Size - 1)
Ops == {"udiv", "umod", "div", "mod"}

VARIABLES
  pc,          \* "idle", "entry", "justify", "loop", "done" or "trap"
  op, x, y,    \* the function called and its arguments
  minus,       \* the result is to be negated
  num, den, qbit, quot,   \* of my__udivmoddi4(); num becomes the remainder
  result

vars == <<pc, op, x, y, minus, num, den, qbit, quot, result>>

\* A pattern as a signed number, and the pattern of -v.
Signed(v) == IF v >= Half THEN v - Size ELSE v
Negated(v) == (Size - v) % Size

IsSigned == op \in {"div", "mod"}

Init ==
  /\ pc = "idle" /\ op = "udiv" /\ x = 0 /\ y = 0 /\ minus = FALSE
  /\ num = 0 /\ den = 0 /\ qbit = 0 /\ quot = 0 /\ result = 0

\* The signed functions divide absolute values.
Call(o, a, b) ==
  LET sign(v) == o \in {"div", "mod"} /\ Signed(v) < 0
  IN  /\ pc = "idle"
      /\ op' = o /\ x' = a /\ y' = b
      /\ num' = IF sign(a) THEN Negated(a) ELSE a
      /\ den' = IF sign(b) THEN Negated(b) ELSE b
      /\ minus' = (sign(a) # sign(b))
      /\ quot' = 0 /\ qbit' = 1
      /\ pc' = "entry"
      /\ UNCHANGED result

\* "Intentional divide by zero": an exception.
Entry ==
  /\ pc = "entry"
  /\ pc' = IF den = 0 THEN "trap" ELSE "justify"
  /\ UNCHANGED <<op, x, y, minus, num, den, qbit, quot, result>>

\* Mutant: the sign bit is not filled.
JustifyLess ==
  /\ pc = "justify"
  /\ IF 2 * den < Half
     THEN /\ den' = (2 * den) % Size /\ qbit' = (2 * qbit) % Size
          /\ UNCHANGED pc
     ELSE pc' = "loop" /\ UNCHANGED <<den, qbit>>
  /\ UNCHANGED <<op, x, y, minus, num, quot, result>>

\* Left-justify the denominator and count the shift.
Justify ==
  /\ pc = "justify"
  /\ IF Signed(den) >= 0
     THEN /\ den' = (2 * den) % Size /\ qbit' = (2 * qbit) % Size
          /\ UNCHANGED pc
     ELSE pc' = "loop" /\ UNCHANGED <<den, qbit>>
  /\ UNCHANGED <<op, x, y, minus, num, quot, result>>

Loop ==
  /\ pc = "loop" /\ qbit # 0
  /\ IF den <= num
     THEN num' = num - den /\ quot' = (quot + qbit) % Size
     ELSE UNCHANGED <<num, quot>>
  /\ den' = den \div 2 /\ qbit' = qbit \div 2
  /\ UNCHANGED <<pc, op, x, y, minus, result>>

Return ==
  /\ pc = "loop" /\ qbit = 0
  /\ LET v == IF op \in {"udiv", "div"} THEN quot ELSE num
     IN  result' = IF minus THEN Negated(v) ELSE v
  /\ pc' = "done"
  /\ UNCHANGED <<op, x, y, minus, num, den, qbit, quot>>

\* The caller goes on, or the exception stops the machine.
Ended == pc \in {"done", "trap"} /\ UNCHANGED vars

Next ==
  \/ \E o \in Ops, a \in Patterns, b \in Patterns : Call(o, a, b)
  \/ Entry \/ Justify \/ Loop \/ Return \/ Ended

Spec == Init /\ [][Next]_vars

-----------------------------------------------------------------------------
(* Properties                                                                *)

Abs(v) == IF v < 0 THEN -v ELSE v
Value(v) == IF IsSigned THEN Signed(v) ELSE v

\* In every round of the loop what has been taken away is quot times the
\* denominator, the denominator is y * qbit, and what is left is less than twice
\* that: one bit of the quotient is decided, and no more.
LoopInvariant ==
  pc \in {"justify", "loop"} =>
    LET a == Abs(Value(x))
        b == Abs(Value(y))
    IN  /\ quot * b + num = a
        /\ qbit # 0 => den = b * qbit
        /\ pc = "loop" => num < (IF qbit = 0 THEN b ELSE 2 * den)

\* The functions return the quotient rounded towards zero and the remainder that
\* goes with it, the smallest number included; the quotient of that and -1 is
\* itself.  A remainder is only right for a divisor above zero: a negative one
\* turns its sign over, where C leaves the sign of the numerator.
TruncQuotient(a, b) == (IF (a < 0) # (b < 0) THEN -1 ELSE 1) * (Abs(a) \div Abs(b))
DivisionRight ==
  pc = "done" =>
    LET a == Value(x)
        b == Value(y)
        q == TruncQuotient(a, b)
    IN  /\ op \in {"udiv", "div"} => result = q % Size
        /\ op \in {"umod", "mod"} /\ b > 0 => Value(result) = a - q * b

\* Round by round and in the end the division is right.
DivideSound == LoopInvariant /\ DivisionRight
=================================================================================
