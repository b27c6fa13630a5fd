---------------------------------- MODULE Printf ---------------------------------
(***************************************************************************)
(* Video::vprintf() and the numbers it prints (src/video.cpp): the format is *)
(* read character by character, the arguments are words on the stack.  The  *)
(* caller passes what C asks for: one word, or two for a long long.  The    *)
(* cursor belongs to Display; the kernel's formats have no \r, \b or \t.     *)
(***************************************************************************)
EXTENDS Integers, Sequences

CONSTANTS
  W,          \* bits of a word
  MaxFormat,  \* bound: characters of a format
  MaxOwed     \* bound: words passed and not taken

PrintAssumption == W \in Nat \ {0} /\ MaxFormat \in Nat /\ MaxOwed \in Nat

Size  == 2^W
Half  == 2^(W - 1)
Words == 0..(Size - 1)

Minus == -1                  \* the character '-'; a digit is its number
Conversions == {"s", "c", "d", "u", "x"}
Nothing == [conv |-> "none", own |-> <<>>, read |-> <<>>, text |-> <<>>]

VARIABLES
  n,            \* characters of the format that were read
  format_char, l_cnt, fmtcnt,
  owed,         \* words that the caller passed and nobody has taken
  last,         \* the conversion just done
  asked,        \* the l and the width that the conversion has in the format
  odd           \* a %lld or a conversion with three l was in the format

vars == <<n, format_char, l_cnt, fmtcnt, owed, last, asked, odd>>

-----------------------------------------------------------------------------
(* Numbers                                                                   *)

Zeros(k) == [i \in 1..k |-> 0]

print_prenull(cnt, want) == Zeros(IF cnt < want THEN IF want - cnt > 255 THEN 255 ELSE want - cnt ELSE 0)

\* The loop that counts digits, and the one that takes them from the end.
DigitCount(val, radix) ==
  LET count[v \in 0..val] == IF v = 0 THEN 0 ELSE 1 + count[v \div radix]
  IN  IF val <= 0 THEN 0 ELSE count[val]

LastDigits(val, radix, l) ==
  LET left[k \in 0..l] == IF k = 0 THEN val ELSE left[k - 1] \div radix
  IN  [i \in 1..l |-> left[l - i] % radix]

print_ull(val, radix, want) ==
  LET l == DigitCount(val, radix)
  IN  IF val = 0 THEN print_prenull(1, want) \o <<0>>
      ELSE print_prenull(l, want) \o LastDigits(val, radix, l)

\* The smallest number stays below zero when it is negated: it has no digits.
print_l(val, radix, want) ==
  LET negated == IF val = -Half THEN val ELSE -val
      v == IF val < 0 THEN negated ELSE val
      l == DigitCount(v, radix) + (IF val < 0 THEN 1 ELSE 0)
      s == IF v < 0 THEN <<Minus>> ELSE LastDigits(v, radix, l)
  IN  IF val = 0 THEN print_prenull(1, want) \o <<0>>
      ELSE print_prenull(l, want) \o (IF val < 0 THEN [s EXCEPT ![1] = Minus] ELSE s)

-----------------------------------------------------------------------------
(* vprintf()                                                                 *)

Unsigned(ws) == IF Len(ws) = 2 THEN ws[1] + Size * ws[2] ELSE ws[1]
Signed(w) == IF w >= Half THEN w - Size ELSE w

\* Words that the caller passes for a conversion.
Passed(conv) == IF conv \in {"d", "u", "x"} /\ asked.ls = 2 THEN 2 ELSE 1

\* Mutant: a long long is taken for a long.
TakenShort(conv) == IF conv \in {"u", "x"} /\ l_cnt > 2 THEN 0 ELSE 1

\* Words that va_arg() takes.
Taken(conv) ==
  CASE conv \in {"s", "c", "d"} -> 1
    [] conv \in {"u", "x"} -> IF l_cnt > 2 THEN 0 ELSE IF l_cnt = 2 THEN 2 ELSE 1

\* What is printed: a string or a character is opaque, one character long.
Text(conv, ws) ==
  CASE conv \in {"s", "c"} -> ws
    [] conv = "d" -> print_l(Signed(ws[1]), 10, fmtcnt)
    [] conv \in {"u", "x"} /\ ws # <<>> -> print_ull(Unsigned(ws), IF conv = "x" THEN 16 ELSE 10, fmtcnt)
    [] OTHER -> <<>>

Init ==
  /\ n = 0 /\ format_char = FALSE /\ l_cnt = 0 /\ fmtcnt = 0
  /\ owed = <<>> /\ last = Nothing /\ odd = FALSE
  /\ asked = [ls |-> 0, width |-> 0]

Read == n < MaxFormat /\ n' = n + 1

\* An ordinary character, a newline included.
Plain ==
  /\ Read /\ ~format_char
  /\ last' = Nothing
  /\ UNCHANGED <<format_char, l_cnt, fmtcnt, owed, asked, odd>>

Percent ==
  /\ Read /\ ~format_char
  /\ format_char' = TRUE /\ l_cnt' = 0 /\ fmtcnt' = 0
  /\ asked' = [ls |-> 0, width |-> 0]
  /\ last' = Nothing
  /\ UNCHANGED <<owed, odd>>

PercentPercent ==
  /\ Read /\ format_char
  /\ format_char' = FALSE
  /\ last' = Nothing
  /\ UNCHANGED <<l_cnt, fmtcnt, owed, asked, odd>>

Long ==
  /\ Read /\ format_char
  /\ l_cnt' = l_cnt + 1 /\ asked' = [asked EXCEPT !.ls = @ + 1]
  /\ last' = Nothing
  /\ UNCHANGED <<format_char, fmtcnt, owed, odd>>

Digit(d) ==
  /\ Read /\ format_char
  /\ fmtcnt' = fmtcnt * 10 + d /\ asked' = [asked EXCEPT !.width = @ * 10 + d]
  /\ last' = Nothing
  /\ UNCHANGED <<format_char, l_cnt, owed, odd>>

\* Any other character of a conversion, a point say, is passed over.
Ignored ==
  /\ Read /\ format_char
  /\ last' = Nothing
  /\ UNCHANGED <<format_char, l_cnt, fmtcnt, owed, asked, odd>>

\* A conversion with the words that the caller passed for it.
Convert(conv, own) ==
  /\ Read /\ format_char
  /\ Len(own) = Passed(conv)
  /\ LET all  == owed \o own
         took == Taken(conv)
         ws   == SubSeq(all, 1, took)
         text == Text(conv, ws)
     IN  /\ Len(all) - took <= MaxOwed
         /\ owed' = SubSeq(all, took + 1, Len(all))
         /\ last' = [conv |-> conv, own |-> own, read |-> ws, text |-> text]
  /\ odd' = (odd \/ (conv = "d" /\ asked.ls = 2) \/ (conv \in {"u", "x"} /\ asked.ls > 2))
  /\ format_char' = FALSE
  /\ UNCHANGED <<l_cnt, fmtcnt, asked>>

\* The end of the format.
End == UNCHANGED vars

Next ==
  \/ Plain \/ Percent \/ PercentPercent \/ Long \/ Ignored
  \/ \E d \in {0, 2} : Digit(d)
  \/ \E conv \in Conversions, k \in {1, 2} : \E own \in [1..k -> Words] : Convert(conv, own)
  \/ End

Spec == Init /\ [][Next]_vars

-----------------------------------------------------------------------------
(* Properties                                                                *)

IsNumber == last.conv \in {"d", "u", "x"} /\ last.read # <<>>
Printed == IF last.conv = "d" THEN Signed(last.read[1]) ELSE Unsigned(last.read)

\* The number that digits stand for.
Number(ds, radix) ==
  LET value[i \in 0..Len(ds)] == IF i = 0 THEN 0 ELSE value[i - 1] * radix + ds[i]
  IN  value[Len(ds)]

\* The text of a number is zeros up to the width in the format (255 at most), a
\* minus sign if it is negative, and its digits without a zero too many.  (The zeros stand before the
\* sign.)  The smallest number of a word is printed as a sign alone.
NumberRight ==
  IsNumber /\ Printed # -Half =>
    \E k \in 0..Len(last.text) :
      LET body == SubSeq(last.text, k + 1, Len(last.text))
          neg  == Printed < 0
          ds   == IF neg THEN Tail(body) ELSE body
      IN  /\ \A i \in 1..k : last.text[i] = 0
          /\ body # <<>> /\ (neg => body[1] = Minus) /\ ds # <<>>
          /\ \A i \in DOMAIN ds : ds[i] \in 0..15
          /\ Number(ds, IF last.conv = "x" THEN 16 ELSE 10) = (IF neg THEN -Printed ELSE Printed)
          /\ ds[1] # 0 \/ (Printed = 0 /\ ds = <<0>>)
          /\ LET missing == asked.width - Len(body)
             IN  k = (IF missing < 0 THEN 0 ELSE IF missing > 255 THEN 255 ELSE missing)

\* Every conversion takes the words that were passed for it, whatever came before,
\* until the format has a %lld, which takes one of two words, or a conversion with
\* three l, which takes none.
OwnArgument == last # Nothing /\ ~odd => last.read = last.own

\* A conversion prints the argument it stands for, and prints it right.
PrintsRight == NumberRight /\ OwnArgument
=================================================================================
