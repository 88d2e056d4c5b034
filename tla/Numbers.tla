------------------------------ MODULE Numbers ------------------------------
(***************************************************************************)
(* The integers of the C code, of Width bits, and the conversions of       *)
(* memory.c between them and strings.  A string is a sequence of one-      *)
(* character strings.                                                      *)
(***************************************************************************)
EXTENDS Integers, SequencesExt

CONSTANT Width     \* bits of an int

Modulus == 2 ^ Width
INT_MAX == Modulus \div 2 - 1
INT_MIN == -(Modulus \div 2)

(* Half of the ints are negative. *)
ASSUME WidthAssumption == Modulus \in Nat \ {0} /\ Modulus % 2 = 0

(* What an int holds after arithmetic whose exact result is n, in two's    *)
(* complement; and its bits read as an unsigned int.                       *)
Wrap(n) == ((n - INT_MIN) % Modulus) + INT_MIN
Unsigned(n) == n % Modulus

Figures == <<"0", "1", "2", "3", "4", "5", "6", "7", "8", "9">>
IsDigit(c) == Contains(Figures, c)
DigitOf(c) == CHOOSE d \in 0 .. 9 : Figures[d + 1] = c

-----------------------------------------------------------------------------
(* The string from the given place on, and what comes before it; place 0   *)
(* is its end.                                                             *)
From(str, place) == IF place = 0 THEN <<>> ELSE SubSeq(str, place, Len(str))
Before(str, place) == SubSeq(str, 1, Len(str) - Len(From(str, place)))

skip_spaces(str) == From(str, SelectInSeq(str, LAMBDA c : c # " "))

(* What res is after so many of the digits. *)
Accumulate(digits) ==
  LET res[i \in 0 .. Len(digits)] ==
        IF i = 0 THEN 0 ELSE Wrap(res[i - 1] * 10 + DigitOf(digits[i]))
  IN  res[Len(digits)]

(* One sign at most, then digits up to whatever is none. *)
atoi(str) ==
  LET signed == str # <<>> /\ Head(str) \in {"-", "+"}
      rest == IF signed THEN Tail(str) ELSE str
      number == Accumulate(Before(rest, SelectInSeq(rest, LAMBDA c : ~IsDigit(c))))
  IN  IF signed /\ Head(str) = "-" THEN Wrap(-number) ELSE number

utoa[n \in Nat] ==
  IF n < 10 THEN <<Figures[n + 1]>> ELSE Append(utoa[n \div 10], Figures[(n % 10) + 1])

(* A faulty variant: the smallest int has no opposite that is an int. *)
itoaOfOpposite(value) ==
  IF value < 0 THEN <<"-">> \o utoa[Unsigned(Wrap(-value) % (INT_MAX + 1))] ELSE utoa[value]

(* In base 10: the opposite of a negative number is read as unsigned. *)
itoa(value) ==
  IF value < 0 THEN <<"-">> \o utoa[Unsigned(Wrap(-value))] ELSE utoa[value]

(* %d and %u of terminal_printf, with the flags and width of the format.   *)
(* (Of a %d that would pad a negative number with zeros there is none.)    *)
Fill(c, digits, width) == [i \in 1 .. width - Len(digits) |-> c]

printf_number(digits, zero_pad, left_justify, width) ==
  (IF zero_pad THEN Fill("0", digits, width)
   ELSE IF left_justify THEN <<>> ELSE Fill(" ", digits, width))
  \o digits
  \o (IF left_justify THEN Fill(" ", digits, width) ELSE <<>>)
=============================================================================
