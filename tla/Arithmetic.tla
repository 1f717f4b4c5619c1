----------------------------- MODULE Arithmetic ------------------------------
(***************************************************************************)
(* Addition, subtraction and comparison of the 65816 executor              *)
(* (src/execute.c): bcd_add, bcd_subtract, execute_adc, execute_sbc and    *)
(* execute_compare, in both widths, on an accumulator that keeps its value *)
(* from one instruction to the next.                                       *)
(***************************************************************************)
EXTENDS Integers

CONSTANTS Digits,     \* hexadecimal digits: 2 with the memory flag, else 4
          Rights      \* operands

VARIABLES alu,        \* [a: accumulator, c, d, v: the status bits]
          executed    \* the instruction that led here: name, operand, alu before

aluVars == <<alu, executed>>

\* What a digit of each place counts, in base sixteen and ten.
PlacesOf(base) ==
  LET place[k \in 0 .. Digits] == IF k = 0 THEN 1 ELSE base * place[k - 1]
  IN place
Hex == PlacesOf(16)
Ten == PlacesOf(10)
Base == Hex[Digits]

ASSUME AluAssumption == Digits \in {2, 4} /\ Rights \subseteq 0 .. Base - 1

Sign(value) == value >= Base \div 2
Digit(value, k) == (value \div Hex[k]) % 16
Bit(condition) == IF condition THEN 1 ELSE 0

\* The digits of the loop, lowest first: its sum before and its carry after
\* the decimal correction.
Sums(left, right, carry) ==
  LET sum[k \in 0 .. Digits - 1] ==
        Digit(left, k) + Digit(right, k) + (IF k = 0 THEN Bit(carry) ELSE Bit(sum[k - 1] > 9))
  IN sum

Differences(left, right, carry) ==
  LET difference[k \in 0 .. Digits - 1] ==
        Digit(left, k) - Digit(right, k) - (IF k = 0 THEN Bit(~carry) ELSE Bit(difference[k - 1] < 0))
  IN difference

\* What digits spell when each counts as much as its place.
Weighed(digit, place) ==
  LET value[k \in 0 .. Digits] == IF k = 0 THEN 0 ELSE value[k - 1] + digit[k - 1] * place[k - 1]
  IN value[Digits]
Packed(digit) == Weighed(digit, Hex)

\* Mutant: a digit of ten is left.
CorrectedAboveTen(sum) == IF sum > 10 THEN (sum + 6) % 16 ELSE sum
Corrected(sum) == IF sum > 9 THEN (sum + 6) % 16 ELSE sum
Borrowed(difference) == IF difference < 0 THEN (difference - 6) % 16 ELSE difference

\* Overflow of an addition whose result has the given sign.
Overflows(left, right, sign) == Sign(left) = Sign(right) /\ Sign(left) # sign

BcdAdd(left, right, carry) ==
  LET sum == Sums(left, right, carry) IN
  [a |-> Packed([k \in 0 .. Digits - 1 |-> Corrected(sum[k])]),
   c |-> sum[Digits - 1] > 9,
   v |-> Overflows(left, right, (sum[Digits - 1] \div 8) % 2 = 1)]

BcdSubtract(left, right, carry) ==
  LET difference == Differences(left, right, carry) IN
  [a |-> Packed([k \in 0 .. Digits - 1 |-> Borrowed(difference[k])]),
   c |-> difference[Digits - 1] >= 0]

ExecuteAdc(s, right) ==
  LET sum == s.a + right + Bit(s.c)
      bcd == BcdAdd(s.a, right, s.c) IN
  IF s.d THEN [s EXCEPT !.a = bcd.a, !.c = bcd.c, !.v = bcd.v]
  ELSE [s EXCEPT !.a = sum % Base, !.c = sum >= Base, !.v = Overflows(s.a, right, Sign(sum % Base))]

\* The overflow of a subtraction is the binary one, also in decimal mode.
ExecuteSbc(s, right) ==
  LET difference == s.a - right - Bit(~s.c)
      overflow == Sign(s.a) # Sign(right) /\ Sign(s.a) # Sign(difference % Base)
      bcd == BcdSubtract(s.a, right, s.c) IN
  IF s.d THEN [s EXCEPT !.a = bcd.a, !.c = bcd.c, !.v = overflow]
  ELSE [s EXCEPT !.a = difference % Base, !.c = s.a >= right + Bit(~s.c), !.v = overflow]

ExecuteCompare(s, right) == [s EXCEPT !.c = s.a >= right]

Did(name, right) == executed' = [name |-> name, right |-> right, was |-> alu]
Adc(right) == alu' = ExecuteAdc(alu, right) /\ Did("ADC", right)
Sbc(right) == alu' = ExecuteSbc(alu, right) /\ Did("SBC", right)
Compare(right) == alu' = ExecuteCompare(alu, right) /\ Did("CMP", right)
SetDecimal(on) == alu' = [alu EXCEPT !.d = on] /\ Did("SED", 0)

AluInit ==
  /\ alu = [a |-> 0, c |-> FALSE, d |-> FALSE, v |-> FALSE]
  /\ executed = [name |-> "CLD", right |-> 0, was |-> alu]

AluNext ==
  \/ \E right \in Rights : Adc(right) \/ Sbc(right) \/ Compare(right)
  \/ \E on \in BOOLEAN : SetDecimal(on)

AluSpec == AluInit /\ [][AluNext]_aluVars

-----------------------------------------------------------------------------
\* The reference: numbers, not digits.
Decimal(value) == \A k \in 0 .. Digits - 1 : Digit(value, k) <= 9
Number(value) == Weighed([k \in 0 .. Digits - 1 |-> Digit(value, k)], Ten)
TwosComplement(value) == IF Sign(value) THEN value - Base ELSE value
Fits(number) == -(Base \div 2) <= number /\ number < Base \div 2

\* Binary results are the sums and differences of the two numbers, with the
\* carry for the unsigned and the overflow for the signed reading.  Decimal
\* ones are those of the numbers the digits spell, as long as both spell one;
\* the carry goes from the low half of a long number to the high one.
AluMeetsReference ==
  LET was == executed.was  right == executed.right  borrow == Bit(~was.c) IN
  CASE executed.name = "ADC" /\ ~was.d ->
         /\ alu.a + Base * Bit(alu.c) = was.a + right + Bit(was.c)
         /\ alu.v = ~Fits(TwosComplement(was.a) + TwosComplement(right) + Bit(was.c))
    [] executed.name = "SBC" /\ ~was.d ->
         /\ alu.a - Base * Bit(~alu.c) = was.a - right - borrow
         /\ alu.v = ~Fits(TwosComplement(was.a) - TwosComplement(right) - borrow)
    [] executed.name = "ADC" /\ was.d /\ Decimal(was.a) /\ Decimal(right) ->
         Decimal(alu.a) /\ Number(alu.a) + Ten[Digits] * Bit(alu.c) = Number(was.a) + Number(right) + Bit(was.c)
    [] executed.name = "SBC" /\ was.d /\ Decimal(was.a) /\ Decimal(right) ->
         Decimal(alu.a) /\ Number(alu.a) - Ten[Digits] * Bit(~alu.c) = Number(was.a) - Number(right) - borrow
    [] executed.name = "CMP" -> alu.a = was.a /\ alu.c = (was.a >= right)
    [] OTHER -> TRUE
=============================================================================
