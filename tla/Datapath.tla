-------------------------------- MODULE Datapath --------------------------------
(***************************************************************************)
(* The computational units as functions on words of any width: alu.py,     *)
(* mac.py, shifter.py, dag.py, conditions.py and the arithmetic of         *)
(* divide_sign.py and divide_quotient.py.  A word is the number its bits   *)
(* spell; the code's widths are W = 16, Guard = 8, Exponent = 8, Block = 5 *)
(* and Address = 14.                                                       *)
(***************************************************************************)
EXTENDS Integers, FiniteSets, FiniteSetsExt

CONSTANTS W,          \* a data word
          Guard,      \* MR2
          Exponent,   \* SE
          Block,      \* SB
          Address     \* I, M and L

ASSUME DatapathConstants == {W, Guard, Exponent, Block, Address} \subseteq Nat \ {0}

Word == 0 .. 2 ^ W - 1

Negative(v, w) == v >= 2 ^ (w - 1)

Signed(v, w) == IF Negative(v, w) THEN v - 2 ^ w ELSE v

Complement(v) == 2 ^ W - 1 - v

Bit(v, n) == (v \div 2 ^ n) % 2 = 1

Number(flag) == IF flag THEN 1 ELSE 0

\* The bits of a word that are set, and the word they spell.
Bits(v, width) == {n \in 0 .. width - 1 : Bit(v, n)}

FromBits(bits) == SumSet({2 ^ n : n \in bits})

Clamp(n, low, high) == IF n < low THEN low ELSE IF n > high THEN high ELSE n

-----------------------------------------------------------------------------
(* ALU *)

\* The sum, the carry out of the sign position and whether it differs from the
\* carry into it.
Sum(left, right, carry) ==
  LET total == left + right + carry
      low == (left % 2 ^ (W - 1)) + (right % 2 ^ (W - 1)) + carry
      out == total >= 2 ^ W
  IN [raw |-> total % 2 ^ W, ac |-> out, av |-> Negative(low, W) # out]

Logical(v) == [raw |-> v, ac |-> FALSE, av |-> FALSE]

\* compute_alu before the destination is chosen; AMF 0x10 to 0x1F in order.
AluRaw(f, x, y, c) ==
  CASE f = "Y" -> Logical(y)
    [] f = "Y+1" -> Sum(y, 0, 1)
    [] f = "X+Y+C" -> Sum(x, y, c)
    [] f = "X+Y" -> Sum(x, y, 0)
    [] f = "NOT Y" -> Logical(Complement(y))
    [] f = "-Y" -> Sum(0, Complement(y), 1)
    [] f = "X-Y+C-1" -> Sum(x, Complement(y), c)
    [] f = "X-Y" -> Sum(x, Complement(y), 1)
    [] f = "Y-1" -> Sum(y, 2 ^ W - 1, 0)
    [] f = "Y-X" -> Sum(y, Complement(x), 1)
    [] f = "Y-X+C-1" -> Sum(y, Complement(x), c)
    [] f = "NOT X" -> Logical(Complement(x))
    [] f = "AND" -> Logical(FromBits(Bits(x, W) \cap Bits(y, W)))
    [] f = "OR" -> Logical(FromBits(Bits(x, W) \cup Bits(y, W)))
    [] f = "XOR" -> Logical(FromBits({n \in 0 .. W - 1 : Bit(x, n) # Bit(y, n)}))
    [] f = "ABS" -> [raw |-> IF Negative(x, W) THEN (2 ^ W - x) % 2 ^ W ELSE x,
                     ac |-> FALSE, av |-> x = 2 ^ (W - 1)]

CarryFunctions == {"X+Y+C", "X-Y+C-1", "Y-X+C-1"}

YFunctions == {"Y", "Y+1", "NOT Y", "-Y", "Y-1"}

XFunctions == {"NOT X", "ABS"}

AluFunctions == YFunctions \cup XFunctions \cup CarryFunctions \cup
                {"X+Y", "X-Y", "Y-X", "AND", "OR", "XOR"}

\* Mutant: the overflow flag stands in for the carry.
SaturateByOverflow(r) ==
  IF r.av THEN IF r.raw % 2 = 1 THEN 2 ^ (W - 1) ELSE 2 ^ (W - 1) - 1 ELSE r.raw

\* AR saturation: the carry is the sign of the exact result.
Saturate(r) ==
  IF r.av THEN IF r.ac THEN 2 ^ (W - 1) ELSE 2 ^ (W - 1) - 1 ELSE r.raw

-----------------------------------------------------------------------------
(* Conditions *)

\* evaluate_if_condition on the flags of the cycle before.
IfCondition(code, flag, notExpired) ==
  LET less == flag["AN"] # flag["AV"]
  IN CASE code = "EQ" -> flag["AZ"]
       [] code = "NE" -> ~flag["AZ"]
       [] code = "GT" -> ~(less \/ flag["AZ"])
       [] code = "LE" -> less \/ flag["AZ"]
       [] code = "LT" -> less
       [] code = "GE" -> ~less
       [] code \in {"AV", "AC", "MV"} -> flag[code]
       [] code = "NOT AV" -> ~flag["AV"]
       [] code = "NOT AC" -> ~flag["AC"]
       [] code = "NOT MV" -> ~flag["MV"]
       [] code = "NEG" -> flag["AS"]
       [] code = "POS" -> ~flag["AS"]
       [] code = "NOT CE" -> notExpired
       [] code = "TRUE" -> TRUE

ConditionCodes == {"EQ", "NE", "GT", "LE", "LT", "GE", "AV", "NOT AV", "AC", "NOT AC",
                   "NEG", "POS", "MV", "NOT MV", "NOT CE", "TRUE"}

\* The flags a condition reads.
FlagsOf(code) ==
  CASE code \in {"EQ", "NE"} -> {"AZ"}
    [] code \in {"GT", "LE"} -> {"AZ", "AN", "AV"}
    [] code \in {"LT", "GE"} -> {"AN", "AV"}
    [] code \in {"AV", "NOT AV"} -> {"AV"}
    [] code \in {"AC", "NOT AC"} -> {"AC"}
    [] code \in {"NEG", "POS"} -> {"AS"}
    [] code \in {"MV", "NOT MV"} -> {"MV"}
    [] OTHER -> {}

-----------------------------------------------------------------------------
(* MAC *)

MR == 2 * W + Guard

\* operation 1, 2, 3: the product, MR plus it, MR minus it.
MacFunctions ==
  [op : 1..3, xSigned : {TRUE}, ySigned : {TRUE}, round : {TRUE}]
    \cup [op : 1..3, xSigned : BOOLEAN, ySigned : BOOLEAN, round : {FALSE}]

\* Mutant: a tie rounds up.
RoundUp(v) == (((v + 2 ^ (W - 1)) \div 2 ^ W) * 2 ^ W) % 2 ^ MR

\* Half a word rounds to the even neighbour.
RoundToEven(v) ==
  LET lower == v % 2 ^ W
      upper == v \div 2 ^ W
      up == lower > 2 ^ (W - 1) \/ (lower = 2 ^ (W - 1) /\ upper % 2 = 1)
  IN ((upper + Number(up)) * 2 ^ W) % 2 ^ MR

Factor(v, signed) == IF signed THEN Signed(v, W) ELSE v

\* The fractional product, aligned by one bit.
Product(f, x, y) == 2 * Factor(x, f.xSigned) * Factor(y, f.ySigned)

\* compute_mac.
Mac(f, x, y, mr) ==
  LET sum == CASE f.op = 1 -> Product(f, x, y)
               [] f.op = 2 -> mr + Product(f, x, y)
               [] f.op = 3 -> mr - Product(f, x, y)
      unrounded == sum % 2 ^ MR
  IN IF f.round THEN RoundToEven(unrounded) ELSE unrounded

\* MV: the guard bits and the sign below them are not all alike.
MacOverflow(v) == (v \div 2 ^ (2 * W - 1)) \notin {0, 2 ^ (Guard + 1) - 1}

\* SAT MR.
PositiveSaturation == 2 ^ (2 * W - 1) - 1

NegativeSaturation == 2 ^ MR - 2 ^ (2 * W - 1)

SaturateMR(mr, mv) ==
  IF ~mv THEN mr ELSE IF Negative(mr, MR) THEN NegativeSaturation ELSE PositiveSaturation

-----------------------------------------------------------------------------
(* Shifter *)

\* _shift_array: the operand in a double word, its lower end at the reference,
\* the extension to its left.
Shifted(operand, shift, high, extension) ==
  LET reference == (IF high THEN W ELSE 0) + shift
      spread == Signed(operand + (IF extension THEN 2 ^ (2 * W) - 2 ^ W ELSE 0), 2 * W)
  IN IF reference >= 0
       THEN (spread * 2 ^ reference) % 2 ^ (2 * W)
       ELSE (spread \div 2 ^ (-reference)) % 2 ^ (2 * W)

\* Minus the number of bits after the sign that repeat it.
HiExponent(x) ==
  LET differs == {n \in 0 .. W - 2 : Bit(x, n) # Bit(x, W - 1)}
  IN IF differs = {} THEN 1 - W ELSE Max(differs) - (W - 2)

\* The exponent of a double word whose high part is all sign.
LoExponent(x, sign) ==
  LET differs == {n \in 0 .. W - 1 : Bit(x, n) # sign}
  IN (1 - W) - (IF differs = {} THEN W ELSE (W - 1) - Max(differs))

\* SF 0 to 0xB: what, whether the high word is the reference, whether the old
\* SR is or-ed in.
ShiftFunctions == [op : {"LSHIFT", "ASHIFT", "NORM"}, high : BOOLEAN, or : BOOLEAN]

\* Mutant: NORM HI extends by the sign of the operand.
ShiftBySign(f, x, shift, sr, ac) ==
  LET s == Shifted(x, IF f.op = "NORM" THEN -shift ELSE shift, f.high, Negative(x, W))
  IN IF f.or THEN FromBits(Bits(sr, 2 * W) \cup Bits(s, 2 * W)) ELSE s

\* NORM shifts by minus SE; its high word is extended by the ALU carry.
Shift(f, x, shift, sr, ac) ==
  LET s == Shifted(x, IF f.op = "NORM" THEN -shift ELSE shift, f.high,
                   CASE f.op = "LSHIFT" -> FALSE
                     [] f.op = "ASHIFT" -> Negative(x, W)
                     [] f.op = "NORM" -> f.high /\ ac)
  IN IF f.or THEN FromBits(Bits(sr, 2 * W) \cup Bits(s, 2 * W)) ELSE s

-----------------------------------------------------------------------------
(* Data address generators *)

\* reverse_address.
Reversed(address) ==
  FromBits({Address - 1 - n : n \in Bits(address, Address)})

BitLength(v) == CHOOSE n \in 0 .. Address : v < 2 ^ n /\ (n > 0 => v >= 2 ^ (n - 1))

\* original_base_mask.
CircularBase(i, l) == i - (i % 2 ^ BitLength(l))

NextLinear(i, m) == (i + Signed(m, Address)) % 2 ^ Address

\* configuration_valid of a circular buffer.
ConfigurationValid(i, m, l) ==
  LET modify == Signed(m, Address)
      upper == CircularBase(i, l) + l
  IN l = 0 \/ (i < upper /\ modify \in -l .. l /\ upper <= 2 ^ Address)

\* Mutant: the end of the buffer is taken for part of it.
NextPastEnd(i, m, l) ==
  LET base == CircularBase(i, l)
      next == i + Signed(m, Address)
  IN IF next < base THEN next + l ELSE IF next > base + l THEN next - l ELSE next

\* compute_dag's next I; one length is taken off or added at an end.
NextAddress(i, m, l) ==
  LET base == CircularBase(i, l)
      next == i + Signed(m, Address)
  IN IF l = 0 THEN NextLinear(i, m)
     ELSE (IF next < base THEN next + l
           ELSE IF next >= base + l THEN next - l
           ELSE next) % 2 ^ Address

-----------------------------------------------------------------------------
(* Division *)

Doubled(v, low) == ((2 * v) % 2 ^ W) + Number(low)

\* DIVS: the sign of the quotient, and the dividend moves up one bit.
DivideSign(upper, ay0, divisor) ==
  LET sign == Negative(upper, W) # Negative(divisor, W)
  IN [af |-> Doubled(upper, Negative(ay0, W)), ay0 |-> Doubled(ay0, sign), aq |-> sign]

\* Mutant: the divisor is always subtracted.
RestoringStep(s, divisor) ==
  LET r == (s.af - divisor) % 2 ^ W
      aq == Negative(r, W) # Negative(divisor, W)
  IN [af |-> Doubled(r, Negative(s.ay0, W)), ay0 |-> Doubled(s.ay0, ~aq), aq |-> aq]

\* DIVQ: AQ says whether the divisor is added back; the quotient bit is its
\* successor's complement.
DivideStep(s, divisor) ==
  LET r == (IF s.aq THEN s.af + divisor ELSE s.af - divisor) % 2 ^ W
      aq == Negative(r, W) # Negative(divisor, W)
  IN [af |-> Doubled(r, Negative(s.ay0, W)), ay0 |-> Doubled(s.ay0, ~aq), aq |-> aq]

=============================================================================
