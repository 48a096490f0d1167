----------------------------- MODULE DatapathPrograms -----------------------------
(***************************************************************************)
(* The instruction sequences the computational units are made for, run on  *)
(* Datapath: a division, the normalisation of a double word, a block       *)
(* exponent, multiply-accumulation with saturation, a circular buffer and  *)
(* double-precision addition.  Each is checked against the arithmetic it   *)
(* is meant to do, for every operand of the bounded width.                 *)
(***************************************************************************)
EXTENDS Datapath, Sequences

CONSTANTS MaxTerms   \* values of a block, products of a sum, moves in a buffer

VARIABLES program,   \* which sequence runs
          pc,        \* instructions done
          given,     \* its operands
          r,         \* the registers it uses
          exact      \* what an unbounded machine would have computed

vars == <<program, pc, given, r, exact>>

Programs == {"DIVIDE", "NORMALIZE", "BLOCK", "ACCUMULATE", "BUFFER", "DOUBLE"}

AddressSpace == 0 .. 2 ^ Address - 1

\* A double word overflowed by an addition: its sign is in the carry.
Overflowed == [hi : Word, lo : Word, av : BOOLEAN]

InitDivide ==
  /\ program = "DIVIDE"
  /\ given \in [upper : Word, ay0 : Word, divisor : Word]
  /\ r = [af |-> 0, ay0 |-> given.ay0, aq |-> FALSE]

InitNormalize ==
  /\ program = "NORMALIZE"
  /\ given \in Overflowed
  /\ r = [se |-> 0, ss |-> FALSE, sr |-> 0]

InitBlock ==
  /\ program = "BLOCK"
  /\ given = [values |-> {}]
  /\ r = [sb |-> -W]

InitAccumulate ==
  /\ program = "ACCUMULATE"
  /\ given = [last |-> "NONE"]
  /\ r = [mr |-> 0, mv |-> FALSE]

InitBuffer ==
  /\ program = "BUFFER"
  /\ given \in [start : AddressSpace, length : 1 .. 2 ^ (Address - 1)]
  /\ ConfigurationValid(given.start, 0, given.length)
  /\ r = [i |-> given.start]

InitDouble ==
  /\ program = "DOUBLE"
  /\ given \in [xHi : Word, xLo : Word, yHi : Word, yLo : Word, subtract : BOOLEAN]
  /\ r = [lo |-> 0, hi |-> 0, flag |-> [f \in {"AZ", "AN", "AV", "AC"} |-> FALSE]]

Init ==
  /\ pc = 0
  /\ exact = 0
  /\ InitDivide \/ InitNormalize \/ InitBlock \/ InitAccumulate \/ InitBuffer \/ InitDouble

Issue(name, at) == program = name /\ pc = at /\ pc' = pc + 1 /\ UNCHANGED program

-----------------------------------------------------------------------------
\* DIVS, then one DIVQ for every further bit.
DIVS ==
  /\ Issue("DIVIDE", 0)
  /\ r' = DivideSign(given.upper, r.ay0, given.divisor)
  /\ UNCHANGED <<given, exact>>

DIVQ ==
  /\ Issue("DIVIDE", pc) /\ pc \in 1 .. W - 1
  /\ r' = DivideStep(r, given.divisor)
  /\ UNCHANGED <<given, exact>>

\* Mutant: EXP HIX takes the carry of the addition for the exponent.
ExpHiIgnoringAV(hi, av) == [se |-> HiExponent(hi), ss |-> Negative(hi, W)]

\* EXP HI, and EXP HIX of a value that may have overflowed.
ExpHi(hi, av) ==
  IF av THEN [se |-> 1, ss |-> ~Negative(hi, W)]
  ELSE [se |-> HiExponent(hi), ss |-> Negative(hi, W)]

EXPHI ==
  /\ Issue("NORMALIZE", 0)
  /\ r' = [se |-> ExpHi(given.hi, given.av).se, ss |-> ExpHi(given.hi, given.av).ss, sr |-> 0]
  /\ UNCHANGED <<given, exact>>

\* EXP LO counts on only when the high word was all sign.
ExpLo(se, lo, ss) == IF se = 1 - W THEN LoExponent(lo, ss) ELSE se

EXPLO ==
  /\ Issue("NORMALIZE", 1)
  /\ r' = [r EXCEPT !.se = ExpLo(r.se, given.lo, r.ss)]
  /\ UNCHANGED <<given, exact>>

\* The carry left by the addition is the sign of the double word.
CarryOut == given.av /\ ~Negative(given.hi, W)

NORM(at, high, operand) ==
  /\ Issue("NORMALIZE", at)
  /\ r' = [r EXCEPT !.sr = Shift([op |-> "NORM", high |-> high, or |-> at = 3], operand,
                                 r.se, r.sr, CarryOut)]
  /\ UNCHANGED <<given, exact>>

\* Mutant: the smaller exponent is kept.
ExpAdjDown(x, sb) == IF HiExponent(x) < sb \/ sb = -W THEN HiExponent(x) ELSE sb

\* EXPADJ keeps the larger exponent.
ExpAdj(x, sb) == IF HiExponent(x) > sb THEN HiExponent(x) ELSE sb

EXPADJ ==
  /\ Issue("BLOCK", pc) /\ pc < MaxTerms
  /\ \E x \in Word :
       /\ given' = [values |-> given.values \cup {x}]
       /\ r' = [sb |-> ExpAdj(x, r.sb)]
  /\ UNCHANGED exact

\* The nearest multiple of a word, the even one of two.
Nearest(n) ==
  LET down == n - (n % 2 ^ W)
      up == down + 2 ^ W
  IN IF n - down < up - n \/ (n - down = up - n /\ (down \div 2 ^ W) % 2 = 0)
       THEN down ELSE up

MAC ==
  /\ Issue("ACCUMULATE", pc) /\ pc < MaxTerms
  /\ given.last # "SAT"
  /\ \E f \in MacFunctions, x, y \in Word :
       LET mr == Mac(f, x, y, r.mr)
           sum == CASE f.op = 1 -> Product(f, x, y)
                    [] f.op = 2 -> exact + Product(f, x, y)
                    [] f.op = 3 -> exact - Product(f, x, y)
       IN /\ r' = [mr |-> mr, mv |-> MacOverflow(mr)]
          /\ exact' = IF f.round THEN Nearest(sum) ELSE sum
  /\ given' = [last |-> "MAC"]

SATMR ==
  /\ Issue("ACCUMULATE", pc) /\ given.last = "MAC"
  /\ r' = [r EXCEPT !.mr = SaturateMR(r.mr, r.mv)]
  /\ given' = [last |-> "SAT"]
  /\ UNCHANGED exact

MODIFY ==
  /\ Issue("BUFFER", pc) /\ pc < MaxTerms
  /\ \E m \in AddressSpace :
       /\ ConfigurationValid(r.i, m, given.length)
       /\ r' = [i |-> NextAddress(r.i, m, given.length)]
       /\ exact' = (exact + Signed(m, Address)) % given.length
  /\ UNCHANGED given

\* The low words, then the high words with the carry.
ALU(at, f, x, y, carry) ==
  /\ Issue("DOUBLE", at)
  /\ LET s == AluRaw(f, x, y, carry)
     IN r' = [lo |-> IF at = 0 THEN s.raw ELSE r.lo,
              hi |-> s.raw,
              flag |-> [AZ |-> s.raw = 0, AN |-> Negative(s.raw, W), AV |-> s.av,
                        AC |-> s.ac]]
  /\ UNCHANGED <<given, exact>>

AluLow == ALU(0, IF given.subtract THEN "X-Y" ELSE "X+Y", given.xLo, given.yLo, 0)

AluHigh ==
  ALU(1, IF given.subtract THEN "X-Y+C-1" ELSE "X+Y+C", given.xHi, given.yHi,
      Number(r.flag["AC"]))

Next ==
  \/ DIVS \/ DIVQ
  \/ EXPHI \/ EXPLO \/ NORM(2, TRUE, given.hi) \/ NORM(3, FALSE, given.lo)
  \/ EXPADJ
  \/ MAC \/ SATMR
  \/ MODIFY
  \/ AluLow \/ AluHigh

Spec == Init /\ [][Next]_vars

-----------------------------------------------------------------------------
(* Properties *)

Double(hi, lo) == Signed(hi, W) * 2 ^ W + lo

\* DIVS and the DIVQs leave in AY0 the greatest integer not above the exact
\* quotient, or, for a negative divisor, the greatest below it.
QuotientExact ==
  program = "DIVIDE" /\ pc = W =>
    LET n == Double(given.upper, given.ay0)
        d == 2 * Signed(given.divisor, W)
        q == Signed(r.ay0, W)
    IN /\ d > 0 /\ n < d * 2 ^ (W - 1) /\ -n < d * 2 ^ (W - 1) =>
            q * d <= n /\ n < (q + 1) * d
       /\ d < 0 /\ n < -d * 2 ^ (W - 1) /\ -n < -d * 2 ^ (W - 1) =>
            q * d > n /\ n >= (q + 1) * d

\* The four shifter instructions leave in SR the double word itself, scaled by
\* the exponent they leave in SE, with no redundant sign bit; also for a sum
\* that overflowed.
NormalizedExact ==
  program = "NORMALIZE" /\ pc = 4 =>
    LET n == Double(given.hi, given.lo)
        v == IF ~given.av THEN n
             ELSE IF Negative(given.hi, W) THEN n + 2 ^ (2 * W) ELSE n - 2 ^ (2 * W)
    IN /\ IF given.av
            THEN r.se = 1 /\ Signed(r.sr, 2 * W) = v \div 2
            ELSE Signed(r.sr, 2 * W) = v * 2 ^ (-r.se)
       /\ v # 0 => Bit(r.sr, 2 * W - 1) # Bit(r.sr, 2 * W - 2)

\* Every value of the block still fits its word when shifted by the block
\* exponent, and one more place would overflow one of them.
BlockExponentTight ==
  program = "BLOCK" /\ pc > 0 =>
    LET fits(x, shift) == Signed(x, W) * 2 ^ shift \in -(2 ^ (W - 1)) .. 2 ^ (W - 1) - 1
    IN /\ \A x \in given.values : fits(x, -r.sb)
       /\ given.values # {0} => \E y \in given.values : ~fits(y, 1 - r.sb)

\* As long as the guard bits hold the sum, MR is the exact, correctly rounded
\* sum, MV says whether it fits two words, and SAT MR clamps it.
AccumulatorExact ==
  program = "ACCUMULATE" /\ exact \in -(2 ^ (MR - 1)) .. 2 ^ (MR - 1) - 1 =>
    LET high == 2 ^ (2 * W - 1) - 1
        low == -(2 ^ (2 * W - 1))
    IN /\ r.mv <=> exact \notin low .. high
       /\ Signed(r.mr, MR) = IF given.last = "SAT" THEN Clamp(exact, low, high) ELSE exact

\* However often and by whatever legal M the pointer moves, it stays in its
\* buffer and is where the sum of the moves puts it.
BufferCircular ==
  program = "BUFFER" =>
    LET base == CircularBase(given.start, given.length)
    IN /\ CircularBase(r.i, given.length) = base
       /\ r.i = base + ((given.start - base + exact) % given.length)

\* Addition and subtraction of double words through the carry; the flags they
\* leave overflow and order the operands, and saturation clamps the high word.
DoubleExact ==
  program = "DOUBLE" /\ pc = 2 =>
    LET x == Double(given.xHi, given.xLo)
        y == Double(given.yHi, given.yLo)
        n == IF given.subtract THEN x - y ELSE x + y
        fits == n \in -(2 ^ (2 * W - 1)) .. 2 ^ (2 * W - 1) - 1
        condition(code) == IfCondition(code, r.flag, FALSE)
    IN /\ r.hi * 2 ^ W + r.lo = n % 2 ^ (2 * W)
       /\ r.flag["AV"] <=> ~fits
       /\ given.subtract => (condition("LT") <=> x < y) /\ (condition("GE") <=> x >= y)
       /\ Signed(Saturate([raw |-> r.hi, ac |-> r.flag["AC"], av |-> r.flag["AV"]]), W)
            = Clamp(n \div 2 ^ W, -(2 ^ (W - 1)), 2 ^ (W - 1) - 1)

\* The two programs of the shifter leave exact results at every operand.
ScalingExact == NormalizedExact /\ BlockExponentTight

\* So do the two programs that add, through carries, guard bits and rounding.
SumsExact == AccumulatorExact /\ DoubleExact

=============================================================================
