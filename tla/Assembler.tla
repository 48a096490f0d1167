------------------------------- MODULE Assembler -------------------------------
(***************************************************************************)
(* The assembler (adsp2100_assembler.py).  A statement is a sequence of    *)
(* clauses, which commas separate; a clause is a sequence of tokens; a     *)
(* number is the token "0x" or "decimal" and has its value beside the      *)
(* clauses.  A parser for each instruction type answers a word, an error,  *)
(* or that the statement is not its own, and the parsers are asked in      *)
(* turn, some of them twice as general as the text they are meant for.     *)
(***************************************************************************)
EXTENDS Integers, SequencesExt

\* What a parser answers beside a word.
NotMine == -1
Error == -2

Statement(clauses, number) == [clauses |-> clauses, number |-> number]

NoNumber == 0

-----------------------------------------------------------------------------
(* The tables of the instruction-set databases. *)

Name(names, code) == names[code + 1]

Code(names, name) == (CHOOSE i \in DOMAIN names : names[i] = name) - 1

\* A register's selector: its group of 16, and its place there; "" is blank.
RegisterRows ==
  << <<"AX0", "AX1", "MX0", "MX1", "AY0", "AY1", "MY0", "MY1",
       "SI", "SE", "AR", "MR0", "MR1", "MR2", "SR0", "SR1">>,
     <<"I0", "I1", "I2", "I3", "M0", "M1", "M2", "M3", "L0", "L1", "L2", "L3", "", "", "", "">>,
     <<"I4", "I5", "I6", "I7", "M4", "M5", "M6", "M7", "L4", "L5", "L6", "L7", "", "", "", "">>,
     <<"ASTAT", "MSTAT", "SSTAT", "IMASK", "ICNTL", "CNTR", "SB", "PX",
       "", "", "", "", "", "", "", "">> >>

Readable == (UNION {Range(RegisterRows[g]) : g \in DOMAIN RegisterRows}) \ {""}

Writable == Readable \ {"SSTAT"}

DregNames == RegisterRows[1]

Dreg == Range(DregNames)

Selector(name) ==
  LET g == CHOOSE g \in DOMAIN RegisterRows : name \in Range(RegisterRows[g])
  IN  [group |-> g - 1, index |-> Code(RegisterRows[g], name)]

IfNames ==
  <<"EQ", "NE", "GT", "LE", "LT", "GE", "AV", "NOT AV", "AC", "NOT AC",
    "NEG", "POS", "MV", "NOT MV", "NOT CE", "TRUE">>

DoNames ==
  <<"NE", "EQ", "LE", "GT", "GE", "LT", "NOT AV", "AV", "NOT AC", "AC",
    "POS", "NEG", "NOT MV", "MV", "CE", "FOREVER">>

INames == <<"I0", "I1", "I2", "I3", "I4", "I5", "I6", "I7">>
MNames == <<"M0", "M1", "M2", "M3", "M4", "M5", "M6", "M7">>
Local(names, name) == Code(names, name) % 4
Dag(names, name) == Code(names, name) \div 4

ShifterSources == <<"SI", "", "AR", "MR0", "MR1", "MR2", "SR0", "SR1">>
AluX == <<"AX0", "AX1", "AR", "MR0", "MR1", "MR2", "SR0", "SR1">>
MacX == <<"MX0", "MX1", "AR", "MR0", "MR1", "MR2", "SR0", "SR1">>
AluY == <<"AY0", "AY1", "AF", "0">>
MacY == <<"MY0", "MY1", "MF", "0">>

-----------------------------------------------------------------------------
(* The text of a computation: the one way to write an AMF, Y and X field. *)

ComputeFields == [z : 0 .. 1, amf : 1 .. 31, yop : 0 .. 3, xop : 0 .. 7]

MacText(f, x, y) ==
  LET sum == IF f.amf \in {2} \cup 8 .. 11 THEN <<"MR", "+">>
             ELSE IF f.amf \in {3} \cup 12 .. 15 THEN <<"MR", "-">> ELSE <<>>
      mode == IF f.amf <= 3 THEN "(RND)" ELSE <<"(SS)", "(SU)", "(US)", "(UU)">>[(f.amf % 4) + 1]
  IN IF f.yop # 3 THEN sum \o <<x, "*", y, mode>>
     ELSE IF f.amf = 4 /\ f.xop = 0 THEN <<"0">> ELSE <<>>

AluText(f, x, y) ==
  CASE f.amf \in {16, 17, 20, 21, 24} /\ f.xop # 0 -> <<>>
    [] f.amf \in {27, 31} /\ f.yop # 0 -> <<>>
    [] OTHER ->
       << <<"PASS", y>>, <<y, "+", "1">>, <<x, "+", y, "+", "C">>,
          IF f.yop = 3 THEN <<"PASS", x>> ELSE <<x, "+", y>>,
          <<"NOT", y>>, <<"-", y>>, <<x, "-", y, "+", "C", "-", "1">>, <<x, "-", y>>,
          <<y, "-", "1">>, IF f.yop = 3 THEN <<"-", x>> ELSE <<y, "-", x>>,
          <<y, "-", x, "+", "C", "-", "1">>, <<"NOT", x>>,
          <<x, "AND", y>>, <<x, "OR", y>>, <<x, "XOR", y>>, <<"ABS", x>> >>[f.amf - 15]

ComputeText ==
  [f \in ComputeFields |->
     LET mac == f.amf < 16
         body == IF mac THEN MacText(f, Name(MacX, f.xop), Name(MacY, f.yop))
                        ELSE AluText(f, Name(AluX, f.xop), Name(AluY, f.yop))
         result == IF mac THEN IF f.z = 1 THEN "MF" ELSE "MR"
                          ELSE IF f.z = 1 THEN "AF" ELSE "AR"
     IN IF body = <<>> THEN <<>> ELSE <<result, "=">> \o body]

ComputeCodes ==
  [text \in Range(ComputeText) \ {<<>>} |->
     CHOOSE f \in ComputeFields : ComputeText[f] = text]

IsComputation(c) == c \in DOMAIN ComputeCodes

NoComputation == [z |-> 0, amf |-> 0, yop |-> 0, xop |-> 0]

ComputeBits(f) == f.z * 2 ^ 18 + f.amf * 2 ^ 13 + f.yop * 2 ^ 11 + f.xop * 2 ^ 8

\* A move into the register that the computation beside it writes.
ComputeCollides(f, dreg) ==
  f.z = 0 /\ IF f.amf >= 16 THEN dreg = "AR" ELSE dreg \in {"MR0", "MR1", "MR2"}

\* The text of a shifter clause, back to its function and source.
ShifterCodes(c) ==
  LET or == Len(c) >= 3 /\ c[3] = "SR OR"
      t == IF or THEN RemoveAt(c, 3) ELSE c
      source == t[4]
      sf == CASE t[1] = "SR" -> Code(<<"LSHIFT", "ASHIFT", "NORM">>, t[3]) * 4
                                  + (IF t[5] = "(LO)" THEN 2 ELSE 0) + (IF or THEN 1 ELSE 0)
              [] t[1] = "SE" -> 12 + Code(<<"(HI)", "(HIX)", "(LO)">>, t[5])
              [] t[1] = "SB" -> 15
      shift == Len(t) = 5 /\ t[1] = "SR" /\ t[3] \in {"LSHIFT", "ASHIFT", "NORM"}
                 /\ t[5] \in {"(HI)", "(LO)"}
      exponent == Len(t) = 5 /\ t[1] = "SE" /\ t[3] = "EXP" /\ t[5] \in {"(HI)", "(HIX)", "(LO)"}
      adjust == Len(t) = 4 /\ t[1] = "SB" /\ t[3] = "EXPADJ"
  IN IF (shift \/ (exponent /\ ~or) \/ (adjust /\ ~or)) /\ source \in Range(ShifterSources) \ {""}
       THEN {[sf |-> sf, xop |-> Code(ShifterSources, source)]}
       ELSE {}

ShifterBits(f) == f.sf * 2 ^ 11 + f.xop * 2 ^ 8

ShiftCollides(sf, dreg) ==
  \/ sf <= 11 /\ dreg \in {"SR0", "SR1"}
  \/ sf \in 12 .. 14 /\ dreg = "SE"

-----------------------------------------------------------------------------
(* The parsers. *)

Answer(mine, accepted, word) == IF ~mine THEN NotMine ELSE IF ~accepted THEN Error ELSE word

Single(s) == Len(s.clauses) = 1

\* "-0" and "0" are a computation's operand to one parser, a number to another.
IsImmediate(tokens) == tokens \in {<<"0x">>, <<"decimal">>, <<"0">>, <<"-", "0">>}

ImmediateOf(s, tokens) == IF tokens \in {<<"0x">>, <<"decimal">>} THEN s.number ELSE 0

IsAddress(s, token) == token = "0x" \/ (token = "decimal" /\ s.number >= 0)

AddressFits(s) == s.number < 2 ^ 14

From(c, n) == SubSeq(c, n, Len(c))

IsRead(c, space) == Len(c) = 5 /\ c[2] = "=" /\ c[3] = space

IsWrite(c, space) == Len(c) = 5 /\ c[1] = space /\ c[4] = "="

IsMove(c) == Len(c) = 3 /\ c[2] = "=" /\ {c[1], c[3]} \subseteq Dreg

\* A read ends the statement, a write begins it.
IsTransfer(s, space) == IsRead(Last(s.clauses), space) \/ IsWrite(Head(s.clauses), space)

TransferOf(s, space) ==
  LET r == Last(s.clauses)
      w == Head(s.clauses)
  IN IF IsRead(r, space)
       THEN [write |-> FALSE, dreg |-> r[1], i |-> r[4], m |-> r[5], rest |-> Front(s.clauses)]
       ELSE [write |-> TRUE, dreg |-> w[5], i |-> w[2], m |-> w[3], rest |-> Tail(s.clauses)]

SameDag(i, m) == Dag(INames, i) = Dag(MNames, m)

PointerBits(i, m) == Local(INames, i) * 4 + Local(MNames, m)

Bit(b, n) == IF b THEN 2 ^ n ELSE 0

AssembleRawWord(s) ==
  Answer(s.clauses = <<<<".WORD", "0x">>>>, s.number < 2 ^ 24, s.number)

\* Type 2
AssembleDmWriteImmediate(s) ==
  LET c == Head(s.clauses)
      data == ImmediateOf(s, From(c, 5))
  IN Answer(Single(s) /\ Len(c) >= 5 /\ c[1] = "DM" /\ c[4] = "=" /\ IsImmediate(From(c, 5)),
            SameDag(c[2], c[3]) /\ data \in -(2 ^ 15) .. 2 ^ 16 - 1,
            10 * 2 ^ 20 + Dag(INames, c[2]) * 2 ^ 20 + (data % 2 ^ 16) * 16
              + PointerBits(c[2], c[3]))

\* Type 3
AssembleDirectDm(s) ==
  LET c == Head(s.clauses)
      read == Len(c) = 4 /\ c[2] = "=" /\ c[3] = "DM" /\ IsAddress(s, c[4])
      write == Len(c) = 4 /\ c[1] = "DM" /\ c[3] = "=" /\ IsAddress(s, c[2])
      register == IF read THEN c[1] ELSE c[4]
  IN Answer(Single(s) /\ (read \/ write) /\ register \in Readable,
            AddressFits(s) /\ (read => register # "SSTAT"),
            8 * 2 ^ 20 + Bit(write, 20) + Selector(register).group * 2 ^ 18
              + s.number * 16 + Selector(register).index)

\* Types 7 and 6
AssembleNonDregImmediate(s) ==
  LET c == Head(s.clauses)
      data == ImmediateOf(s, From(c, 3))
  IN Answer(Single(s) /\ Len(c) >= 3 /\ c[2] = "=" /\ IsImmediate(From(c, 3))
              /\ c[1] \in Readable \ Dreg,
            c[1] # "SSTAT" /\ data \in -(2 ^ 13) .. 2 ^ 14 - 1,
            3 * 2 ^ 20 + Selector(c[1]).group * 2 ^ 18 + (data % 2 ^ 14) * 16
              + Selector(c[1]).index)

AssembleDregImmediate(s) ==
  LET c == Head(s.clauses)
      data == ImmediateOf(s, From(c, 3))
  IN Answer(Single(s) /\ Len(c) >= 3 /\ c[2] = "=" /\ IsImmediate(From(c, 3)) /\ c[1] \in Dreg,
            data \in -(2 ^ 15) .. 2 ^ 16 - 1,
            4 * 2 ^ 20 + (data % 2 ^ 16) * 16 + Code(DregNames, c[1]))

\* Type 8
AssembleComputeMove(s) ==
  LET f == ComputeCodes[s.clauses[1]]
      move == s.clauses[2]
  IN Answer(Len(s.clauses) = 2 /\ IsComputation(s.clauses[1]) /\ IsMove(move),
            ~ComputeCollides(f, move[1]),
            5 * 2 ^ 19 + ComputeBits(f) + Code(DregNames, move[1]) * 16
              + Code(DregNames, move[3]))

\* Types 4 and 5, with a computation or alone.
ComputationOf(rest) == IF rest = <<>> THEN NoComputation ELSE ComputeCodes[rest[1]]

IsOptionalComputation(rest) == rest = <<>> \/ (Len(rest) = 1 /\ IsComputation(rest[1]))

TransferAccepted(t, f) == t.write \/ f.amf = 0 \/ ~ComputeCollides(f, t.dreg)

ComputeTransferBits(t, f) ==
  Bit(t.write, 19) + ComputeBits(f) + Code(DregNames, t.dreg) * 16 + PointerBits(t.i, t.m)

AssembleComputeDm(s) ==
  LET t == TransferOf(s, "DM")
      f == ComputationOf(t.rest)
  IN Answer(IsTransfer(s, "DM") /\ t.dreg \in Dreg
              /\ (SameDag(t.i, t.m) => IsOptionalComputation(t.rest)),
            SameDag(t.i, t.m) /\ TransferAccepted(t, f),
            6 * 2 ^ 20 + Dag(INames, t.i) * 2 ^ 20 + ComputeTransferBits(t, f))

AssembleComputePm(s) ==
  LET t == TransferOf(s, "PM")
      f == ComputationOf(t.rest)
  IN Answer(IsTransfer(s, "PM") /\ Dag(INames, t.i) = 1 /\ Dag(MNames, t.m) = 1
              /\ t.dreg \in Dreg /\ IsOptionalComputation(t.rest),
            TransferAccepted(t, f),
            5 * 2 ^ 20 + ComputeTransferBits(t, f))

\* Type 1: the two reads and the computation stand in any order.
AssembleComputeDual(s) ==
  LET Reads(space, dag) ==
        SelectSeq(s.clauses, LAMBDA c : IsRead(c, space) /\ Dag(INames, c[4]) = dag
                                          /\ Dag(MNames, c[5]) = dag)
      dms == Reads("DM", 0)
      pms == Reads("PM", 1)
      rest == SelectSeq(s.clauses, LAMBDA c : c \notin Range(dms) \cup Range(pms))
      dm == dms[1]
      pm == pms[1]
      f == ComputationOf(rest)
      dmNames == <<"AX0", "AX1", "MX0", "MX1">>
      pmNames == <<"AY0", "AY1", "MY0", "MY1">>
      named == dm[1] \in Range(dmNames) /\ pm[1] \in Range(pmNames)
  IN Answer(Len(s.clauses) \in 2 .. 3 /\ Len(dms) = 1 /\ Len(pms) = 1
              /\ (named => IsOptionalComputation(rest)),
            named /\ f.z = 0,
            12 * 2 ^ 20 + Code(pmNames, pm[1]) * 2 ^ 20 + Code(dmNames, dm[1]) * 2 ^ 18
              + ComputeBits(f) + PointerBits(pm[4], pm[5]) * 16 + PointerBits(dm[4], dm[5]))

\* The prefix of a conditional statement, and what it leaves.
HasIf(s) == Head(s.clauses)[1] = "IF"

IsConditional(s) == Single(s) /\ (HasIf(s) => Head(s.clauses)[2] \in Range(IfNames))

Condition(s) == IF HasIf(s) THEN Code(IfNames, Head(s.clauses)[2]) ELSE 15

Body(s) == IF HasIf(s) THEN From(Head(s.clauses), 3) ELSE Head(s.clauses)

\* Type 16
AssembleConditionalShift(s) ==
  LET shifters == ShifterCodes(Body(s))
      f == CHOOSE f \in shifters : TRUE
  IN Answer(IsConditional(s) /\ shifters # {}, TRUE, 14 * 2 ^ 16 + ShifterBits(f) + Condition(s))

\* Type 9
AssembleConditionalCompute(s) ==
  Answer(IsConditional(s) /\ IsComputation(Body(s)), TRUE,
         4 * 2 ^ 19 + ComputeBits(ComputeCodes[Body(s)]) + Condition(s))

\* Types 10, 19, 20 and 22; nobody knows what CALL NOT CE does to the counter.
Flows == {"JUMP", "CALL"}

CallAccepted(s) == ~(Body(s)[1] = "CALL" /\ Condition(s) = 14)

AssembleDirectJump(s) ==
  LET b == Body(s)
  IN Answer(IsConditional(s) /\ Len(b) = 2 /\ b[1] \in Flows /\ IsAddress(s, b[2]),
            AddressFits(s) /\ CallAccepted(s),
            3 * 2 ^ 19 + Bit(b[1] = "CALL", 18) + s.number * 16 + Condition(s))

AssembleIndirectJump(s) ==
  LET b == Body(s)
  IN Answer(IsConditional(s) /\ Len(b) = 2 /\ b[1] \in Flows /\ b[2] \in Range(INames)
              /\ Dag(INames, b[2]) = 1,
            CallAccepted(s),
            11 * 2 ^ 16 + Local(INames, b[2]) * 2 ^ 6 + Bit(b[1] = "CALL", 4) + Condition(s))

AssembleConditionalReturn(s) ==
  Answer(IsConditional(s) /\ Body(s) \in {<<"RTS">>, <<"RTI">>}, TRUE,
         10 * 2 ^ 16 + Bit(Body(s) = <<"RTI">>, 4) + Condition(s))

AssembleConditionalTrap(s) ==
  Answer(IsConditional(s) /\ Body(s) = <<"TRAP">>, TRUE, 8 * 2 ^ 16 + Condition(s))

\* Types 24 and 23
AssembleDivideSign(s) ==
  LET c == Head(s.clauses)
  IN Answer(Len(s.clauses) = 2 /\ Len(c) = 2 /\ c[1] = "DIVS" /\ c[2] \in {"AY1", "AF"}
              /\ Len(s.clauses[2]) = 1 /\ s.clauses[2][1] \in Range(AluX),
            TRUE,
            6 * 2 ^ 16 + Code(AluY, c[2]) * 2 ^ 11 + Code(AluX, s.clauses[2][1]) * 2 ^ 8)

AssembleDivideQuotient(s) ==
  LET c == Head(s.clauses)
  IN Answer(Single(s) /\ Len(c) = 2 /\ c[1] = "DIVQ" /\ c[2] \in Range(AluX), TRUE,
            113 * 2 ^ 12 + Code(AluX, c[2]) * 2 ^ 8)

\* Type 11
AssembleDoUntil(s) ==
  LET c == Head(s.clauses)
      until == IF Len(c) = 2 THEN "FOREVER" ELSE c[4]
  IN Answer(Single(s) /\ c[1] = "DO" /\ Len(c) \in {2, 4} /\ IsAddress(s, c[2])
              /\ (Len(c) = 4 => c[3] = "UNTIL"),
            AddressFits(s) /\ until \in Range(DoNames),
            5 * 2 ^ 18 + s.number * 16 + Code(DoNames, until))

\* Type 14
AssembleShiftMove(s) ==
  LET shifters == ShifterCodes(s.clauses[1])
      f == CHOOSE f \in shifters : TRUE
      move == s.clauses[2]
  IN Answer(Len(s.clauses) = 2 /\ shifters # {} /\ IsMove(move),
            ~ShiftCollides(f.sf, move[1]),
            2 ^ 20 + ShifterBits(f) + Code(DregNames, move[1]) * 16 + Code(DregNames, move[3]))

\* Types 12 and 13
AssembleShifterTransfer(s, space) ==
  LET t == TransferOf(s, space)
      dag == Dag(INames, t.i)
      shifters == ShifterCodes(t.rest[1])
      f == CHOOSE f \in shifters : TRUE
  IN Answer(Len(s.clauses) = 2 /\ IsTransfer(s, space) /\ shifters # {} /\ t.dreg \in Dreg,
            /\ SameDag(t.i, t.m)
            /\ space = "PM" => dag = 1
            /\ t.write \/ ~ShiftCollides(f.sf, t.dreg),
            (IF space = "DM" THEN 18 + dag ELSE 17) * 2 ^ 16
              + Bit(t.write, 15) + ShifterBits(f)
              + Code(DregNames, t.dreg) * 16 + PointerBits(t.i, t.m))

AssembleShifterDm(s) == AssembleShifterTransfer(s, "DM")

AssembleShifterPm(s) == AssembleShifterTransfer(s, "PM")

\* Type 15: a decimal exponent has a sign, a hexadecimal one is the field.
AssembleImmediateShift(s) ==
  LET c == Head(s.clauses)
      or == Len(c) >= 3 /\ c[3] = "SR OR"
      t == IF or THEN RemoveAt(c, 3) ELSE c
      sf == (IF t[3] = "ASHIFT" THEN 4 ELSE 0) + (IF t[7] = "(LO)" THEN 2 ELSE 0)
              + (IF or THEN 1 ELSE 0)
  IN Answer(Single(s) /\ Len(t) = 7 /\ t[1] = "SR" /\ t[3] \in {"ASHIFT", "LSHIFT"}
              /\ t[4] \in Range(ShifterSources) \ {""} /\ t[5] = "BY"
              /\ t[6] \in {"0x", "decimal"} /\ t[7] \in {"(HI)", "(LO)"},
            s.number \in IF t[6] = "0x" THEN 0 .. 255 ELSE -128 .. 127,
            15 * 2 ^ 16 + ShifterBits([sf |-> sf, xop |-> Code(ShifterSources, t[4])])
              + (s.number % 256))

\* Type 17
AssembleInternalMove(s) ==
  LET c == Head(s.clauses)
      to == Selector(c[1])
      from == Selector(c[3])
  IN Answer(Single(s) /\ Len(c) = 3 /\ c[2] = "=" /\ {c[1], c[3]} \subseteq Readable,
            c[1] \in Writable,
            13 * 2 ^ 16 + to.group * 2 ^ 10 + from.group * 2 ^ 8 + to.index * 16 + from.index)

\* Type 18
ModeField == [AR_SAT |-> 10, AV_LATCH |-> 8, BIT_REV |-> 6, SEC_REG |-> 4]

AssembleModeControl(s) ==
  LET clauses == Range(s.clauses)
      targets == {c[2] : c \in clauses}
  IN Answer(\A c \in clauses : Len(c) = 2 /\ c[1] \in {"ENA", "DIS"} /\ c[2] \in DOMAIN ModeField,
            Cardinality(targets) = Len(s.clauses),
            12 * 2 ^ 16 + MapThenSumSet(LAMBDA c : (IF c[1] = "ENA" THEN 3 ELSE 2)
                                                     * 2 ^ ModeField[c[2]], clauses))

\* Type 21
AssembleModifyAddress(s) ==
  LET c == Head(s.clauses)
  IN Answer(Single(s) /\ Len(c) = 3 /\ c[1] = "MODIFY", SameDag(c[2], c[3]),
            9 * 2 ^ 16 + Dag(INames, c[2]) * 16 + PointerBits(c[2], c[3]))

\* The mnemonics of a single word; any other statement is an error.
AssembleMnemonic(s) ==
  CASE s.clauses = <<<<"IF", "MV", "SAT", "MR">>>> -> 5 * 2 ^ 16
    [] s.clauses = <<<<"NOP">>>> -> 0
    [] OTHER -> Error

\* Mutant: a load of a number is tried before a computation, as the immediates'
\* own parsers do not look at what else the text may be.
AttemptsImmediateFirst(s) ==
  <<AssembleRawWord(s), AssembleDmWriteImmediate(s), AssembleDirectDm(s),
    AssembleNonDregImmediate(s), AssembleDregImmediate(s),
    AssembleConditionalCompute(s), AssembleDirectJump(s), AssembleIndirectJump(s),
    AssembleConditionalReturn(s), AssembleConditionalTrap(s), AssembleDivideQuotient(s),
    AssembleDivideSign(s), AssembleDoUntil(s), AssembleImmediateShift(s),
    AssembleConditionalShift(s), AssembleComputeMove(s), AssembleComputeDual(s),
    AssembleComputeDm(s), AssembleComputePm(s), AssembleShifterDm(s), AssembleShifterPm(s),
    AssembleShiftMove(s), AssembleInternalMove(s), AssembleModeControl(s),
    AssembleModifyAddress(s), AssembleMnemonic(s)>>

Attempts(s) ==
  <<AssembleRawWord(s), AssembleDmWriteImmediate(s), AssembleDirectDm(s),
    AssembleConditionalCompute(s), AssembleDirectJump(s), AssembleIndirectJump(s),
    AssembleConditionalReturn(s), AssembleConditionalTrap(s), AssembleDivideQuotient(s),
    AssembleDivideSign(s), AssembleDoUntil(s), AssembleNonDregImmediate(s),
    AssembleDregImmediate(s), AssembleImmediateShift(s), AssembleConditionalShift(s),
    AssembleComputeMove(s), AssembleComputeDual(s), AssembleComputeDm(s), AssembleComputePm(s),
    AssembleShifterDm(s), AssembleShifterPm(s), AssembleShiftMove(s), AssembleInternalMove(s),
    AssembleModeControl(s), AssembleModifyAddress(s), AssembleMnemonic(s)>>

\* The first parser that knows the statement has the last word.
Assemble(s) ==
  LET answers == Attempts(s)
  IN answers[SelectInSeq(answers, LAMBDA a : a # NotMine)]

=============================================================================
