----------------------------- MODULE ProgrammingTools -----------------------------
(***************************************************************************)
(* Three readings of an instruction word, written apart: the disassembler  *)
(* (adsp2100_disassembler.py) makes a statement of it, the assembler makes *)
(* a word of the statement, and the decoders of the instruction models say *)
(* whether the machine executes it and what it touches.  A programmer has  *)
(* a word listed, may change the statement in one place, and assembles it. *)
(***************************************************************************)
EXTENDS Assembler

\* The words tried are those with a high byte, a middle byte and a low byte of
\* these; those with an edited low byte are changed too, to one of the registers,
\* the conditions and the numbers.
CONSTANTS Highs, Middles, Lows, EditedMiddles, EditedLows, Registers, Conditions, Numbers

Field(w, low, width) == (w \div 2 ^ low) % 2 ^ width
Flag(w, n) == Field(w, n, 1) = 1

\* A type's leading bits, and bits further down that are zero: the bit the
\* leading ones begin at, their value, and where and how many the zeros are.
Patterns ==
  << <<22, 3, 0, 0>>, <<21, 5, 0, 0>>, <<21, 4, 0, 0>>, <<21, 3, 0, 0>>, <<20, 5, 0, 0>>,
     <<20, 4, 0, 0>>, <<20, 3, 0, 0>>, <<19, 5, 0, 0>>, <<19, 4, 4, 4>>, <<19, 3, 0, 0>>,
     <<18, 5, 0, 0>>, <<17, 9, 0, 0>>, <<16, 17, 0, 0>>, <<16, 16, 0, 0>>, <<15, 30, 0, 0>>,
     <<15, 28, 4, 4>>, <<12, 208, 0, 0>>, <<12, 192, 0, 4>>, <<8, 2816, 5, 1>>,
     <<5, 20480, 0, 0>>, <<5, 18432, 0, 0>>, <<4, 32768, 0, 0>>, <<11, 226, 0, 8>>,
     <<13, 48, 0, 8>>, <<0, 327680, 0, 0>>, <<5, 8192, 0, 0>>, <<16, 3, 0, 0>>,
     <<16, 2, 0, 0>>, <<16, 1, 0, 0>>, <<0, 0, 0, 0>> >>

IsType(w, t) ==
  LET p == Patterns[t] IN w \div 2 ^ p[1] = p[2] /\ Field(w, p[3], p[4]) = 0

TypesOf(w) == {t \in DOMAIN Patterns : IsType(w, t)}

Compute(w) ==
  [z |-> Field(w, 18, 1), amf |-> Field(w, 13, 5), yop |-> Field(w, 11, 2), xop |-> Field(w, 8, 3)]

Sf(w) == Field(w, 11, 4)
Xop(w) == Field(w, 8, 3)
RegisterAt(group, index) == RegisterRows[group + 1][index + 1]
DregAt(w, low) == Name(DregNames, Field(w, low, 4))
PointerAt(w, dag, low) ==
  <<Name(INames, dag * 4 + Field(w, low + 2, 2)), Name(MNames, dag * 4 + Field(w, low, 2))>>

-----------------------------------------------------------------------------
(* The disassembler. *)

Listing(clauses, number) ==
  [statement |-> Statement(clauses, number), implemented |-> TRUE]

\* A word listed as data: unknown to the tools, or an alias they do execute.
Data(w, implemented) ==
  [statement |-> Statement(<<<<".WORD", "0x">>>>, w), implemented |-> implemented]

Conditional(w, body) ==
  LET code == Field(w, 0, 4)
  IN IF code = 15 THEN body ELSE <<"IF", Name(IfNames, code)>> \o body

\* How a clause that reads memory stands beside one that computes.
TransferClauses(space, write, dreg, pointer, computation) ==
  IF write THEN <<<<space>> \o pointer \o <<"=", dreg>>>> \o computation
           ELSE computation \o <<<<dreg, "=", space>> \o pointer>>

ListDmWriteImmediate(w) ==
  Listing(<<<<"DM">> \o PointerAt(w, Field(w, 20, 1), 0) \o <<"=", "0x">>>>, Field(w, 4, 16))

\* The selectors of the databases; a blank one, or one that is only read where it
\* would be written, is "".
Destination(register) == IF register = "SSTAT" THEN "" ELSE register

DirectRegister(w) ==
  LET register == RegisterAt(Field(w, 18, 2), Field(w, 0, 4))
  IN IF Flag(w, 20) THEN register ELSE Destination(register)

NonDregRegister(w) ==
  IF Field(w, 18, 2) = 0 THEN "" ELSE Destination(RegisterAt(Field(w, 18, 2), Field(w, 0, 4)))

MovedRegisters(w) ==
  <<Destination(RegisterAt(Field(w, 10, 2), Field(w, 4, 4))),
    RegisterAt(Field(w, 8, 2), Field(w, 0, 4))>>

ListDirectDm(w) ==
  LET register == DirectRegister(w)
  IN IF register = "" THEN Data(w, FALSE)
     ELSE Listing(IF Flag(w, 20) THEN <<<<"DM", "0x", "=", register>>>>
                                 ELSE <<<<register, "=", "DM", "0x">>>>, Field(w, 4, 14))

ListNonDregImmediate(w) ==
  IF NonDregRegister(w) = "" THEN Data(w, FALSE)
  ELSE Listing(<<<<NonDregRegister(w), "=", "0x">>>>, Field(w, 4, 14))

ListConditionalCompute(w) ==
  LET f == Compute(w)
  IN IF f.amf = 0 \/ ComputeText[f] = <<>> THEN Data(w, TRUE)
     ELSE Listing(<<Conditional(w, ComputeText[f])>>, NoNumber)

FlowName(w, n) == IF Flag(w, n) THEN "CALL" ELSE "JUMP"

IsCallNotCe(w, n) == Flag(w, n) /\ Field(w, 0, 4) = 14

ListDirectJump(w) ==
  IF IsCallNotCe(w, 18) THEN Data(w, FALSE)
  ELSE Listing(<<Conditional(w, <<FlowName(w, 18), "0x">>)>>, Field(w, 4, 14))

ListIndirectJump(w) ==
  IF IsCallNotCe(w, 4) THEN Data(w, FALSE)
  ELSE Listing(<<Conditional(w, <<FlowName(w, 4), Name(INames, 4 + Field(w, 6, 2))>>)>>, NoNumber)

ListConditionalReturn(w) ==
  Listing(<<Conditional(w, <<IF Flag(w, 4) THEN "RTI" ELSE "RTS">>)>>, NoNumber)

ListConditionalTrap(w) == Listing(<<Conditional(w, <<"TRAP">>)>>, NoNumber)

ListDivideSign(w) ==
  LET yop == Field(w, 11, 2)
  IN IF yop \notin {1, 2} THEN Data(w, FALSE)
     ELSE Listing(<<<<"DIVS", Name(AluY, yop)>>, <<Name(AluX, Xop(w))>>>>, NoNumber)

ListDivideQuotient(w) == Listing(<<<<"DIVQ", Name(AluX, Xop(w))>>>>, NoNumber)

ListDoUntil(w) ==
  LET code == Field(w, 0, 4)
  IN Listing(<<<<"DO", "0x">> \o IF code = 15 THEN <<>> ELSE <<"UNTIL", Name(DoNames, code)>>>>,
             Field(w, 4, 14))

ListComputeMove(w) ==
  LET f == Compute(w)
      to == DregAt(w, 4)
  IN IF f.amf = 0 \/ ComputeCollides(f, to) THEN Data(w, FALSE)
     ELSE IF ComputeText[f] = <<>> THEN Data(w, TRUE)
     ELSE Listing(<<ComputeText[f], <<to, "=", DregAt(w, 0)>>>>, NoNumber)

\* A computation beside a transfer, if it can be written at all.
IsAlias(f) == IF f.amf = 0 THEN f # NoComputation ELSE ComputeText[f] = <<>>

ComputationClause(f) == IF f.amf = 0 THEN <<>> ELSE <<ComputeText[f]>>

ListComputeTransfer(w, space, dag) ==
  LET f == Compute(w)
      write == Flag(w, 19)
      dreg == DregAt(w, 4)
  IN IF ~write /\ f.amf # 0 /\ ComputeCollides(f, dreg) THEN Data(w, FALSE)
     ELSE IF IsAlias(f) THEN Data(w, TRUE)
     ELSE Listing(TransferClauses(space, write, dreg, PointerAt(w, dag, 0), ComputationClause(f)),
                  NoNumber)

ListComputeDm(w) == ListComputeTransfer(w, "DM", Field(w, 20, 1))

ListComputePm(w) == ListComputeTransfer(w, "PM", 1)

ListComputeDual(w) ==
  LET f == [Compute(w) EXCEPT !.z = 0]
      dm == Name(<<"AX0", "AX1", "MX0", "MX1">>, Field(w, 18, 2))
      pm == Name(<<"AY0", "AY1", "MY0", "MY1">>, Field(w, 20, 2))
  IN IF IsAlias(f) THEN Data(w, TRUE)
     ELSE Listing(ComputationClause(f) \o <<<<dm, "=", "DM">> \o PointerAt(w, 0, 0),
                                            <<pm, "=", "PM">> \o PointerAt(w, 1, 4)>>, NoNumber)

ShifterText(sf, xop) ==
  LET source == Name(ShifterSources, xop)
  IN CASE sf <= 11 ->
            <<"SR", "=">> \o (IF sf % 2 = 1 THEN <<"SR OR">> ELSE <<>>)
              \o <<Name(<<"LSHIFT", "ASHIFT", "NORM">>, sf \div 4), source,
                   IF Flag(sf, 1) THEN "(LO)" ELSE "(HI)">>
       [] sf \in 12 .. 14 ->
            <<"SE", "=", "EXP", source, Name(<<"(HI)", "(HIX)", "(LO)">>, sf - 12)>>
       [] sf = 15 -> <<"SB", "=", "EXPADJ", source>>

HasSource(w) == Name(ShifterSources, Xop(w)) # ""

ListShifterTransfer(w, space, dag) ==
  LET write == Flag(w, 15)
      dreg == DregAt(w, 4)
  IN IF ~HasSource(w) \/ (~write /\ ShiftCollides(Sf(w), dreg)) THEN Data(w, FALSE)
     ELSE Listing(TransferClauses(space, write, dreg, PointerAt(w, dag, 0),
                                  <<ShifterText(Sf(w), Xop(w))>>), NoNumber)

ListShifterDm(w) == ListShifterTransfer(w, "DM", Field(w, 16, 1))

ListShifterPm(w) == ListShifterTransfer(w, "PM", 1)

ListShiftMove(w) ==
  LET to == DregAt(w, 4)
  IN IF Flag(w, 15) \/ ~HasSource(w) \/ ShiftCollides(Sf(w), to) THEN Data(w, FALSE)
     ELSE Listing(<<ShifterText(Sf(w), Xop(w)), <<to, "=", DregAt(w, 0)>>>>, NoNumber)

ListInternalMove(w) ==
  LET moved == MovedRegisters(w)
  IN IF "" \in Range(moved) THEN Data(w, FALSE)
     ELSE Listing(<<<<moved[1], "=", moved[2]>>>>, NoNumber)

ListImmediateShift(w) ==
  LET exponent == Field(w, 0, 8)
      signed == IF exponent >= 128 THEN exponent - 256 ELSE exponent
      sf == Sf(w)
  IN IF sf > 7 \/ ~HasSource(w) THEN Data(w, FALSE)
     ELSE Listing(<<<<"SR", "=">> \o (IF Flag(sf, 0) THEN <<"SR OR">> ELSE <<>>)
                      \o <<IF Flag(sf, 2) THEN "ASHIFT" ELSE "LSHIFT", Name(ShifterSources, Xop(w)),
                           "BY", "decimal", IF Flag(sf, 1) THEN "(LO)" ELSE "(HI)">>>>, signed)

ListConditionalShift(w) ==
  IF ~HasSource(w) THEN Data(w, FALSE)
  ELSE Listing(<<Conditional(w, ShifterText(Sf(w), Xop(w)))>>, NoNumber)

ListDregImmediate(w) == Listing(<<<<DregAt(w, 0), "=", "0x">>>>, Field(w, 4, 16))

\* Clauses stand in the order of the manual's table.
ListModeControl(w) ==
  LET codes == [m \in DOMAIN ModeField |-> Field(w, ModeField[m], 2)]
      changed == SelectSeq(<<"BIT_REV", "AV_LATCH", "AR_SAT", "SEC_REG">>, LAMBDA m : codes[m] >= 2)
  IN IF changed = <<>> \/ 1 \in Range(codes) THEN Data(w, TRUE)
     ELSE Listing([n \in DOMAIN changed |->
                     <<IF codes[changed[n]] = 3 THEN "ENA" ELSE "DIS", changed[n]>>], NoNumber)

ListModifyAddress(w) == Listing(<<<<"MODIFY">> \o PointerAt(w, Field(w, 4, 1), 0)>>, NoNumber)

Disassemble(w) ==
  CASE IsType(w, 2)  -> ListDmWriteImmediate(w)
    [] IsType(w, 3)  -> ListDirectDm(w)
    [] IsType(w, 7)  -> ListNonDregImmediate(w)
    [] IsType(w, 9)  -> ListConditionalCompute(w)
    [] IsType(w, 10) -> ListDirectJump(w)
    [] IsType(w, 19) -> ListIndirectJump(w)
    [] IsType(w, 20) -> ListConditionalReturn(w)
    [] IsType(w, 22) -> ListConditionalTrap(w)
    [] IsType(w, 23) -> ListDivideQuotient(w)
    [] IsType(w, 24) -> ListDivideSign(w)
    [] IsType(w, 11) -> ListDoUntil(w)
    [] IsType(w, 8)  -> ListComputeMove(w)
    [] IsType(w, 1)  -> ListComputeDual(w)
    [] IsType(w, 4)  -> ListComputeDm(w)
    [] IsType(w, 5)  -> ListComputePm(w)
    [] IsType(w, 12) -> ListShifterDm(w)
    [] IsType(w, 13) -> ListShifterPm(w)
    [] IsType(w, 14) -> ListShiftMove(w)
    [] IsType(w, 17) -> ListInternalMove(w)
    [] IsType(w, 15) -> ListImmediateShift(w)
    [] IsType(w, 16) -> ListConditionalShift(w)
    [] IsType(w, 18) -> ListModeControl(w)
    [] IsType(w, 21) -> ListModifyAddress(w)
    [] IsType(w, 6)  -> ListDregImmediate(w)
    [] IsType(w, 25) -> Listing(<<<<"IF", "MV", "SAT", "MR">>>>, NoNumber)
    [] IsType(w, 30) -> Listing(<<<<"NOP">>>>, NoNumber)
    [] OTHER -> Data(w, FALSE)

-----------------------------------------------------------------------------
(* The decoders of the instruction models.  Each answers the action of a word *)
(* it executes, as the registers that are part of it whatever the operation,  *)
(* and those that the operation may or may not use; or nothing.               *)

Action(always, maybe) == [always |-> always, maybe |-> maybe]

DecodeIf(executed, action) == IF executed THEN {action} ELSE {}

HasClass(w, low, value) == w \div 2 ^ low = value

Pointer(w, dag, low) == Range(PointerAt(w, dag, low))

\* What an action with a computation writes, and what it may read.
ResultOf(f) ==
  IF f.amf = 0 THEN {}
  ELSE {<<<<"MR", "MF">>, <<"AR", "AF">>>>[IF f.amf < 16 THEN 1 ELSE 2][f.z + 1]}

OperandsOf(f) ==
  IF f.amf = 0 THEN {}
  ELSE IF f.amf < 16 THEN {"MR", Name(MacX, f.xop), Name(MacY, f.yop)}
                     ELSE {Name(AluX, f.xop), Name(AluY, f.yop)}

DestinationCollides(f, dreg) ==
  f.z = 0 /\ f.amf # 0 /\ dreg \in IF f.amf >= 16 THEN {"AR"} ELSE {"MR0", "MR1", "MR2"}

DecodeComputeDual(w) ==
  LET f == [Compute(w) EXCEPT !.z = 0]
  IN DecodeIf(HasClass(w, 22, 3),
       Action(ResultOf(f) \cup Pointer(w, 0, 0) \cup Pointer(w, 1, 4)
                \cup {DregNames[Field(w, 18, 2) + 1], DregNames[Field(w, 20, 2) + 5]},
              OperandsOf(f)))

DecodeDmWriteImmediate(w) ==
  DecodeIf(HasClass(w, 21, 5), Action(Pointer(w, Field(w, 20, 1), 0), {}))

DecodeDirectDm(w) ==
  LET register == RegisterAt(Field(w, 18, 2), Field(w, 0, 4))
  IN DecodeIf(HasClass(w, 21, 4) /\ register \in IF Flag(w, 20) THEN Readable ELSE Writable,
              Action({register}, {}))

DecodeComputeTransfer(w, dag) ==
  LET f == Compute(w)
      dreg == DregAt(w, 4)
  IN DecodeIf(Flag(w, 19) \/ ~DestinationCollides(f, dreg),
              Action(ResultOf(f) \cup {dreg} \cup Pointer(w, dag, 0), OperandsOf(f)))

DecodeComputeDm(w) ==
  IF HasClass(w, 21, 3) THEN DecodeComputeTransfer(w, Field(w, 20, 1)) ELSE {}

DecodeComputePm(w) == IF HasClass(w, 20, 5) THEN DecodeComputeTransfer(w, 1) ELSE {}

DecodeLoadDregImmediate(w) == DecodeIf(HasClass(w, 20, 4), Action({DregAt(w, 0)}, {}))

DecodeLoadNonDregImmediate(w) ==
  LET group == Field(w, 18, 2)
      register == RegisterAt(group, Field(w, 0, 4))
  IN DecodeIf(HasClass(w, 20, 3) /\ group # 0 /\ register \in Writable, Action({register}, {}))

DecodeComputeMove(w) ==
  LET f == Compute(w)
      to == DregAt(w, 4)
  IN DecodeIf(HasClass(w, 19, 5) /\ f.amf # 0 /\ ~DestinationCollides(f, to),
              Action(ResultOf(f) \cup {to, DregAt(w, 0)}, OperandsOf(f)))

DecodeConditionalCompute(w) ==
  LET f == Compute(w)
  IN DecodeIf(HasClass(w, 19, 4) /\ Field(w, 4, 4) = 0, Action(ResultOf(f), OperandsOf(f)))

DecodeDirectJump(w) ==
  DecodeIf(HasClass(w, 19, 3) /\ ~(Flag(w, 18) /\ Field(w, 0, 4) = 14), Action({}, {}))

DecodeDoUntil(w) == DecodeIf(HasClass(w, 18, 5), Action({}, {}))

\* The shifter's result and source.
ShifterXopDreg == [xop \in {0} \cup 2 .. 7 |-> ShifterSources[xop + 1]]

ShifterTouches(sf, xop) ==
  {ShifterXopDreg[xop], IF sf <= 11 THEN "SR" ELSE IF sf <= 14 THEN "SE" ELSE "SB"}

ShifterWrites(sf) == IF sf <= 11 THEN {"SR0", "SR1"} ELSE IF sf <= 14 THEN {"SE"} ELSE {}

DecodeShifterTransfer(w, dag) ==
  LET dreg == DregAt(w, 4)
  IN DecodeIf(Xop(w) \in DOMAIN ShifterXopDreg /\ (Flag(w, 15) \/ dreg \notin ShifterWrites(Sf(w))),
              Action(ShifterTouches(Sf(w), Xop(w)) \cup {dreg} \cup Pointer(w, dag, 0), {}))

DecodeShifterDm(w) ==
  IF HasClass(w, 17, 9) THEN DecodeShifterTransfer(w, Field(w, 16, 1)) ELSE {}

DecodeShifterPm(w) == IF HasClass(w, 16, 17) THEN DecodeShifterTransfer(w, 1) ELSE {}

DecodeShiftMove(w) ==
  LET to == DregAt(w, 4)
  IN DecodeIf(HasClass(w, 16, 16) /\ ~Flag(w, 15) /\ Xop(w) \in DOMAIN ShifterXopDreg
                /\ to \notin ShifterWrites(Sf(w)),
              Action(ShifterTouches(Sf(w), Xop(w)) \cup {to, DregAt(w, 0)}, {}))

DecodeImmediateShift(w) ==
  DecodeIf(HasClass(w, 15, 30) /\ Sf(w) <= 7 /\ Xop(w) \in DOMAIN ShifterXopDreg,
           Action(ShifterTouches(Sf(w), Xop(w)), {}))

DecodeConditionalShift(w) ==
  DecodeIf(HasClass(w, 15, 28) /\ Field(w, 4, 4) = 0 /\ Xop(w) \in DOMAIN ShifterXopDreg,
           Action(ShifterTouches(Sf(w), Xop(w)), {}))

DecodeInternalMove(w) ==
  LET to == RegisterAt(Field(w, 10, 2), Field(w, 4, 4))
      from == RegisterAt(Field(w, 8, 2), Field(w, 0, 4))
  IN DecodeIf(HasClass(w, 12, 208) /\ to \in Writable /\ from \in Readable, Action({to, from}, {}))

DecodeModeControl(w) ==
  DecodeIf(HasClass(w, 12, 192) /\ Field(w, 0, 4) = 0,
           Action({m \in DOMAIN ModeField : Flag(w, ModeField[m] + 1)}, {}))

DecodeIndirectJump(w) ==
  DecodeIf(HasClass(w, 8, 2816) /\ ~Flag(w, 5) /\ ~(Flag(w, 4) /\ Field(w, 0, 4) = 14),
           Action({INames[5 + Field(w, 6, 2)]}, {}))

DecodeConditionalReturn(w) == DecodeIf(HasClass(w, 5, 20480), Action({}, {}))

DecodeModifyAddress(w) ==
  DecodeIf(HasClass(w, 5, 18432), Action(Pointer(w, Field(w, 4, 1), 0), {}))

DecodeConditionalTrap(w) == DecodeIf(HasClass(w, 4, 32768), Action({}, {}))

DecodeDivideQuotient(w) ==
  DecodeIf(HasClass(w, 11, 226) /\ Field(w, 0, 8) = 0, Action({Name(AluX, Xop(w))}, {}))

DecodeDivideSign(w) ==
  LET yop == Field(w, 11, 2)
  IN DecodeIf(HasClass(w, 13, 48) /\ Field(w, 0, 8) = 0 /\ yop \in 1 .. 2,
              Action({Name(AluX, Xop(w)), Name(AluY, yop)}, {}))

DecodeMrSaturation(w) == DecodeIf(w = 327680, Action({"MR"}, {}))

DecodeStackControl(w) == DecodeIf(HasClass(w, 5, 8192), Action({}, {}))

DecodeNop(w) == DecodeIf(w = 0, Action({}, {}))

\* What each decoder says of the word.
Decoders(w) ==
  <<DecodeComputeDual(w), DecodeDmWriteImmediate(w), DecodeDirectDm(w), DecodeComputeDm(w),
    DecodeComputePm(w), DecodeLoadDregImmediate(w), DecodeLoadNonDregImmediate(w),
    DecodeComputeMove(w), DecodeConditionalCompute(w), DecodeDirectJump(w), DecodeDoUntil(w),
    DecodeShifterDm(w), DecodeShifterPm(w), DecodeShiftMove(w), DecodeImmediateShift(w),
    DecodeConditionalShift(w), DecodeInternalMove(w), DecodeModeControl(w),
    DecodeIndirectJump(w), DecodeConditionalReturn(w), DecodeModifyAddress(w),
    DecodeConditionalTrap(w), DecodeDivideQuotient(w), DecodeDivideSign(w),
    DecodeMrSaturation(w), DecodeStackControl(w), DecodeNop(w)>>

Executing(w) == SelectSeq(Decoders(w), LAMBDA actions : actions # {})

-----------------------------------------------------------------------------
(* A programmer's session. *)

VARIABLES
  opcode,     \* the word that was listed
  statement,  \* its statement, perhaps changed since
  edited,
  answer      \* what the assembler said of the statement

vars == <<opcode, statement, edited, answer>>

NoAnswer == -3

WordOf(high, middle, low) == high * 2 ^ 16 + middle * 2 ^ 8 + low

Init ==
  /\ \E high \in Highs, middle \in Middles, low \in Lows : opcode = WordOf(high, middle, low)
  /\ statement = Disassemble(opcode).statement
  /\ edited = FALSE
  /\ answer = NoAnswer

\* The changes of one place: the order of the clauses, the register a clause
\* writes, the pointer of an access, the condition, the number.
Reordered(s) == {[s EXCEPT !.clauses = Reverse(@)]}

Retargeted(s) ==
  {[s EXCEPT !.clauses[n][1] = r] :
     n \in {n \in DOMAIN s.clauses : Len(s.clauses[n]) > 1 /\ s.clauses[n][2] = "="},
     r \in Registers}

Repointed(s) ==
  UNION {{[s EXCEPT !.clauses[n][k] = i] :
            k \in {k \in DOMAIN s.clauses[n] : s.clauses[n][k] \in Range(INames)}, i \in {"I0", "I4"}} :
         n \in DOMAIN s.clauses}

Reconditioned(s) ==
  {[s EXCEPT !.clauses[1] = <<"IF", c>> \o (IF HasIf(s) THEN From(@, 3) ELSE @)] : c \in Conditions}

Renumbered(s) ==
  {[s EXCEPT !.number = n] :
     n \in Numbers \cup IF "0x" \in Range(Last(s.clauses)) THEN {} ELSE {-n : n \in Numbers}}

Edit ==
  /\ ~edited
  /\ answer = NoAnswer
  /\ opcode % 256 \in EditedLows
  /\ Field(opcode, 8, 8) \in EditedMiddles
  /\ statement' \in UNION {Reordered(statement), Retargeted(statement), Repointed(statement),
                            Reconditioned(statement), Renumbered(statement)}
  /\ edited' = TRUE
  /\ UNCHANGED <<opcode, answer>>

Submit ==
  /\ answer = NoAnswer
  /\ answer' = Assemble(statement)
  /\ UNCHANGED <<opcode, statement, edited>>

Next == Edit \/ Submit

Spec == Init /\ [][Next]_vars

-----------------------------------------------------------------------------
(* The readings agree. *)

IsData(s) == s.clauses[1][1] = ".WORD"

NamesIn(s) ==
  UNION {Range(c) : c \in Range(s.clauses)}
    \cap (Readable \cup {"MR", "MF", "SR", "AF"} \cup DOMAIN ModeField)

\* The machine executes the word in one way, and with the registers named.
Performs(w, s) ==
  LET executing == Executing(w)
  IN /\ Len(executing) = 1
     /\ \A action \in executing[1] :
          IsData(s) \/ (/\ action.always \subseteq NamesIn(s)
                       /\ NamesIn(s) \subseteq action.always \cup action.maybe)

\* A word is of one type, and listed as an instruction if the machine executes it
\* as that; the tools do not write the stack controls, which it executes.
ListingHonest ==
  /\ Cardinality(TypesOf(opcode)) <= 1
  /\ IF Disassemble(opcode).implemented
       THEN edited \/ Performs(opcode, statement)
       ELSE Executing(opcode) \in {<<>>, <<DecodeStackControl(opcode)>>}

\* A listing assembles to the word it is of.
ListingAssembles == answer # NoAnswer /\ ~edited => answer = opcode

\* What a programmer writes is refused, or assembles to a word the machine
\* executes with the registers written, and that is listed so as to assemble
\* to it again.
StatementHonored ==
  answer >= 0 /\ edited /\ ~IsData(statement)
    => Performs(answer, statement) /\ Assemble(Disassemble(answer).statement) = answer

\* The assembler, the disassembler and the machine's decoders have one reading
\* of every word: what is listed is what is executed, what is listed assembles
\* to the word it came from, and a statement that assembles at all does what it
\* says.
ToolsAgree == ListingHonest /\ ListingAssembles /\ StatementHonored

=============================================================================
