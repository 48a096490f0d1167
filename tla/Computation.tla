------------------------------- MODULE Computation -------------------------------
(***************************************************************************)
(* The instructions that stay within the registers, as functions on a      *)
(* machine whose registers may be Unknown.  Types 8, 9, 14, 15, 16, 23, 24 *)
(* and 25 compute (the bounded slices compute_move, conditional_compute,   *)
(* shift_move, immediate_shift, conditional_shift, divide_quotient,        *)
(* divide_sign and mr_saturation_slice); Types 6, 7, 17, 18 and 21 only    *)
(* move data (load_dreg_immediate, load_non_dreg_immediate,                *)
(* internal_move_slice, mode_control and modify_address).  An instruction  *)
(* is a record of its fields.                                              *)
(***************************************************************************)
EXTENDS Registers

-----------------------------------------------------------------------------
(* The compute clause *)

AluX == {"AX0", "AX1", "AR", "MR0", "MR1", "MR2", "SR0", "SR1"}

MacX == {"MX0", "MX1", "AR", "MR0", "MR1", "MR2", "SR0", "SR1"}

AluClauses ==
  [unit : {"ALU"}, f : AluFunctions, feedback : BOOLEAN, x : AluX,
   y : {"AY0", "AY1", "AF", "ZERO"}]

MacClauses ==
  [unit : {"MAC"}, f : MacFunctions, feedback : BOOLEAN, x : MacX,
   y : {"MY0", "MY1", "MF", "ZERO"}]

\* _read_y; YOP 3 is the constant.
Operand(b, r) == IF r = "ZERO" THEN 0 ELSE IF r \in DREG THEN ReadDREG(b, r) ELSE b[r]

OrZero(v) == IF Known(v) THEN v ELSE 0

OrFalse(flag) == flag # Unknown /\ flag

\* Mutant: the carry is only asked for by the additions.
AluKnownWithoutBorrow(m, c) ==
  /\ c.f \notin YFunctions => Known(Operand(Bank(m), c.x))
  /\ c.f \notin XFunctions => Known(Operand(Bank(m), c.y))
  /\ c.f = "X+Y+C" => Known(m.flag["AC"])
  /\ m.mode["OL"] => Known(m.flag["AV"])

\* _known_alu_result returns a result.
AluKnown(m, c) ==
  /\ c.f \notin YFunctions => Known(Operand(Bank(m), c.x))
  /\ c.f \notin XFunctions => Known(Operand(Bank(m), c.y))
  /\ c.f \in CarryFunctions => Known(m.flag["AC"])
  /\ m.mode["OL"] => Known(m.flag["AV"])

AluFlags(f) == {"AZ", "AN", "AV", "AC"} \cup (IF f = "ABS" THEN {"AS"} ELSE {})

\* A known result: AR may saturate, AF never does; AV sticks in latch mode.
AluApplied(m, c) ==
  LET b == Bank(m)
      x == OrZero(Operand(b, c.x))
      r == AluRaw(c.f, x, OrZero(Operand(b, c.y)), Number(OrFalse(m.flag["AC"])))
      stored == IF ~c.feedback /\ m.mode["AR"] THEN Saturate(r) ELSE r.raw
      new == [AZ |-> r.raw = 0, AN |-> Negative(r.raw, W),
              AV |-> r.av \/ (m.mode["OL"] /\ OrFalse(m.flag["AV"])), AC |-> r.ac,
              AS |-> Negative(x, W)]
  IN WithFlags(WithBank(m, StoreALU(b, c.feedback, stored)),
               [f \in AluFlags(c.f) |-> new[f]])

\* _invalidate_compute_result.
AluUnknown(m, c) ==
  WithoutFlags(WithBank(m, StoreALU(Bank(m), c.feedback, Unknown)), AluFlags(c.f))

MacKnown(m, c) ==
  /\ Known(Operand(Bank(m), c.x))
  /\ Known(Operand(Bank(m), c.y))
  /\ c.f.op # 1 => Known(WholeMR(Bank(m)))

MacApplied(m, c) ==
  LET b == Bank(m)
      r == Mac(c.f, Operand(b, c.x), Operand(b, c.y), OrZero(WholeMR(b)))
  IN WithFlags(WithBank(m, StoreMAC(b, c.feedback, r)), [MV |-> MacOverflow(r)])

MacUnknown(m, c) ==
  WithoutFlags(WithBank(m, StoreMAC(Bank(m), c.feedback, Unknown)), {"MV"})

ClauseUnknown(m, c) == IF c.unit = "MAC" THEN MacUnknown(m, c) ELSE AluUnknown(m, c)

Compute(m, c) ==
  CASE c.unit = "ALU" /\ AluKnown(m, c) -> AluApplied(m, c)
    [] c.unit = "MAC" /\ MacKnown(m, c) -> MacApplied(m, c)
    [] OTHER -> ClauseUnknown(m, c)

\* A DREG takes the word read from another one at the start of the cycle.
MoveDREG(after, before, i) ==
  WithBank(after, StoreDREG(Bank(after), i.dst, ReadDREG(Bank(before), i.src)))

-----------------------------------------------------------------------------
(* Type 8: a computation with a DREG move. *)

ClauseDestination(c) ==
  CASE c.feedback -> {}
    [] ~c.feedback /\ c.unit = "ALU" -> {"AR"}
    [] ~c.feedback /\ c.unit = "MAC" -> {"MR0", "MR1", "MR2"}

\* The words compute_move executes: the two destinations are not the same.
Type8With(clauses) == [type : {8}, clause : clauses, dst : DREG, src : DREG]

Type8 == Type8With(AluClauses \cup MacClauses)

Type8Supported(i) == i.dst \notin ClauseDestination(i.clause)

\* Mutant: the move reads what the computation has just written.
Type8Serial(m, i) == MoveDREG(Compute(m, i.clause), Compute(m, i.clause), i)

\* Both clauses read the registers of the cycle's start.
Type8Retired(m, i) == MoveDREG(Compute(m, i.clause), m, i)

-----------------------------------------------------------------------------
(* Type 9: a conditional computation. *)

Type9With(clauses) == [type : {9}, clause : clauses, condition : ConditionCodes]

Type9 == Type9With(AluClauses \cup MacClauses) \cup Type9With({[unit |-> "NOP"]})

\* _condition_value; the counter's own test is given by the host.
Condition(m, code, notExpired) ==
  CASE \E f \in FlagsOf(code) : ~Known(m.flag[f]) -> Unknown
    [] code = "NOT CE" /\ ~Known(notExpired) -> Unknown
    [] OTHER -> IfCondition(code, [f \in DOMAIN m.flag |-> OrFalse(m.flag[f])],
                            OrFalse(notExpired))

\* Mutant: an unknown condition is taken for a false one.
Type9Guessed(m, i, notExpired) ==
  IF i.clause.unit # "NOP" /\ Condition(m, i.condition, notExpired) = TRUE
    THEN Compute(m, i.clause) ELSE m

Type9Retired(m, i, notExpired) ==
  CASE i.clause.unit = "NOP" -> m
    [] i.clause.unit # "NOP" /\ ~Known(Condition(m, i.condition, notExpired)) ->
         ClauseUnknown(m, i.clause)
    [] i.clause.unit # "NOP" /\ Condition(m, i.condition, notExpired) = FALSE -> m
    [] OTHER -> Compute(m, i.clause)

-----------------------------------------------------------------------------
(* The shifter clause *)

ShifterX == {"SI", "AR", "MR0", "MR1", "MR2", "SR0", "SR1"}

DetectFunctions == [op : {"EXP HI", "EXP HIX", "EXP LO", "EXPADJ"}]

IsShift(f) == f \in ShiftFunctions

\* SE at which EXP LO goes on.
AllSign == (1 - W) % 2 ^ Exponent

\* _compute_known_action returns a result, for shift, or for SE.
ShifterKnown(m, f, x, shift) ==
  LET b == Bank(m)
  IN /\ Known(ReadDREG(b, x))
     /\ IsShift(f) =>
          /\ Known(shift)
          /\ f.or => Known(WholeSR(b))
          /\ f.op = "NORM" /\ f.high => Known(m.flag["AC"])
     /\ f.op = "EXP HIX" => Known(m.flag["AV"])
     /\ f.op = "EXP LO" => /\ Known(b["SE"])
                           /\ b["SE"] = AllSign => Known(m.flag["SS"])
     /\ f.op = "EXPADJ" => Known(b["SB"])

Detected(m, se, ss) ==
  WithFlags(WithBank(m, [Bank(m) EXCEPT !["SE"] = se % 2 ^ Exponent]), [SS |-> ss])

ShifterApplied(m, f, x, shift) ==
  LET b == Bank(m)
      v == ReadDREG(b, x)
  IN CASE IsShift(f) ->
            WithBank(m, StoreSR(b, Shift(f, v, Signed(shift, Exponent),
                                         OrZero(WholeSR(b)), OrFalse(m.flag["AC"]))))
       [] f.op = "EXP HIX" /\ m.flag["AV"] -> Detected(m, 1, ~Negative(v, W))
       [] f.op = "EXP HI" \/ (f.op = "EXP HIX" /\ ~m.flag["AV"]) ->
            Detected(m, HiExponent(v), Negative(v, W))
       [] f.op = "EXP LO" /\ b["SE"] = AllSign ->
            WithBank(m, [b EXCEPT !["SE"] = LoExponent(v, m.flag["SS"]) % 2 ^ Exponent])
       [] f.op = "EXPADJ" /\ HiExponent(v) > Signed(b["SB"], Block) ->
            WithBank(m, StoreSB(b, HiExponent(v)))
       [] OTHER -> m

\* Mutant: an EXP LO that may go on is taken for one that does not.
ShifterUnknownKeepingSE(m, f) ==
  CASE IsShift(f) -> WithBank(m, StoreSR(Bank(m), Unknown))
    [] f.op \in {"EXP HI", "EXP HIX"} ->
         WithoutFlags(WithBank(m, [Bank(m) EXCEPT !["SE"] = Unknown]), {"SS"})
    [] f.op = "EXPADJ" -> WithBank(m, StoreSB(Bank(m), Unknown))
    [] OTHER -> m

\* _invalidate_shifter_result.
ShifterUnknown(m, f) ==
  LET b == Bank(m)
  IN CASE IsShift(f) -> WithBank(m, StoreSR(b, Unknown))
       [] f.op \in {"EXP HI", "EXP HIX"} ->
            WithoutFlags(WithBank(m, [b EXCEPT !["SE"] = Unknown]), {"SS"})
       [] f.op = "EXP LO" /\ b["SE"] \in {Unknown, AllSign} ->
            WithBank(m, [b EXCEPT !["SE"] = Unknown])
       [] f.op = "EXPADJ" -> WithBank(m, StoreSB(b, Unknown))
       [] OTHER -> m

ShifterClause(m, f, x, shift) ==
  IF ShifterKnown(m, f, x, shift) THEN ShifterApplied(m, f, x, shift) ELSE ShifterUnknown(m, f)

-----------------------------------------------------------------------------
(* Type 14: a shift with a DREG move. *)

ShifterDestination(f) ==
  CASE IsShift(f) -> {"SR0", "SR1"}
    [] f.op \in {"EXP HI", "EXP HIX", "EXP LO"} -> {"SE"}
    [] f.op = "EXPADJ" -> {}

Type14 ==
  [type : {14}, f : ShiftFunctions \cup DetectFunctions, x : ShifterX, dst : DREG, src : DREG]

Type14Supported(i) == i.dst \notin ShifterDestination(i.f)

Type14Retired(m, i) == MoveDREG(ShifterClause(m, i.f, i.x, Bank(m)["SE"]), m, i)

(* Type 15: a shift by an immediate. *)

Type15 ==
  [type : {15}, f : {f \in ShiftFunctions : f.op # "NORM"}, x : ShifterX,
   shift : 0 .. 2 ^ Exponent - 1]

Type15Retired(m, i) == ShifterClause(m, i.f, i.x, i.shift)

(* Type 16: a conditional shift. *)

Type16 ==
  [type : {16}, f : ShiftFunctions \cup DetectFunctions, x : ShifterX,
   condition : ConditionCodes]

\* _invalidate_possible_result, also for a condition that is not known.
Type16Retired(m, i, notExpired) ==
  LET holds == Condition(m, i.condition, notExpired)
  IN CASE holds = Unknown -> ShifterUnknown(m, i.f)
       [] holds = FALSE -> m
       [] holds = TRUE -> ShifterClause(m, i.f, i.x, Bank(m)["SE"])

-----------------------------------------------------------------------------
(* Division and saturation *)

\* Types 24 and 23; the dividend's upper word is AY1 or AF.
Type24 == [type : {24}, x : AluX, y : {"AY1", "AF"}]

Type23 == [type : {23}, x : AluX]

Divided(m, s) ==
  WithFlags(WithBank(m, [Bank(m) EXCEPT !["AF"] = s.af, !["AY0"] = s.ay0]), [AQ |-> s.aq])

DivisionUnknown(m) == Divided(m, [af |-> Unknown, ay0 |-> Unknown, aq |-> Unknown])

Type24Retired(m, i) ==
  LET b == Bank(m)
      divisor == ReadDREG(b, i.x)
  IN IF Known(divisor) /\ Known(b[i.y]) /\ Known(b["AY0"])
       THEN Divided(m, DivideSign(b[i.y], b["AY0"], divisor))
       ELSE DivisionUnknown(m)

\* Mutant: an unknown AQ is taken for zero.
Type23WithoutAQ(m, i) ==
  LET b == Bank(m)
      divisor == ReadDREG(b, i.x)
  IN IF Known(divisor) /\ Known(b["AF"]) /\ Known(b["AY0"])
       THEN Divided(m, DivideStep([af |-> b["AF"], ay0 |-> b["AY0"],
                                   aq |-> OrFalse(m.flag["AQ"])], divisor))
       ELSE DivisionUnknown(m)

Type23Retired(m, i) ==
  LET b == Bank(m)
      divisor == ReadDREG(b, i.x)
  IN IF Known(divisor) /\ Known(b["AF"]) /\ Known(b["AY0"]) /\ Known(m.flag["AQ"])
       THEN Divided(m, DivideStep([af |-> b["AF"], ay0 |-> b["AY0"], aq |-> m.flag["AQ"]],
                                  divisor))
       ELSE DivisionUnknown(m)

\* Type 25, SAT MR: only the sign in MR2 is read.
Type25 == [type : {25}]

Type25Retired(m, i) ==
  LET b == Bank(m)
      mv == m.flag["MV"]
      clamped == IF Negative(b["MR2"], Guard) THEN NegativeSaturation ELSE PositiveSaturation
  IN CASE mv = FALSE -> m
       [] mv = Unknown \/ (mv = TRUE /\ ~Known(b["MR2"])) ->
            WithBank(m, StoreMAC(b, FALSE, Unknown))
       [] mv = TRUE /\ Known(b["MR2"]) -> WithBank(m, StoreMAC(b, FALSE, clamped))

-----------------------------------------------------------------------------
(* Moves.  The count stack, which a load of CNTR pushes, is the subject of *)
(* ProgramFlow.                                                            *)

StatusRegister == {"ASTAT", "MSTAT"}

Movable == DREG \cup {"SB"} \cup Control \cup StatusRegister

\* The bits of a control register that the data bus reaches.
Width == [CNTR |-> Address, I |-> Address, M |-> Address, L |-> Address,
          PX |-> Exponent, IMASK |-> 4, ICNTL |-> 5]

InBank(r) == r \in DREG \cup {"SB"}

\* bank_selection_unknown, mstat_valid_mask bit 0 clear.
BankUnknown(m) == ~Known(m.mode["SR"])

\* read_internal_move_register; short registers are zero filled, M and SB are
\* signed.
ReadRegister(m, r) ==
  CASE InBank(r) /\ BankUnknown(m) -> Unknown
    [] r \in DREG /\ ~BankUnknown(m) -> ReadDREG(Bank(m), r)
    [] r = "SB" /\ ~BankUnknown(m) -> Extended(Bank(m)["SB"], Block)
    [] r = "ASTAT" -> StatusWord(ASTATBits, m.flag)
    [] r = "MSTAT" -> StatusWord(MSTATBits, m.mode)
    [] r = "M" -> Extended(m.ctl["M"], Address)
    [] r \in Control \ {"M"} -> Narrow(m.ctl[r], W)

\* Mutant: a word that is not known leaves MSTAT as it is.
WriteKeepingModes(m, r, v) ==
  CASE r = "MSTAT" /\ Known(v) -> [m EXCEPT !.mode = FromWord(MSTATBits, v)]
    [] r = "ASTAT" -> [m EXCEPT !.flag = FromWord(ASTATBits, v)]
    [] r \in Control -> [m EXCEPT !.ctl[r] = Narrow(v, Width[r])]
    [] r \in DREG -> WithBank(m, StoreDREG(Bank(m), r, v))
    [] r = "SB" -> WithBank(m, StoreSB(Bank(m), v))
    [] OTHER -> m

\* write_internal_move_register, the bank being known.
WriteRegister(m, r, v) ==
  CASE r \in DREG -> WithBank(m, StoreDREG(Bank(m), r, v))
    [] r = "SB" -> WithBank(m, StoreSB(Bank(m), v))
    [] r = "ASTAT" -> [m EXCEPT !.flag = FromWord(ASTATBits, v)]
    [] r = "MSTAT" -> [m EXCEPT !.mode = FromWord(MSTATBits, v)]
    [] r \in Control -> [m EXCEPT !.ctl[r] = Narrow(v, Width[r])]

-----------------------------------------------------------------------------
(* Types 6 and 7: a DREG, or any other register, from the instruction. *)

Type6 == [type : {6}, dst : DREG, data : Word]

Type6Retired(m, i) == WithBank(m, StoreDREG(Bank(m), i.dst, i.data))

Type7 == [type : {7}, dst : Movable \ DREG, data : Word]

Type7Retired(m, i) == WriteRegister(m, i.dst, i.data % 2 ^ Address)

(* Type 17: from register to register. *)

Type17 == [type : {17}, dst : Movable, src : Movable]

Type17Retired(m, i) == WriteRegister(m, i.dst, ReadRegister(m, i.src))

(* Type 18: each mode is set, cleared or left. *)

Type18 == [type : {18}, modes : [{"SR", "BR", "OL", "AR"} -> {"KEEP", "CLEAR", "SET"}]]

Type18Retired(m, i) ==
  [m EXCEPT !.mode = [b \in DOMAIN m.mode |->
                        IF i.modes[b] = "KEEP" THEN m.mode[b] ELSE i.modes[b] = "SET"]]

(* Type 21: I moves on; an illegal buffer leaves it unknown. *)

Type21 == [type : {21}]

\* Mutant: the length is only needed when it is known.
ModifyLinearly(m) ==
  LET i == m.ctl["I"]  mod == m.ctl["M"]  l == m.ctl["L"]
  IN [m EXCEPT !.ctl["I"] =
        IF Known(i) /\ Known(mod) THEN NextAddress(i, mod, IF Known(l) THEN l ELSE 0)
        ELSE Unknown]

Modify(m) ==
  LET i == m.ctl["I"]  mod == m.ctl["M"]  l == m.ctl["L"]
  IN [m EXCEPT !.ctl["I"] =
        IF /\ Known(i) /\ Known(mod) /\ Known(l)
           /\ ConfigurationValid(i, mod, l)
          THEN NextAddress(i, mod, l) ELSE Unknown]

Type21Retired(m, i) == Modify(m)

=============================================================================
