------------------------------- MODULE Architecture -------------------------------
(***************************************************************************)
(* What a reference model may say about registers nobody initialised.  Two *)
(* machines run the same program in lockstep: `actual` has a value in      *)
(* every register, `view` is what the model keeps, where a register may be *)
(* Unknown.  The host is a per-type slice, with its set-up port, or the    *)
(* linear core around ADSP2100Model.                                       *)
(***************************************************************************)
EXTENDS Computation

CONSTANTS Programs,     \* a sequence of [host, code, inputs]; the inputs may start Unknown
          Samples,      \* two values for each register
          MaxUnknown,   \* Unknown inputs in the initial view
          MaxCycles     \* instruction boundaries of a behaviour

VARIABLES program, actual, view,
          diagnosed,    \* the host has reported what it cannot decide
          cycles        \* boundaries so far

vars == <<program, actual, view, diagnosed, cycles>>

\* The clauses of c's unit.
ClausesLike(c) == IF c.unit = "MAC" THEN MacClauses ELSE AluClauses

\* A word the reference models execute; TLC cannot look for an ALU's function among
\* the records of a MAC's.
Executable(i) ==
  CASE i.type = 8 -> i \in Type8With(ClausesLike(i.clause))
    [] i.type = 9 -> i \in Type9With(ClausesLike(i.clause)) \cup Type9With({[unit |-> "NOP"]})
    [] OTHER -> i \in Type6 \cup Type7 \cup Type14 \cup Type15 \cup Type16 \cup Type17
                       \cup Type18 \cup Type21 \cup Type23 \cup Type24 \cup Type25

\* A slice executes the words of one type.
ASSUME ArchitectureConstants ==
  /\ Unknown \notin BOOLEAN
  /\ \A n \in DOMAIN Programs :
       LET code == Programs[n].code
       IN /\ \A k \in DOMAIN code : Executable(code[k])
          /\ Programs[n].host = "SLICE" =>
               \A k, l \in DOMAIN code : code[k].type = code[l].type

Slice == program.host = "SLICE"

Instructions == {program.code[n] : n \in DOMAIN program.code}

-----------------------------------------------------------------------------
(* One instruction *)

Supported(i) ==
  CASE i.type = 8 -> Type8Supported(i)
    [] i.type = 14 -> Type14Supported(i)
    [] OTHER -> TRUE

MovesRetired(m, i) ==
  CASE i.type = 6 -> Type6Retired(m, i)
    [] i.type = 7 -> Type7Retired(m, i)
    [] i.type = 17 -> Type17Retired(m, i)
    [] i.type = 18 -> Type18Retired(m, i)
    [] i.type = 21 -> Type21Retired(m, i)

ClausesRetired(m, i, notExpired) ==
  IF i.type = 8 THEN Type8Retired(m, i) ELSE Type9Retired(m, i, notExpired)

DividesRetired(m, i) ==
  CASE i.type = 23 -> Type23Retired(m, i)
    [] i.type = 24 -> Type24Retired(m, i)
    [] i.type = 25 -> Type25Retired(m, i)

ShiftsRetired(m, i, notExpired) ==
  CASE i.type = 14 -> Type14Retired(m, i)
    [] i.type = 15 -> Type15Retired(m, i)
    [] i.type = 16 -> Type16Retired(m, i, notExpired)

\* The NOT CE input of the slices that test a condition is a parameter.
Retired(m, i, notExpired) ==
  CASE i.type \in {6, 7, 17, 18, 21} -> MovesRetired(m, i)
    [] i.type \in {8, 9} -> ClausesRetired(m, i, notExpired)
    [] i.type \in {14, 15, 16} -> ShiftsRetired(m, i, notExpired)
    [] i.type \in {23, 24, 25} -> DividesRetired(m, i)

\* The registers an instruction names outside the compute clause.
Named(i) ==
  CASE i.type \in {6, 7} -> {i.dst}
    [] i.type = 17 -> {i.dst, i.src}
    [] OTHER -> {}

\* _mstat_dependency_invalid.
MstatDependencyInvalid(m, i) ==
  \/ /\ BankUnknown(m)
     /\ \/ i.type \in {8, 9, 14, 15, 16, 23, 24, 25}
        \/ \E r \in Named(i) : InBank(r)
  \/ i.type \in {8, 9} /\ \E b \in DOMAIN m.mode : ~Known(m.mode[b])

\* A slice for moves refuses to write a bank it does not know.
WriteRefused(m, dst) == InBank(dst) /\ BankUnknown(m)

\* not_counter_expired as ADSP2100Model passes it.
NotExpired(m) == Known(m.ctl["CNTR"]) /\ m.ctl["CNTR"] # 1

\* ADSP2100Model keeps ASTAT as one word.
WholeStatus(m) ==
  IF \E f \in DOMAIN m.flag : ~Known(m.flag[f])
    THEN [m EXCEPT !.flag = FromWord(ASTATBits, Unknown)] ELSE m

-----------------------------------------------------------------------------
(* The mode slice: an ALU clause, a word for a DREG and a change of the modes  *)
(* in one cycle, all under the modes the cycle started with.                   *)

\* The read port, before anything is written.
ModeSliceRead(m, r) == ReadDREG(Bank(m), r)

\* An ALU clause may not be offered with a word for AR.
ModeSliceAccepts(q) ==
  q.clause.feedback \/ "AR" \notin DOMAIN q.dreg

ModeSliceCycle(m, q) ==
  LET computed == AluApplied(m, q.clause)
      status == StatusCycle(m, [NoStatusWrites EXCEPT
                  !.moves = q.moves, !.modes = q.modes,
                  !.automatic = [ALU |-> [f \in AluFlags(q.clause.f) |-> computed.flag[f]]]])
      written == IF DOMAIN q.dreg = {} THEN computed
                 ELSE LET d == CHOOSE d \in DOMAIN q.dreg : TRUE
                      IN WithBank(computed, StoreDREG(Bank(computed), d, q.dreg[d]))
  IN [status EXCEPT !.bank = written.bank]

-----------------------------------------------------------------------------
(* Initial pairs *)

Other(r, v) == CHOOSE s \in Samples[r] : s # v

\* A machine from a choice of its inputs; the rest holds the first sample.
Machine(choice) ==
  LET value(space, r) ==
        IF <<space, r>> \in DOMAIN choice THEN choice[<<space, r>>]
        ELSE IF space \in {"flag", "mode"} THEN FALSE ELSE Other(r, Min(Samples[r]))
      bank == [r \in Banked |-> value("bank", r)]
  IN [bank |-> [b \in 0..1 |->
                  [r \in Banked |-> IF b = 0 THEN bank[r]
                                    ELSE Lifted(bank[r], Other(r, bank[r]))]],
      flag |-> [f \in BitNames(ASTATBits) |-> value("flag", f)],
      mode |-> [b \in BitNames(MSTATBits) |-> value("mode", b)],
      ctl |-> [c \in Control |-> value("ctl", c)]]

\* The inputs in `high` take their second sample.
Choice(inputs, high) ==
  [n \in inputs |-> IF n[1] \in {"flag", "mode"} THEN n \in high
                    ELSE IF n \in high THEN Max(Samples[n[2]]) ELSE Min(Samples[n[2]])]

\* The modes of a slice that computes are a known word.
MayBeUnknown(p) ==
  {n \in p.inputs : n[1] = "mode" =>
     p.host = "CORE" \/ \E k \in DOMAIN p.code : p.code[k].type \in {7, 17}}

Init ==
  /\ \E n \in DOMAIN Programs : program = Programs[n]
  /\ \E high \in SUBSET program.inputs, unknown \in SUBSET MayBeUnknown(program) :
       LET choice == Choice(program.inputs, high)
           seen == Machine([n \in DOMAIN choice |-> IF n \in unknown THEN Unknown ELSE choice[n]])
       IN /\ Cardinality(unknown) <= MaxUnknown
          /\ actual = Machine(choice)
          /\ view = IF Slice THEN seen ELSE WholeStatus(seen)
  /\ diagnosed = FALSE
  /\ cycles = 0

-----------------------------------------------------------------------------
(* Boundaries *)

Boundary ==
  /\ cycles < MaxCycles
  /\ cycles' = cycles + 1
  /\ UNCHANGED program

\* A slice retires its instruction; the NOT CE pin is an input.
SliceExecute ==
  /\ Slice
  /\ Boundary
  /\ \E i \in Instructions, notExpired \in BOOLEAN :
       /\ Supported(i)
       /\ actual' = Retired(actual, i, notExpired)
       /\ IF i.type \in {7, 17} /\ WriteRefused(view, i.dst)
            THEN /\ diagnosed' = TRUE
                 /\ UNCHANGED view
            ELSE /\ view' = Retired(view, i, notExpired)
                 /\ UNCHANGED diagnosed

\* The core retires through ADSP2100Model.step; an instruction that needs a
\* mode it does not know only moves the PC.
CoreExecute ==
  /\ ~Slice
  /\ Boundary
  /\ \E i \in Instructions :
       /\ Supported(i)
       /\ actual' = Retired(actual, i, NotExpired(actual))
       /\ IF MstatDependencyInvalid(view, i)
            THEN /\ diagnosed' = TRUE
                 /\ UNCHANGED view
            ELSE /\ view' = WholeStatus(Retired(view, i, NotExpired(view)))
                 /\ UNCHANGED diagnosed

\* What the set-up port of a slice reaches.
SetUpRegisters(type) ==
  CASE type \in {6, 15} -> DREG \cup {"MSTAT"}
    [] type \in {7, 17} -> Movable
    [] type \in {8, 9} -> DREG \cup {"ASTAT", "MSTAT", "AF", "MF"}
    [] type \in {14, 16} -> DREG \cup {"ASTAT", "MSTAT", "SB"}
    [] type = 18 -> {"MSTAT"}
    [] type = 21 -> {"I", "M", "L"}
    [] type \in {23, 24} -> DREG \cup {"ASTAT", "MSTAT", "AF"}
    [] type = 25 -> {"ASTAT", "MSTAT", "MR0", "MR1", "MR2"}

SetRegister(m, r, v) ==
  IF r \in {"AF", "MF"} THEN WithBank(m, [Bank(m) EXCEPT ![r] = v]) ELSE WriteRegister(m, r, v)

SetUpWords(r) ==
  IF r = "ASTAT" THEN {0, 255} ELSE IF r = "MSTAT" THEN {0, 1, 15} ELSE Samples[r]

\* The slice that moves I, M and L takes an Unknown word too.
SetUp ==
  /\ Slice
  /\ Boundary
  /\ \E type \in {i.type : i \in Instructions} :
       \E r \in {r \in SetUpRegisters(type) : program.inputs \cap ({"bank", "ctl"} \X {r}) # {}
                                              \/ r \in StatusRegister} :
         \E v \in SetUpWords(r), hidden \in BOOLEAN :
           /\ hidden => type = 21
           /\ actual' = SetRegister(actual, r, v)
           /\ IF type \in {7, 17} /\ WriteRefused(view, r)
                THEN /\ diagnosed' = TRUE
                     /\ UNCHANGED view
                ELSE /\ view' = SetRegister(view, r, IF hidden THEN Unknown ELSE v)
                     /\ UNCHANGED diagnosed

\* An unsupported word, or an instruction together with a set-up.
Refuse ==
  /\ Boundary
  /\ Slice \/ \E i \in Instructions : ~Supported(i)
  /\ UNCHANGED <<actual, view, diagnosed>>

\* The computing slices keep their registers through reset; the others start
\* again from nothing.
Reset ==
  /\ Boundary
  /\ actual' = [actual EXCEPT !.mode = FromWord(MSTATBits, 0), !.ctl["IMASK"] = 0]
  /\ view' = IF Slice /\ \A i \in Instructions : i.type \in {8, 9, 14, 15, 16, 18, 25}
               THEN ResetStatus(view) ELSE ResetMachine(view)
  /\ diagnosed' = FALSE

Next == SliceExecute \/ CoreExecute \/ SetUp \/ Refuse \/ Reset

Spec == Init /\ [][Next]_vars

-----------------------------------------------------------------------------
(* Properties *)

Honest(seen, value) == seen \in {Unknown, value}

\* Unless the host has reported an undecided bank or mode, every value the
\* model shows is the value the processor holds: no Unknown operand, flag or
\* counter leaks into a known result.
UnknownsAreHonest ==
  ~diagnosed =>
    /\ \A b \in 0..1, r \in Banked : Honest(view.bank[b][r], actual.bank[b][r])
    /\ \A f \in DOMAIN view.flag : Honest(view.flag[f], actual.flag[f])
    /\ \A b \in DOMAIN view.mode : Honest(view.mode[b], actual.mode[b])
    /\ \A c \in Control : Honest(view.ctl[c], actual.ctl[c])

\* The two clauses of a Type 8 word act at once: when the move's destination
\* feeds no operand the word is the move and then the computation, when the
\* computation leaves the move's source alone it is the computation and then
\* the move.
ClausesActAtOnce ==
  \A i \in {j \in Instructions : j.type = 8 /\ Supported(j)} :
    LET feeds == {i.clause.x, i.clause.y} \cup
                   (IF i.clause.unit = "MAC" THEN {"MR0", "MR1", "MR2"} ELSE {})
        computed == Compute(actual, i.clause)
        after == Retired(actual, i, FALSE)
    IN /\ Touched(i.dst) \cap (feeds \cup ClauseDestination(i.clause)) = {} =>
            after = Compute(MoveDREG(actual, actual, i), i.clause)
       /\ i.src \notin ClauseDestination(i.clause) =>
            after = MoveDREG(computed, computed, i)

\* The banks an instruction's two clauses ask to write in its cycle.
BankRequest(i) ==
  [dregs |-> {i.dst}, sb |-> FALSE,
   feedback |-> i.type = 8 /\ i.clause.feedback,
   unit |-> CASE i.type = 8 -> i.clause.unit
              [] i.type = 14 /\ IsShift(i.f) -> "SR"
              [] i.type = 14 /\ i.f.op = "EXPADJ" -> "SB"
              [] OTHER -> "SE"]

\* The words the decoders support, whatever their move's destination, are those
\* whose two writes the register banks take in one cycle.  A program does not
\* change, so its first state tells.
SupportedWritesFit ==
  cycles = 0 => \A i \in {j \in Instructions : j.type \in {8, 14}}, d \in DREG :
    LET word == [i EXCEPT !.dst = d]
    IN Supported(word) <=> ~BankCollision(BankRequest(word))

\* A change of the modes in the cycle of a computation and a move waits for its
\* end: the bank, the saturation and the latch are those of the cycle's start.  The
\* mode slice computes with words and flags that are known, no others.
ModesOfCycleStart ==
  \A i \in {j \in Instructions : j.type = 8 /\ Supported(j) /\ j.clause.unit = "ALU"},
     b \in DOMAIN actual.mode, change \in {"CLEAR", "SET"} :
    LET modes == [NoModes EXCEPT ![b] = change]
        q == [clause |-> i.clause, moves |-> <<>>, modes |-> modes,
              dreg |-> [d \in {i.dst} |-> ModeSliceRead(actual, i.src)]]
    IN AluKnown(actual, i.clause) /\ ModeSliceAccepts(q) =>
         ModeSliceCycle(actual, q)
           = Type18Retired(Retired(actual, i, FALSE), [type |-> 18, modes |-> modes])

\* An interrupt entry and the restore of what it pushed leave the status as it
\* was, though the entry came with writes of its own; a restore that comes with
\* one is refused.
StatusSurvivesEntry ==
  LET switch == [NoStatusWrites EXCEPT !.modes["SR"] = "SET"]
      restore == [NoStatusWrites EXCEPT !.restore = {StatusEntry(actual)}]
  IN /\ StatusCycle(actual, [restore EXCEPT !.modes = switch.modes]) = actual
     /\ \A level \in {0, 3}, icntl \in {0, 16} :
          LET m == [actual EXCEPT !.ctl["ICNTL"] = icntl]
              entered == StatusCycle(m, [switch EXCEPT !.entry = {level}])
          IN /\ StatusCycle(entered, restore) = m
             /\ \A n \in 0 .. level : ~Bit(entered.ctl["IMASK"], n)

\* What one cycle writes, it writes at once, and asks of no register twice.
CyclesCommitAtOnce ==
  ClausesActAtOnce /\ SupportedWritesFit /\ ModesOfCycleStart /\ StatusSurvivesEntry

=============================================================================
