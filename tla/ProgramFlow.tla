------------------------------- MODULE ProgramFlow -------------------------------
(***************************************************************************)
(* The program sequencer as one instruction after another sees it:         *)
(* next-address selection (rtl/core/adsp2100_sequencer_flow.sv), the four  *)
(* stacks, the loop counter, the status registers and interrupt entry and  *)
(* return, as connected in adsp2100_linear_fetch_client.sv and             *)
(* adsp2100_architectural_state.sv.                                        *)
(*                                                                         *)
(* A step is one processor cycle that retires an instruction, one          *)
(* vectoring cycle, or one cycle in which neither happens but the          *)
(* interrupt pins are sampled.  Between the issue of a fetch and the       *)
(* retirement of the instruction that issued it the state read here does   *)
(* not change, so one step stands for both.  The fetch itself is the       *)
(* subject of ProgramClients.                                              *)
(*                                                                         *)
(* Conditions: ALWAYS, NOT_CE (the counter has not expired), and FLAG,     *)
(* which stands for the conditions on ASTAT.  astat is that flag and is    *)
(* stacked with IMASK; the other bits of ASTAT and MSTAT follow it.        *)
(***************************************************************************)
EXTENDS Counter, InterruptControl, SequencesExt

CONSTANTS Addresses,     \* 0 .. 2^14 - 1
          Programs,      \* functions from Addresses to instructions
          ResetVector,   \* 4
          PcDepth,       \* 16
          LoopDepth,     \* 4
          StatusDepth,   \* 4
          Pins           \* the interrupt pins the board moves

VARIABLES program, pc,
          vectoring,      \* the level recognised and not yet entered, or NoLevel
          astat,
          pcStack, loopStack, statusStack,
          interrupted,    \* history: the contexts that services interrupted
          rounds          \* history: the active loops, what each was set up with

Conditions == {"ALWAYS", "NOT_CE", "FLAG"}

Instructions ==
  [op : {"PLAIN", "COMPUTE"}]
  \cup [op : {"JUMP", "CALL", "TRAP"}, condition : Conditions, target : Addresses]
  \cup [op : {"RETURN"}, condition : Conditions, restore : BOOLEAN]
  \cup [op : {"LOAD"}, value : Counts]
  \cup [op : {"DO"}, until : Conditions, end : Addresses]
  \cup [op : {"IMASK"}, mask : SUBSET Levels]
  \cup [op : {"ICNTL"}, edge : SUBSET Levels, nest : BOOLEAN]
  \cup [op : {"STACK"}, pc : BOOLEAN, loop : BOOLEAN, count : BOOLEAN,
        status : {"PUSH", "POP", "NONE"}]

\* The vector of a level is the address of that number.
ASSUME ProgramFlowConstants ==
  /\ Cardinality(Addresses) \in Nat \ {0}
  /\ Addresses = 0 .. Cardinality(Addresses) - 1
  /\ Levels \subseteq Addresses /\ ResetVector \in Addresses
  /\ Programs \subseteq [Addresses -> Instructions]
  /\ PcDepth \in Nat /\ LoopDepth \in Nat /\ StatusDepth \in Nat
  /\ Pins \subseteq Levels

machine == <<program, pc, vectoring, astat, count, pcStack, loopStack, statusStack>>

vars == <<machine, interruptVars, interrupted, rounds>>

-----------------------------------------------------------------------------
(* The instruction at pc. *)

instruction == program[pc]

Is(op) == instruction.op = op

Transfers == {"JUMP", "CALL", "RETURN", "TRAP"}

AddressAfter(address) == (address + 1) % Cardinality(Addresses)

\* if_predicate of a condition code; CE is read at the start of the cycle.
Holds(condition) ==
  CASE condition = "ALWAYS" -> TRUE
    [] condition = "NOT_CE" -> ~Expired
    [] condition = "FLAG"   -> astat

\* sequencer_explicit_taken.
Taken == instruction.op \in Transfers /\ Holds(instruction.condition)

LoopActive == HasTop(loopStack)

CountedLoop == LoopActive /\ Top(loopStack).until = "NOT_CE"

AtLoopEnd == LoopActive /\ pc = Top(loopStack).end

\* automatic_loop_flow: a transfer that is taken takes precedence.
LoopActs == AtLoopEnd /\ ~Taken

LoopExits == LoopActs /\ ~Holds(Top(loopStack).until)

LoopTestsCounter == LoopActs /\ CountedLoop

JumpTestsCounter == Is("JUMP") /\ instruction.condition = "NOT_CE"

-----------------------------------------------------------------------------
(* What the machine refuses to execute: it then stays where it is. *)

ConditionKnown ==
  instruction.op \in Transfers /\ instruction.condition = "NOT_CE" =>
     count.cntr # Unknown /\ ~Is("CALL")

ReturnPossible ==
  Is("RETURN") /\ Taken =>
     HasTop(pcStack) /\ (instruction.restore => HasTop(statusStack))

LoopContextValid ==
  LoopActive => HasTop(pcStack) /\ (CountedLoop => count.cntr # Unknown)

LoopSetupPossible ==
  Is("DO") => ~AtLoopEnd /\ ~(LoopActive /\ instruction.end = Top(loopStack).end)

\* One word asks for a stack that the loop pops in the same cycle.
AutomaticManualConflict ==
  \/ Is("STACK") /\ LoopExits /\ (instruction.pc \/ instruction.loop)
  \/ Is("STACK") /\ LoopTestsCounter /\ instruction.count
  \/ Is("LOAD") /\ LoopTestsCounter

Executable ==
  ConditionKnown /\ ReturnPossible /\ LoopContextValid /\ LoopSetupPossible
    /\ ~AutomaticManualConflict

-----------------------------------------------------------------------------
(* The cycle-end values of one retirement. *)

Target == IF Is("RETURN") THEN Top(pcStack)
          ELSE IF Is("TRAP") THEN AddressAfter(pc) ELSE instruction.target

NextPc ==
  CASE Taken -> Target
    [] LoopActs /\ ~LoopExits -> Top(pcStack)
    [] OTHER -> AddressAfter(pc)

\* Mutant: a loop that ends leaves its start on the PC stack.
PcStackAfterKeepingStart ==
  CASE (Is("CALL") /\ Taken) \/ Is("DO") -> Push(pcStack, AddressAfter(pc), PcDepth)
    [] (Is("RETURN") /\ Taken) \/ (Is("STACK") /\ instruction.pc) -> Pop(pcStack)
    [] OTHER -> pcStack

PcStackAfter ==
  CASE (Is("CALL") /\ Taken) \/ Is("DO") -> Push(pcStack, AddressAfter(pc), PcDepth)
    [] (Is("RETURN") /\ Taken) \/ LoopExits \/ (Is("STACK") /\ instruction.pc) -> Pop(pcStack)
    [] OTHER -> pcStack

LoopStackAfter ==
  CASE Is("DO") -> Push(loopStack, [until |-> instruction.until, end |-> instruction.end],
                        LoopDepth)
    [] LoopExits \/ (Is("STACK") /\ instruction.loop) -> Pop(loopStack)
    [] OTHER -> loopStack

CountAfter ==
  CASE Is("LOAD") -> Load(instruction.value)
    [] Is("STACK") /\ instruction.count -> PopCount
    [] JumpTestsCounter \/ LoopTestsCounter -> Test
    [] OTHER -> count

\* Neither a taken TRAP nor a word that writes IMASK or ICNTL (or MSTAT) lets
\* an interrupt in.
ServiceAllowed == ~(Is("TRAP") /\ Taken) /\ ~Is("IMASK") /\ ~Is("ICNTL")

Status == [astat |-> astat, imask |-> imask]

RestoresStatus ==
  (Is("RETURN") /\ Taken /\ instruction.restore) \/ (Is("STACK") /\ instruction.status = "POP")

Compute ==
  /\ Is("COMPUTE")
  /\ astat' \in BOOLEAN
  /\ UNCHANGED <<imask, icntl, statusStack>>

WriteMask ==
  /\ Is("IMASK")
  /\ imask' = instruction.mask
  /\ UNCHANGED <<astat, icntl, statusStack>>

WriteControl ==
  /\ Is("ICNTL")
  /\ icntl' = [edge |-> instruction.edge, nest |-> instruction.nest]
  /\ UNCHANGED <<astat, imask, statusStack>>

PushStatus ==
  /\ Is("STACK") /\ instruction.status = "PUSH"
  /\ statusStack' = Push(statusStack, Status, StatusDepth)
  /\ UNCHANGED <<astat, imask, icntl>>

\* Mutant: RTI leaves the mask of the service in force.
RestoreFlagsOnly ==
  /\ RestoresStatus /\ HasTop(statusStack)
  /\ astat' = Top(statusStack).astat
  /\ statusStack' = Pop(statusStack)
  /\ UNCHANGED <<imask, icntl>>

\* RTI and POP STS.
RestoreStatus ==
  /\ RestoresStatus /\ HasTop(statusStack)
  /\ astat' = Top(statusStack).astat
  /\ imask' = Top(statusStack).imask
  /\ statusStack' = Pop(statusStack)
  /\ UNCHANGED icntl

KeepStatus ==
  /\ instruction.op \notin {"COMPUTE", "IMASK", "ICNTL"}
  /\ ~(Is("STACK") /\ instruction.status = "PUSH")
  /\ RestoresStatus => ~HasTop(statusStack)
  /\ UNCHANGED <<astat, imask, icntl, statusStack>>

WriteStatus ==
  Compute \/ WriteMask \/ WriteControl \/ PushStatus \/ RestoreStatus \/ KeepStatus

-----------------------------------------------------------------------------
(* History variables.  They are forgotten once a stack has overflowed: the *)
(* machine then promises nothing but the overflow bit.                     *)

Overflowed ==
  pcStack.overflow \/ loopStack.overflow \/ statusStack.overflow \/ count.stack.overflow

Context ==
  [pc |-> pc, astat |-> astat, imask |-> imask, count |-> count,
   pcStack |-> pcStack, loopStack |-> loopStack, statusStack |-> statusStack]

WithoutLast(s) == IF s = <<>> THEN s ELSE Front(s)

RememberServices ==
  interrupted' =
    IF Overflowed' THEN <<>>
    ELSE IF Is("RETURN") /\ Taken /\ instruction.restore THEN WithoutLast(interrupted)
    ELSE interrupted

RememberLoops ==
  rounds' =
    CASE Overflowed' -> <<>>
      [] ~Overflowed' /\ Is("DO") ->
           Append(rounds, [start |-> AddressAfter(pc), load |-> count.cntr, tests |-> 0,
                           pcs |-> Len(pcStack.items), counts |-> Len(AllCounts(count))])
      [] ~Overflowed' /\ (LoopExits \/ (Is("STACK") /\ instruction.loop)) -> WithoutLast(rounds)
      [] ~Overflowed' /\ LoopTestsCounter /\ ~LoopExits /\ ~(Is("STACK") /\ instruction.loop)
            /\ rounds # <<>> ->
           [rounds EXCEPT ![Len(rounds)].tests = @ + 1]
      [] OTHER -> rounds

-----------------------------------------------------------------------------
Init ==
  /\ program \in Programs
  /\ pc = ResetVector
  /\ vectoring = NoLevel
  /\ astat \in BOOLEAN
  /\ count = NoCount
  /\ pcStack = EmptyStack
  /\ loopStack = EmptyStack
  /\ statusStack = EmptyStack
  /\ InitInterrupts
  /\ interrupted = <<>>
  /\ rounds = <<>>

\* An instruction retires in state 7.  An interrupt recognised in the same
\* cycle discards the word just fetched: the next cycle is a vectoring cycle.
Retire(low) ==
  /\ vectoring = NoLevel
  /\ Executable
  /\ pc' = NextPc
  /\ pcStack' = PcStackAfter
  /\ loopStack' = LoopStackAfter
  /\ count' = CountAfter
  /\ WriteStatus
  /\ Sample(low, ServiceAllowed)
  /\ vectoring' = Recognized(low, ServiceAllowed)
  /\ RememberServices
  /\ RememberLoops
  /\ UNCHANGED program

\* The vectoring cycle: context saved at its issue, vector word at its end.
EnterInterrupt(low) ==
  /\ vectoring # NoLevel
  /\ pc' = vectoring
  /\ pcStack' = Push(pcStack, pc, PcDepth)
  /\ statusStack' = Push(statusStack, Status, StatusDepth)
  /\ imask' = EntryMask(vectoring)
  /\ vectoring' = NoLevel
  /\ Sample(low, FALSE)
  /\ UNCHANGED <<program, astat, icntl, count, loopStack>>
  /\ interrupted' = IF Overflowed' THEN <<>>
                    ELSE Append(interrupted, [level |-> vectoring, context |-> Context])
  /\ rounds' = IF Overflowed' THEN <<>> ELSE rounds

\* A granted bus, a DMACK wait or the first half of a PM-data instruction: the
\* pins are sampled and nothing else happens.
WaitCycle(low) ==
  /\ UNCHANGED <<machine, imask, icntl, interrupted, rounds>>
  /\ Sample(low, FALSE)

\* ASTAT and the stored stack entries have no reset value.
Reset ==
  /\ pc' = ResetVector
  /\ vectoring' = NoLevel
  /\ count' = NoCount
  /\ pcStack' = EmptyStack
  /\ loopStack' = EmptyStack
  /\ statusStack' = EmptyStack
  /\ ResetInterrupts
  /\ interrupted' = <<>>
  /\ rounds' = <<>>
  /\ UNCHANGED <<program, astat>>

Advance == \E low \in SUBSET Pins : Retire(low) \/ EnterInterrupt(low)

Next == Advance \/ (\E low \in SUBSET Pins : WaitCycle(low)) \/ Reset

Spec == Init /\ [][Next]_vars

\* Cycles that retire or vector come back: the bus owners give the bus back
\* (HaltBusOwner) and a DMACK wait ends.
FairSpec == Spec /\ WF_vars(Advance)

-----------------------------------------------------------------------------
(* Properties *)

\* Every register and stack stays within its width and depth.
TypeOK ==
  /\ pc \in Addresses
  /\ vectoring \in Levels \cup {NoLevel}
  /\ astat \in BOOLEAN
  /\ CountOK
  /\ InterruptOK
  /\ IsStack(pcStack, Addresses, PcDepth)
  /\ IsStack(loopStack, [until : Conditions, end : Addresses], LoopDepth)
  /\ IsStack(statusStack, [astat : BOOLEAN, imask : SUBSET Levels], StatusDepth)

(***************************************************************************)
(* The rules programs keep.  The machine does not enforce them; they say   *)
(* how high each stack is at a word that pops it, not what it holds.       *)
(***************************************************************************)

RTI == Is("RETURN") /\ Taken /\ instruction.restore

PopsPc == (Is("RETURN") /\ Taken) \/ LoopExits \/ (Is("STACK") /\ instruction.pc)

PopsLoop == LoopExits \/ (Is("STACK") /\ instruction.loop)

UsesCount == (Is("STACK") /\ instruction.count) \/ JumpTestsCounter \/ LoopTestsCounter

\* A service takes nothing from below its own entries, and ends with the stacks
\* as high as it found them.
ServicesKeepTheirPlace ==
  interrupted # <<>> /\ vectoring = NoLevel /\ Executable =>
    LET c == Last(interrupted).context
        pcs == Len(c.pcStack.items) + 1
        statuses == Len(c.statusStack.items) + 1
        loops == Len(c.loopStack.items)
        counts == Len(AllCounts(c.count))
    IN /\ RTI => /\ Len(pcStack.items) = pcs /\ Len(statusStack.items) = statuses
                 /\ Len(loopStack.items) = loops /\ Len(AllCounts(count)) = counts
       /\ PopsPc /\ ~RTI => Len(pcStack.items) > pcs
       /\ RestoresStatus /\ ~RTI => Len(statusStack.items) > statuses
       /\ PopsLoop => Len(loopStack.items) > loops
       /\ UsesCount => Len(AllCounts(count)) > counts

\* A service enables no level that its entry disabled, and leaves nesting alone.
ServicesKeepTheirMask ==
  interrupted # <<>> /\ vectoring = NoLevel /\ Executable =>
    /\ Is("IMASK") => instruction.mask \subseteq EntryMask(Last(interrupted).level)
    /\ Is("ICNTL") => instruction.nest = icntl.nest

\* What the body of a loop pushes is gone at its end, and only the loop itself
\* tests its count.
LoopsKeepTheirPlace ==
  vectoring = NoLevel /\ Executable =>
    \A k \in DOMAIN rounds :
      LET r == rounds[k]
          innermost == k = Len(rounds)
      IN /\ innermost /\ (LoopActs \/ (Is("STACK") /\ instruction.loop /\ instruction.pc)) =>
              Len(pcStack.items) = r.pcs + 1
         /\ PopsPc /\ ~(innermost /\ PopsLoop) => Len(pcStack.items) > r.pcs + 1
         /\ loopStack.items[k].until = "NOT_CE" /\ UsesCount =>
              IF innermost /\ LoopTestsCounter THEN Len(AllCounts(count)) = r.counts
              ELSE Len(AllCounts(count)) > r.counts

KeepsTheRules == ServicesKeepTheirPlace /\ ServicesKeepTheirMask /\ LoopsKeepTheirPlace

\* An RTI that ends a service gives the interrupted code back everything: its
\* next address, flags, mask, count and all four stacks, whatever the service
\* and the services that interrupted it did in between.
InterruptTransparent ==
  [][(\E low \in SUBSET Pins : Retire(low))
       /\ Is("RETURN") /\ Taken /\ instruction.restore /\ interrupted # <<>> /\ ~Overflowed'
     => Context' = Last(interrupted).context]_vars

\* A service is interrupted only by a higher level; with nesting off, by none.
PriorityNesting ==
  /\ \A i, j \in DOMAIN interrupted :
       i < j => interrupted[i].level < interrupted[j].level
  /\ icntl # Unset /\ ~icntl.nest => Len(interrupted) <= 1

\* The status stack holds the contexts of all levels nested at once, when the
\* program does not push on it as well.
NestedContextsFit ==
  statusStack.overflow =>
    \E a \in Addresses : program[a].op = "STACK" /\ program[a].status = "PUSH"

\* A counted loop ends at the test that its count says, a count of zero being
\* the full range, however loops, calls and services nest inside it.
CountedLoopRuns ==
  [][(\E low \in SUBSET Pins : Retire(low)) /\ LoopExits /\ CountedLoop /\ ~Overflowed
     => Last(rounds).tests + 1
          = (IF Last(rounds).load = 0 THEN CountModulus ELSE Last(rounds).load)]_vars

\* A loop goes back to the word after its own DO.
LoopGoesBack ==
  [][(\E low \in SUBSET Pins : Retire(low)) /\ LoopActs /\ ~LoopExits /\ ~Overflowed
     => pc' = Last(rounds).start]_vars

\* A loop runs from its own start and as often as its own count says.
LoopsKeepTheirOwn == CountedLoopRuns /\ LoopGoesBack

\* A program that keeps the rules stops only after an overflow, which SSTAT
\* reports: a lost entry is never the silent cause of a refusal.
RefusalIsExplained == vectoring = NoLevel /\ ~Executable => Overflowed

\* The stacks have room for what interrupts alone can need, and where a program
\* that keeps the rules asks for more the machine says so.
StacksSuffice == KeepsTheRules /\ RefusalIsExplained /\ NestedContextsFit

\* The interrupted program comes to run again under any storm of requests.
ForegroundRuns == []<>(interrupted = <<>> /\ vectoring = NoLevel)

\* An edge on the highest pin in use that is enabled is served, unless RESET
\* forgets it, whatever other levels ask for meanwhile.
TopEdgeServed ==
  \A level \in Pins :
    (\A other \in Pins : other <= level) =>
       (level \in edgePending \cap imask ~> level \notin edgePending \/ Overflowed)

\* No side starves: the interrupted program comes back and the highest request
\* gets through, in the same run.
InterruptsTakeTurns == ForegroundRuns /\ TopEdgeServed

\* docs/architecture/interrupts.md:45: interrupts adjacent to an effective
\* write of MSTAT, ICNTL or IMASK are retained and not serviced.
AdjacentWriteDefersService ==
  [][vectoring = NoLevel /\ vectoring' # NoLevel => imask' = imask /\ icntl' = icntl]_vars

=============================================================================
