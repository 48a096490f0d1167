----------------------------- MODULE DataMemoryClient -----------------------------
(***************************************************************************)
(* A data-memory instruction on the native bus: dm_write_immediate_native, *)
(* direct_dm_native, compute_dm_native and shifter_dm_native, which differ *)
(* only in the slice they attach.  The instruction is issued at an enabled *)
(* state 8, DMACK is sampled at state 6, and the slice commits at the      *)
(* state 7 at which the bus completes.  The controls of a clock edge that  *)
(* is not an issue boundary, or that finds an access pending, are ignored. *)
(***************************************************************************)
EXTENDS AtomicInstructions, DataBus

CONSTANTS DataPrograms,   \* a sequence of [instruction, machines, setUps]
          DataMemory,     \* the initial data memory
          MaxDataIssues   \* instructions and set-ups of a behaviour

VARIABLES pendingData,   \* [prepared, issued] of the instruction in flight
          dataIssues     \* instructions and set-ups so far

dataVars == <<phaseVars, dataBusVars, atomicVars, pendingData, dataIssues>>

DataTypes == {2, 3, 4, 12}

\* A data-memory program is one of the four types, on a machine that has all its
\* registers, known or not.
ASSUME DataClientConstants ==
  /\ DataMemory = [a \in Addresses |-> DataMemory[a]]
  /\ \A n \in DOMAIN DataPrograms :
       /\ MemoryWord(DataPrograms[n].instruction, DataTypes)
       /\ \A m \in DataPrograms[n].machines : WellFormed(m)

PreparedAccess(m, i) ==
  CASE i.type = 2 -> Type2Prepared(m, i)
    [] i.type = 3 -> Type3Prepared(m, i)
    [] i.type = 4 -> Type4Prepared(m, i)
    [] i.type = 12 -> Type12Prepared(m, i)

CompletedAccess(m, p, issued, word) ==
  CASE p.instruction.type = 2 -> Type2Completed(m, p, issued, word)
    [] p.instruction.type = 3 -> Type3Completed(m, p, issued, word)
    [] p.instruction.type = 4 -> Type4Completed(m, p, issued, word)
    [] p.instruction.type = 12 -> Type12Completed(m, p, issued, word)

\* What the slice asks of the bus.
BusRequest(p) == [address |-> p.address, write |-> p.instruction.write, data |-> p.data]

InitData ==
  /\ InitPhase
  /\ access = NoAccess
  /\ stage = "OPEN"
  /\ \E n \in DOMAIN DataPrograms :
       /\ program = [instruction |-> DataPrograms[n].instruction,
                     setUps |-> DataPrograms[n].setUps]
       /\ machine \in DataPrograms[n].machines
  /\ memory = DataMemory
  /\ pendingData = NoPending
  /\ dataIssues = 0

-----------------------------------------------------------------------------

\* State 6: DMACK is sampled while the processor owns the bus.
SampleAcknowledge ==
  /\ AdvanceFrom(6)
  /\ \E ack, relinquished \in BOOLEAN :
       stage' = IF relinquished THEN stage ELSE StageAfterSample(ack)
  /\ UNCHANGED <<access, program, machine, memory, pendingData, dataIssues>>

\* State 7: the access completes and the instruction commits as a whole.
CompleteAccess ==
  /\ AdvanceFrom(7)
  /\ AccessCompletes
  /\ stage' = StageAfterComplete
  /\ LET p == pendingData.prepared
         word == IF p.instruction.write THEN Unknown ELSE WordAt(memory, p.address)
     IN /\ machine' = CompletedAccess(machine, p, pendingData.issued, word)
        /\ memory' = IF p.instruction.write THEN MemoryWritten(memory, p.address, p.data)
                     ELSE memory
  /\ pendingData' = NoPending
  /\ UNCHANGED <<access, program, dataIssues>>

\* The bus is with another owner, or there is nothing to complete.
CompleteNoAccess ==
  /\ AdvanceFrom(7)
  /\ UNCHANGED <<dataBusVars, program, machine, memory, pendingData, dataIssues>>

\* Mutant: only the slice's own issue is held off by a pending access.
AdmitsDataAlways == TRUE

\* State 8, and no access in flight.
AdmitsData == pendingData = NoPending

DataCounted == dataIssues < MaxDataIssues /\ dataIssues' = dataIssues + 1

IssueInstruction ==
  /\ AdvanceFrom(8)
  /\ pendingData = NoPending
  /\ MemorySupported(program.instruction)
  /\ DataCounted
  /\ pendingData' = [prepared |-> PreparedAccess(machine, program.instruction),
                     issued |-> machine]
  /\ IssueAccess(BusRequest(pendingData'.prepared))
  /\ UNCHANGED <<program, machine, memory>>

\* A pending slice goes on asking for its access.
BusStill ==
  IssueAccess(IF pendingData = NoPending THEN NoAccess ELSE BusRequest(pendingData.prepared))

SetUpData ==
  /\ AdvanceFrom(8)
  /\ AdmitsData
  /\ DataCounted
  /\ \E s \in program.setUps :
       /\ s[1] \in SetUpReach(program.instruction.type)
       /\ machine' = SetRegister(machine, s[1], s[2])
  /\ BusStill
  /\ UNCHANGED <<program, memory, pendingData>>

\* No control, refused ones, or a bus the processor does not own.
IssueNoAccess ==
  /\ AdvanceFrom(8)
  /\ BusStill \/ UNCHANGED dataBusVars
  /\ UNCHANGED <<program, machine, memory, pendingData, dataIssues>>

OtherDataPhases ==
  /\ \E p \in Phases \ {6, 7, 8} : AdvanceFrom(p)
  /\ UNCHANGED <<dataBusVars, program, machine, memory, pendingData, dataIssues>>

ResetData ==
  /\ AssertReset
  /\ ClearDataBus
  /\ machine' = ResetMachine(machine)
  /\ pendingData' = NoPending
  /\ UNCHANGED <<program, memory, dataIssues>>

ReleaseData ==
  /\ ReleaseReset
  /\ UNCHANGED <<dataBusVars, program, machine, memory, pendingData, dataIssues>>

DataClockEdge ==
  \/ SampleAcknowledge \/ CompleteAccess \/ CompleteNoAccess
  \/ IssueInstruction \/ SetUpData \/ IssueNoAccess \/ OtherDataPhases

NextData == DataClockEdge \/ ResetData \/ ReleaseData

SpecData == InitData /\ [][NextData]_dataVars

=============================================================================
