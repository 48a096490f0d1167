---------------------------- MODULE AtomicInstructions ----------------------------
(***************************************************************************)
(* What a memory instruction promises a programmer: it reads its operands, *)
(* computes, accesses memory and moves its index register in one step.     *)
(* There is no bus, no wait, no pending access and no cache here; a client *)
(* adds them to these variables.                                           *)
(***************************************************************************)
EXTENDS MemoryInstructions

VARIABLES program,   \* the instruction under test and its set-ups
          machine, memory

atomicVars == <<program, machine, memory>>

\* The computation, from the registers the instruction found.
Computed(m, i) ==
  CASE i.type \in {4, 5} -> ClauseDone(m, i.clause)
    [] i.type \in {12, 13} -> ShiftDone(m, i)
    [] OTHER -> m

AddressOf(m, i) ==
  CASE i.type = 3 -> i.address
    [] i.type \in {5, 13} -> m.ctl["I"]
    [] OTHER -> IndexedAddress(m, i.dag)

WordOf(m, i) ==
  CASE i.type = 2 -> i.immediate
    [] i.type = 3 -> ReadRegister(m, i.register)
    [] i.type \in {4, 12} -> ReadDREG(Bank(m), i.dreg)
    [] i.type \in {5, 13} -> ProgramWord(ReadDREG(Bank(m), i.dreg), m.ctl["PX"])

Loaded(m, i, word) ==
  CASE i.type = 3 -> IF InBank(i.register) /\ BankUnknown(m) THEN m
                     ELSE WriteRegister(m, i.register, word)
    [] i.type \in {4, 12} -> WithDREG(m, i.dreg, word)
    [] i.type \in {5, 13} -> WithProgramWord(m, i.dreg, word)

\* The computation done and the index register moved on.
Moved(m, i) ==
  IF i.type = 3 THEN Computed(m, i) ELSE WithIndex(Computed(m, i), NextIndex(m))

Execute ==
  LET i == program.instruction
      address == AddressOf(machine, i)
  IN IF i.write
       THEN /\ machine' = Moved(machine, i)
            /\ memory' = MemoryWritten(memory, address, WordOf(machine, i))
       ELSE /\ machine' = Loaded(Moved(machine, i), i, WordAt(memory, address))
            /\ UNCHANGED memory

AtomicSetUp ==
  /\ \E s \in program.setUps :
       /\ s[1] \in SetUpReach(program.instruction.type)
       /\ machine' = SetRegister(machine, s[1], s[2])
  /\ UNCHANGED memory

AtomicReset ==
  /\ machine' = ResetMachine(machine)
  /\ UNCHANGED memory

AtomicNext == (Execute \/ AtomicSetUp \/ AtomicReset) /\ UNCHANGED program

AtomicInit == DOMAIN memory = Addresses

\* However long memory keeps it waiting, whoever takes the bus meanwhile,
\* however the next instruction is fetched and whatever is asked of the client,
\* a memory instruction is one step of the programmer's machine: the access,
\* the computation and the index register together, from the operands of its
\* issue.
AtomicSpec == AtomicInit /\ [][AtomicNext]_atomicVars

=============================================================================
