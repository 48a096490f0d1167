---------------------------- MODULE InstructionStream ----------------------------
(***************************************************************************)
(* What the program-clients composition promises a programmer: the         *)
(* instructions of the program, one after the other in the order of the    *)
(* sequencer, each PM-data action performed exactly once.  There is no     *)
(* phase, no bus, no cache, no HALT and no BR here: none of them may add,  *)
(* skip, repeat or reorder an instruction.                                 *)
(***************************************************************************)
EXTENDS Naturals

CONSTANTS AddressSpace,  \* 2^14: addresses wrap
          Levels,        \* interrupt levels, which are their vector addresses
          NoVector,      \* no interrupt is being taken
          ResetVector    \* 4

VARIABLES program,    \* address -> [class, target] of the instruction there
          pc,         \* the instruction being executed
          condition,  \* the condition a jump tests
          ready,      \* an instruction word is held for pc
          vector,     \* the interrupt level whose vector comes next
          done,       \* the PM-data action of pc has been performed
          held        \* RESET is being held

ProgramAddresses == 0 .. AddressSpace - 1

Class == program[pc].class

IsData == Class \in {"TYPE5", "TYPE13"}

Successor ==
  IF Class = "JUMP" /\ condition
    THEN program[pc].target
    ELSE (pc + 1) % AddressSpace

MayChangeCondition == condition' \in BOOLEAN

\* The data action of a PM-data instruction whose successor is not at hand.
Perform ==
  /\ ~held
  /\ ready /\ IsData /\ ~done
  /\ done' = TRUE
  /\ MayChangeCondition
  /\ UNCHANGED <<pc, ready, vector, held>>

\* The instruction ends, a data action not yet done being part of the step;
\* its successor is read, or an interrupt takes its place.
Retire ==
  /\ ~held
  /\ ready
  /\ Class # "UNSUPPORTED"
  /\ pc' = Successor
  /\ done' = FALSE
  /\ IF (IsData /\ done) \/ Class = "JUMP"
       THEN UNCHANGED condition ELSE MayChangeCondition
  /\ \/ ready' \in BOOLEAN /\ vector' = NoVector
     \/ ready' = FALSE /\ vector' \in Levels
  /\ UNCHANGED held

TakeVector ==
  /\ ~held
  /\ vector # NoVector
  /\ pc' = vector
  /\ ready' \in BOOLEAN
  /\ vector' = NoVector
  /\ UNCHANGED <<condition, done, held>>

\* The setup port places a first instruction.
Preload ==
  /\ ~held
  /\ ~ready /\ vector = NoVector
  /\ pc' \in ProgramAddresses
  /\ ready' = TRUE
  /\ UNCHANGED <<condition, vector, done, held>>

Reset ==
  /\ held' = TRUE
  /\ pc' = ResetVector
  /\ ready' = FALSE
  /\ vector' = NoVector
  /\ done' = FALSE
  /\ MayChangeCondition

LeaveReset ==
  /\ held
  /\ held' = FALSE
  /\ UNCHANGED <<pc, condition, ready, vector, done>>

Init ==
  /\ pc = ResetVector
  /\ condition \in BOOLEAN
  /\ ready = FALSE
  /\ vector = NoVector
  /\ done = FALSE
  /\ held = TRUE

\* No instruction changes the program.
Next ==
  /\ Perform \/ Retire \/ TakeVector \/ Preload \/ Reset \/ LeaveReset
  /\ UNCHANGED program

Spec == Init /\ [][Next]_<<program, pc, condition, ready, vector, done, held>>

=============================================================================
