------------------------------- MODULE LinearCore -------------------------------
(***************************************************************************)
(* The linear fetch client with its private program bus, linear_core.py:   *)
(* one instruction register, one pending fetch, the interrupt controller.  *)
(* An instruction is known by its kind.  What instructions compute is the  *)
(* subject of ProgramFlow and Architecture; here only their effect on the  *)
(* fetch protocol and on the interrupt registers is kept.                  *)
(***************************************************************************)
EXTENDS PhaseSource, InterruptControl

CONSTANTS NoInstruction,   \* instruction_valid low
          NoOwner,         \* no program-bus transaction
          Masks,           \* the values programs write to IMASK
          EdgeMasks        \* the interrupt pins programs make edge-sensitive in ICNTL

VARIABLES instruction,    \* the kind of the word in the instruction register
          fetchPending,   \* pending
          vectoring,      \* the level recognised and not yet entered, or NoLevel
          busOwner        \* the owner of the captured program-bus transaction

coreVars == <<instruction, fetchPending, vectoring, busOwner>>

\* TRAP is a taken one; CONTROL writes MSTAT, IMASK or ICNTL; UNSUPPORTED is a
\* word the client does not execute.
Kinds == {"PLAIN", "TRAP", "CONTROL", "UNSUPPORTED"}

BusOwners == {"FETCH", "PMDATA"}

ASSUME LinearCoreConstants ==
  /\ Masks \subseteq SUBSET Levels
  /\ EdgeMasks \subseteq SUBSET Levels
  /\ NoOwner \notin BusOwners
  /\ NoInstruction \notin Kinds

TypeOKCore ==
  /\ instruction \in Kinds \cup {NoInstruction}
  /\ fetchPending \in BOOLEAN
  /\ vectoring \in Levels \cup {NoLevel}
  /\ busOwner \in BusOwners \cup {NoOwner}
  /\ InterruptOK

InitCore ==
  /\ instruction = NoInstruction
  /\ fetchPending = FALSE
  /\ vectoring = NoLevel
  /\ busOwner = NoOwner
  /\ InitInterrupts

ResetCore ==
  /\ instruction' = NoInstruction
  /\ fetchPending' = FALSE
  /\ vectoring' = NoLevel
  /\ busOwner' = NoOwner
  /\ ResetInterrupts

\* fetch_request at an issue boundary without a setup.
FetchRequested ==
  /\ ~fetchPending
  /\ vectoring # NoLevel \/ instruction \in {"PLAIN", "TRAP", "CONTROL"}

(***************************************************************************)
(* An enabled state-8 boundary at which issue is not inhibited.            *)
(***************************************************************************)

\* The fetch is accepted; a vector fetch saves the context and masks.
AcceptFetch ==
  /\ FetchRequested
  /\ busOwner' = "FETCH"
  /\ fetchPending' = TRUE
  /\ imask' = IF vectoring = NoLevel THEN imask ELSE EntryMask(vectoring)
  /\ UNCHANGED <<instruction, vectoring, icntl, previousLow, edgePending>>

\* No request, or one that the owner selector refused: the slot is cleared, or
\* another owner's.
LeaveSlotTo(owner) ==
  /\ busOwner' = owner
  /\ UNCHANGED <<instruction, fetchPending, vectoring, interruptVars>>

\* instruction_setup: only an idle machine is preloaded, as in the RTL.
\* linear_core.py takes a preload beside a vector too, and reports a conflict.
SetUp(kind) ==
  /\ instruction = NoInstruction /\ ~fetchPending /\ vectoring = NoLevel
  /\ instruction' = kind
  /\ busOwner' = NoOwner
  /\ UNCHANGED <<fetchPending, vectoring, interruptVars>>

(***************************************************************************)
(* An enabled state 7.                                                     *)
(***************************************************************************)

\* completion_event of the core's own transaction.
FetchCompletes == busOwner = "FETCH"

\* interrupt_service_allowed at a retirement.
ServiceAllowed == instruction \notin {"TRAP", "CONTROL"}

\* The values programs write to ICNTL.
Controls == [edge : EdgeMasks, nest : BOOLEAN]

WriteControl ==
  IF instruction = "CONTROL"
    THEN \/ imask' \in Masks /\ UNCHANGED icntl
         \/ icntl' \in Controls /\ UNCHANGED imask
         \/ UNCHANGED <<imask, icntl>>
    ELSE UNCHANGED <<imask, icntl>>

\* linear_fetch_retire: the word just read, NoInstruction when it is UNKNOWN,
\* or a recognised interrupt, takes the place of the instruction.
RetireInto(word, low) ==
  /\ FetchCompletes /\ fetchPending /\ vectoring = NoLevel
  /\ Sample(low, ServiceAllowed)
  /\ vectoring' = Recognized(low, ServiceAllowed)
  /\ instruction' = IF vectoring' = NoLevel THEN word ELSE NoInstruction
  /\ fetchPending' = FALSE
  /\ WriteControl
  /\ UNCHANGED busOwner

\* interrupt_vector_fetch_event.
EnterVector(word, low) ==
  /\ FetchCompletes /\ fetchPending /\ vectoring # NoLevel
  /\ Sample(low, FALSE)
  /\ vectoring' = NoLevel
  /\ instruction' = word
  /\ fetchPending' = FALSE
  /\ UNCHANGED <<imask, icntl, busOwner>>

\* A state 7 of the architecture, or only of the pins, at which no fetch ends.
SampleOnly(low) ==
  /\ Sample(low, FALSE)
  /\ UNCHANGED <<coreVars, imask, icntl>>

\* Mutant: a state 7 inside an extension does not sample the pins.
SkipSample(low) == UNCHANGED <<coreVars, interruptVars>>

\* interrupt_sample_advance without phase_advance.
SampleInExtension(low) == SampleOnly(low)

\* trap_event: a taken TRAP retires.
Traps == FetchCompletes /\ fetchPending /\ vectoring = NoLevel /\ instruction = "TRAP"

=============================================================================
