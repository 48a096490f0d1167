------------------------------ MODULE LinearFetch ------------------------------
(***************************************************************************)
(* The fetch and flow part of rtl/core/adsp2100_linear_fetch_client.sv:    *)
(* the program counter, the one instruction register, the pending fetch    *)
(* and the interrupt whose vector comes next.                              *)
(*                                                                         *)
(* An instruction word is named by the address that holds it, so the       *)
(* register is right exactly when it equals pc.  The flow is sequential    *)
(* with conditional direct jumps; loops, calls and returns, whose stacks   *)
(* only choose the next address, are left out.                             *)
(***************************************************************************)
EXTENDS PMDataClient

CONSTANTS AddressSpace,  \* 2^14
          Levels,        \* interrupt levels; level l vectors to address l
          NoVector,      \* interrupt_vectoring_q low
          ResetVector    \* 4

ASSUME LinearFetchConstants ==
  /\ AddressSpace \in Nat \ {0}
  /\ Addresses = 0 .. AddressSpace - 1
  /\ Words = Addresses
  /\ Levels \subseteq Addresses
  /\ ResetVector \in Addresses
  /\ NoVector \notin Addresses

VARIABLES program,       \* external program memory, decoded
          condition,     \* what a conditional jump tests in ASTAT
          pc,            \* pc_q
          opcode,        \* opcode_q, Unknown while instruction_valid_q is low
          fetchPending,  \* pending_q
          vectoring      \* interrupt_level_q while interrupt_vectoring_q

fetchVars == <<pc, opcode, fetchPending, vectoring>>

Classes == {"SEQUENTIAL", "JUMP", "TYPE5", "TYPE13", "UNSUPPORTED"}

Instructions == [class : Classes, target : Addresses]

TypeOKFetch ==
  /\ program \in [Addresses -> Instructions]
  /\ condition \in BOOLEAN
  /\ pc \in Addresses
  /\ opcode \in Values
  /\ fetchPending \in BOOLEAN
  /\ vectoring \in Levels \cup {NoVector}

Vectoring == vectoring # NoVector

\* The instruction register holds a valid word of one of these classes.
Decodes(classes) == opcode # Unknown /\ program[opcode].class \in classes

SequentialPc == (pc + 1) % AddressSpace

\* sequencer_next_pc, from the flags of the clock edge that asks.
NextPc ==
  IF Decodes({"JUMP"}) /\ condition THEN program[opcode].target ELSE SequentialPc

\* fetch_address_o.
FetchAddress == IF Vectoring THEN vectoring ELSE NextPc

\* Mutant: a PM-data instruction also presents the sequential fetch.
FetchPresentedToo ==
  /\ ~fetchPending
  /\ Vectoring \/ Decodes(Classes \ {"UNSUPPORTED"})

\* fetch_request_presented_o at an open issue boundary.
FetchPresented ==
  /\ ~fetchPending
  /\ Vectoring \/ Decodes({"SEQUENTIAL", "JUMP"})

\* pm_instruction_sequential_allowed_o without loops or a setup.
SequentialAllowed == ~fetchPending /\ ~Vectoring

\* The instruction in the register ends: pc moves to the address asked for at
\* this clock edge, and the successor's word, or an interrupt, replaces it.
RetireInto(word, level) ==
  /\ pc' = FetchAddress
  /\ fetchPending' = FALSE
  /\ vectoring' = level
  /\ opcode' = IF level = NoVector THEN word ELSE Unknown

\* interrupt_vector_fetch_event_o.
EnterVector(word) ==
  /\ pc' = vectoring
  /\ opcode' = word
  /\ fetchPending' = FALSE
  /\ vectoring' = NoVector

\* instruction_setup_accepted_o: only an idle machine takes a first
\* instruction, here the word that memory holds at that address.  linear_core.py
\* does not ask that no vector is waiting.
PreloadAt(address) ==
  /\ opcode = Unknown /\ ~fetchPending /\ ~Vectoring
  /\ pc' = address
  /\ opcode' = address
  /\ UNCHANGED <<fetchPending, vectoring>>

ResetFetch ==
  /\ pc' = ResetVector
  /\ opcode' = Unknown
  /\ fetchPending' = FALSE
  /\ vectoring' = NoVector

=============================================================================
