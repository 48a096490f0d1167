---------------------------- MODULE InterruptControl ----------------------------
(***************************************************************************)
(* Interrupt recognition, rtl/core/adsp2100_interrupt_control.sv, with the *)
(* two registers it reads, IMASK and ICNTL, and the entry mask of          *)
(* adsp2100_status_registers.sv.  The four pins are sampled in state 7 of  *)
(* every processor cycle.  Pins are named by their level, and a set of     *)
(* levels is the set of pins that are low.                                 *)
(***************************************************************************)
EXTENDS Integers, FiniteSetsExt

CONSTANTS Unset,     \* ICNTL, or the sample, since RESET not written
          NoLevel    \* no interrupt

VARIABLES imask,         \* levels enabled
          icntl,         \* [edge: levels that are edge-sensitive, nest], or Unset
          previousLow,   \* the last sample, Unset after RESET
          edgePending    \* edges seen and not yet served

interruptVars == <<imask, icntl, previousLow, edgePending>>

Levels == 0 .. 3

ASSUME InterruptConstants == NoLevel \notin Levels

InterruptOK ==
  /\ imask \in SUBSET Levels
  /\ icntl \in [edge : SUBSET Levels, nest : BOOLEAN] \cup {Unset}
  /\ previousLow \in (SUBSET Levels) \cup {Unset}
  /\ edgePending \in SUBSET Levels

InitInterrupts ==
  /\ imask = {}
  /\ icntl = Unset
  /\ previousLow = Unset
  /\ edgePending = {}

ResetInterrupts ==
  /\ imask' = {}
  /\ icntl' = Unset
  /\ previousLow' = Unset
  /\ edgePending' = {}

\* The first sample after RESET is only a baseline.
DetectedEdges(low) ==
  IF previousLow = Unset \/ icntl = Unset THEN {} ELSE (low \ previousLow) \cap icntl.edge

EdgesWith(low) == edgePending \cup DetectedEdges(low)

Requests(low) ==
  IF icntl = Unset THEN {} ELSE EdgesWith(low) \cup (low \ icntl.edge)

\* Mutant: requests meet the mask that the retiring instruction leaves.
EnabledAfterwards(low) == Requests(low) \cap imask'

EnabledRequests(low) == Requests(low) \cap imask

\* Mutant: IRQ0 has the highest priority.
LowestRequest(low, serviceAllowed) ==
  IF serviceAllowed /\ EnabledRequests(low) # {}
    THEN Min(EnabledRequests(low)) ELSE NoLevel

\* The level recognised at a sample; IRQ3 has the highest priority.
Recognized(low, serviceAllowed) ==
  IF serviceAllowed /\ EnabledRequests(low) # {}
    THEN Max(EnabledRequests(low)) ELSE NoLevel

\* What the sample of state 7 leaves behind.
Sample(low, serviceAllowed) ==
  /\ previousLow' = low
  /\ edgePending' = EdgesWith(low) \ {Recognized(low, serviceAllowed)}

\* Mutant: a served level stays enabled.
MaskKeepingLevel(level) ==
  IF icntl.nest THEN {l \in Levels : l >= level} ELSE {}

\* IMASK during the service of a level.
EntryMask(level) ==
  IF icntl.nest THEN {l \in Levels : l > level} ELSE {}

=============================================================================
