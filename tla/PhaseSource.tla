------------------------------ MODULE PhaseSource ------------------------------
(***************************************************************************)
(* What every clocked module of rtl/core is told about time: the logical   *)
(* phase (phase_i), whether this clock edge advances it (phase_advance_i)  *)
(* and whether the architecture is held in reset (reset_i).  The modules   *)
(* take these three as inputs; ResetPhase models the block that drives     *)
(* them and implements this specification.                                 *)
(*                                                                         *)
(* A clock edge without phase_advance_i changes no state of the machine:   *)
(* it is a stuttering step.                                                *)
(***************************************************************************)
EXTENDS Naturals

VARIABLES phase,        \* phase_q: logical processor state 1..8
          resetActive   \* reset_active_q: architectural reset is being held

phaseVars == <<phase, resetActive>>

Phases == 1..8

\* The logical phase a reset holds, and the one its release enters.
ResetPhaseState == 4
ReleasePhaseState == 5

\* Mutant: the 3-bit ring does not wrap.
NextPhaseNoWrap(p) == p + 1

NextPhase(p) == (p % 8) + 1

TypeOKPhase == phase \in Phases /\ resetActive \in BOOLEAN

InitPhase == phase = ResetPhaseState /\ resetActive = TRUE

\* A clock edge with phase_advance_i in processor state p, outside reset.
AdvanceFrom(p) ==
  /\ ~resetActive
  /\ phase = p
  /\ phase' = NextPhase(p)
  /\ UNCHANGED resetActive

\* The RESET pin is recognised: phase 4 is forced and held.
AssertReset ==
  /\ phase' = ResetPhaseState
  /\ resetActive' = TRUE

\* The edge that releases the held phase 4 into phase 5.
ReleaseReset ==
  /\ resetActive
  /\ phase' = ReleasePhaseState
  /\ resetActive' = FALSE

NextPhaseSource == AssertReset \/ ReleaseReset \/ \E p \in Phases : AdvanceFrom(p)

SpecPhase == InitPhase /\ [][NextPhaseSource]_phaseVars

=============================================================================
