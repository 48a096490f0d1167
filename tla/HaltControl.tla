------------------------------- MODULE HaltControl -------------------------------
(***************************************************************************)
(* rtl/core/adsp2100_halt_control.sv: the HALT controller.  HALT is        *)
(* recognised at an enabled state 3; the machine stops in state 8 once the *)
(* instruction fetch in progress has completed.  A HALT recognised during  *)
(* a PM-data cycle first forces exactly one external instruction fetch, so *)
(* that PMA shows an instruction address while the machine is stopped.     *)
(*                                                                         *)
(* The HALT level is a parameter because the composed owner masks the pin. *)
(***************************************************************************)
EXTENDS PhaseSource

VARIABLE haltMode   \* mode_q

HaltModes == {"RUNNING", "STOP_PENDING", "STOPPED", "FORCE_FETCH"}

\* halt_recognized_o at an enabled state 3.
HaltRecognized(haltLow) == haltMode = "RUNNING" /\ haltLow

\* Mutant: the machine stops where HALT is sampled.
StopAtSample(haltLow, dataCycle) ==
  IF HaltRecognized(haltLow) THEN "STOPPED" ELSE haltMode

\* Mutant: a PM-data cycle stops like an instruction fetch.
NeverForcesFetch(haltLow, dataCycle) ==
  IF HaltRecognized(haltLow) THEN "STOP_PENDING" ELSE haltMode

HaltModeAfterSample(haltLow, dataCycle) ==
  IF HaltRecognized(haltLow)
    THEN IF dataCycle THEN "FORCE_FETCH" ELSE "STOP_PENDING"
    ELSE haltMode

\* halt_stop_event_o: the enabled state 7 that enters the stop.
HaltModeAfterComplete ==
  IF haltMode = "STOP_PENDING" THEN "STOPPED" ELSE haltMode

\* Mutant: the HALT pin is not consulted.
ResumeWhileHeld(haltLow, dmack) == haltMode = "STOPPED" /\ dmack

\* Mutant: DMACK is taken as active low.
ResumeOnDmackLow(haltLow, dmack) == haltMode = "STOPPED" /\ ~haltLow /\ ~dmack

\* resume_event_o at a state-8 edge: release needs DMACK high.
HaltResumes(haltLow, dmack) == haltMode = "STOPPED" /\ ~haltLow /\ dmack

\* phase_hold_o: a stopped machine stays in state 8.
HoldsPhase(haltLow, dmack) == haltMode = "STOPPED" /\ ~HaltResumes(haltLow, dmack)

\* Mutant: the forced fetch is inhibited with everything else.
InhibitsForcedFetch == haltMode \in {"STOP_PENDING", "FORCE_FETCH"}

\* instruction_issue_inhibit_o at an enabled state 8 that is not held.
HaltInhibitsIssue == haltMode = "STOP_PENDING"

\* Mutant: the forced fetch does not arm the stop.
ForcedFetchForgets == IF haltMode = "STOP_PENDING" THEN haltMode ELSE "RUNNING"

\* force_fetch_issue_o turns into a stop; a resume turns into running.
HaltModeAfterIssue ==
  CASE haltMode = "FORCE_FETCH" -> "STOP_PENDING"
    [] haltMode = "STOPPED" -> "RUNNING"
    [] OTHER -> haltMode

=============================================================================
