------------------------------- MODULE BusControl -------------------------------
(***************************************************************************)
(* rtl/core/adsp2100_bus_control.sv and rtl/wrappers/                      *)
(* adsp2100_reset_bus_grant.sv: the BR/BG sequencer.  BR is sampled at     *)
(* enabled state-3 boundaries only; a request is granted, and a release    *)
(* taken, at the second agreeing sample, and the processor issues again at *)
(* the state-8 boundary after a release.  While RESET is held BG follows   *)
(* BR directly, with no register in between.                               *)
(*                                                                         *)
(* The operators take the BR level as a parameter because the composed     *)
(* owner masks the pin before this block sees it.                          *)
(***************************************************************************)
EXTENDS PhaseSource

VARIABLE busMode   \* mode_q

BusModes == {"IDLE", "REQUEST_DELAY", "GRANTED", "RELEASE_DELAY", "REACQUIRE"}

\* normal_granted: BG is asserted by the sequencer itself.
NormalGranted == busMode \in {"GRANTED", "RELEASE_DELAY"}

\* Mutant: the request delay is skipped.
GrantAtFirstSample(brLow) ==
  CASE busMode = "IDLE" /\ brLow -> "GRANTED"
    [] busMode = "GRANTED" /\ ~brLow -> "RELEASE_DELAY"
    [] busMode = "RELEASE_DELAY" -> IF brLow THEN "GRANTED" ELSE "REACQUIRE"
    [] OTHER -> busMode

\* Mutant: the release delay is skipped.
ReleaseAtFirstSample(brLow) ==
  CASE busMode = "IDLE" /\ brLow -> "REQUEST_DELAY"
    [] busMode = "REQUEST_DELAY" -> IF brLow THEN "GRANTED" ELSE "IDLE"
    [] busMode = "GRANTED" /\ ~brLow -> "REACQUIRE"
    [] OTHER -> busMode

\* Mutant: grant and withdrawal are swapped.
GrantOnWithdrawal(brLow) ==
  CASE busMode = "IDLE" /\ brLow -> "REQUEST_DELAY"
    [] busMode = "REQUEST_DELAY" -> IF brLow THEN "IDLE" ELSE "GRANTED"
    [] busMode = "GRANTED" /\ ~brLow -> "RELEASE_DELAY"
    [] busMode = "RELEASE_DELAY" -> IF brLow THEN "GRANTED" ELSE "REACQUIRE"
    [] OTHER -> busMode

\* Where a state-3 sample of BR takes the sequencer.  REACQUIRE ignores BR.
BusModeAfterSample(brLow) ==
  CASE busMode = "IDLE" /\ brLow -> "REQUEST_DELAY"
    [] busMode = "REQUEST_DELAY" /\ brLow -> "GRANTED"
    [] busMode = "REQUEST_DELAY" /\ ~brLow -> "IDLE"
    [] busMode = "GRANTED" /\ ~brLow -> "RELEASE_DELAY"
    [] busMode = "RELEASE_DELAY" /\ ~brLow -> "REACQUIRE"
    [] busMode = "RELEASE_DELAY" /\ brLow -> "GRANTED"
    [] OTHER -> busMode

\* The state-8 boundary at which issue may resume (resume_event_o).
BusResumes == busMode = "REACQUIRE"

\* instruction_issue_inhibit_o at a state-8 boundary.
BusInhibitsIssue == busMode # "IDLE" /\ ~BusResumes

\* Mutant: the resume event leaves the mode behind.
ResumeForgotten == busMode

BusModeAfterIssue == IF BusResumes THEN "IDLE" ELSE busMode

\* Mutant: the direct RESET-time path is not switched off.
BusRelinquishedDirectly(brLow) == brLow

\* bus_relinquished_o after the reset_bus_grant wrapper: BG is its complement.
BusRelinquished(brLow) == IF resetActive THEN brLow ELSE NormalGranted

=============================================================================
