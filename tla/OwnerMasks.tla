------------------------------- MODULE OwnerMasks -------------------------------
(***************************************************************************)
(* How adsp2100_program_clients_owner_control_slice.sv joins the BR/BG     *)
(* sequencer and the HALT controller on one PM bus: each sees its pin      *)
(* through a mask that depends on the other's pin and mode.  The operators *)
(* take the pin levels of a clock edge as parameters.                      *)
(***************************************************************************)
EXTENDS ProgramBus, HaltControl

\* Mutant: HALT is hidden by the BR pin alone.
HaltLowUnmasked(haltLow, brLow) == haltLow /\ ~brLow

\* halt_control_halt_n: HALT is hidden while BR is asserted or being served.
EffectiveHaltLow(haltLow, brLow) == haltLow /\ busMode = "IDLE" /\ ~brLow

\* halt_control_br_n: BR is hidden while HALT is asserted or being served.
EffectiveBrLow(haltLow, brLow) == brLow /\ haltMode = "RUNNING" /\ ~haltLow

\* halt_pm_data_cycle: the cycle in progress is a PM-data access.
PMDataCycle == InterfaceActive /\ transaction.dataAccess

\* issue_inhibit_o at an enabled state 8 that HALT does not hold.
IssueInhibited == BusInhibitsIssue \/ HaltInhibitsIssue

\* HALT and BR/BG are never served together: each controller leaves its idle
\* state only while the other is idle, the two masks reading pins and modes of
\* the same clock edge (slice lines 562-570).
OneControllerActive == haltMode = "RUNNING" \/ busMode = "IDLE"

=============================================================================
