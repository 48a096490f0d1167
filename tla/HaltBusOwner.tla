------------------------------ MODULE HaltBusOwner ------------------------------
(***************************************************************************)
(* The ownership part of                                                   *)
(* rtl/core/adsp2100_program_clients_owner_control_slice.sv: one PM bus    *)
(* under both the BR/BG sequencer and the HALT controller, each of which   *)
(* sees its pin through a mask that depends on the other.  What the three  *)
(* clients ask for is free here; ProgramClients models the clients.        *)
(***************************************************************************)
EXTENDS OwnerMasks

VARIABLES brLow,    \* the BR pin is asserted
          haltLow,  \* the HALT pin is asserted
          dmack     \* the DMACK pin is high

pins == <<brLow, haltLow, dmack>>

ownerVars == <<phase, resetActive, busMode, haltMode, transaction, pins>>

TypeOKOwner ==
  /\ TypeOKPhase
  /\ busMode \in BusModes
  /\ haltMode \in HaltModes
  /\ TypeOKTransaction
  /\ brLow \in BOOLEAN
  /\ haltLow \in BOOLEAN
  /\ dmack \in BOOLEAN

InitOwner ==
  /\ InitPhase
  /\ busMode = "IDLE"
  /\ haltMode = "RUNNING"
  /\ transaction = NoTransaction
  /\ brLow \in BOOLEAN
  /\ haltLow \in BOOLEAN
  /\ dmack \in BOOLEAN

(***************************************************************************)
(* The clock edges.                                                        *)
(***************************************************************************)

\* Enabled state 3: both sequencers sample their masked pin.
SampleBothPins ==
  /\ AdvanceFrom(3)
  /\ busMode' = BusModeAfterSample(EffectiveBrLow(haltLow, brLow))
  /\ haltMode' = HaltModeAfterSample(EffectiveHaltLow(haltLow, brLow), PMDataCycle)
  /\ UNCHANGED <<transaction, pins>>

\* Enabled state 7: the cycle completes and a pending stop is entered.
CompleteOwnedCycle ==
  /\ AdvanceFrom(7)
  /\ haltMode' = HaltModeAfterComplete
  /\ UNCHANGED <<busMode, transaction, pins>>

\* Enabled state 8 that the HALT controller does not hold.
IssueOwnedCycle(asking, request) ==
  /\ ~HoldsPhase(EffectiveHaltLow(haltLow, brLow), dmack)
  /\ AdvanceFrom(8)
  /\ busMode' = BusModeAfterIssue
  /\ haltMode' = HaltModeAfterIssue
  /\ transaction' = TransactionAfterIssue(asking, request, IssueInhibited)
  /\ UNCHANGED pins

PassOwnedPhase ==
  /\ \E p \in Phases \ {3, 7, 8} : AdvanceFrom(p)
  /\ UNCHANGED <<busMode, haltMode, transaction, pins>>

ResetOwner ==
  /\ AssertReset
  /\ busMode' = "IDLE"
  /\ haltMode' = "RUNNING"
  /\ transaction' = NoTransaction
  /\ UNCHANGED pins

LeaveOwnerReset ==
  /\ ReleaseReset
  /\ UNCHANGED <<busMode, haltMode, transaction, pins>>

\* The board moves one pin between two clock edges.
MovePin ==
  /\ \/ brLow' = ~brLow /\ UNCHANGED <<haltLow, dmack>>
     \/ haltLow' = ~haltLow /\ UNCHANGED <<brLow, dmack>>
     \/ dmack' = ~dmack /\ UNCHANGED <<brLow, haltLow>>
  /\ UNCHANGED <<phase, resetActive, busMode, haltMode, transaction>>

OwnerClockEdge ==
  \/ SampleBothPins
  \/ CompleteOwnedCycle
  \/ \E asking \in SUBSET Owners, request \in Requests : IssueOwnedCycle(asking, request)
  \/ PassOwnedPhase

NextOwner == OwnerClockEdge \/ ResetOwner \/ LeaveOwnerReset \/ MovePin

SpecOwner == InitOwner /\ [][NextOwner]_ownerVars

\* phase_advance_i recurs; a board promises nothing about its pins.
FairSpecOwner == SpecOwner /\ WF_ownerVars(OwnerClockEdge)

(***************************************************************************)
(* Properties.                                                             *)
(***************************************************************************)

\* The one fetch that a HALT during a PM-data cycle forces meets an open issue
\* gate at the boundary that follows (force_fetch_issue_o): nothing BR does in
\* between closes it.
ForcedFetchNotBlocked ==
  haltMode = "FORCE_FETCH" /\ phase = 8 => ~IssueInhibited /\ ~NormalGranted

\* A stopped machine is in processor state 8 (phase_conflict_o never rises) and
\* still shows on the bus the transaction it stopped on: the bus never issues
\* or clears a descriptor while HALT holds the phase.
StoppedBusIsFrozen ==
  [][haltMode = "STOPPED" /\ haltMode' = "STOPPED"
       => phase = 8 /\ phase' = 8 /\ transaction' = transaction]_ownerVars

\* With only one of the two requests asserted, the controller serving it keeps
\* serving it until the pin goes away, RESET aside.
OwnerKept ==
  [][/\ haltMode = "STOPPED" /\ haltLow /\ ~brLow
       => haltMode' = "STOPPED" \/ resetActive'
     /\ NormalGranted /\ brLow /\ ~haltLow
       => NormalGranted' \/ resetActive']_ownerVars

\* The comment at slice lines 562-564, "Admit only the already active owner":
\* a controller that is serving an asserted request goes on serving it when
\* the other pin is asserted too.
ActiveOwnerKept ==
  [][/\ haltMode = "STOPPED" /\ haltLow
       => haltMode' = "STOPPED" \/ resetActive'
     /\ NormalGranted /\ brLow
       => NormalGranted' \/ resetActive']_ownerVars

\* HALT held low with BR high stops the machine and keeps it stopped, through
\* the forced fetch if one is due.
HaltStops == <>[](haltLow /\ ~brLow /\ ~resetActive) => <>[](haltMode = "STOPPED")

\* HALT released with DMACK high lets the machine run again.
HaltReleases == <>[](~haltLow /\ dmack /\ ~resetActive) => <>[](haltMode = "RUNNING")

\* BR held low with HALT high gets the bus, a stop in progress being left first.
BusIsGranted ==
  <>[](brLow /\ ~haltLow /\ dmack /\ ~resetActive) => <>[]NormalGranted

\* BR released gives the bus back for good, whatever HALT does.
BusIsReturned == <>[](~brLow /\ ~resetActive) => <>[]~NormalGranted

\* Pins that keep still are obeyed, one at a time: the machine stops, runs,
\* gives the bus away or takes it back.
PinsObeyed == HaltStops /\ HaltReleases /\ BusIsGranted /\ BusIsReturned

=============================================================================
