---------------------------- MODULE LinearAttachments ----------------------------
(***************************************************************************)
(* The four compositions of the linear core with one bus or stop owner:    *)
(*   "BUS"    the BR/BG sequencer,               linear_bus_control.py     *)
(*   "OWNER"  BR/BG and PM-data owners competing for the program bus,      *)
(*                                               linear_owner_control.py   *)
(*   "HALT"   the HALT controller and the TRAP handshake,                  *)
(*                                               linear_halt_control.py    *)
(*   "DM"     a data-memory access paired with an ordinary fetch,          *)
(*                                               linear_dm_wait_control.py *)
(* The repository never attaches two of them to one core, so a behaviour   *)
(* keeps the one it starts with.                                           *)
(***************************************************************************)
EXTENDS LinearCore, BusControl, HaltControl, DataBus

CONSTANTS Attachments,   \* the compositions considered
          Pins           \* the interrupt pins the board moves

ASSUME LinearAttachmentsConstants == Pins \subseteq Levels

VARIABLES attachment,
          trapStop,      \* trap_asserted and trap_handoff
          pinsBefore,    \* history: the interrupt pins at the last physical state 7
          owed,          \* history: edges that were on the pins and not yet served
          handshake      \* history: how far HALT has answered a TRAP

machine == <<phaseVars, busMode, haltMode, dataBusVars, attachment, trapStop>>

historyVars == <<pinsBefore, owed, handshake>>

vars == <<machine, coreVars, interruptVars, historyVars>>

TypeOK ==
  /\ TypeOKPhase /\ TypeOKCore /\ TypeOKDataBus
  /\ busMode \in BusModes
  /\ haltMode \in HaltModes
  /\ attachment \in Attachments
  /\ trapStop \in {"NONE", "ASSERTED", "HANDOFF"}

Init ==
  /\ InitPhase /\ InitCore
  /\ busMode = "IDLE"
  /\ haltMode = "RUNNING"
  /\ access = NoAccess /\ stage = "OPEN"
  /\ attachment \in Attachments
  /\ trapStop = "NONE"
  /\ pinsBefore = Unset /\ owed = {} /\ handshake = "NONE"

Has(kinds) == attachment \in kinds

\* State 3: the attached controller samples its pin.
SamplePins(brLow, haltLow) ==
  /\ AdvanceFrom(3)
  /\ busMode' = IF Has({"BUS", "OWNER"}) THEN BusModeAfterSample(brLow) ELSE busMode
  /\ haltMode' = IF Has({"HALT"}) THEN HaltModeAfterSample(haltLow, FALSE) ELSE haltMode
  /\ UNCHANGED <<coreVars, interruptVars, dataBusVars, attachment, trapStop, historyVars>>

\* State 6: DMACK.
SampleAck(ack) ==
  /\ AdvanceFrom(6)
  /\ stage' = StageAfterSample(ack)
  /\ UNCHANGED <<busMode, haltMode, access, attachment, trapStop, coreVars, interruptVars,
                 historyVars>>

-----------------------------------------------------------------------------
(* State 7. *)

\* What falls on a pin between two physical state 7s is owed a service, from
\* the moment ICNTL makes the level edge-sensitive.
Owe(low) ==
  /\ pinsBefore' = low
  /\ owed' = (owed \cup (IF pinsBefore = Unset \/ icntl = Unset THEN {}
                         ELSE (low \ pinsBefore) \cap icntl.edge))
             \ (IF vectoring = NoLevel THEN {vectoring'} ELSE {})

CompleteCore(word, low) ==
  \/ RetireInto(word, low)
  \/ EnterVector(word, low)
  \/ ~FetchCompletes /\ SampleOnly(low)

CompleteCycle(word, low) ==
  /\ ~Waiting
  /\ AdvanceFrom(7)
  /\ CompleteCore(word, low)
  /\ haltMode' = HaltModeAfterComplete
  /\ stage' = StageAfterComplete
  /\ trapStop' = IF Has({"HALT"}) /\ Traps THEN "ASSERTED" ELSE trapStop
  /\ Owe(low)
  /\ handshake' = IF Has({"HALT"}) /\ Traps THEN "TRAPPED" ELSE handshake
  /\ UNCHANGED <<busMode, access, attachment>>

\* The pins pass state 7, the architecture stays in it.
ExtendCycle(low) ==
  /\ Waiting
  /\ AdvanceFrom(7)
  /\ SampleInExtension(low)
  /\ Owe(low)
  /\ UNCHANGED <<busMode, haltMode, dataBusVars, attachment, trapStop, handshake>>

-----------------------------------------------------------------------------
(* State 8. *)

\* trap_resume_event.
TrapResumes(haltLow, dmack) == trapStop = "HANDOFF" /\ ~haltLow /\ dmack

\* Mutant: the controller's own resume also ends the stop of a TRAP.
TrapHoldsUntilResume(haltLow, dmack) ==
  trapStop # "NONE" /\ ~TrapResumes(haltLow, dmack) /\ ~HaltResumes(haltLow, dmack)

\* trap_phase_hold.
TrapHolds(haltLow, dmack) == trapStop # "NONE" /\ ~TrapResumes(haltLow, dmack)

TrapStopAfter(haltLow, dmack) ==
  CASE trapStop = "ASSERTED" /\ haltLow -> "HANDOFF"
    [] TrapResumes(haltLow, dmack) -> "NONE"
    [] OTHER -> trapStop

Held(haltLow, dmack) == HoldsPhase(haltLow, dmack) \/ TrapHolds(haltLow, dmack)

Answer(haltLow) ==
  IF handshake = "TRAPPED" /\ haltLow THEN "ANSWERED" ELSE handshake

\* combined_phase_hold: the machine stays in state 8.
HoldCycle(haltLow, dmack) ==
  /\ phase = 8 /\ ~resetActive
  /\ Held(haltLow, dmack)
  /\ haltMode' = IF HaltResumes(haltLow, dmack) THEN "RUNNING" ELSE haltMode
  /\ trapStop' = TrapStopAfter(haltLow, dmack)
  /\ handshake' = Answer(haltLow)
  /\ UNCHANGED <<phaseVars, busMode, dataBusVars, attachment, coreVars, interruptVars,
                 pinsBefore, owed>>

EndCycle(haltLow, dmack) ==
  /\ ~Waiting
  /\ AdvanceFrom(8)
  /\ ~Held(haltLow, dmack)
  /\ busMode' = BusModeAfterIssue
  /\ haltMode' = HaltModeAfterIssue
  /\ trapStop' = TrapStopAfter(haltLow, dmack)
  /\ UNCHANGED <<attachment, pinsBefore, owed>>

\* issue_boundary.
OpenBoundary == ~BusInhibitsIssue /\ ~HaltInhibitsIssue /\ ~NormalGranted

\* Mutant: a vectoring fetch takes a data access along.
MayPairAny(request) == Has({"DM"}) \/ request = NoAccess

\* ordinary_pm_issue: only an instruction's own fetch carries an access.
MayPair(request) == (Has({"DM"}) /\ vectoring = NoLevel) \/ request = NoAccess

IssueFetch(request) ==
  /\ OpenBoundary
  /\ MayPair(request)
  /\ AcceptFetch
  /\ IssueAccess(request)
  /\ handshake' = "NONE"

\* A PM-data owner presents too: both are refused, or it takes an idle slot.
Compete ==
  /\ OpenBoundary
  /\ Has({"OWNER"})
  /\ LeaveSlotTo(IF FetchRequested THEN NoOwner ELSE "PMDATA")
  /\ UNCHANGED <<dataBusVars, handshake>>

IdleBoundary ==
  /\ OpenBoundary
  /\ ~FetchRequested
  /\ \/ LeaveSlotTo(NoOwner)
     \/ \E kind \in Kinds : SetUp(kind)
  /\ IssueAccess(NoAccess)
  /\ UNCHANGED handshake

ClosedBoundary ==
  /\ ~OpenBoundary
  /\ LeaveSlotTo(IF NormalGranted THEN busOwner ELSE NoOwner)
  /\ UNCHANGED <<dataBusVars, handshake>>

IssueCycle(haltLow, dmack) ==
  /\ EndCycle(haltLow, dmack)
  /\ \/ \E request \in DataRequests \cup {NoAccess} : IssueFetch(request)
     \/ Compete
     \/ IdleBoundary
     \/ ClosedBoundary

-----------------------------------------------------------------------------
\* Phases at which nothing is read, state 8 of an extension among them.
PassPhase ==
  /\ \/ \E p \in {1, 2, 4, 5} : AdvanceFrom(p)
     \/ Waiting /\ AdvanceFrom(8)
  /\ UNCHANGED <<busMode, haltMode, dataBusVars, attachment, trapStop, coreVars,
                 interruptVars, historyVars>>

Reset ==
  /\ AssertReset
  /\ ResetCore
  /\ ClearDataBus
  /\ busMode' = "IDLE"
  /\ haltMode' = "RUNNING"
  /\ trapStop' = "NONE"
  /\ pinsBefore' = Unset /\ owed' = {} /\ handshake' = "NONE"
  /\ UNCHANGED attachment

LeaveReset ==
  /\ ReleaseReset
  /\ UNCHANGED <<busMode, haltMode, dataBusVars, attachment, trapStop, coreVars,
                 interruptVars, historyVars>>

Words == Kinds \cup {NoInstruction}

ClockEdge ==
  \/ \E brLow, haltLow \in BOOLEAN : SamplePins(brLow, haltLow)
  \/ \E ack \in BOOLEAN : SampleAck(ack)
  \/ \E word \in Words, low \in SUBSET Pins : CompleteCycle(word, low)
  \/ \E low \in SUBSET Pins : ExtendCycle(low)
  \/ \E haltLow, dmack \in BOOLEAN : HoldCycle(haltLow, dmack) \/ IssueCycle(haltLow, dmack)
  \/ PassPhase

Next == ClockEdge \/ Reset \/ LeaveReset

Spec == Init /\ [][Next]_vars

\* phase_advance recurs; a memory that is asked again and again acknowledges.
FairSpec ==
  /\ Spec
  /\ WF_vars(ClockEdge)
  /\ SF_vars(InProgress /\ SampleAck(TRUE))

-----------------------------------------------------------------------------
(* Properties *)

\* A data access ends at the very edge at which the fetch it is paired with
\* retires its instruction, however often DMACK extended it (completion_conflict
\* and a refused companion never arise).
PairedCompletion ==
  /\ phase = 7 /\ InProgress /\ ~Waiting =>
       AccessCompletes /\ FetchCompletes /\ fetchPending /\ vectoring = NoLevel
  /\ phase = 8 /\ ~Waiting => ~InProgress

\* An edge that is sampled at a physical state 7, also in one that DMACK extends
\* and while BG is given, is remembered until it is served, though the pin may
\* long have gone back.  (A machine that HALT holds in state 8 samples nothing.)
EdgeRemembered == owed \subseteq edgePending

\* After a TRAP no instruction starts before HALT has answered it, also when
\* HALT stopped the machine at the very edge at which the TRAP retired.
TrapAnsweredFirst == [][~fetchPending /\ fetchPending' => handshake # "TRAPPED"]_vars

\* A fetch once issued completes: no extension lasts, and neither HALT nor BG
\* stops the machine in the middle of a fetch.
PendingFetchEnds == fetchPending ~> ~fetchPending

\* formal/harnesses/adsp2100_linear_owner_control_formal.sv:157: a completed
\* fetch retires an instruction.
CompletedFetchRetires ==
  [][phase = 7 /\ phase' = 8 /\ FetchCompletes /\ ~Waiting => vectoring = NoLevel]_vars

=============================================================================
