------------------------- MODULE ProgramOwnerBusControl -------------------------
(***************************************************************************)
(* rtl/core/adsp2100_program_owner_bus_control.sv: the owner selector and  *)
(* the native PM bus under the BR/BG sequencer.  Requests, BR and RESET    *)
(* are free inputs.                                                        *)
(***************************************************************************)
EXTENDS ProgramBus

CONSTANT NoResponse

Responses == [write : BOOLEAN, data : Values]

ASSUME NoResponseOutside == NoResponse \notin Responses

VARIABLES requestLow,  \* the BR pin is asserted (br_n_i = 0)
          response     \* response_valid_q with its direction and read data

busControlVars == <<phase, resetActive, busMode, requestLow, transaction, response>>

TypeOKBus ==
  /\ TypeOKPhase
  /\ busMode \in BusModes
  /\ requestLow \in BOOLEAN
  /\ TypeOKTransaction
  /\ response \in Responses \cup {NoResponse}

InitBus ==
  /\ InitPhase
  /\ busMode = "IDLE"
  /\ requestLow \in BOOLEAN
  /\ transaction = NoTransaction
  /\ response = NoResponse

(***************************************************************************)
(* The clock edges.                                                        *)
(***************************************************************************)

\* Enabled state 3: BR is sampled.
SampleBusRequest ==
  /\ AdvanceFrom(3)
  /\ busMode' = BusModeAfterSample(requestLow)
  /\ UNCHANGED <<requestLow, transaction, response>>

\* Enabled state 7: a transaction completes; a read samples PMD.
Complete ==
  /\ AdvanceFrom(7)
  /\ IF InterfaceActive
       THEN \E word \in IF transaction.write THEN {Unknown} ELSE Values :
              response' = [write |-> transaction.write, data |-> word]
       ELSE UNCHANGED response
  /\ UNCHANGED <<busMode, requestLow, transaction>>

\* Enabled state 8: the slot goes to the only request presented, if any.
Issue(asking, request) ==
  /\ AdvanceFrom(8)
  /\ busMode' = BusModeAfterIssue
  /\ transaction' = TransactionAfterIssue(asking, request, BusInhibitsIssue)
  /\ response' = IF NormalGranted THEN response ELSE NoResponse
  /\ UNCHANGED requestLow

\* Every other enabled boundary changes the phase alone.
PassBusPhase ==
  /\ \E p \in Phases \ {3, 7, 8} : AdvanceFrom(p)
  /\ UNCHANGED <<busMode, requestLow, transaction, response>>

\* RESET clears the sequencer and the bus; BG then follows BR.
ResetBus ==
  /\ AssertReset
  /\ busMode' = "IDLE"
  /\ transaction' = NoTransaction
  /\ response' = NoResponse
  /\ UNCHANGED requestLow

LeaveBusReset ==
  /\ ReleaseReset
  /\ UNCHANGED <<busMode, requestLow, transaction, response>>

\* The external master moves its bus-request pin between two clock edges.
MoveBusRequest ==
  /\ requestLow' = ~requestLow
  /\ UNCHANGED <<phase, resetActive, busMode, transaction, response>>

BusClockEdge ==
  \/ SampleBusRequest
  \/ Complete
  \/ \E asking \in SUBSET Owners, request \in Requests : Issue(asking, request)
  \/ PassBusPhase

NextBus == BusClockEdge \/ ResetBus \/ LeaveBusReset \/ MoveBusRequest

SpecBus == InitBus /\ [][NextBus]_busControlVars

\* phase_advance_i recurs: reset_phase asserts it at every enabled CLKIN edge.
FairSpecBus == SpecBus /\ WF_busControlVars(BusClockEdge)

(***************************************************************************)
(* Properties.                                                             *)
(***************************************************************************)

\* A captured transaction reaches the next boundary with its response
\* registered: neither a BR grant nor an issue inhibit swallows a completion.
CompletionNotLost ==
  phase = 8 /\ Active =>
    /\ response # NoResponse
    /\ response.write = transaction.write

\* A read or write strobe, once asserted, lasts to the end of state 7 with the
\* descriptor it started with: nothing but RESET cuts it short, and the direct
\* RESET-time path from BR to BG does not reach a running machine.
StrobeNotCut ==
  [][(ReadStrobe(requestLow) \/ WriteStrobe(requestLow)) /\ (phase < 7 \/ phase' = phase)
       => \/ resetActive'
          \/ /\ ReadStrobe(requestLow)' \/ WriteStrobe(requestLow)'
             /\ transaction' = transaction]_busControlVars

Arbiter ==
  INSTANCE BusArbiter WITH
    granted <- NormalGranted,
    requested <- busMode \in {"REQUEST_DELAY", "GRANTED"},
    pin <- requestLow,
    held <- resetActive

\* The five-state BR/BG sequencer implements the two-sample arbiter: outside
\* RESET the bus changes hands exactly when two consecutive state-3 samples of
\* the BR pin agree.
ArbiterSpec == Arbiter!Spec

\* A request that stays asserted ends with the bus granted and kept granted.
RequestGranted == <>[](requestLow /\ ~resetActive) => <>[]NormalGranted

\* When BR goes away for good the processor can issue in every later cycle.
ProcessorResumes == <>[](~requestLow /\ ~resetActive) => <>[](busMode = "IDLE")

\* The bus goes to whoever the BR pin, once it keeps still, gives it to.
BusFollowsRequest == RequestGranted /\ ProcessorResumes

=============================================================================
