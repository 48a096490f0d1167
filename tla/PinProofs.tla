------------------------------------ MODULE PinProofs ------------------------------------
(***************************************************************************)
(* Proofs about the three specifications of the processor's control pins:  *)
(* RESET and the phases (ResetPhase), BR on the program bus                *)
(* (ProgramOwnerBusControl), and BR and HALT together (HaltBusOwner), for  *)
(* every set of addresses and words.                                       *)
(***************************************************************************)
EXTENDS ResetPhase, ProgramOwnerBusControl, HaltBusOwner, TLAPS

-----------------------------------------------------------------------------
(***************************************************************************)
(* The program bus, whoever owns it: a grant never meets a transaction in  *)
(* flight.  BusInv says how far the BR/BG sequencer and the captured       *)
(* transaction can be apart in each phase; a BR sample and an issue        *)
(* boundary keep it so.                                                    *)
(***************************************************************************)

\* Once the grant is certain the sequencer counts as away from the processor.
AwayModes == {"GRANTED", "RELEASE_DELAY", "REACQUIRE"}

AwayIsIdle == busMode \in AwayModes => ~Active

\* A grant is preceded by a state-8 boundary that issued nothing.
RequestedIsIdle == busMode = "REQUEST_DELAY" /\ phase \in 1..3 => ~Active

\* REACQUIRE lasts from the release in state 3 to the next state-8 boundary.
ReacquireWindow == busMode = "REACQUIRE" => phase \in 4..8

BusInv ==
  /\ busMode \in BusModes
  /\ TypeOKTransaction
  /\ AwayIsIdle
  /\ RequestedIsIdle
  /\ ReacquireWindow

\* The phase ring moves to the next state and stays within 1..8.
LEMMA AdvanceStep ==
  ASSUME NEW p \in Phases, AdvanceFrom(p)
  PROVE  /\ phase = p
         /\ phase' = IF p = 8 THEN 1 ELSE p + 1
         /\ phase' \in Phases
         /\ ~resetActive
         /\ UNCHANGED resetActive
  BY DEF AdvanceFrom, NextPhase, Phases

\* A state-3 sample of BR, whatever its level.
LEMMA SampleKeepsBusInv ==
  ASSUME NEW low \in BOOLEAN, BusInv, phase = 3, phase' = 4,
         busMode' = BusModeAfterSample(low), UNCHANGED transaction
  PROVE  BusInv'
<1>1. busMode' \in BusModes
  BY DEF BusInv, BusModeAfterSample, BusModes
<1>2. busMode' \in AwayModes => busMode \in AwayModes \cup {"REQUEST_DELAY"}
  BY DEF AwayModes, BusModeAfterSample
<1>3. Active' <=> Active
  BY DEF Active
<1> QED
  BY <1>1, <1>2, <1>3
     DEF BusInv, TypeOKTransaction, AwayIsIdle, RequestedIsIdle, ReacquireWindow, AwayModes

\* A state-8 boundary whose issue gate is at least as closed as BR/BG asks.
LEMMA IssueKeepsBusInv ==
  ASSUME NEW asking, NEW request \in Requests, NEW inhibited \in BOOLEAN,
         BusInhibitsIssue => inhibited,
         BusInv, phase' = 1, busMode' = BusModeAfterIssue,
         transaction' = TransactionAfterIssue(asking, request, inhibited)
  PROVE  BusInv'
<1>1. /\ busMode' \in BusModes
      /\ busMode' = IF busMode = "REACQUIRE" THEN "IDLE" ELSE busMode
  BY DEF BusInv, BusModes, BusModeAfterIssue, BusResumes
<1>2. TypeOKTransaction'
  BY DEF BusInv, TypeOKTransaction, TransactionAfterIssue
<1>3. busMode' # "IDLE" => ~Active'
  <2>1. CASE NormalGranted
    BY <2>1 DEF BusInv, AwayIsIdle, AwayModes, Active, NormalGranted, TransactionAfterIssue
  <2>2. CASE ~NormalGranted /\ busMode' # "IDLE"
    <3>1. inhibited
      BY <1>1, <2>2 DEF BusInhibitsIssue, BusResumes
    <3> QED
      BY <2>2, <3>1 DEF Active, TransactionAfterIssue
  <2> QED
    BY <2>1, <2>2
<1> QED
  BY <1>1, <1>2, <1>3
     DEF BusInv, AwayIsIdle, RequestedIsIdle, ReacquireWindow, AwayModes

\* Any other step of the phase ring.
LEMMA PassKeepsBusInv ==
  ASSUME NEW p \in Phases \ {3, 8}, BusInv, AdvanceFrom(p), UNCHANGED <<busMode, transaction>>
  PROVE  BusInv'
<1>1. phase # 3 /\ phase # 8 /\ phase \in 1..8 /\ phase' = phase + 1
  BY AdvanceStep DEF Phases
<1>2. Active' <=> Active
  BY DEF Active
<1> QED
  BY <1>1, <1>2
     DEF BusInv, TypeOKTransaction, AwayIsIdle, RequestedIsIdle, ReacquireWindow

\* A cleared sequencer with no transaction.
LEMMA ClearedBusInv ==
  ASSUME busMode = "IDLE", transaction = NoTransaction
  PROVE  BusInv
  BY DEF BusInv, BusModes, TypeOKTransaction, AwayIsIdle, AwayModes, RequestedIsIdle,
         ReacquireWindow

\* What the invariant is for.
LEMMA BusInvGrantSafe == ASSUME BusInv PROVE NormalGranted => ~Active
  BY DEF BusInv, AwayIsIdle, AwayModes, NormalGranted

-----------------------------------------------------------------------------
(***************************************************************************)
(* RESET.  The strengthening needed for ReleaseEarned ties the count and   *)
(* the release flag to the samples themselves: a count of k means the last k *)
(* samples were asserted, and a release that has been seen means four      *)
(* asserted samples and one released one.                                  *)
(***************************************************************************)

\* The last n of the samples before the most recent `after` ones were asserted.
AssertedRun(n, after) == \A i \in 1 .. 6 : i > 6 - after - n /\ i <= 6 - after => samples[i]

CountInv ==
  /\ durationError => resetActive /\ assertedEdges < MINIMUM_RESET_CYCLES
  /\ releaseSeen =>
       /\ resetActive /\ assertedEdges = MINIMUM_RESET_CYCLES
       /\ ~samples[6] /\ AssertedRun(MINIMUM_RESET_CYCLES, 1)
  /\ Uninterrupted => AssertedRun(assertedEdges, 0)
  /\ resetActive => phaseValid /\ phase = ResetPhaseState

ResetInv == TypeOKReset /\ CountInv

LEMMA InitResetInv == InitReset => ResetInv
<1> SUFFICES ASSUME InitReset PROVE ResetInv
  OBVIOUS
<1>1. TypeOKReset
  <2>1. /\ phase \in Phases /\ assertedEdges \in 0 .. MINIMUM_RESET_CYCLES
        /\ samples \in [1 .. 6 -> BOOLEAN]
    BY DEF InitReset, Phases, ResetPhaseState, MINIMUM_RESET_CYCLES
  <2>2. /\ resetActive \in BOOLEAN /\ phaseValid \in BOOLEAN /\ releaseSeen \in BOOLEAN
        /\ durationError \in BOOLEAN /\ clkin \in BOOLEAN /\ resetPin \in BOOLEAN
    BY DEF InitReset
  <2>3. QED
    BY <2>1, <2>2 DEF TypeOKReset, TypeOKPhase
<1>2. CountInv
  BY DEF InitReset, CountInv, Uninterrupted
<1>3. QED
  BY <1>1, <1>2 DEF ResetInv

\* A clock edge keeps CLKIN and the recorded samples well typed.
LEMMA EdgeSamples ==
  ASSUME TypeOKReset, RisingEdge \/ FallingEdge
  PROVE  clkin' \in BOOLEAN /\ samples' \in [1 .. 6 -> BOOLEAN]
<1>1. CASE RisingEdge
  <2>1. clkin' \in BOOLEAN
    BY <1>1 DEF RisingEdge
  <2>2. samples' \in [1 .. 6 -> BOOLEAN]
    BY <1>1 DEF RisingEdge, TypeOKReset
  <2>3. QED
    BY <2>1, <2>2
<1>2. CASE FallingEdge
  BY <1>2 DEF FallingEdge, TypeOKReset
<1>3. QED
  BY <1>1, <1>2

LEMMA StepTypeOKReset == TypeOKReset /\ [NextReset]_resetPhaseVars => TypeOKReset'
<1> SUFFICES ASSUME TypeOKReset, [NextReset]_resetPhaseVars PROVE TypeOKReset'
  OBVIOUS
<1>1. phase' \in Phases
  BY DEF NextReset, ClkinEdge, RecognizeReset, RefuseRelease, SeeRelease, ReleasePhase,
         AdvancePhase, IgnoreEdge, MoveResetPin, resetPhaseVars, ResetPhaseState,
         ReleasePhaseState, StateAfterRelease, NextPhase, TypeOKReset, TypeOKPhase, Phases
<1>2. assertedEdges' \in 0 .. MINIMUM_RESET_CYCLES
  BY DEF NextReset, ClkinEdge, RecognizeReset, RefuseRelease, SeeRelease, ReleasePhase,
         AdvancePhase, IgnoreEdge, MoveResetPin, resetPhaseVars, resetVars, CountAfterSample,
         TypeOKReset, MINIMUM_RESET_CYCLES
<1>3. clkin' \in BOOLEAN /\ samples' \in [1 .. 6 -> BOOLEAN]
  <2>1. CASE RisingEdge \/ FallingEdge
    BY <2>1, EdgeSamples
  <2>2. CASE UNCHANGED <<clkin, samples>>
    BY <2>2 DEF TypeOKReset
  <2>3. QED
    BY <2>1, <2>2 DEF NextReset, ClkinEdge, RecognizeReset, RefuseRelease, SeeRelease,
           ReleasePhase, AdvancePhase, IgnoreEdge, MoveResetPin, resetPhaseVars, ReleaseSample
<1>4. /\ resetActive' \in BOOLEAN /\ phaseValid' \in BOOLEAN /\ releaseSeen' \in BOOLEAN
      /\ durationError' \in BOOLEAN
  BY DEF NextReset, ClkinEdge, RecognizeReset, RefuseRelease, SeeRelease, ReleasePhase,
         AdvancePhase, IgnoreEdge, MoveResetPin, resetPhaseVars, resetVars, TypeOKReset,
         TypeOKPhase
<1>5. resetPin' \in BOOLEAN
  BY DEF NextReset, ClkinEdge, RecognizeReset, RefuseRelease, SeeRelease, ReleasePhase,
         AdvancePhase, IgnoreEdge, MoveResetPin, resetPhaseVars, ReleaseSample, TypeOKReset
<1>6. QED
  BY <1>1, <1>2, <1>3, <1>4, <1>5 DEF TypeOKReset, TypeOKPhase

LEMMA StepCountInv == ResetInv /\ [NextReset]_resetPhaseVars => CountInv'
<1> SUFFICES ASSUME ResetInv, [NextReset]_resetPhaseVars PROVE CountInv'
  OBVIOUS
<1> USE DEF ResetInv, TypeOKReset, CountInv, AssertedRun, MINIMUM_RESET_CYCLES, resetVars
<1>1. CASE RecognizeReset
  BY <1>1 DEF RecognizeReset, RisingEdge, CountAfterSample, Uninterrupted
<1>2. CASE RefuseRelease
  BY <1>2 DEF RefuseRelease, ReleaseSample, RisingEdge, LongEnough, Uninterrupted
<1>3. CASE SeeRelease
  BY <1>3 DEF SeeRelease, ReleaseSample, RisingEdge, LongEnough, Uninterrupted
<1>4. CASE ReleasePhase
  BY <1>4 DEF ReleasePhase, ReleaseSample, RisingEdge, LongEnough, Uninterrupted
<1>5. CASE AdvancePhase
  BY <1>5 DEF AdvancePhase, RisingEdge, FallingEdge, Uninterrupted
<1>6. CASE IgnoreEdge
  BY <1>6 DEF IgnoreEdge, RisingEdge, FallingEdge, Uninterrupted
<1>7. CASE MoveResetPin
  BY <1>7 DEF MoveResetPin, Uninterrupted
<1>8. CASE UNCHANGED resetPhaseVars
  BY <1>8 DEF resetPhaseVars, Uninterrupted
<1>9. QED
  BY <1>1, <1>2, <1>3, <1>4, <1>5, <1>6, <1>7, <1>8 DEF NextReset, ClkinEdge

\* The strengthening is an invariant of the specification.
LEMMA SpecResetInv == SpecReset => []ResetInv
<1>1. ResetInv /\ [NextReset]_resetPhaseVars => ResetInv'
  BY StepTypeOKReset, StepCountInv DEF ResetInv
<1>2. QED
  BY InitResetInv, <1>1, PTL DEF SpecReset

\* Every reachable state is well typed: the ring wraps inside the eight states
\* and the sample count saturates at four.
THEOREM ResetTypeCorrect == SpecReset => []TypeOKReset
<1>1. ResetInv => TypeOKReset
  BY DEF ResetInv
<1>2. QED
  BY SpecResetInv, <1>1, PTL

LEMMA CadenceStep == ResetInv /\ CadenceAligned /\ [NextReset]_resetPhaseVars => CadenceAligned'
<1> SUFFICES ASSUME ResetInv, CadenceAligned, [NextReset]_resetPhaseVars PROVE CadenceAligned'
  OBVIOUS
<1> USE DEF CadenceAligned, ResetInv, TypeOKReset, TypeOKPhase, Phases
<1>1. CASE RecognizeReset
  BY <1>1 DEF RecognizeReset
<1>2. CASE RefuseRelease \/ SeeRelease
  BY <1>2 DEF RefuseRelease, SeeRelease, ReleaseSample
<1>3. CASE ReleasePhase
  BY <1>3 DEF ReleasePhase, ReleaseSample, RisingEdge, StateAfterRelease, ReleasePhaseState
<1>4. CASE AdvancePhase
  <2>1. clkin' = ~clkin /\ phase' = NextPhase(phase) /\ UNCHANGED resetVars
    BY <1>4 DEF AdvancePhase, RisingEdge, FallingEdge
  <2>2. phase' \in {1, 3, 5, 7} <=> phase \notin {1, 3, 5, 7}
    BY <2>1 DEF NextPhase
  <2>3. phaseValid /\ ~resetActive
    BY <1>4 DEF AdvancePhase
  <2>4. QED
    BY <2>1, <2>2, <2>3
<1>5. CASE IgnoreEdge
  BY <1>5 DEF IgnoreEdge, FallingEdge, RisingEdge, resetVars
<1>6. CASE MoveResetPin \/ UNCHANGED resetPhaseVars
  BY <1>6 DEF MoveResetPin, resetPhaseVars, resetVars
<1>7. QED
  BY <1>1, <1>2, <1>3, <1>4, <1>5, <1>6 DEF NextReset, ClkinEdge

\* After every RESET, however it was timed, the odd states are entered at rising
\* CLKIN edges.
THEOREM CadenceKept == SpecReset => []CadenceAligned
<1>1. InitReset => CadenceAligned
  BY DEF InitReset, CadenceAligned
<1>2. QED
  BY SpecResetInv, CadenceStep, <1>1, PTL DEF SpecReset

LEMMA ReleaseStep ==
  ResetInv /\ [NextReset]_resetPhaseVars /\ resetActive /\ ~resetActive'
    => samples' = [i \in 1 .. 6 |-> i <= 4]
<1> SUFFICES ASSUME ResetInv, [NextReset]_resetPhaseVars, resetActive, ~resetActive'
             PROVE  samples' = [i \in 1 .. 6 |-> i <= 4]
  OBVIOUS
<1>1. ReleasePhase
  BY DEF NextReset, ClkinEdge, RecognizeReset, RefuseRelease, SeeRelease, AdvancePhase,
         IgnoreEdge, MoveResetPin, resetPhaseVars, resetVars, ReleaseSample
<1>2. releaseSeen /\ ~resetPin
  BY <1>1 DEF ReleasePhase, ReleaseSample, SecondSample
<1>3. /\ samples' \in [1 .. 6 -> BOOLEAN]
      /\ samples'[1] = samples[2] /\ samples'[2] = samples[3] /\ samples'[3] = samples[4]
      /\ samples'[4] = samples[5] /\ samples'[5] = samples[6] /\ samples'[6] = resetPin
  BY <1>1 DEF ReleasePhase, ReleaseSample, RisingEdge, ResetInv, TypeOKReset
<1>4. /\ samples[2] = TRUE /\ samples[3] = TRUE /\ samples[4] = TRUE /\ samples[5] = TRUE
      /\ samples[6] = FALSE
  BY <1>2 DEF ResetInv, TypeOKReset, CountInv, AssertedRun, MINIMUM_RESET_CYCLES
<1>5. \A i \in 1 .. 6 : samples'[i] = (i <= 4)
  <2> TAKE i \in 1 .. 6
  <2>1. CASE i <= 4
    <3>1. samples'[i] = samples[i + 1] /\ samples[i + 1] = TRUE
      BY <1>3, <1>4, <2>1
    <3>2. QED
      BY <3>1, <2>1
  <2>2. CASE i = 5
    BY <1>3, <1>4, <2>2
  <2>3. CASE i = 6
    BY <1>2, <1>3, <2>3 DEF ResetInv, TypeOKReset
  <2>4. QED
    BY <2>1, <2>2, <2>3
<1>6. QED
  BY <1>3, <1>5

\* The machine leaves RESET only on the second of two released samples that
\* follow four asserted ones without a gap.
THEOREM ReleaseIsEarned == SpecReset => ReleaseEarned
<1>1. ResetInv /\ [NextReset]_resetPhaseVars
        => [resetActive /\ ~resetActive'
             => samples' = [i \in 1 .. 6 |-> i <= 4]]_resetPhaseVars
  BY ReleaseStep
<1>2. QED
  BY SpecResetInv, <1>1, PTL DEF SpecReset, ReleaseEarned

LEMMA SourceStep ==
  ResetInv /\ [NextReset]_resetPhaseVars => [AbstractSource!NextPhaseSource]_(AbstractSource!phaseVars)
<1> SUFFICES ASSUME ResetInv, [NextReset]_resetPhaseVars
             PROVE  AbstractSource!NextPhaseSource \/ UNCHANGED <<phase, HeldInReset>>
  BY DEF AbstractSource!phaseVars
<1> USE DEF HeldInReset, ResetInv, TypeOKReset, TypeOKPhase, Phases, CountInv
<1>1. CASE RecognizeReset
  <2>1. AbstractSource!AssertReset
    BY <1>1 DEF RecognizeReset, AbstractSource!AssertReset, ResetPhaseState,
           AbstractSource!ResetPhaseState
  <2>2. QED
    BY <2>1 DEF AbstractSource!NextPhaseSource
<1>2. CASE ReleasePhase
  <2>1. AbstractSource!ReleaseReset
    BY <1>2 DEF ReleasePhase, ReleaseSample, AbstractSource!ReleaseReset, StateAfterRelease,
                ReleasePhaseState, AbstractSource!ReleasePhaseState
  <2>2. QED
    BY <2>1 DEF AbstractSource!NextPhaseSource
<1>3. CASE AdvancePhase
  <2>1. AbstractSource!AdvanceFrom(phase)
    BY <1>3 DEF AdvancePhase, AbstractSource!AdvanceFrom, NextPhase, AbstractSource!NextPhase,
           resetVars
  <2>2. QED
    BY <2>1 DEF AbstractSource!NextPhaseSource, AbstractSource!Phases
<1>4. CASE RefuseRelease
  BY <1>4 DEF RefuseRelease
<1>5. CASE SeeRelease
  BY <1>5 DEF SeeRelease
<1>6. CASE IgnoreEdge
  BY <1>6 DEF IgnoreEdge, resetVars
<1>7. CASE MoveResetPin
  BY <1>7 DEF MoveResetPin, resetVars
<1>8. CASE UNCHANGED resetPhaseVars
  BY <1>8 DEF resetPhaseVars, resetVars
<1>9. QED
  BY <1>1, <1>2, <1>3, <1>4, <1>5, <1>6, <1>7, <1>8 DEF NextReset, ClkinEdge

\* The reset block implements the phase source on which every other module of
\* this project is built.
THEOREM ImplementsPhaseSource == SpecReset => PhaseSpec
<1>1. InitReset => AbstractSource!InitPhase
  BY DEF InitReset, AbstractSource!InitPhase, HeldInReset, ResetPhaseState,
         AbstractSource!ResetPhaseState
<1>2. QED
  BY SpecResetInv, SourceStep, <1>1, PTL DEF SpecReset, PhaseSpec, AbstractSource!SpecPhase

-----------------------------------------------------------------------------
(***************************************************************************)
(* BR.  The inductive invariant adds to the bus invariant above what RESET *)
(* holds and what the response register owes to a completed transaction.   *)
(***************************************************************************)

\* RESET holds phase 4 with the sequencer and the bus cleared.
BusResetHolds == resetActive => phase = 4 /\ busMode = "IDLE" /\ transaction = NoTransaction

ResponseInv ==
  /\ TypeOKBus
  /\ BusInv
  /\ BusResetHolds
  /\ CompletionNotLost

\* The strengthening holds initially.
LEMMA InitResponseInv == InitBus => ResponseInv
<1> SUFFICES ASSUME InitBus PROVE ResponseInv
  OBVIOUS
<1>1. TypeOKBus
  BY DEF InitBus, InitPhase, TypeOKBus, TypeOKPhase, ResetPhaseState, Phases, BusModes,
         TypeOKTransaction
<1>2. BusInv
  BY ClearedBusInv DEF InitBus
<1>3. BusResetHolds /\ CompletionNotLost
  BY DEF InitBus, InitPhase, ResetPhaseState, BusResetHolds, CompletionNotLost, Active
<1> QED
  BY <1>1, <1>2, <1>3 DEF ResponseInv

\* Every step of the bus and its sequencer keeps the strengthening.
LEMMA StepResponseInv == ResponseInv /\ [NextBus]_busControlVars => ResponseInv'
<1> SUFFICES ASSUME ResponseInv, [NextBus]_busControlVars PROVE ResponseInv'
  OBVIOUS
<1>1. CASE SampleBusRequest
  <2>1. phase = 3 /\ phase' = 4 /\ phase' \in Phases /\ ~resetActive /\ UNCHANGED resetActive
    BY <1>1, AdvanceStep DEF SampleBusRequest, Phases
  <2>2. /\ busMode' = BusModeAfterSample(requestLow)
        /\ UNCHANGED <<requestLow, transaction, response>>
    BY <1>1 DEF SampleBusRequest
  <2>3. BusInv'
    BY <2>1, <2>2, SampleKeepsBusInv DEF ResponseInv, TypeOKBus
  <2>4. TypeOKBus'
    BY <2>1, <2>2, <2>3 DEF ResponseInv, TypeOKBus, TypeOKPhase, BusInv
  <2>5. (BusResetHolds /\ CompletionNotLost)'
    BY <2>1 DEF BusResetHolds, CompletionNotLost
  <2> QED
    BY <2>3, <2>4, <2>5 DEF ResponseInv
<1>2. CASE Complete
  <2>1. phase = 7 /\ phase' = 8 /\ phase' \in Phases /\ ~resetActive /\ UNCHANGED resetActive
    BY <1>2, AdvanceStep DEF Complete, Phases
  <2>2. AdvanceFrom(7) /\ UNCHANGED <<busMode, requestLow, transaction>>
    BY <1>2 DEF Complete
  <2>3. BusInv'
    BY <2>2, PassKeepsBusInv DEF ResponseInv, Phases
  <2>4. BusResetHolds'
    BY <2>1 DEF BusResetHolds
  <2>5. CASE Active
    <3>1. InterfaceActive
      BY <2>1, <2>5, BusInvGrantSafe DEF InterfaceActive, ResponseInv
    <3>2. PICK word \in IF transaction.write THEN {Unknown} ELSE Values :
            response' = [write |-> transaction.write, data |-> word]
      BY <1>2, <3>1 DEF Complete
    <3>3. word \in Values /\ transaction.write \in BOOLEAN
      BY <2>5 DEF Values, Requests, FetchRequests, ClientRequests, Active, ResponseInv,
             TypeOKBus, TypeOKTransaction
    <3>4. response' \in Responses
      BY <3>2, <3>3 DEF Responses
    <3>5. TypeOKBus'
      BY <2>1, <2>2, <3>4 DEF ResponseInv, TypeOKBus, TypeOKPhase, TypeOKTransaction
    <3>6. CompletionNotLost'
      BY <2>2, <3>2, <3>4, NoResponseOutside DEF CompletionNotLost
    <3> QED
      BY <2>3, <2>4, <3>5, <3>6 DEF ResponseInv
  <2>6. CASE ~Active
    <3>1. UNCHANGED response
      BY <1>2, <2>6 DEF Complete, InterfaceActive
    <3>2. TypeOKBus' /\ CompletionNotLost'
      BY <2>1, <2>2, <2>6, <3>1
         DEF ResponseInv, TypeOKBus, TypeOKPhase, TypeOKTransaction, CompletionNotLost, Active
    <3> QED
      BY <2>3, <2>4, <3>2 DEF ResponseInv
  <2> QED
    BY <2>5, <2>6
<1>3. ASSUME NEW asking \in SUBSET Owners, NEW request \in Requests,
             Issue(asking, request)
      PROVE  ResponseInv'
  <2>1. phase = 8 /\ phase' = 1 /\ phase' \in Phases /\ ~resetActive /\ UNCHANGED resetActive
    BY <1>3, AdvanceStep DEF Issue, Phases
  <2>2. /\ busMode' = BusModeAfterIssue
        /\ transaction' = TransactionAfterIssue(asking, request, BusInhibitsIssue)
        /\ response' = IF NormalGranted THEN response ELSE NoResponse
        /\ UNCHANGED requestLow
    BY <1>3 DEF Issue
  <2>3. BusInv'
    <3>1. BusInhibitsIssue \in BOOLEAN
      BY DEF BusInhibitsIssue, BusResumes
    <3> QED
      BY <2>1, <2>2, <3>1, IssueKeepsBusInv DEF ResponseInv
  <2>4. TypeOKBus'
    BY <2>1, <2>2, <2>3 DEF ResponseInv, TypeOKBus, TypeOKPhase, BusInv
  <2>5. (BusResetHolds /\ CompletionNotLost)'
    BY <2>1 DEF BusResetHolds, CompletionNotLost
  <2> QED
    BY <2>3, <2>4, <2>5 DEF ResponseInv
<1>4. CASE PassBusPhase
  <2>1. PICK p \in Phases \ {3, 7, 8} : AdvanceFrom(p)
    BY <1>4 DEF PassBusPhase
  <2>2. /\ phase' # 8
        /\ phase' \in Phases
        /\ ~resetActive
        /\ UNCHANGED resetActive
    BY <2>1, AdvanceStep DEF Phases
  <2>3. UNCHANGED <<busMode, requestLow, transaction, response>>
    BY <1>4 DEF PassBusPhase
  <2>4. BusInv'
    BY <2>1, <2>3, PassKeepsBusInv DEF ResponseInv
  <2>5. TypeOKBus'
    BY <2>2, <2>3 DEF ResponseInv, TypeOKBus, TypeOKPhase, TypeOKTransaction
  <2>6. (BusResetHolds /\ CompletionNotLost)'
    BY <2>2 DEF BusResetHolds, CompletionNotLost
  <2> QED
    BY <2>4, <2>5, <2>6 DEF ResponseInv
<1>5. CASE ResetBus
  <2>1. /\ phase' = 4 /\ resetActive' = TRUE
        /\ busMode' = "IDLE" /\ transaction' = NoTransaction /\ response' = NoResponse
        /\ UNCHANGED requestLow
    BY <1>5 DEF ResetBus, AssertReset, ResetPhaseState
  <2>2. BusInv'
    BY <2>1, ClearedBusInv
       DEF BusInv, BusModes, TypeOKTransaction, AwayIsIdle, AwayModes, RequestedIsIdle,
           ReacquireWindow
  <2>3. TypeOKBus'
    BY <2>1 DEF ResponseInv, TypeOKBus, TypeOKPhase, TypeOKTransaction, Phases, BusModes
  <2>4. (BusResetHolds /\ CompletionNotLost)'
    BY <2>1 DEF BusResetHolds, CompletionNotLost
  <2> QED
    BY <2>2, <2>3, <2>4 DEF ResponseInv
<1>6. CASE LeaveBusReset
  <2>1. phase' = 5 /\ resetActive' = FALSE /\ busMode = "IDLE" /\ transaction = NoTransaction
    BY <1>6 DEF LeaveBusReset, ReleaseReset, ReleasePhaseState, ResponseInv, BusResetHolds
  <2>2. UNCHANGED <<busMode, requestLow, transaction, response>>
    BY <1>6 DEF LeaveBusReset
  <2>3. BusInv'
    BY <2>1, <2>2
       DEF BusInv, BusModes, TypeOKTransaction, AwayIsIdle, AwayModes, RequestedIsIdle,
           ReacquireWindow
  <2>4. phase' \in Phases /\ resetActive' \in BOOLEAN
    <3>1. phase' \in Phases
      BY <2>1 DEF Phases
    <3>2. resetActive' \in BOOLEAN
      BY <2>1
    <3> QED
      BY <3>1, <3>2
  <2>5. TypeOKBus'
    BY <2>2, <2>4 DEF ResponseInv, TypeOKBus, TypeOKPhase, TypeOKTransaction
  <2>6. (BusResetHolds /\ CompletionNotLost)'
    BY <2>1 DEF BusResetHolds, CompletionNotLost
  <2> QED
    BY <2>3, <2>5, <2>6 DEF ResponseInv
<1>7. CASE MoveBusRequest \/ UNCHANGED busControlVars
  <2>1. /\ UNCHANGED <<phase, resetActive, busMode, transaction, response>>
        /\ requestLow' \in BOOLEAN
    BY <1>7 DEF MoveBusRequest, busControlVars, ResponseInv, TypeOKBus
  <2>2. BusInv'
    BY <2>1 DEF ResponseInv, BusInv, TypeOKTransaction, Active, AwayIsIdle, RequestedIsIdle,
           ReacquireWindow
  <2>3. TypeOKBus'
    BY <2>1 DEF ResponseInv, TypeOKBus, TypeOKPhase, TypeOKTransaction
  <2>4. BusResetHolds' /\ CompletionNotLost'
    BY <2>1 DEF ResponseInv, BusResetHolds, CompletionNotLost, Active
  <2> QED
    BY <2>2, <2>3, <2>4 DEF ResponseInv
<1> QED
  BY <1>1, <1>2, <1>3, <1>4, <1>5, <1>6, <1>7 DEF NextBus, BusClockEdge

\* The strengthening is an invariant of the specification.
LEMMA SpecResponseInv == SpecBus => []ResponseInv
  BY InitResponseInv, StepResponseInv, PTL DEF SpecBus

\* The program bus, its sequencer and its response register keep their types.
THEOREM BusTypeCorrect == SpecBus => []TypeOKBus
<1>1. ResponseInv => TypeOKBus
  BY DEF ResponseInv
<1> QED
  BY <1>1, SpecResponseInv, PTL

\* BG is never asserted by the sequencer while a transaction is in flight: the
\* one-cycle request delay of adsp2100_bus_control is long enough.
THEOREM BusGrantSafe == SpecBus => []GrantedBusIsIdle
<1>1. ResponseInv => GrantedBusIsIdle
  BY BusInvGrantSafe DEF ResponseInv, GrantedBusIsIdle
<1> QED
  BY <1>1, SpecResponseInv, PTL

\* No captured transaction loses its completion to a BR request.
THEOREM CompletionKept == SpecBus => []CompletionNotLost
<1>1. ResponseInv => CompletionNotLost
  BY DEF ResponseInv
<1> QED
  BY <1>1, SpecResponseInv, PTL

\* Only RESET ends a strobe before the end of state 7, whatever BR does.
THEOREM StrobeKept == SpecBus => StrobeNotCut
<1> DEFINE Strobe == ReadStrobe(requestLow) \/ WriteStrobe(requestLow)
           StrobeAction ==
             Strobe /\ (phase < 7 \/ phase' = phase)
               => resetActive' \/ (Strobe' /\ transaction' = transaction)
<1>1. ResponseInv /\ [NextBus]_busControlVars => StrobeAction
  <2> SUFFICES ASSUME ResponseInv, [NextBus]_busControlVars, Strobe,
                      phase < 7 \/ phase' = phase, ~resetActive'
               PROVE  Strobe' /\ transaction' = transaction
    OBVIOUS
  <2>1. Active /\ ~resetActive /\ ~NormalGranted /\ phase \in 4..7
    BY DEF ResponseInv, ReadStrobe, WriteStrobe, Drives, BusRelinquished
  <2>2. /\ phase' \in 4..7
        /\ resetActive' = FALSE
        /\ UNCHANGED <<busMode, transaction>>
    <3>1. CASE PassBusPhase
      <4>1. PICK p \in Phases \ {3, 7, 8} : AdvanceFrom(p)
        BY <3>1 DEF PassBusPhase
      <4>2. phase' = phase + 1 /\ phase # 7
        BY <4>1, <2>1, AdvanceStep DEF Phases
      <4> QED
        BY <2>1, <3>1, <4>1, <4>2 DEF PassBusPhase, AdvanceFrom, ResponseInv, TypeOKBus,
               TypeOKPhase
    <3>2. ASSUME NEW asking \in SUBSET Owners, NEW request \in Requests
          PROVE  ~Issue(asking, request)
      BY <2>1 DEF Issue, AdvanceFrom
    <3>3. ~SampleBusRequest /\ ~LeaveBusReset /\ ~ResetBus
      BY <2>1 DEF SampleBusRequest, AdvanceFrom, LeaveBusReset, ReleaseReset, ResetBus,
             AssertReset
    <3>4. ~Complete
      BY <2>1, AdvanceStep DEF Complete, Phases
    <3>5. CASE MoveBusRequest \/ UNCHANGED busControlVars
      BY <2>1, <3>5 DEF MoveBusRequest, busControlVars, ResponseInv, TypeOKBus, TypeOKPhase
    <3> QED
      BY <3>1, <3>2, <3>3, <3>4, <3>5 DEF NextBus, BusClockEdge
  <2>3. ~NormalGranted' /\ Active' /\ ~BusRelinquished(requestLow)'
    BY <2>1, <2>2 DEF NormalGranted, Active, BusRelinquished
  <2> QED
    BY <2>1, <2>2, <2>3 DEF ReadStrobe, WriteStrobe, Drives
<1>2. StrobeAction => [StrobeAction]_busControlVars
  OBVIOUS
<1> QED
  BY <1>1, SpecResponseInv, PTL DEF SpecBus, StrobeNotCut

(***************************************************************************)
(* The five-state sequencer implements the two-sample arbiter.             *)
(***************************************************************************)

\* The arbiter's state, as the refinement mapping reads it.
ArbiterView ==
  <<NormalGranted, busMode \in {"REQUEST_DELAY", "GRANTED"}, requestLow, resetActive>>

\* A state-3 sample of BR is the arbiter's sample; in REACQUIRE, where the code
\* ignores BR, the phase is past the sample.
LEMMA SampleRefines == ResponseInv /\ SampleBusRequest => Arbiter!Sample
<1> SUFFICES ASSUME ResponseInv, SampleBusRequest PROVE Arbiter!Sample
  OBVIOUS
<1>1. /\ busMode' = BusModeAfterSample(requestLow) /\ phase = 3
      /\ ~resetActive /\ UNCHANGED <<requestLow, resetActive>>
  BY DEF SampleBusRequest, AdvanceFrom
<1>2. busMode # "REACQUIRE" /\ busMode \in BusModes /\ requestLow \in BOOLEAN
  BY <1>1 DEF ResponseInv, BusInv, ReacquireWindow, TypeOKBus
<1>3. CASE requestLow
  <2>1. busMode' \in {"REQUEST_DELAY", "GRANTED"}
    BY <1>1, <1>2, <1>3 DEF BusModes, BusModeAfterSample
  <2>2. busMode' = "GRANTED" <=> busMode # "IDLE"
    BY <1>1, <1>2, <1>3 DEF BusModes, BusModeAfterSample
  <2>3. (requestLow = TRUE) /\ (busMode' \in {"REQUEST_DELAY", "GRANTED"}) = TRUE
    BY <1>2, <1>3, <2>1
  <2>4. NormalGranted' <=> busMode \in {"REQUEST_DELAY", "GRANTED"} \/ NormalGranted
    BY <1>2, <2>1, <2>2 DEF BusModes, NormalGranted
  <2>5. NormalGranted' = IF TRUE = (busMode \in {"REQUEST_DELAY", "GRANTED"})
                           THEN TRUE ELSE NormalGranted
    <3>1. CASE busMode \in {"REQUEST_DELAY", "GRANTED"}
      BY <2>4, <3>1 DEF NormalGranted
    <3>2. CASE busMode \notin {"REQUEST_DELAY", "GRANTED"}
      BY <2>4, <3>2 DEF NormalGranted
    <3> QED
      BY <3>1, <3>2
  <2> QED
    BY <1>1, <2>3, <2>5 DEF Arbiter!Sample
<1>4. CASE ~requestLow
  <2>1. busMode' \in {"IDLE", "RELEASE_DELAY", "REACQUIRE"}
    BY <1>1, <1>2, <1>4 DEF BusModes, BusModeAfterSample
  <2>2. busMode' = "RELEASE_DELAY" <=> busMode = "GRANTED"
    BY <1>1, <1>2, <1>4 DEF BusModes, BusModeAfterSample
  <2>3. requestLow = FALSE
    BY <1>2, <1>4
  <2> QED
    BY <1>1, <1>2, <2>1, <2>2, <2>3 DEF BusModes, Arbiter!Sample, NormalGranted
<1> QED
  BY <1>2, <1>3, <1>4

\* RESET and the pin are the arbiter's own, and every other step leaves its
\* state alone.
LEMMA OtherStepsRefine ==
  ResponseInv /\ [NextBus]_busControlVars /\ ~SampleBusRequest
    => Arbiter!Reset \/ Arbiter!LeaveReset \/ Arbiter!MovePin \/ ArbiterView' = ArbiterView
<1> SUFFICES ASSUME ResponseInv, [NextBus]_busControlVars, ~SampleBusRequest
             PROVE  \/ Arbiter!Reset \/ Arbiter!LeaveReset \/ Arbiter!MovePin
                    \/ ArbiterView' = ArbiterView
  OBVIOUS
<1>1. CASE ResetBus
  BY <1>1 DEF ResetBus, AssertReset, Arbiter!Reset, NormalGranted
<1>2. CASE LeaveBusReset
  BY <1>2 DEF LeaveBusReset, ReleaseReset, Arbiter!LeaveReset, NormalGranted
<1>3. CASE MoveBusRequest
  BY <1>3 DEF MoveBusRequest, Arbiter!MovePin, NormalGranted
<1>4. CASE UNCHANGED <<busMode, requestLow, resetActive>>
  BY <1>4 DEF ArbiterView, NormalGranted
<1>5. ASSUME NEW asking \in SUBSET Owners, NEW request \in Requests,
             Issue(asking, request)
      PROVE  ArbiterView' = ArbiterView
  BY <1>5 DEF Issue, AdvanceFrom, BusModeAfterIssue, BusResumes, ArbiterView, NormalGranted
<1> QED
  BY <1>1, <1>2, <1>3, <1>4, <1>5
     DEF NextBus, BusClockEdge, Complete, PassBusPhase, AdvanceFrom, busControlVars

\* adsp2100_bus_control implements the two-sample arbiter: BG moves exactly when
\* two consecutive state-3 samples of BR agree.
THEOREM ImplementsArbiter == SpecBus => ArbiterSpec
<1>1. InitBus => Arbiter!Init
  BY DEF InitBus, InitPhase, Arbiter!Init, NormalGranted
<1>2. ResponseInv /\ [NextBus]_busControlVars => [Arbiter!Next]_ArbiterView
  BY SampleRefines, OtherStepsRefine DEF Arbiter!Next
<1> QED
  BY <1>1, <1>2, SpecResponseInv, PTL DEF SpecBus, ArbiterSpec, Arbiter!Spec,
         Arbiter!arbiterVars, ArbiterView

-----------------------------------------------------------------------------
(***************************************************************************)
(* BR and HALT.  The inductive invariant adds to the bus invariant that the *)
(* two controllers exclude each other and in which phases the HALT controller *)
(* can be in each of its modes.                                            *)
(***************************************************************************)

\* RESET holds phase 4 with both controllers idle and the bus cleared.
OwnerResetHolds ==
  resetActive =>
    phase = 4 /\ busMode = "IDLE" /\ haltMode = "RUNNING" /\ transaction = NoTransaction

\* A stop is entered at the end of state 7 and left from state 8; a forced
\* fetch is due from the sample in state 3 to the boundary of state 8.
HaltWindows ==
  /\ haltMode = "STOPPED" => phase = 8
  /\ haltMode = "FORCE_FETCH" => phase \in 4..8

OwnerInv ==
  /\ TypeOKOwner
  /\ BusInv
  /\ OneControllerActive
  /\ OwnerResetHolds
  /\ HaltWindows

\* The strengthening holds initially.
LEMMA InitOwnerInv == InitOwner => OwnerInv
<1> SUFFICES ASSUME InitOwner PROVE OwnerInv
  OBVIOUS
<1>1. TypeOKOwner
  BY DEF InitOwner, InitPhase, TypeOKOwner, TypeOKPhase, ResetPhaseState, Phases, BusModes,
         HaltModes, TypeOKTransaction
<1>2. BusInv
  BY ClearedBusInv DEF InitOwner
<1>3. OneControllerActive /\ OwnerResetHolds /\ HaltWindows
  BY DEF InitOwner, InitPhase, ResetPhaseState, OneControllerActive, OwnerResetHolds,
         HaltWindows
<1> QED
  BY <1>1, <1>2, <1>3 DEF OwnerInv

\* What a pass over a phase with no event on the bus side keeps.
LEMMA QuietStep ==
  ASSUME OwnerInv, UNCHANGED <<busMode, transaction, pins>>,
         phase' \in Phases, resetActive' = FALSE, haltMode' \in HaltModes, BusInv',
         haltMode' = "RUNNING" \/ haltMode # "RUNNING",
         HaltWindows'
  PROVE  OwnerInv'
<1>1. TypeOKOwner'
  BY DEF OwnerInv, TypeOKOwner, TypeOKPhase, TypeOKTransaction, pins
<1>2. OneControllerActive' /\ OwnerResetHolds'
  BY DEF OwnerInv, OneControllerActive, OwnerResetHolds
<1> QED
  BY <1>1, <1>2 DEF OwnerInv

\* At a state-3 sample the two masks let at most one pin through, and none to a
\* controller whose rival is active.
LEMMA SampleExcludes ==
  ASSUME OneControllerActive, SampleBothPins
  PROVE  OneControllerActive'
<1>1. /\ busMode' = BusModeAfterSample(EffectiveBrLow(haltLow, brLow))
      /\ haltMode' = HaltModeAfterSample(EffectiveHaltLow(haltLow, brLow), PMDataCycle)
  BY DEF SampleBothPins
<1>2. CASE busMode # "IDLE"
  BY <1>1, <1>2
     DEF OneControllerActive, HaltModeAfterSample, HaltRecognized, EffectiveHaltLow
<1>3. CASE busMode = "IDLE" /\ EffectiveBrLow(haltLow, brLow)
  BY <1>1, <1>3
     DEF OneControllerActive, HaltModeAfterSample, HaltRecognized, EffectiveHaltLow,
         EffectiveBrLow
<1>4. CASE busMode = "IDLE" /\ ~EffectiveBrLow(haltLow, brLow)
  BY <1>1, <1>4 DEF OneControllerActive, BusModeAfterSample
<1> QED
  BY <1>2, <1>3, <1>4

\* Every step of the two controllers and the bus keeps the strengthening.
LEMMA StepOwnerInv == OwnerInv /\ [NextOwner]_ownerVars => OwnerInv'
<1> SUFFICES ASSUME OwnerInv, [NextOwner]_ownerVars PROVE OwnerInv'
  OBVIOUS
<1>1. CASE SampleBothPins
  <2>1. phase = 3 /\ phase' = 4 /\ phase' \in Phases /\ ~resetActive /\ resetActive' = FALSE
    BY <1>1, AdvanceStep DEF SampleBothPins, Phases, OwnerInv, TypeOKOwner, TypeOKPhase
  <2>2. /\ busMode' = BusModeAfterSample(EffectiveBrLow(haltLow, brLow))
        /\ haltMode' = HaltModeAfterSample(EffectiveHaltLow(haltLow, brLow), PMDataCycle)
        /\ UNCHANGED <<transaction, pins>>
    BY <1>1 DEF SampleBothPins
  <2>3. BusInv'
    <3>1. EffectiveBrLow(haltLow, brLow) \in BOOLEAN
      BY DEF EffectiveBrLow
    <3> QED
      BY <2>1, <2>2, <3>1, SampleKeepsBusInv DEF OwnerInv
  <2>4. OneControllerActive'
    BY <1>1, SampleExcludes DEF OwnerInv
  <2>5. haltMode' \in HaltModes
    BY <2>2 DEF HaltModeAfterSample, HaltModes, OwnerInv, TypeOKOwner
  <2>6. HaltWindows'
    BY <2>1, <2>2 DEF HaltWindows, HaltModeAfterSample, OwnerInv
  <2>7. TypeOKOwner' /\ OwnerResetHolds'
    BY <2>1, <2>2, <2>3, <2>5
       DEF OwnerInv, TypeOKOwner, TypeOKPhase, BusInv, pins, OwnerResetHolds
  <2> QED
    BY <2>3, <2>4, <2>6, <2>7 DEF OwnerInv
<1>2. CASE CompleteOwnedCycle
  <2>1. phase = 7 /\ phase' = 8 /\ phase' \in Phases /\ resetActive' = FALSE
    BY <1>2, AdvanceStep DEF CompleteOwnedCycle, Phases, OwnerInv, TypeOKOwner, TypeOKPhase
  <2>2. /\ AdvanceFrom(7) /\ haltMode' = HaltModeAfterComplete
        /\ UNCHANGED <<busMode, transaction, pins>>
    BY <1>2 DEF CompleteOwnedCycle
  <2>3. BusInv'
    BY <2>2, PassKeepsBusInv DEF OwnerInv, Phases
  <2>4. haltMode' \in HaltModes /\ (haltMode' = "RUNNING" \/ haltMode # "RUNNING") /\ HaltWindows'
    BY <2>1, <2>2 DEF HaltModeAfterComplete, HaltModes, HaltWindows, OwnerInv, TypeOKOwner
  <2> QED
    BY <2>1, <2>2, <2>3, <2>4, QuietStep
<1>3. ASSUME NEW asking \in SUBSET Owners, NEW request \in Requests,
             IssueOwnedCycle(asking, request)
      PROVE  OwnerInv'
  <2>1. phase = 8 /\ phase' = 1 /\ phase' \in Phases /\ ~resetActive /\ resetActive' = FALSE
    BY <1>3, AdvanceStep DEF IssueOwnedCycle, Phases, OwnerInv, TypeOKOwner, TypeOKPhase
  <2>2. /\ busMode' = BusModeAfterIssue
        /\ haltMode' = HaltModeAfterIssue
        /\ transaction' = TransactionAfterIssue(asking, request, IssueInhibited)
        /\ UNCHANGED pins
    BY <1>3 DEF IssueOwnedCycle
  <2>3. BusInv'
    <3>1. IssueInhibited \in BOOLEAN /\ (BusInhibitsIssue => IssueInhibited)
      BY DEF IssueInhibited
    <3> QED
      BY <2>1, <2>2, <3>1, IssueKeepsBusInv DEF OwnerInv
  <2>4. /\ haltMode' \in {"RUNNING", "STOP_PENDING"}
        /\ haltMode = "RUNNING" => haltMode' = "RUNNING"
    BY <2>2 DEF HaltModeAfterIssue, HaltModes, OwnerInv, TypeOKOwner
  <2>5. busMode' = "IDLE" \/ busMode # "IDLE"
    BY <2>2 DEF BusModeAfterIssue
  <2>6. (OneControllerActive /\ HaltWindows /\ OwnerResetHolds)'
    BY <2>1, <2>4, <2>5 DEF OwnerInv, OneControllerActive, HaltWindows, OwnerResetHolds
  <2>7. TypeOKOwner'
    BY <2>1, <2>2, <2>3, <2>4 DEF OwnerInv, TypeOKOwner, TypeOKPhase, BusInv, HaltModes, pins
  <2> QED
    BY <2>3, <2>6, <2>7 DEF OwnerInv
<1>4. CASE PassOwnedPhase
  <2>1. PICK p \in Phases \ {3, 7, 8} : AdvanceFrom(p)
    BY <1>4 DEF PassOwnedPhase
  <2>2. /\ phase' = phase + 1 /\ phase' \in Phases /\ phase \in Phases \ {3, 8}
        /\ resetActive' = FALSE
    BY <2>1, AdvanceStep DEF Phases, OwnerInv, TypeOKOwner, TypeOKPhase
  <2>3. UNCHANGED <<busMode, haltMode, transaction, pins>>
    BY <1>4 DEF PassOwnedPhase
  <2>4. BusInv'
    BY <2>1, <2>3, PassKeepsBusInv DEF OwnerInv
  <2>5. haltMode' \in HaltModes /\ (haltMode' = "RUNNING" \/ haltMode # "RUNNING") /\ HaltWindows'
    BY <2>2, <2>3 DEF HaltWindows, OwnerInv, TypeOKOwner, Phases
  <2> QED
    BY <2>2, <2>3, <2>4, <2>5, QuietStep
<1>5. CASE ResetOwner
  <2>1. /\ phase' = 4 /\ resetActive' = TRUE
        /\ busMode' = "IDLE" /\ haltMode' = "RUNNING" /\ transaction' = NoTransaction
        /\ UNCHANGED pins
    BY <1>5 DEF ResetOwner, AssertReset, ResetPhaseState
  <2>2. BusInv'
    BY <2>1 DEF BusInv, BusModes, TypeOKTransaction, AwayIsIdle, AwayModes, RequestedIsIdle,
                ReacquireWindow
  <2>3. TypeOKOwner'
    BY <2>1 DEF OwnerInv, TypeOKOwner, TypeOKPhase, TypeOKTransaction, Phases, BusModes,
           HaltModes, pins
  <2>4. (OneControllerActive /\ OwnerResetHolds /\ HaltWindows)'
    BY <2>1 DEF OneControllerActive, OwnerResetHolds, HaltWindows
  <2> QED
    BY <2>2, <2>3, <2>4 DEF OwnerInv
<1>6. CASE LeaveOwnerReset
  <2>1. /\ phase' = 5 /\ resetActive' = FALSE
        /\ busMode = "IDLE" /\ haltMode = "RUNNING" /\ transaction = NoTransaction
    BY <1>6 DEF LeaveOwnerReset, ReleaseReset, ReleasePhaseState, OwnerInv, OwnerResetHolds
  <2>2. UNCHANGED <<busMode, haltMode, transaction, pins>>
    BY <1>6 DEF LeaveOwnerReset
  <2>3. BusInv'
    BY <2>1, <2>2 DEF BusInv, BusModes, TypeOKTransaction, AwayIsIdle, AwayModes,
                      RequestedIsIdle, ReacquireWindow
  <2>4. phase' \in Phases
    BY <2>1 DEF Phases
  <2>5. haltMode' = "RUNNING" /\ haltMode' \in HaltModes /\ HaltWindows'
    BY <2>1, <2>2 DEF HaltModes, HaltWindows
  <2> QED
    BY <2>1, <2>2, <2>3, <2>4, <2>5, QuietStep
<1>7. CASE MovePin \/ UNCHANGED ownerVars
  <2>1. UNCHANGED <<phase, resetActive, busMode, haltMode, transaction>>
    BY <1>7 DEF MovePin, ownerVars
  <2>2. (brLow \in BOOLEAN /\ haltLow \in BOOLEAN /\ dmack \in BOOLEAN)'
    BY <1>7 DEF MovePin, ownerVars, pins, OwnerInv, TypeOKOwner
  <2>3. BusInv'
    BY <2>1 DEF OwnerInv, BusInv, TypeOKTransaction, Active, AwayIsIdle, RequestedIsIdle,
           ReacquireWindow
  <2>4. TypeOKOwner'
    BY <2>1, <2>2 DEF OwnerInv, TypeOKOwner, TypeOKPhase, TypeOKTransaction
  <2>5. (OneControllerActive /\ OwnerResetHolds /\ HaltWindows)'
    BY <2>1 DEF OwnerInv, OneControllerActive, OwnerResetHolds, HaltWindows
  <2> QED
    BY <2>3, <2>4, <2>5 DEF OwnerInv
<1> QED
  BY <1>1, <1>2, <1>3, <1>4, <1>5, <1>6, <1>7 DEF NextOwner, OwnerClockEdge

\* The strengthening is an invariant of the specification.
LEMMA SpecOwnerInv == SpecOwner => []OwnerInv
  BY InitOwnerInv, StepOwnerInv, PTL DEF SpecOwner

\* Both controllers, the bus and the pins keep their types.
THEOREM OwnerTypeCorrect == SpecOwner => []TypeOKOwner
<1>1. OwnerInv => TypeOKOwner
  BY DEF OwnerInv
<1> QED
  BY <1>1, SpecOwnerInv, PTL

\* The two masks, each reading the other controller's mode and pin at the same
\* clock edge, never let HALT and BR/BG be served together.
THEOREM ControllersExclusive == SpecOwner => []OneControllerActive
<1>1. OwnerInv => OneControllerActive
  BY DEF OwnerInv
<1> QED
  BY <1>1, SpecOwnerInv, PTL

\* The bus is handed over with no transaction in flight, under HALT too.
THEOREM OwnerGrantSafe == SpecOwner => []GrantedBusIsIdle
<1>1. OwnerInv => GrantedBusIsIdle
  BY BusInvGrantSafe DEF OwnerInv, GrantedBusIsIdle
<1> QED
  BY <1>1, SpecOwnerInv, PTL

\* The fetch a HALT forces meets an open issue gate, whatever BR does.
THEOREM ForcedFetchOpen == SpecOwner => []ForcedFetchNotBlocked
<1>1. OwnerInv => ForcedFetchNotBlocked
  BY DEF OwnerInv, OneControllerActive, ForcedFetchNotBlocked, IssueInhibited, BusInhibitsIssue,
         HaltInhibitsIssue, NormalGranted
<1> QED
  BY <1>1, SpecOwnerInv, PTL

\* A stopped machine holds state 8 and the transaction it stopped on.
THEOREM StoppedFrozen == SpecOwner => StoppedBusIsFrozen
<1> DEFINE Frozen ==
      haltMode = "STOPPED" /\ haltMode' = "STOPPED"
        => phase = 8 /\ phase' = 8 /\ transaction' = transaction
<1>1. OwnerInv /\ OwnerInv' /\ [NextOwner]_ownerVars => Frozen
  <2> SUFFICES ASSUME OwnerInv, OwnerInv', [NextOwner]_ownerVars, haltMode = "STOPPED",
                      haltMode' = "STOPPED"
               PROVE  phase = 8 /\ phase' = 8 /\ transaction' = transaction
    OBVIOUS
  <2>1. phase = 8 /\ phase' = 8
    BY DEF OwnerInv, HaltWindows
  <2>2. ASSUME NEW asking \in SUBSET Owners, NEW request \in Requests
        PROVE  ~IssueOwnedCycle(asking, request)
    BY DEF IssueOwnedCycle, HaltModeAfterIssue
  <2>3. ~ResetOwner
    BY DEF ResetOwner
  <2> QED
    BY <2>1, <2>2, <2>3 DEF NextOwner, OwnerClockEdge, SampleBothPins, CompleteOwnedCycle,
           PassOwnedPhase, LeaveOwnerReset, MovePin, ownerVars
<1> QED
  BY <1>1, SpecOwnerInv, PTL DEF SpecOwner, StoppedBusIsFrozen

\* While only one of HALT and BR is asserted, the controller serving it goes on
\* serving it: RESET is the only other way out.
THEOREM OwnerKeptAlone == SpecOwner => OwnerKept
<1> DEFINE HaltKept ==
             haltMode = "STOPPED" /\ haltLow /\ ~brLow
               => haltMode' = "STOPPED" \/ resetActive'
           GrantKept ==
             NormalGranted /\ brLow /\ ~haltLow => NormalGranted' \/ resetActive'
<1>1. OwnerInv /\ [NextOwner]_ownerVars => HaltKept
  <2> SUFFICES ASSUME OwnerInv, [NextOwner]_ownerVars, haltMode = "STOPPED", haltLow, ~brLow
               PROVE  haltMode' = "STOPPED" \/ resetActive'
    OBVIOUS
  <2>1. phase = 8 /\ busMode = "IDLE" /\ ~resetActive
    BY DEF OwnerInv, HaltWindows, OneControllerActive, OwnerResetHolds
  <2>2. HoldsPhase(EffectiveHaltLow(haltLow, brLow), dmack)
    BY <2>1 DEF HoldsPhase, HaltResumes, EffectiveHaltLow
  <2>3. CASE ResetOwner
    BY <2>3 DEF ResetOwner, AssertReset
  <2>4. CASE MovePin \/ UNCHANGED ownerVars
    BY <2>4 DEF MovePin, ownerVars
  <2>5. ~SampleBothPins /\ ~CompleteOwnedCycle /\ ~PassOwnedPhase /\ ~LeaveOwnerReset
    BY <2>1 DEF SampleBothPins, CompleteOwnedCycle, PassOwnedPhase, AdvanceFrom,
           LeaveOwnerReset, ReleaseReset
  <2> QED
    BY <2>2, <2>3, <2>4, <2>5 DEF NextOwner, OwnerClockEdge, IssueOwnedCycle
<1>2. OwnerInv /\ [NextOwner]_ownerVars => GrantKept
  <2> SUFFICES ASSUME OwnerInv, [NextOwner]_ownerVars, NormalGranted, brLow, ~haltLow
               PROVE  NormalGranted' \/ resetActive'
    OBVIOUS
  <2>1. EffectiveBrLow(haltLow, brLow) /\ busMode \in {"GRANTED", "RELEASE_DELAY"}
    BY DEF OwnerInv, OneControllerActive, NormalGranted, EffectiveBrLow
  <2>2. CASE SampleBothPins
    BY <2>1, <2>2 DEF SampleBothPins, BusModeAfterSample, NormalGranted
  <2>3. ASSUME NEW asking \in SUBSET Owners, NEW request \in Requests,
               IssueOwnedCycle(asking, request)
        PROVE  NormalGranted'
    BY <2>1, <2>3 DEF IssueOwnedCycle, BusModeAfterIssue, BusResumes, NormalGranted
  <2>4. CASE ResetOwner
    BY <2>4 DEF ResetOwner, AssertReset
  <2>5. CASE UNCHANGED busMode
    BY <2>1, <2>5 DEF NormalGranted
  <2> QED
    BY <2>2, <2>3, <2>4, <2>5 DEF NextOwner, OwnerClockEdge, CompleteOwnedCycle,
           PassOwnedPhase, LeaveOwnerReset, MovePin, ownerVars
<1> QED
  BY <1>1, <1>2, SpecOwnerInv, PTL DEF SpecOwner, OwnerKept

=============================================================================
