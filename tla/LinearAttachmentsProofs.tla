------------------------- MODULE LinearAttachmentsProofs -------------------------
(***************************************************************************)
(* Proofs about LinearAttachments.  PairedCompletion compares two buses at *)
(* one state 7, but both took their transaction at a state 8 long before,  *)
(* and DMACK may have come between.  Inv says what each of them keeps in   *)
(* the meantime: a fetch under way owns the bus until it completes, and a  *)
(* data access lives inside such a fetch.                                  *)
(***************************************************************************)
EXTENDS LinearAttachments, TLAPS

HistoryOK ==
  /\ pinsBefore \in (SUBSET Levels) \cup {Unset}
  /\ owed \subseteq Levels
  /\ handshake \in {"NONE", "TRAPPED", "ANSWERED"}

\* A fetch holds the bus from its issue to its completion, and state 8 finds
\* none under way except inside an extension.
FetchInv ==
  /\ fetchPending => FetchCompletes
  /\ phase = 8 /\ fetchPending => Waiting

\* A data access is inside the fetch of an instruction, and DMACK has been
\* sampled for it when state 7 comes.
AccessInv ==
  /\ InProgress => fetchPending /\ vectoring = NoLevel
  /\ phase = 7 /\ InProgress => stage \in {"WAITING", "ACKNOWLEDGED"}
  /\ phase = 8 /\ InProgress => stage = "WAITING"

\* The controller compares the same samples as the board.
EdgeInv ==
  /\ pinsBefore = previousLow
  /\ owed \subseteq edgePending

\* Only HALT's answer takes the stop of a TRAP out of its first state.
TrapInv == handshake = "TRAPPED" => trapStop = "ASSERTED"

Inv == TypeOK /\ HistoryOK /\ FetchInv /\ AccessInv /\ EdgeInv /\ TrapInv

-----------------------------------------------------------------------------
(* The interrupt controller *)

LEMMA MaxInSet == \A S \in SUBSET Levels : S # {} => Max(S) \in S
<1> SUFFICES ASSUME NEW S \in SUBSET Levels, S # {}
             PROVE  Max(S) \in S
  OBVIOUS
<1>1. \E x \in S : \A y \in S : x >= y
  <2>1. CASE 3 \in S
    <3>1. \A y \in S : 3 >= y
      BY DEF Levels
    <3>2. QED
      BY <2>1, <3>1
  <2>2. CASE 3 \notin S /\ 2 \in S
    <3>1. \A y \in S : 2 >= y
      BY <2>2 DEF Levels
    <3>2. QED
      BY <2>2, <3>1
  <2>3. CASE 3 \notin S /\ 2 \notin S
    <3>1. \A y \in S : y \in {0, 1}
      BY <2>3 DEF Levels
    <3>2. QED
      BY <3>1
  <2>4. QED
    BY <2>1, <2>2, <2>3
<1>2. QED
  BY <1>1 DEF Max

LEMMA RecognizedType ==
  ASSUME InterruptOK, NEW low \in SUBSET Levels, NEW allowed \in BOOLEAN
  PROVE  Recognized(low, allowed) \in Levels \cup {NoLevel}
<1>1. EnabledRequests(low) \in SUBSET Levels
  BY DEF EnabledRequests, InterruptOK
<1>2. QED
  BY <1>1, MaxInSet DEF Recognized

LEMMA SampleType ==
  ASSUME InterruptOK, NEW low \in SUBSET Levels, NEW allowed \in BOOLEAN,
         Sample(low, allowed)
  PROVE  previousLow' \in (SUBSET Levels) \cup {Unset} /\ edgePending' \in SUBSET Levels
BY DEF Sample, EdgesWith, DetectedEdges, InterruptOK

\* What falls on a pin at a sample is in the latch afterwards, unless it is the
\* level recognised at that very sample.
LEMMA SampleRemembers ==
  ASSUME Inv, NEW low \in SUBSET Levels, NEW allowed \in BOOLEAN,
         Sample(low, allowed), Owe(low),
         vectoring = NoLevel => vectoring' = Recognized(low, allowed),
         vectoring # NoLevel => ~allowed
  PROVE  EdgeInv'
<1>1. pinsBefore' = previousLow'
  BY DEF Owe, Sample
<1>2. owed \cup (IF pinsBefore = Unset \/ icntl = Unset THEN {}
                 ELSE (low \ pinsBefore) \cap icntl.edge) \subseteq EdgesWith(low)
  BY DEF Inv, EdgeInv, EdgesWith, DetectedEdges
<1>3. CASE vectoring = NoLevel
  BY <1>1, <1>2, <1>3 DEF Owe, Sample, EdgeInv
<1>4. CASE vectoring # NoLevel
  <2>1. Recognized(low, allowed) = NoLevel
    BY <1>4 DEF Recognized
  <2>2. NoLevel \notin EdgesWith(low)
    BY InterruptConstants DEF Inv, TypeOK, TypeOKCore, InterruptOK, EdgesWith, DetectedEdges
  <2>3. QED
    BY <1>1, <1>2, <1>4, <2>1, <2>2 DEF Owe, Sample, EdgeInv
<1>5. QED
  BY <1>3, <1>4

-----------------------------------------------------------------------------
(* Types *)

LEMMA InitInv == Init => Inv
<1> SUFFICES ASSUME Init PROVE Inv
  OBVIOUS
<1> USE DEF Init, InitPhase, InitCore, InitInterrupts
<1>1. TypeOK
  <2>1. TypeOKPhase
    BY DEF TypeOKPhase, Phases, ResetPhaseState
  <2>2. TypeOKCore
    BY DEF TypeOKCore, InterruptOK
  <2>3. TypeOKDataBus
    BY DEF TypeOKDataBus, Stages
  <2>4. QED
    BY <2>1, <2>2, <2>3 DEF TypeOK, BusModes, HaltModes
<1>2. HistoryOK
  BY DEF HistoryOK
<1>3. FetchInv /\ AccessInv /\ EdgeInv /\ TrapInv
  BY DEF FetchInv, AccessInv, EdgeInv, TrapInv, InProgress
<1>4. QED
  BY <1>1, <1>2, <1>3 DEF Inv

\* Every completion of the core leaves it well typed.
LEMMA CompleteCoreType ==
  ASSUME TypeOKCore, NEW word \in Words, NEW low \in SUBSET Levels, CompleteCore(word, low)
  PROVE  TypeOKCore'
<1> USE DEF TypeOKCore
<1>1. CASE RetireInto(word, low)
  <2>1. vectoring' \in Levels \cup {NoLevel}
    BY <1>1, RecognizedType DEF RetireInto, ServiceAllowed
  <2>2. previousLow' \in (SUBSET Levels) \cup {Unset} /\ edgePending' \in SUBSET Levels
    BY <1>1, SampleType DEF RetireInto, ServiceAllowed
  <2>3. imask' \in SUBSET Levels
    BY <1>1, LinearCoreConstants DEF RetireInto, WriteControl, InterruptOK
  <2>4. icntl' \in [edge : SUBSET Levels, nest : BOOLEAN] \cup {Unset}
    BY <1>1, LinearCoreConstants DEF RetireInto, WriteControl, Controls, InterruptOK
  <2>5. QED
    BY <1>1, <2>1, <2>2, <2>3, <2>4 DEF RetireInto, InterruptOK, Words
<1>2. CASE EnterVector(word, low)
  BY <1>2, SampleType DEF EnterVector, InterruptOK, Words
<1>3. CASE SampleOnly(low)
  BY <1>3, SampleType DEF SampleOnly, coreVars, InterruptOK
<1>4. QED
  BY <1>1, <1>2, <1>3 DEF CompleteCore

\* So does every issue boundary.
LEMMA IssueCoreType ==
  ASSUME TypeOKCore, AcceptFetch
  PROVE  TypeOKCore'
BY DEF TypeOKCore, AcceptFetch, InterruptOK, EntryMask, BusOwners

LEMMA SlotCoreType ==
  ASSUME TypeOKCore, NEW owner \in BusOwners \cup {NoOwner}, LeaveSlotTo(owner)
  PROVE  TypeOKCore'
BY DEF TypeOKCore, LeaveSlotTo, InterruptOK, interruptVars

LEMMA SetUpCoreType ==
  ASSUME TypeOKCore, NEW kind \in Kinds, SetUp(kind)
  PROVE  TypeOKCore'
BY DEF TypeOKCore, SetUp, InterruptOK, interruptVars

LEMMA StepTypeOK == TypeOK /\ [Next]_vars => TypeOK'
<1> SUFFICES ASSUME TypeOK, [Next]_vars PROVE TypeOK'
  OBVIOUS
<1> USE DEF TypeOK
<1>1. TypeOKPhase'
  <2>1. phase' \in Phases
    <3>1. NextPhase(phase) \in Phases
      BY DEF NextPhase, Phases, TypeOKPhase
    <3>2. phase' \in {phase, NextPhase(phase), ResetPhaseState, ReleasePhaseState}
      BY DEF Next, ClockEdge, SamplePins, SampleAck, CompleteCycle, ExtendCycle, HoldCycle,
             IssueCycle, EndCycle, PassPhase, Reset, LeaveReset, AdvanceFrom, AssertReset,
             ReleaseReset, vars, machine, phaseVars
    <3>3. QED
      BY <3>1, <3>2 DEF TypeOKPhase, Phases, ResetPhaseState, ReleasePhaseState
  <2>2. resetActive' \in BOOLEAN
    BY DEF Next, ClockEdge, SamplePins, SampleAck, CompleteCycle, ExtendCycle, HoldCycle,
           IssueCycle, EndCycle, PassPhase, Reset, LeaveReset, AdvanceFrom, AssertReset,
           ReleaseReset, vars, machine, phaseVars, TypeOKPhase
  <2>3. QED
    BY <2>1, <2>2 DEF TypeOKPhase
<1>2. TypeOKDataBus'
  <2>1. ASSUME NEW request \in DataRequests \cup {NoAccess}, IssueAccess(request)
        PROVE  TypeOKDataBus'
    BY <2>1 DEF IssueAccess, TypeOKDataBus, Stages, dataBusVars
  <2>2. ASSUME NEW haltLow, NEW dmack, IssueCycle(haltLow, dmack)
        PROVE  TypeOKDataBus'
    <3>1. CASE UNCHANGED dataBusVars
      BY <3>1 DEF TypeOKDataBus, dataBusVars
    <3>2. QED
      BY <2>1, <2>2, <3>1 DEF IssueCycle, IssueFetch, Compete, IdleBoundary, ClosedBoundary
  <2>3. CASE UNCHANGED dataBusVars
    BY <2>3 DEF TypeOKDataBus, dataBusVars
  <2>4. CASE \E ack \in BOOLEAN : SampleAck(ack)
    BY <2>4 DEF SampleAck, StageAfterSample, TypeOKDataBus, Stages
  <2>5. CASE \E word \in Words, low \in SUBSET Pins : CompleteCycle(word, low)
    BY <2>5 DEF CompleteCycle, StageAfterComplete, TypeOKDataBus, Stages
  <2>6. CASE Reset
    BY <2>6 DEF Reset, ClearDataBus, TypeOKDataBus, Stages
  <2>7. QED
    BY <2>2, <2>3, <2>4, <2>5, <2>6 DEF Next, ClockEdge, SamplePins, ExtendCycle, HoldCycle,
       PassPhase, LeaveReset, vars, machine
<1>3. TypeOKCore'
  <2>1. ASSUME NEW haltLow, NEW dmack, IssueCycle(haltLow, dmack)
        PROVE  TypeOKCore'
    <3>1. CASE \E request : IssueFetch(request)
      BY <3>1, IssueCoreType DEF IssueFetch
    <3>2. CASE Compete
      BY <3>2, SlotCoreType DEF Compete, BusOwners
    <3>3. CASE IdleBoundary
      BY <3>3, SlotCoreType, SetUpCoreType DEF IdleBoundary
    <3>4. CASE ClosedBoundary
      BY <3>4, SlotCoreType DEF ClosedBoundary, TypeOKCore
    <3>5. QED
      BY <2>1, <3>1, <3>2, <3>3, <3>4 DEF IssueCycle
  <2>2. ASSUME NEW word \in Words, NEW low \in SUBSET Pins, CompleteCycle(word, low)
        PROVE  TypeOKCore'
    BY <2>2, CompleteCoreType, LinearAttachmentsConstants DEF CompleteCycle
  <2>3. ASSUME NEW low \in SUBSET Pins, ExtendCycle(low)
        PROVE  TypeOKCore'
    BY <2>3, SampleType, LinearAttachmentsConstants
       DEF ExtendCycle, SampleInExtension, SampleOnly, coreVars, TypeOKCore, InterruptOK
  <2>4. CASE UNCHANGED <<coreVars, interruptVars>>
    BY <2>4 DEF TypeOKCore, coreVars, interruptVars, InterruptOK
  <2>5. CASE Reset
    BY <2>5 DEF Reset, ResetCore, ResetInterrupts, TypeOKCore, InterruptOK
  <2>6. QED
    BY <2>1, <2>2, <2>3, <2>4, <2>5 DEF Next, ClockEdge, SamplePins, SampleAck, HoldCycle,
       PassPhase, LeaveReset, vars
<1>4. busMode' \in BusModes
  BY DEF Next, ClockEdge, SamplePins, SampleAck, CompleteCycle, ExtendCycle, HoldCycle,
         IssueCycle, EndCycle, PassPhase, Reset, LeaveReset, vars, machine, BusModes,
         BusModeAfterSample, BusModeAfterIssue
<1>5. haltMode' \in HaltModes
  BY DEF Next, ClockEdge, SamplePins, SampleAck, CompleteCycle, ExtendCycle, HoldCycle,
         IssueCycle, EndCycle, PassPhase, Reset, LeaveReset, vars, machine, HaltModes,
         HaltModeAfterSample, HaltModeAfterComplete, HaltModeAfterIssue
<1>6. attachment' \in Attachments
  BY DEF Next, ClockEdge, SamplePins, SampleAck, CompleteCycle, ExtendCycle, HoldCycle,
         IssueCycle, EndCycle, PassPhase, Reset, LeaveReset, vars, machine
<1>7. trapStop' \in {"NONE", "ASSERTED", "HANDOFF"}
  BY DEF Next, ClockEdge, SamplePins, SampleAck, CompleteCycle, ExtendCycle, HoldCycle,
         IssueCycle, EndCycle, PassPhase, Reset, LeaveReset, vars, machine, TrapStopAfter
<1>8. QED
  BY <1>1, <1>2, <1>3, <1>4, <1>5, <1>6, <1>7

LEMMA StepHistoryOK == Inv /\ [Next]_vars => HistoryOK'
<1> SUFFICES ASSUME Inv, [Next]_vars PROVE HistoryOK'
  OBVIOUS
<1> USE DEF HistoryOK
<1>1. ASSUME NEW low \in SUBSET Pins, Owe(low)
      PROVE  pinsBefore' \in (SUBSET Levels) \cup {Unset} /\ owed' \subseteq Levels
  BY <1>1, LinearAttachmentsConstants DEF Owe, Inv
<1>2. pinsBefore' \in (SUBSET Levels) \cup {Unset} /\ owed' \subseteq Levels
  BY <1>1 DEF Inv, Next, ClockEdge, SamplePins, SampleAck, CompleteCycle, ExtendCycle,
         HoldCycle, IssueCycle, EndCycle, PassPhase, Reset, LeaveReset, vars, historyVars
<1>3. handshake' \in {"NONE", "TRAPPED", "ANSWERED"}
  BY DEF Inv, Next, ClockEdge, SamplePins, SampleAck, CompleteCycle, ExtendCycle, HoldCycle,
         IssueCycle, IssueFetch, Compete, IdleBoundary, ClosedBoundary, PassPhase, Reset,
         LeaveReset, vars, historyVars, Answer
<1>4. QED
  BY <1>2, <1>3

-----------------------------------------------------------------------------
(* Fetch and data access *)

LEMMA FetchCompleteStep ==
  ASSUME Inv, NEW word, NEW low, CompleteCycle(word, low)
  PROVE  /\ ~fetchPending' /\ UNCHANGED busOwner
         /\ ~InProgress'
<1>1. phase = 7 /\ ~Waiting /\ access' = access /\ stage' = StageAfterComplete
  BY DEF CompleteCycle, AdvanceFrom
<1>2. ~fetchPending' /\ UNCHANGED busOwner
  <2>1. CASE RetireInto(word, low) \/ EnterVector(word, low)
    BY <2>1 DEF RetireInto, EnterVector
  <2>2. CASE ~FetchCompletes /\ SampleOnly(low)
    BY <2>2 DEF SampleOnly, coreVars, Inv, FetchInv
  <2>3. QED
    BY <2>1, <2>2 DEF CompleteCycle, CompleteCore
<1>3. CASE InProgress
  <2>1. stage = "ACKNOWLEDGED"
    BY <1>1, <1>3 DEF Inv, AccessInv, Waiting
  <2>2. stage' = "COMPLETE"
    BY <1>1, <1>3, <2>1 DEF StageAfterComplete, AccessCompletes
  <2>3. QED
    BY <1>2, <2>2 DEF InProgress
<1>4. CASE ~InProgress
  BY <1>1, <1>2, <1>4 DEF StageAfterComplete, AccessCompletes, InProgress
<1>5. QED
  BY <1>3, <1>4

LEMMA FetchIssueStep ==
  ASSUME Inv, NEW haltLow, NEW dmack, IssueCycle(haltLow, dmack)
  PROVE  FetchInv' /\ AccessInv'
<1>1. phase' = 1 /\ ~fetchPending /\ ~InProgress /\ vectoring' = vectoring
  BY DEF IssueCycle, EndCycle, AdvanceFrom, NextPhase, IssueFetch, AcceptFetch, Compete,
         IdleBoundary, ClosedBoundary, LeaveSlotTo, SetUp, Inv, FetchInv, AccessInv, Waiting
<1>2. DataBusReady
  BY <1>1 DEF DataBusReady, InProgress
<1>3. CASE \E request \in DataRequests \cup {NoAccess} : IssueFetch(request)
  <2>1. PICK request \in DataRequests \cup {NoAccess} : IssueFetch(request)
    BY <1>3
  <2>2. fetchPending' /\ FetchCompletes'
    BY <2>1 DEF IssueFetch, AcceptFetch, FetchCompletes
  <2>3. InProgress' => vectoring = NoLevel
    BY <1>2, <2>1 DEF IssueFetch, IssueAccess, MayPair, InProgress
  <2>4. QED
    BY <1>1, <2>2, <2>3 DEF FetchInv, AccessInv
<1>4. CASE Compete \/ IdleBoundary \/ ClosedBoundary
  <2>1. ~fetchPending'
    BY <1>1, <1>4 DEF Compete, IdleBoundary, ClosedBoundary, LeaveSlotTo, SetUp
  <2>2. ~InProgress'
    BY <1>1, <1>2, <1>4 DEF Compete, IdleBoundary, ClosedBoundary, IssueAccess, dataBusVars,
       InProgress
  <2>3. QED
    BY <1>1, <2>1, <2>2 DEF FetchInv, AccessInv
<1>5. QED
  BY <1>3, <1>4 DEF IssueCycle

LEMMA StepFetchInv == Inv /\ [Next]_vars => FetchInv' /\ AccessInv'
<1> SUFFICES ASSUME Inv, [Next]_vars PROVE FetchInv' /\ AccessInv'
  OBVIOUS
<1> USE DEF FetchInv, AccessInv
<1>1. ASSUME NEW brLow \in BOOLEAN, NEW haltLow \in BOOLEAN, SamplePins(brLow, haltLow)
      PROVE  FetchInv' /\ AccessInv'
  BY <1>1 DEF SamplePins, AdvanceFrom, NextPhase, Inv, coreVars, dataBusVars, InProgress,
     FetchCompletes
<1>2. ASSUME NEW ack \in BOOLEAN, SampleAck(ack)
      PROVE  FetchInv' /\ AccessInv'
  BY <1>2 DEF SampleAck, AdvanceFrom, NextPhase, StageAfterSample, Inv, coreVars, InProgress,
     FetchCompletes
<1>3. ASSUME NEW word \in Words, NEW low \in SUBSET Pins, CompleteCycle(word, low)
      PROVE  FetchInv' /\ AccessInv'
  BY <1>3, FetchCompleteStep
<1>4. ASSUME NEW low \in SUBSET Pins, ExtendCycle(low)
      PROVE  FetchInv' /\ AccessInv'
  BY <1>4 DEF ExtendCycle, AdvanceFrom, NextPhase, SampleInExtension, SampleOnly, Inv, coreVars,
     dataBusVars, InProgress, Waiting, FetchCompletes
<1>5. ASSUME NEW haltLow \in BOOLEAN, NEW dmack \in BOOLEAN,
             HoldCycle(haltLow, dmack) \/ IssueCycle(haltLow, dmack)
      PROVE  FetchInv' /\ AccessInv'
  <2>1. CASE HoldCycle(haltLow, dmack)
    BY <2>1 DEF HoldCycle, Inv, phaseVars, coreVars, dataBusVars, InProgress, Waiting,
       FetchCompletes
  <2>2. QED
    BY <1>5, <2>1, FetchIssueStep
<1>6. CASE PassPhase
  BY <1>6 DEF PassPhase, AdvanceFrom, NextPhase, Inv, coreVars, dataBusVars, InProgress,
     Waiting, FetchCompletes
<1>7. CASE Reset
  BY <1>7 DEF Reset, ResetCore, ClearDataBus, InProgress
<1>8. CASE LeaveReset
  BY <1>8 DEF LeaveReset, ReleaseReset, ReleasePhaseState, Inv, coreVars, dataBusVars,
     InProgress, FetchCompletes
<1>9. CASE UNCHANGED vars
  BY <1>9 DEF vars, machine, phaseVars, Inv, coreVars, dataBusVars, InProgress, Waiting,
     FetchCompletes
<1>10. QED
  BY <1>1, <1>2, <1>3, <1>4, <1>5, <1>6, <1>7, <1>8, <1>9 DEF Next, ClockEdge

-----------------------------------------------------------------------------
(* Edges and traps *)

LEMMA StepEdgeInv == Inv /\ [Next]_vars => EdgeInv'
<1> SUFFICES ASSUME Inv, [Next]_vars PROVE EdgeInv'
  OBVIOUS
<1>1. ASSUME NEW word \in Words, NEW low \in SUBSET Pins, CompleteCycle(word, low)
      PROVE  EdgeInv'
  <2>1. low \in SUBSET Levels /\ Owe(low)
    BY <1>1, LinearAttachmentsConstants DEF CompleteCycle
  <2>2. CASE RetireInto(word, low)
    BY <2>1, <2>2, SampleRemembers DEF RetireInto, ServiceAllowed
  <2>3. CASE EnterVector(word, low)
    BY <2>1, <2>3, SampleRemembers DEF EnterVector
  <2>4. CASE SampleOnly(low)
    BY <2>1, <2>4, SampleRemembers DEF SampleOnly, coreVars, Recognized
  <2>5. QED
    BY <1>1, <2>2, <2>3, <2>4 DEF CompleteCycle, CompleteCore
<1>2. ASSUME NEW low \in SUBSET Pins, ExtendCycle(low)
      PROVE  EdgeInv'
  BY <1>2, SampleRemembers, LinearAttachmentsConstants
     DEF ExtendCycle, SampleInExtension, SampleOnly, coreVars, Recognized
<1>3. CASE Reset
  BY <1>3 DEF Reset, ResetCore, ResetInterrupts, EdgeInv
<1>4. CASE UNCHANGED <<previousLow, edgePending, pinsBefore, owed>>
  BY <1>4 DEF Inv, EdgeInv
<1>5. ASSUME NEW haltLow \in BOOLEAN, NEW dmack \in BOOLEAN, IssueCycle(haltLow, dmack)
      PROVE  UNCHANGED <<previousLow, edgePending, pinsBefore, owed>>
  BY <1>5 DEF IssueCycle, EndCycle, IssueFetch, AcceptFetch, Compete, IdleBoundary,
     ClosedBoundary, LeaveSlotTo, SetUp, interruptVars
<1>6. QED
  BY <1>1, <1>2, <1>3, <1>4, <1>5 DEF Next, ClockEdge, SamplePins, SampleAck, HoldCycle,
     PassPhase, LeaveReset, vars, historyVars, interruptVars

LEMMA StepTrapInv == Inv /\ [Next]_vars => TrapInv'
<1> SUFFICES ASSUME Inv, [Next]_vars PROVE TrapInv'
  OBVIOUS
<1> USE DEF TrapInv, Inv
<1>1. ASSUME NEW word \in Words, NEW low \in SUBSET Pins, CompleteCycle(word, low)
      PROVE  TrapInv'
  BY <1>1 DEF CompleteCycle
<1>2. ASSUME NEW haltLow \in BOOLEAN, NEW dmack \in BOOLEAN, HoldCycle(haltLow, dmack)
      PROVE  TrapInv'
  BY <1>2 DEF HoldCycle, Answer, TrapStopAfter, TrapResumes
<1>3. ASSUME NEW haltLow \in BOOLEAN, NEW dmack \in BOOLEAN, IssueCycle(haltLow, dmack)
      PROVE  TrapInv'
  <2>1. trapStop # "ASSERTED"
    BY <1>3 DEF IssueCycle, EndCycle, Held, TrapHolds, TrapResumes
  <2>2. handshake' \in {handshake, "NONE"}
    BY <1>3 DEF IssueCycle, IssueFetch, Compete, IdleBoundary, ClosedBoundary
  <2>3. QED
    BY <2>1, <2>2
<1>4. CASE Reset
  BY <1>4 DEF Reset
<1>5. CASE UNCHANGED <<trapStop, handshake>>
  BY <1>5
<1>6. QED
  BY <1>1, <1>2, <1>3, <1>4, <1>5 DEF Next, ClockEdge, SamplePins, SampleAck, ExtendCycle,
     PassPhase, LeaveReset, vars, machine, historyVars

-----------------------------------------------------------------------------
THEOREM InvHolds == Spec => []Inv
<1>1. Inv /\ [Next]_vars => Inv'
  BY StepTypeOK, StepHistoryOK, StepFetchInv, StepEdgeInv, StepTrapInv DEF Inv
<1>2. QED
  BY InitInv, <1>1, PTL DEF Spec

\* Every reachable state of the core under each of its attachments is well typed.
THEOREM TypeCorrect == Spec => []TypeOK
<1>1. Inv => TypeOK
  BY DEF Inv
<1>2. QED
  BY InvHolds, <1>1, PTL

\* A data access and the fetch it is paired with end at one edge, whatever
\* DMACK does.
THEOREM PairsEndTogether == Spec => []PairedCompletion
<1>1. Inv => PairedCompletion
  BY DEF Inv, PairedCompletion, FetchInv, AccessInv, AccessCompletes, Waiting
<1>2. QED
  BY InvHolds, <1>1, PTL

\* No edge on an interrupt pin is lost while something holds the machine.
THEOREM EdgesKept == Spec => []EdgeRemembered
<1>1. Inv => EdgeRemembered
  BY DEF Inv, EdgeRemembered, EdgeInv
<1>2. QED
  BY InvHolds, <1>1, PTL

\* After a TRAP nothing is fetched before HALT has answered it.
THEOREM TrapsWait == Spec => TrapAnsweredFirst
<1>1. Inv /\ [Next]_vars => [~fetchPending /\ fetchPending' => handshake # "TRAPPED"]_vars
  <2> SUFFICES ASSUME Inv, [Next]_vars, ~fetchPending, fetchPending'
               PROVE  handshake # "TRAPPED"
    OBVIOUS
  <2>1. \E haltLow, dmack \in BOOLEAN : IssueCycle(haltLow, dmack)
    BY FetchCompleteStep DEF Next, ClockEdge, SamplePins, SampleAck, ExtendCycle,
       SampleInExtension, SampleOnly, HoldCycle, PassPhase, Reset, ResetCore, LeaveReset, vars,
       coreVars
  <2>2. trapStop # "ASSERTED"
    BY <2>1 DEF IssueCycle, EndCycle, Held, TrapHolds, TrapResumes
  <2>3. QED
    BY <2>2 DEF Inv, TrapInv
<1>2. QED
  BY InvHolds, <1>1, PTL DEF Spec, TrapAnsweredFirst

=============================================================================
