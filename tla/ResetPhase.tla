------------------------------- MODULE ResetPhase -------------------------------
(***************************************************************************)
(* rtl/core/adsp2100_reset_phase.sv: recognition of the RESET pin and the  *)
(* owner of the eight processor states.  RESET is sampled at rising CLKIN  *)
(* edges; every CLKIN edge, rising or falling, advances a running machine. *)
(*                                                                         *)
(* A RESET shorter than four rising samples is not released at all: the    *)
(* machine stays in state 4 until a long enough one.                       *)
(***************************************************************************)
EXTENDS PhaseSource

VARIABLES phaseValid,     \* phase_valid_q
          assertedEdges,  \* asserted_rising_edges_q
          releaseSeen,    \* release_rising_seen_q
          durationError,  \* duration_error_q
          clkin,          \* the CLKIN level
          resetPin,       \* reset_pin_i
          samples         \* the last six samples of reset_pin_i, oldest first

resetVars == <<phaseValid, resetActive, assertedEdges, releaseSeen, durationError>>

resetPhaseVars == <<phase, resetVars, clkin, resetPin, samples>>

MINIMUM_RESET_CYCLES == 4

TypeOKReset ==
  /\ TypeOKPhase
  /\ phaseValid \in BOOLEAN
  /\ assertedEdges \in 0 .. MINIMUM_RESET_CYCLES
  /\ releaseSeen \in BOOLEAN
  /\ durationError \in BOOLEAN
  /\ clkin \in BOOLEAN
  /\ resetPin \in BOOLEAN
  /\ samples \in [1 .. 6 -> BOOLEAN]

\* Power-up: no RESET has been recognised.
InitReset ==
  /\ phase = ResetPhaseState
  /\ phaseValid = FALSE /\ resetActive = FALSE
  /\ releaseSeen = FALSE /\ durationError = FALSE
  /\ assertedEdges = 0
  /\ clkin \in BOOLEAN
  /\ resetPin \in BOOLEAN
  /\ samples = [i \in 1 .. 6 |-> FALSE]

RisingEdge ==
  /\ ~clkin
  /\ clkin' = TRUE
  /\ samples' = [i \in 1 .. 6 |-> IF i = 6 THEN resetPin ELSE samples[i + 1]]

FallingEdge ==
  /\ clkin
  /\ clkin' = FALSE
  /\ UNCHANGED samples

\* The assertion this sample belongs to has not been interrupted.
Uninterrupted == resetActive /\ ~durationError /\ ~releaseSeen

\* Mutant: an interrupted RESET keeps its count.
CountAcrossRelease ==
  IF assertedEdges < MINIMUM_RESET_CYCLES THEN assertedEdges + 1 ELSE assertedEdges

CountAfterSample ==
  CASE ~Uninterrupted -> 1
    [] Uninterrupted /\ assertedEdges < MINIMUM_RESET_CYCLES -> assertedEdges + 1
    [] OTHER -> MINIMUM_RESET_CYCLES

\* reset_recognized_o: state 4 is forced.
RecognizeReset ==
  /\ RisingEdge
  /\ resetPin
  /\ phase' = ResetPhaseState
  /\ phaseValid' = TRUE
  /\ resetActive' = TRUE
  /\ assertedEdges' = CountAfterSample
  /\ releaseSeen' = FALSE
  /\ durationError' = FALSE
  /\ UNCHANGED resetPin

LongEnough == assertedEdges = MINIMUM_RESET_CYCLES /\ ~durationError

\* A rising sample that finds the pin released while RESET is held.
ReleaseSample == RisingEdge /\ ~resetPin /\ resetActive /\ UNCHANGED resetPin

RefuseRelease ==
  /\ ReleaseSample
  /\ ~LongEnough
  /\ durationError' = TRUE
  /\ UNCHANGED <<phase, phaseValid, resetActive, assertedEdges, releaseSeen>>

\* release_first_rising_o: state 4 is held for one sample more.
SeeRelease ==
  /\ ReleaseSample
  /\ LongEnough /\ ~releaseSeen
  /\ releaseSeen' = TRUE
  /\ UNCHANGED <<phase, phaseValid, resetActive, assertedEdges, durationError>>

\* Mutant: release_rising_seen_q is never looked at.
NeverReleases == FALSE

SecondSample == releaseSeen

\* Mutant: the release edge does not leave state 4.
ReleaseInPlace == ResetPhaseState

StateAfterRelease == ReleasePhaseState

\* release_event_o.
ReleasePhase ==
  /\ ReleaseSample
  /\ LongEnough /\ SecondSample
  /\ phase' = StateAfterRelease
  /\ resetActive' = FALSE
  /\ releaseSeen' = FALSE
  /\ UNCHANGED <<phaseValid, assertedEdges, durationError>>

\* normal_advance: either polarity of CLKIN.
AdvancePhase ==
  /\ FallingEdge \/ (RisingEdge /\ ~resetPin)
  /\ phaseValid /\ ~resetActive
  /\ phase' = NextPhase(phase)
  /\ UNCHANGED <<resetVars, resetPin>>

\* A held machine, or one that never saw RESET, ignores the edge.
IgnoreEdge ==
  /\ \/ FallingEdge /\ (resetActive \/ ~phaseValid)
     \/ RisingEdge /\ ~resetPin /\ ~resetActive /\ ~phaseValid
  /\ UNCHANGED <<phase, resetVars, resetPin>>

MoveResetPin ==
  /\ resetPin' = ~resetPin
  /\ UNCHANGED <<phase, resetVars, clkin, samples>>

ClkinEdge ==
  \/ RecognizeReset
  \/ RefuseRelease
  \/ SeeRelease
  \/ ReleasePhase
  \/ AdvancePhase
  \/ IgnoreEdge

NextReset == ClkinEdge \/ MoveResetPin

SpecReset == InitReset /\ [][NextReset]_resetPhaseVars

\* CLKIN keeps toggling.
FairSpecReset == SpecReset /\ WF_resetPhaseVars(ClkinEdge)

(***************************************************************************)
(* Properties.                                                             *)
(***************************************************************************)

\* The states entered at rising CLKIN edges are the odd ones, after every
\* RESET and however it was timed: a RESET that realigns the ring releases it
\* with the same CLKIN polarity, on which CLKOUT and the strobes rest.
CadenceAligned ==
  phaseValid /\ ~resetActive => (clkin <=> phase \in {1, 3, 5, 7})

\* The machine leaves RESET only on the second of two released samples that
\* follow at least four asserted ones without a gap: interrupted assertions
\* never add up.
ReleaseEarned ==
  [][resetActive /\ ~resetActive' => samples' = [i \in 1 .. 6 |-> i <= 4]]_resetPhaseVars

HeldInReset == resetActive \/ ~phaseValid

AbstractSource == INSTANCE PhaseSource WITH resetActive <- HeldInReset

\* What every other module is told about time: the phase source specification.
PhaseSpec == AbstractSource!SpecPhase

\* A pin that stays released ends the reset, unless it was too short, and an
\* assertion that was too short keeps the machine held.
ReleaseEnds ==
  <>[](~resetPin) => <>[](~resetActive) \/ <>[](resetActive /\ durationError)

=============================================================================
