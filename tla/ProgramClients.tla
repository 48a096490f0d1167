----------------------------- MODULE ProgramClients -----------------------------
(***************************************************************************)
(* rtl/core/adsp2100_program_clients_owner_control_slice.sv with           *)
(* automatic_pm_flow_i high: the linear fetch client, the two PM-data      *)
(* clients, the instruction cache, the HALT controller and the BR/BG       *)
(* sequencer on one program-memory bus.                                    *)
(*                                                                         *)
(* The BR, HALT and DMACK pins take any level at every clock edge that     *)
(* reads them.  Program memory answers every fetch with the word at its    *)
(* address, or with an invalid one; no PM-data write changes a word that   *)
(* is later executed.                                                      *)
(***************************************************************************)
EXTENDS LinearFetch, FiniteSets

CONSTANTS CacheWords,     \* 16
          Programs,       \* the contents of program memory considered
          DataAddresses,  \* the addresses a DAG may supply, Unknown among them
          SetupWrites     \* the setup ports are used while flow depends on them

ASSUME ProgramClientsConstants ==
  /\ CacheWords \in Nat \ {0}
  /\ AddressSpace % CacheWords = 0
  /\ Programs \subseteq [Addresses -> Instructions]
  /\ DataAddresses \subseteq MaybeAddress
  /\ SetupWrites \in BOOLEAN

VARIABLES slots, regionStart, regionCount,   \* the instruction cache
          current   \* the clients whose copy of the registers is the latest

cacheVars == <<slots, regionStart, regionCount>>

vars == <<phase, resetActive, busMode, haltMode, transaction, clients,
          program, condition, fetchVars, cacheVars, current>>

Cache == INSTANCE InstructionCache

Copies == PMDataOwners \cup {"FETCH"}

TypeOK ==
  /\ TypeOKPhase
  /\ busMode \in BusModes
  /\ haltMode \in HaltModes
  /\ TypeOKTransaction
  /\ clients \in [PMDataOwners -> Clients]
  /\ TypeOKFetch
  /\ Cache!TypeOK
  /\ current \subseteq Copies

Init ==
  /\ InitPhase
  /\ busMode = "IDLE"
  /\ haltMode = "RUNNING"
  /\ transaction = NoTransaction
  /\ clients = [o \in PMDataOwners |-> IdleClient]
  /\ program \in Programs
  /\ condition \in BOOLEAN
  /\ pc = ResetVector
  /\ opcode = Unknown
  /\ fetchPending = FALSE
  /\ vectoring = NoVector
  /\ Cache!Init
  /\ current = Copies

(***************************************************************************)
(* The fetch client and the PM-data clients each keep the computational    *)
(* and address registers and the status.  At every edge one copy is given  *)
(* to the others.                                                          *)
(***************************************************************************)

\* Mutant: only the Type 5 client hands its copy on.
SourceFirst(claiming) == "TYPE5"

\* The PM-data client that completed a data action or was set up.
Source(claiming) == IF "TYPE5" \in claiming THEN "TYPE5" ELSE "TYPE13"

\* The copies of the PM-data clients, taken from one of them or from the fetch
\* client, and that of the fetch client, taken from a PM-data client.
SharedFromPM(latest, source) == IF source \in latest THEN PMDataOwners ELSE {}

SharedFromLinear(latest) == IF "FETCH" \in latest THEN PMDataOwners ELSE {}

LinearFromPM(latest, source) == IF source \in latest THEN {"FETCH"} ELSE {}

\* The copies that are current after an edge at which `written` were changed:
\* of two that change at once, neither has the other's change.
CopiesAfter(written, claiming, linearActs) ==
  LET latest == IF written = {} THEN current
                ELSE {c \in written \cap current : written = {c}}
      source == Source(claiming)
  IN IF claiming # {} THEN SharedFromPM(latest, source) \cup LinearFromPM(latest, source)
     ELSE (latest \cap {"FETCH"})
            \cup (IF linearActs THEN SharedFromLinear(latest) ELSE SharedFromPM(latest, "TYPE5"))

CopiesKept == current' = CopiesAfter({}, {}, FALSE)

LinearShares == current' = CopiesAfter({"FETCH"}, {}, TRUE)

(***************************************************************************)
(* Enabled state 3: the masked pins are sampled, and a PM-data access that *)
(* HALT catches remembers that its successor must be fetched.              *)
(***************************************************************************)
SamplePins(brLow, haltLow) ==
  LET seen == EffectiveHaltLow(haltLow, brLow)
  IN  /\ AdvanceFrom(3)
      /\ busMode' = BusModeAfterSample(EffectiveBrLow(haltLow, brLow))
      /\ haltMode' = HaltModeAfterSample(seen, PMDataCycle)
      /\ clients' = ClientsAfterForce(seen)
      /\ CopiesKept
      /\ UNCHANGED <<transaction, program, condition, fetchVars, cacheVars>>

(***************************************************************************)
(* Enabled state 7: the transaction on the bus completes.                  *)
(***************************************************************************)

\* Transaction of owner o completes at this edge (completion_event_o).
Completes(o) == InterfaceActive /\ transaction.owner = o

EndTransaction ==
  /\ AdvanceFrom(7)
  /\ haltMode' = HaltModeAfterComplete
  /\ UNCHANGED <<busMode, transaction, program>>

\* What PMD carries for an instruction read.
FetchedWords == {transaction.address, Unknown}

\* cache_fill_o: every completed instruction read enters the cache.
FillCache(word) == Cache!Fill(transaction.address, word)

\* An ALU, MAC or status action leaves flags this model does not compute.
AnyCondition == condition' \in BOOLEAN

CompleteFetch(word, level) ==
  /\ Completes("FETCH") /\ fetchPending /\ ~Vectoring
  /\ EndTransaction
  /\ RetireInto(word, level)
  /\ FillCache(word)
  /\ \/ LinearShares /\ IF Decodes({"SEQUENTIAL"}) THEN AnyCondition ELSE UNCHANGED condition
     \/ Decodes({"SEQUENTIAL"}) /\ CopiesKept /\ UNCHANGED condition   \* NOP
  /\ UNCHANGED clients

CompleteVectorFetch(word) ==
  /\ Completes("FETCH") /\ fetchPending /\ Vectoring
  /\ EndTransaction
  /\ EnterVector(word)
  /\ FillCache(word)
  /\ CopiesKept
  /\ UNCHANGED <<condition, clients>>

\* The data action is performed; with the next word cached it also retires.
CompleteData(o, level) ==
  /\ Completes(o) /\ clients[o].state = "DATA"
  /\ EndTransaction
  /\ clients' = [clients EXCEPT ![o] = ClientAfterData(o)]
  /\ IF NeedsRecovery(o) THEN UNCHANGED fetchVars ELSE RetireInto(clients[o].cached, level)
  /\ AnyCondition
  /\ current' = CopiesAfter({o}, {o}, FALSE)
  /\ UNCHANGED cacheVars

CompleteRecovery(o, word, level) ==
  /\ Completes(o) /\ clients[o].state = "RECOVERY"
  /\ EndTransaction
  /\ clients' = [clients EXCEPT ![o] = IdleClient]
  /\ RetireInto(word, level)
  /\ FillCache(word)
  /\ current' = CopiesAfter({}, {}, TRUE)
  /\ UNCHANGED condition

CompleteNothing ==
  /\ ~InterfaceActive
  /\ EndTransaction
  /\ CopiesKept
  /\ UNCHANGED <<clients, condition, fetchVars, cacheVars>>

CompleteCycle ==
  \/ CompleteNothing
  \/ \E level \in Levels \cup {NoVector} :
       \/ \E o \in PMDataOwners : CompleteData(o, level)
       \/ /\ InterfaceActive
          /\ \E word \in FetchedWords :
               \/ CompleteFetch(word, level)
               \/ \E o \in PMDataOwners : CompleteRecovery(o, word, level)
  \/ /\ InterfaceActive
     /\ \E word \in FetchedWords : CompleteVectorFetch(word)

(***************************************************************************)
(* Enabled state 8 that HALT does not hold: the slot of the next cycle is  *)
(* given to the one client that presents a request.                        *)
(***************************************************************************)

\* issue_boundary_o.
OpenBoundary == ~IssueInhibited /\ ~NormalGranted

\* type5_execute, type13_execute: the instruction in the register starts.  MSTAT
\* is known (mstat_client_conflict never rises).
Executes(o) ==
  /\ Decodes({o})
  /\ SequentialAllowed
  /\ \A other \in PMDataOwners : ~Held(other)

\* The owners that present a request at an open boundary.
Presenting ==
  {o \in PMDataOwners : Held(o) \/ Executes(o)}
    \cup (IF FetchPresented THEN {"FETCH"} ELSE {})

FetchRequest ==
  [owner |-> "FETCH", address |-> FetchAddress, dataAccess |-> FALSE,
   write |-> FALSE, data |-> Unknown]

EndCycle(asking, request) ==
  /\ \E brLow, haltLow, dmack \in BOOLEAN :
       ~HoldsPhase(EffectiveHaltLow(haltLow, brLow), dmack)
  /\ AdvanceFrom(8)
  /\ busMode' = BusModeAfterIssue
  /\ haltMode' = HaltModeAfterIssue
  /\ transaction' = TransactionAfterIssue(asking, request, IssueInhibited)
  /\ UNCHANGED <<program, cacheVars>>

\* The setup ports offered at a boundary: those of one client, those that both
\* have, or none.  A client that holds a transaction refuses.
SetupPorts == PMDataOwners \cup {"BOTH", "NONE"}

\* `entered`: the fetch client takes up an interrupt at this boundary, in which
\* its own status changes.
SetUp(port, entered) ==
  LET client == CASE port = "NONE" -> {} [] port = "BOTH" -> {"TYPE5"} [] OTHER -> {port}
      fetching == IF entered THEN {"FETCH"} ELSE {}
  IN /\ entered /\ ~SetupWrites => port = "NONE"
     /\ current' = CopiesAfter({o \in client : ~Held(o)} \cup fetching, client, entered)

\* shared_setup_accept, for the one setup write that flow can see.
SetupMay(port) ==
  IF SetupWrites /\ port = "BOTH" THEN AnyCondition ELSE UNCHANGED condition

IssueFetch(port) ==
  /\ OpenBoundary /\ FetchPresented
  /\ EndCycle(Presenting, FetchRequest)
  /\ fetchPending' = (Presenting = {"FETCH"})
  /\ SetUp(port, Vectoring /\ Presenting = {"FETCH"})
  /\ SetupMay(port)
  /\ UNCHANGED <<clients, pc, opcode, vectoring>>

\* Mutant: the next fetch address is taken from pc itself.
NextFetchAddressSame == pc

\* type5_next_fetch_address under automatic flow.
NextFetchAddress == SequentialPc

\* A setup of the client that would execute postpones it.
IssueData(o, address, write, port) ==
  LET request == [owner |-> o, address |-> address, dataAccess |-> TRUE,
                  write |-> write, data |-> Unknown]
  IN  /\ OpenBoundary /\ Executes(o)
      /\ EndCycle(Presenting, request)
      /\ clients' = [clients EXCEPT ![o] =
           Captured(request, NextFetchAddress, Cache!Lookup(NextFetchAddress))]
      /\ port \notin {o, "BOTH"}
      /\ SetUp(port, FALSE)
      /\ UNCHANGED <<condition, fetchVars>>

PresentHeld(o, port) ==
  /\ OpenBoundary /\ Held(o)
  /\ EndCycle(Presenting, HeldRequest(o))
  /\ SetUp(port, FALSE)
  /\ UNCHANGED <<clients, condition, fetchVars>>

\* Nothing to present, or a setup write that postpones a PM-data instruction.
IdleBoundary(port) ==
  /\ OpenBoundary
  /\ Presenting = {} \/ \E o \in PMDataOwners : Executes(o) /\ port \in {o, "BOTH"}
  /\ EndCycle({}, FetchRequest)
  /\ SetUp(port, FALSE)
  /\ SetupMay(port)
  /\ UNCHANGED <<clients, fetchVars>>

Preload(address) ==
  /\ OpenBoundary
  /\ EndCycle({}, FetchRequest)
  /\ PreloadAt(address)
  /\ CopiesKept
  /\ UNCHANGED <<clients, condition>>

\* The issue gate is closed, or an external master has the bus.
ClosedBoundary ==
  /\ ~OpenBoundary
  /\ EndCycle({}, FetchRequest)
  /\ CopiesKept
  /\ UNCHANGED <<clients, condition, fetchVars>>

IssueCycle ==
  \/ \E port \in SetupPorts :
       \/ IssueFetch(port)
       \/ \E o \in PMDataOwners :
            \/ \E address \in DataAddresses, write \in BOOLEAN : IssueData(o, address, write, port)
            \/ PresentHeld(o, port)
       \/ IdleBoundary(port)
  \/ \E address \in Addresses : Preload(address)
  \/ ClosedBoundary

PassPhase ==
  /\ \E p \in Phases \ {3, 7, 8} : AdvanceFrom(p)
  /\ CopiesKept
  /\ UNCHANGED <<busMode, haltMode, transaction, clients, program, condition,
                 fetchVars, cacheVars>>

Reset ==
  /\ AssertReset
  /\ busMode' = "IDLE"
  /\ haltMode' = "RUNNING"
  /\ transaction' = NoTransaction
  /\ clients' = [o \in PMDataOwners |-> IdleClient]
  /\ ResetFetch
  /\ Cache!Clear
  /\ AnyCondition
  /\ current' = Copies
  /\ UNCHANGED program

LeaveReset ==
  /\ ReleaseReset
  /\ CopiesKept
  /\ UNCHANGED <<busMode, haltMode, transaction, clients, program, condition,
                 fetchVars, cacheVars>>

ClockEdge ==
  \/ \E brLow, haltLow \in BOOLEAN : SamplePins(brLow, haltLow)
  \/ CompleteCycle
  \/ IssueCycle
  \/ PassPhase

Next == ClockEdge \/ Reset \/ LeaveReset

Spec == Init /\ [][Next]_vars

\* phase_advance_i recurs.
FairSpec == Spec /\ WF_vars(ClockEdge)

(***************************************************************************)
(* Properties.                                                             *)
(***************************************************************************)

\* The instruction register holds the word at pc: the address put on PMA at
\* state 8, the address the cache was asked for, the word captured from it and
\* the pc computed again at state 7 never disagree.
OpcodeMatchesPc == opcode \in {pc, Unknown}

\* At most one client presents a request at an open boundary
\* (request_conflict_o never rises), so the owner selector never drops one.
OneRequester == phase = 8 /\ OpenBoundary => Cardinality(Presenting) <= 1

\* The clients work on one machine: whichever executes next has the registers
\* as the last instruction, interrupt entry or setup left them, and they never
\* ask for the bus together.
OneMachine == OneRequester /\ current = Copies

\* While HALT holds the machine, PMA shows the address of the next instruction,
\* never a data address: what halt_pm_data_cycle and the forced fetch are for.
StoppedShowsNextFetch ==
  haltMode = "STOPPED" /\ Active => ~transaction.dataAccess /\ transaction.address = pc

\* The boundary that HALT forces open finds the recovery fetch of the
\* interrupted access presented, alone (halt_attachment_conflict_o never rises).
ForcedFetchIsRecovery ==
  haltMode = "FORCE_FETCH" /\ phase = 8
    => \E o \in PMDataOwners : clients[o].state = "RECOVERY" /\ Presenting = {o}

\* HALT in the middle of a PM-data instruction gets the one fetch it needs, and
\* leaves that fetch's address on PMA.
StopFindsSuccessor == StoppedShowsNextFetch /\ ForcedFetchIsRecovery

Stream ==
  INSTANCE InstructionStream WITH
    ready <- opcode # Unknown,
    vector <- vectoring,
    done <- \E o \in PMDataOwners : clients[o].state = "RECOVERY",
    held <- resetActive

\* The machine runs its program: whatever HALT, BR, interrupts, cache hits and
\* misses do to the bus, instructions retire in the sequencer's order and each
\* PM-data action is performed exactly once.
StreamSpec == Stream!Spec

\* A PM-data instruction once issued finishes, its recovery fetch included,
\* when HALT and BR leave the machine alone for good.
HeldWorkFinishes ==
  <>[](haltMode = "RUNNING" /\ busMode = "IDLE" /\ ~resetActive)
    => []<>(\A o \in PMDataOwners : ~Held(o))

=============================================================================
