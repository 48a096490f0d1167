-------------------------- MODULE ProgramClientsProofs --------------------------
(***************************************************************************)
(* Proofs about ProgramClients, for every program, address space, cache    *)
(* size and number of interrupt levels, with the setup ports quiet while   *)
(* flow depends on them.  The inductive invariant says to whom the         *)
(* transaction on the bus belongs and what its owner still has to do.      *)
(***************************************************************************)
EXTENDS ProgramClients, PinProofs, FiniteSetTheorems

\* What is proved of the cache on its own.
CacheProofs == INSTANCE InstructionCacheProofs

-----------------------------------------------------------------------------
(* The inductive invariant. *)

\* The cache answers an address with the word of that address.
CacheIsFaithful == \A a \in Addresses : Cache!Lookup(a) \in {a, Unknown}

\* A client holds a transaction for the instruction in the register, which is
\* its own, and has captured the address and the word of that one's successor.
HeldWork ==
  \A o \in PMDataOwners : Held(o) =>
    /\ Decodes({o})
    /\ SequentialAllowed
    /\ clients[o].next = SequentialPc
    /\ clients[o].cached \in {SequentialPc, Unknown}
    /\ clients[o].state = "DATA" =>
         /\ clients[o].request \in ClientRequests
         /\ clients[o].request.owner = o
         /\ clients[o].request.dataAccess

\* From its issue to its completion the transaction is what its owner presents.
OnBus ==
  Active /\ phase \in 1..7 =>
    \/ fetchPending
    \/ \E o \in PMDataOwners : Held(o) /\ transaction = HeldRequest(o)

\* A pending fetch is on the bus, at the address that flow still asks for.
FetchOnBus ==
  fetchPending =>
    /\ phase \in 1..7
    /\ transaction = FetchRequest
    /\ Vectoring \/ Decodes({"SEQUENTIAL", "JUMP"})

\* RESET holds phase 4 with nothing on the bus and nothing pending.
ResetHolds ==
  resetActive =>
    /\ phase = 4 /\ busMode = "IDLE" /\ haltMode = "RUNNING"
    /\ transaction = NoTransaction /\ ~fetchPending
    /\ \A o \in PMDataOwners : ~Held(o)

\* HALT stops on an instruction read; one it meets in a data access waits for
\* the recovery fetch, which the completed access leaves behind.
StopOnFetch ==
  haltMode = "STOP_PENDING" => phase \in 1..7 /\ (Active => ~transaction.dataAccess)

ForceAfterData ==
  haltMode = "FORCE_FETCH" =>
    /\ phase \in 4..8
    /\ phase # 8 => Active /\ transaction.dataAccess
    /\ phase = 8 => \E o \in PMDataOwners : clients[o].state = "RECOVERY"

StoppedOnFetch ==
  haltMode = "STOPPED" =>
    phase = 8 /\ (Active => ~transaction.dataAccess /\ transaction.address = pc)

HaltInv == StopOnFetch /\ ForceAfterData /\ StoppedOnFetch /\ OneControllerActive

FlowInv == OpcodeMatchesPc /\ HeldWork /\ OnBus /\ FetchOnBus

Inv ==
  /\ ~SetupWrites
  /\ TypeOK
  /\ BusInv
  /\ CacheIsFaithful
  /\ FlowInv
  /\ ResetHolds
  /\ HaltInv
  /\ current = Copies

-----------------------------------------------------------------------------
(* The state functions. *)

\* Flow asks for addresses of the address space.
LEMMA AddressesAsked ==
  ASSUME TypeOKFetch, OpcodeMatchesPc
  PROVE  /\ SequentialPc \in Addresses
         /\ NextPc \in Addresses
         /\ FetchAddress \in Addresses
<1>1. pc \in 0 .. AddressSpace - 1 /\ AddressSpace \in Nat \ {0}
  BY LinearFetchConstants DEF TypeOKFetch
<1>2. SequentialPc \in Addresses
  BY <1>1, LinearFetchConstants DEF SequentialPc
<1>3. opcode # Unknown => program[opcode].target \in Addresses
  BY DEF TypeOKFetch, OpcodeMatchesPc, Instructions
<1>4. NextPc \in Addresses
  BY <1>2, <1>3 DEF NextPc, Decodes
<1> QED
  BY <1>2, <1>4, LinearFetchConstants DEF FetchAddress, Vectoring, TypeOKFetch

\* The instruction in the register has one class.
LEMMA OneClass ==
  ASSUME NEW a, NEW b, a # b
  PROVE  ~(Decodes({a}) /\ Decodes({b}))
  BY DEF Decodes

\* At most one PM-data client holds a transaction, and then the fetch client
\* does not ask.
LEMMA OneHolds ==
  ASSUME HeldWork, NEW o \in PMDataOwners, Held(o)
  PROVE  /\ ~FetchPresented /\ ~fetchPending /\ ~Vectoring
         /\ \A other \in PMDataOwners : ~Executes(other) /\ (Held(other) => other = o)
         /\ Presenting = {o}
<1>1. Decodes({o}) /\ ~fetchPending /\ ~Vectoring
  BY DEF HeldWork, SequentialAllowed
<1>2. ~Decodes({"SEQUENTIAL", "JUMP"})
  BY <1>1 DEF Decodes, PMDataOwners
<1>3. \A other \in PMDataOwners : ~Executes(other) /\ (Held(other) => other = o)
  BY <1>1, OneClass DEF Executes, HeldWork
<1> QED
  BY <1>1, <1>2, <1>3 DEF FetchPresented, Presenting

\* The client whose instruction starts is alone.
LEMMA OneExecutes ==
  ASSUME NEW o \in PMDataOwners, Executes(o)
  PROVE  Presenting = {o} /\ ~FetchPresented
<1>1. Decodes({o}) /\ ~Vectoring /\ \A other \in PMDataOwners : ~Held(other)
  BY DEF Executes, SequentialAllowed
<1>2. ~Decodes({"SEQUENTIAL", "JUMP"})
  BY <1>1 DEF Decodes, PMDataOwners
<1> QED
  BY <1>1, <1>2, OneClass DEF FetchPresented, Presenting, Executes

\* Of fetch, data access, recovery and repetition one at most is presented.
LEMMA OnePresents ==
  ASSUME HeldWork
  PROVE  \/ Presenting = {}
         \/ Presenting = {"FETCH"} /\ FetchPresented
         \/ \E o \in PMDataOwners : Presenting = {o} /\ ~FetchPresented
<1>1. CASE \E o \in PMDataOwners : Held(o) \/ Executes(o)
  BY <1>1, OneHolds, OneExecutes
<1>2. CASE \A o \in PMDataOwners : ~Held(o) /\ ~Executes(o)
  BY <1>2 DEF Presenting
<1> QED
  BY <1>1, <1>2

\* A copy that is current hands its registers to the others.
LEMMA CopiesFollow ==
  ASSUME current = Copies, ~SetupWrites
  PROVE  /\ CopiesAfter({}, {}, FALSE) = Copies
         /\ CopiesAfter({}, {}, TRUE) = Copies
         /\ CopiesAfter({"FETCH"}, {}, TRUE) = Copies
         /\ \A o \in PMDataOwners :
              /\ CopiesAfter({o}, {o}, FALSE) = Copies
              /\ CopiesAfter({}, {o}, FALSE) = Copies
         /\ \A port \in SetupPorts, entered \in BOOLEAN :
              SetUp(port, entered) => current' = Copies
<1>1. /\ CopiesAfter({}, {}, FALSE) = Copies
      /\ CopiesAfter({}, {}, TRUE) = Copies
      /\ CopiesAfter({"FETCH"}, {}, TRUE) = Copies
  BY DEF CopiesAfter, Copies, PMDataOwners, SharedFromPM, SharedFromLinear
<1>2. ASSUME NEW o \in PMDataOwners
      PROVE  /\ CopiesAfter({o}, {o}, FALSE) = Copies
             /\ CopiesAfter({}, {o}, FALSE) = Copies
  <2>1. Source({o}) = o
    BY DEF Source, PMDataOwners
  <2> QED
    BY <2>1 DEF CopiesAfter, Copies, PMDataOwners, SharedFromPM, LinearFromPM
<1>3. ASSUME NEW port \in SetupPorts, NEW entered \in BOOLEAN, SetUp(port, entered)
      PROVE  current' = Copies
  <2> DEFINE client == CASE port = "NONE" -> {} [] port = "BOTH" -> {"TYPE5"} [] OTHER -> {port}
             written == {o \in client : ~Held(o)} \cup (IF entered THEN {"FETCH"} ELSE {})
  <2>1. current' = CopiesAfter(written, client, entered) /\ (entered => port = "NONE")
    BY <1>3 DEF SetUp
  <2>2. CASE port = "NONE"
    <3>1. client = {} /\ written = IF entered THEN {"FETCH"} ELSE {}
      BY <2>2
    <3> QED
      BY <1>1, <2>1, <3>1
  <2>3. CASE port # "NONE"
    <3>1. PICK o \in PMDataOwners : client = {o}
      BY <2>3 DEF SetupPorts, PMDataOwners
    <3>2. entered = FALSE /\ written = IF Held(o) THEN {} ELSE {o}
      BY <2>1, <2>3, <3>1
    <3> HIDE DEF client, written
    <3> QED
      BY <1>2, <2>1, <3>1, <3>2
  <2> QED
    BY <2>2, <2>3
<1> QED
  BY <1>1, <1>2, <1>3

-----------------------------------------------------------------------------
(* The cache inside the composition. *)

\* The two views of the cache are one.
LEMMA CacheViews ==
  /\ Cache!TypeOK <=> CacheProofs!TypeOK
  /\ Cache!TypeOK' <=> CacheProofs!TypeOK'
  /\ CacheProofs!CacheAddresses = Addresses
  /\ CacheProofs!Values = Values
  /\ CacheIsFaithful <=> CacheProofs!AnswersFrom([a \in Addresses |-> a])
  /\ CacheIsFaithful' <=> CacheProofs!AnswersFrom([a \in Addresses |-> a])'
<1>1. CacheProofs!CacheAddresses = Addresses /\ CacheProofs!Values = Values
  BY LinearFetchConstants DEF CacheProofs!CacheAddresses, CacheProofs!Values, Values
<1>2. Cache!CacheAddresses = Addresses /\ Cache!Values = Values
  BY LinearFetchConstants DEF Cache!CacheAddresses, Cache!Values, Values
<1>3. (Cache!TypeOK <=> CacheProofs!TypeOK) /\ (Cache!TypeOK' <=> CacheProofs!TypeOK')
  BY <1>1, <1>2 DEF Cache!TypeOK, CacheProofs!TypeOK, Cache!Slots, CacheProofs!Slots
<1>4. /\ \A a \in Addresses : Cache!Lookup(a) = CacheProofs!Lookup(a)
      /\ \A a \in Addresses : Cache!Lookup(a)' = CacheProofs!Lookup(a)'
  BY DEF Cache!Lookup, CacheProofs!Lookup, Cache!InRegion, CacheProofs!InRegion,
         Cache!SlotOf, CacheProofs!SlotOf
<1>5. /\ CacheIsFaithful <=> CacheProofs!AnswersFrom([a \in Addresses |-> a])
      /\ CacheIsFaithful' <=> CacheProofs!AnswersFrom([a \in Addresses |-> a])'
  BY <1>1, <1>4 DEF CacheIsFaithful, CacheProofs!AnswersFrom
<1> QED
  BY <1>1, <1>3, <1>5

LEMMA CacheFillViews ==
  ASSUME NEW a, NEW word
  PROVE  Cache!Fill(a, word) <=> CacheProofs!Fill(a, word)
  BY DEF Cache!Fill, Cache!Rewrite, Cache!Lengthen, Cache!ReplaceOldest, Cache!Restart,
         Cache!InRegion, Cache!AppendAddress, Cache!Place, Cache!SlotOf, Cache!NoValidSlot,
         Cache!Slots,
         CacheProofs!Fill, CacheProofs!Rewrite, CacheProofs!Lengthen,
         CacheProofs!ReplaceOldest, CacheProofs!Restart, CacheProofs!InRegion,
         CacheProofs!AppendAddress, CacheProofs!Place, CacheProofs!SlotOf,
         CacheProofs!NoValidSlot, CacheProofs!Slots

\* A fetched word, or an invalid one, keeps the cache right.
LEMMA FillKeepsCache ==
  ASSUME Cache!TypeOK, CacheIsFaithful, NEW a \in Addresses, NEW word \in {a, Unknown},
         Cache!Fill(a, word)
  PROVE  Cache!TypeOK' /\ CacheIsFaithful'
<1>1. /\ CacheWords \in Nat \ {0} /\ AddressSpace \in Nat \ {0}
      /\ AddressSpace % CacheWords = 0
      /\ Unknown \notin Words /\ Unknown \notin 0 .. AddressSpace - 1
  BY ProgramClientsConstants, LinearFetchConstants, ProgramBusConstants
<1>2. a \in CacheProofs!CacheAddresses /\ word \in CacheProofs!Values
  BY CacheViews, LinearFetchConstants DEF Values
<1>3. word \in {[b \in Addresses |-> b][a], Unknown}
  OBVIOUS
<1>4. /\ CacheProofs!TypeOK /\ CacheProofs!AnswersFrom([b \in Addresses |-> b])
      /\ CacheProofs!Fill(a, word)
  BY CacheViews, CacheFillViews
<1>5. CacheProofs!TypeOK'
  BY <1>1, <1>2, <1>4, CacheProofs!FillType
<1>6. CacheProofs!AnswersFrom([b \in Addresses |-> b])'
  BY <1>1, <1>2, <1>3, <1>4, CacheProofs!FillAnswersFrom
<1> QED
  BY <1>5, <1>6, CacheViews

\* Every address has a slot in the ring.
LEMMA SlotInRing == ASSUME NEW a \in Addresses PROVE Cache!SlotOf(a) \in Cache!Slots
<1>1. a \in Int /\ CacheWords \in Nat \ {0}
  BY LinearFetchConstants, ProgramClientsConstants
<1> QED
  BY <1>1 DEF Cache!SlotOf, Cache!Slots

\* An empty cache is right.
LEMMA EmptyCache ==
  /\ Cache!Init => Cache!TypeOK /\ CacheIsFaithful
  /\ Cache!Clear => Cache!TypeOK' /\ CacheIsFaithful'
<1>1. /\ Cache!NoValidSlot \in [Cache!Slots -> Cache!Values]
      /\ 0 \in Cache!CacheAddresses /\ 0 \in 0 .. CacheWords
  BY LinearFetchConstants, ProgramClientsConstants
     DEF Cache!NoValidSlot, Cache!Values, Cache!CacheAddresses
<1>2. \A a \in Addresses : Cache!NoValidSlot[Cache!SlotOf(a)] = Unknown
  BY SlotInRing DEF Cache!NoValidSlot
<1>3. Cache!Init => Cache!TypeOK /\ CacheIsFaithful
  BY <1>1, <1>2 DEF Cache!Init, Cache!TypeOK, CacheIsFaithful, Cache!Lookup
<1>4. Cache!Clear => Cache!TypeOK'
  BY <1>1 DEF Cache!Clear, Cache!TypeOK
<1>5. Cache!Clear => CacheIsFaithful'
  BY <1>2 DEF Cache!Clear, CacheIsFaithful, Cache!Lookup, Cache!SlotOf
<1> QED
  BY <1>3, <1>4, <1>5

-----------------------------------------------------------------------------
(* The boundary of state 8. *)

\* The slot goes to the one owner that asks while the boundary is open, and is
\* empty otherwise.
LEMMA BoundarySlot ==
  ASSUME Inv, NEW asking, NEW request \in Requests, EndCycle(asking, request)
  PROVE  /\ phase = 8 /\ phase' = 1 /\ ~resetActive /\ resetActive' = FALSE
         /\ transaction' = IF OpenBoundary /\ asking = {request.owner} THEN request
                                                                       ELSE NoTransaction
         /\ BusInv'
         /\ haltMode' = IF haltMode = "FORCE_FETCH" THEN "STOP_PENDING" ELSE "RUNNING"
         /\ UNCHANGED <<program, cacheVars>>
<1>1. AdvanceFrom(8) /\ phase = 8 /\ phase' = 1 /\ ~resetActive /\ resetActive' = FALSE
  BY AdvanceStep DEF EndCycle, Phases
<1>2. /\ busMode' = BusModeAfterIssue
      /\ transaction' = TransactionAfterIssue(asking, request, IssueInhibited)
      /\ haltMode' = HaltModeAfterIssue
      /\ UNCHANGED <<program, cacheVars>>
  BY DEF EndCycle
<1>3. NormalGranted => transaction = NoTransaction
  BY BusInvGrantSafe DEF Inv, Active
<1>4. IssueInhibited \in BOOLEAN /\ (BusInhibitsIssue => IssueInhibited)
  BY DEF IssueInhibited
<1>5. BusInv'
  BY <1>1, <1>2, <1>4, IssueKeepsBusInv DEF Inv
<1>6. transaction' = IF OpenBoundary /\ asking = {request.owner} THEN request ELSE NoTransaction
  BY <1>2, <1>3 DEF TransactionAfterIssue, OpenBoundary
<1>7. haltMode' = IF haltMode = "FORCE_FETCH" THEN "STOP_PENDING" ELSE "RUNNING"
  BY <1>1, <1>2 DEF HaltModeAfterIssue, Inv, HaltInv, StopOnFetch, TypeOK, HaltModes
<1> QED
  BY <1>1, <1>2, <1>5, <1>6, <1>7

-----------------------------------------------------------------------------
(* Steps that leave the instruction and its transaction alone. *)

LEMMA PhaseType ==
  ASSUME phase' \in 1..8, resetActive' = FALSE
  PROVE  TypeOKPhase'
<1>1. resetActive' \in BOOLEAN
  OBVIOUS
<1> QED
  BY <1>1 DEF TypeOKPhase, Phases

LEMMA CacheKept ==
  ASSUME Cache!TypeOK, CacheIsFaithful, UNCHANGED cacheVars
  PROVE  Cache!TypeOK' /\ CacheIsFaithful'
<1>1. slots' = slots /\ regionStart' = regionStart /\ regionCount' = regionCount
  BY DEF cacheVars
<1>2. Cache!TypeOK'
  BY <1>1 DEF Cache!TypeOK
<1>3. CacheIsFaithful'
  BY <1>1 DEF CacheIsFaithful, Cache!Lookup, Cache!InRegion, Cache!SlotOf
<1> QED
  BY <1>2, <1>3

\* What the clients hold stays what it is, the forced fetch they remember aside.
ClientsAgree ==
  \A o \in PMDataOwners :
    /\ clients'[o].state = clients[o].state
    /\ clients'[o].request = clients[o].request
    /\ clients'[o].next = clients[o].next
    /\ clients'[o].cached = clients[o].cached

LEMMA ProgramKept ==
  ASSUME UNCHANGED <<program, condition, pc, opcode, vectoring>>
  PROVE  /\ \A classes : Decodes(classes)' <=> Decodes(classes)
         /\ SequentialPc' = SequentialPc /\ FetchAddress' = FetchAddress
         /\ Vectoring' <=> Vectoring
         /\ FetchRequest' = FetchRequest
         /\ OpcodeMatchesPc' <=> OpcodeMatchesPc
<1>1. /\ \A classes : Decodes(classes)' <=> Decodes(classes)
      /\ SequentialPc' = SequentialPc
      /\ Vectoring' <=> Vectoring
      /\ OpcodeMatchesPc' <=> OpcodeMatchesPc
  BY DEF Decodes, SequentialPc, Vectoring, OpcodeMatchesPc
<1>2. FetchAddress' = FetchAddress
  BY DEF FetchAddress, NextPc, Decodes, SequentialPc, Vectoring
<1> QED
  BY <1>1, <1>2 DEF FetchRequest

LEMMA FetchKept ==
  ASSUME UNCHANGED <<program, condition, fetchVars>>
  PROVE  /\ UNCHANGED <<program, condition, pc, opcode, vectoring>>
         /\ SequentialAllowed' <=> SequentialAllowed
         /\ fetchPending' = fetchPending
         /\ TypeOKFetch' <=> TypeOKFetch
  BY DEF fetchVars, SequentialAllowed, Vectoring, TypeOKFetch

\* Work in progress is not disturbed by a step of the ring below state 8.
LEMMA FlowKept ==
  ASSUME FlowInv, UNCHANGED <<program, condition, fetchVars, transaction>>, ClientsAgree,
         phase \in 1..7, phase' \in 1..7
  PROVE  FlowInv'
<1>1. \A o \in PMDataOwners : (Held(o)' <=> Held(o)) /\ HeldRequest(o)' = HeldRequest(o)
  BY DEF ClientsAgree, Held, HeldRequest
<1>2. transaction' = transaction /\ (Active' <=> Active) /\ fetchPending' = fetchPending
  BY DEF Active, fetchVars
<1>3. HeldWork'
  BY <1>1, ProgramKept, FetchKept DEF FlowInv, HeldWork, ClientsAgree
<1>4. OnBus'
  BY <1>1, <1>2 DEF FlowInv, OnBus
<1>5. FetchOnBus'
  BY <1>2, ProgramKept, FetchKept DEF FlowInv, FetchOnBus
<1> QED
  BY <1>3, <1>4, <1>5, ProgramKept, FetchKept DEF FlowInv

\* In a data access the PM-data client that owns it is waiting for it.
LEMMA DataHasOwner ==
  ASSUME Inv, Active, phase \in 1..7, transaction.dataAccess
  PROVE  \E o \in PMDataOwners :
           clients[o].state = "DATA" /\ transaction = clients[o].request /\ transaction.owner = o
<1>1. ~fetchPending
  BY DEF Inv, FlowInv, FetchOnBus, FetchRequest
<1>2. PICK o \in PMDataOwners : Held(o) /\ transaction = HeldRequest(o)
  BY <1>1 DEF Inv, FlowInv, OnBus
<1>3. clients[o].state = "DATA" /\ transaction = clients[o].request
  BY <1>2 DEF HeldRequest
<1> QED
  BY <1>2, <1>3 DEF Inv, FlowInv, HeldWork

\* A forced fetch changes nothing of a client but that it remembers it.
LEMMA ForceKeepsClients ==
  ASSUME clients \in [PMDataOwners -> Clients], NEW halt \in BOOLEAN,
         clients' = ClientsAfterForce(halt)
  PROVE  clients' \in [PMDataOwners -> Clients] /\ ClientsAgree
<1>1. \A c \in Clients : [c EXCEPT !.needsRecovery = TRUE] \in Clients
  BY DEF Clients
<1> QED
  BY <1>1 DEF ClientsAfterForce, ClientsAgree, Clients

LEMMA SampleStep ==
  ASSUME Inv, NEW br \in BOOLEAN, NEW halt \in BOOLEAN, SamplePins(br, halt)
  PROVE  Inv'
<1> DEFINE seen == EffectiveHaltLow(halt, br)
           brSeen == EffectiveBrLow(halt, br)
<1>1. /\ phase = 3 /\ phase' = 4 /\ ~resetActive /\ resetActive' = FALSE
      /\ busMode' = BusModeAfterSample(brSeen)
      /\ haltMode' = HaltModeAfterSample(seen, PMDataCycle)
      /\ clients' = ClientsAfterForce(seen)
      /\ CopiesKept
      /\ UNCHANGED <<transaction, program, condition, fetchVars, cacheVars>>
  BY AdvanceStep DEF SamplePins, Phases
<1>2. seen \in BOOLEAN /\ brSeen \in BOOLEAN
  BY DEF EffectiveHaltLow, EffectiveBrLow
<1> HIDE DEF seen, brSeen
<1>3. BusInv'
  BY <1>1, <1>2, SampleKeepsBusInv DEF Inv
<1>4. clients' \in [PMDataOwners -> Clients] /\ ClientsAgree
  BY <1>1, <1>2, ForceKeepsClients DEF Inv, TypeOK
<1>5. FlowInv'
  BY <1>1, <1>4, FlowKept DEF Inv
<1>6. Cache!TypeOK' /\ CacheIsFaithful' /\ current' = Copies
  BY <1>1, CacheKept, CopiesFollow DEF Inv, TypeOK, CopiesKept
<1>7. OneControllerActive'
  BY <1>1 DEF seen, brSeen, Inv, HaltInv, OneControllerActive, HaltModeAfterSample,
              HaltRecognized, EffectiveHaltLow, EffectiveBrLow, BusModeAfterSample
<1>8. haltMode' \in HaltModes /\ StopOnFetch' /\ ForceAfterData' /\ StoppedOnFetch'
  <2>1. Active => InterfaceActive
    BY <1>1, BusInvGrantSafe DEF Inv, InterfaceActive
  <2>2. haltMode \in {"RUNNING", "STOP_PENDING"}
    BY <1>1 DEF Inv, TypeOK, HaltModes, HaltInv, ForceAfterData, StoppedOnFetch
  <2>3. Active' <=> Active
    BY <1>1 DEF Active
  <2> QED
    BY <1>1, <2>1, <2>2, <2>3
       DEF Inv, HaltInv, HaltModes, StopOnFetch, ForceAfterData, StoppedOnFetch,
           HaltModeAfterSample, HaltRecognized, PMDataCycle, InterfaceActive
<1>9. TypeOK'
  <2>1. TypeOKPhase'
    <3>1. phase' \in 1..8 /\ resetActive' = FALSE
      BY <1>1
    <3> QED
      BY <3>1, PhaseType
  <2>3. busMode' \in BusModes /\ TypeOKTransaction'
    BY <1>3 DEF BusInv
  <2>2. TypeOKFetch'
    BY <1>1, FetchKept DEF Inv, TypeOK
  <2> QED
    BY <1>4, <1>6, <1>8, <2>1, <2>2, <2>3 DEF TypeOK
<1>10. ResetHolds'
  BY <1>1 DEF ResetHolds
<1> QED
  BY <1>3, <1>5, <1>6, <1>7, <1>8, <1>9, <1>10 DEF Inv, HaltInv

LEMMA PassStep ==
  ASSUME Inv, PassPhase \/ LeaveReset
  PROVE  Inv'
<1>1. /\ phase \in 1..7 /\ phase' \in 1..7 /\ resetActive' = FALSE
      /\ phase # 3 /\ phase # 8 /\ phase' = phase + 1 /\ phase # 7
  <2>1. CASE PassPhase
    <3>1. PICK p \in Phases \ {3, 7, 8} : AdvanceFrom(p)
      BY <2>1 DEF PassPhase
    <3> QED
      BY <3>1, AdvanceStep DEF Phases
  <2>2. CASE LeaveReset
    BY <2>2 DEF LeaveReset, ReleaseReset, ReleasePhaseState, Inv, ResetHolds
  <2> QED
    BY <2>1, <2>2
<1>2. /\ CopiesKept
      /\ UNCHANGED <<busMode, haltMode, transaction, clients, program, condition,
                     fetchVars, cacheVars>>
  BY DEF PassPhase, LeaveReset
<1>3. (Active' <=> Active) /\ ClientsAgree
  BY <1>2 DEF Active, ClientsAgree
<1>4. BusInv'
  BY <1>1, <1>2, <1>3
     DEF Inv, BusInv, TypeOKTransaction, AwayIsIdle, RequestedIsIdle, ReacquireWindow
<1>5. FlowInv'
  BY <1>1, <1>2, <1>3, FlowKept DEF Inv
<1>6. Cache!TypeOK' /\ CacheIsFaithful' /\ current' = Copies
  BY <1>2, CacheKept, CopiesFollow DEF Inv, TypeOK, CopiesKept
<1>7. HaltInv'
  BY <1>1, <1>2, <1>3
     DEF Inv, HaltInv, StopOnFetch, ForceAfterData, StoppedOnFetch, OneControllerActive
<1>8. TypeOK'
  <2>1. TypeOKPhase'
    <3>1. phase' \in 1..8 /\ resetActive' = FALSE
      BY <1>1
    <3> QED
      BY <3>1, PhaseType
  <2>3. busMode' \in BusModes /\ TypeOKTransaction'
    BY <1>4 DEF BusInv
  <2>2. TypeOKFetch' /\ haltMode' \in HaltModes /\ clients' \in [PMDataOwners -> Clients]
    BY <1>2, FetchKept DEF Inv, TypeOK
  <2> QED
    BY <1>6, <2>1, <2>2, <2>3 DEF TypeOK
<1>9. ResetHolds'
  BY <1>1 DEF ResetHolds
<1> QED
  BY <1>4, <1>5, <1>6, <1>7, <1>8, <1>9 DEF Inv

LEMMA ResetStep == ASSUME Inv, Reset PROVE Inv'
<1>1. /\ phase' = 4 /\ resetActive' = TRUE /\ busMode' = "IDLE" /\ haltMode' = "RUNNING"
      /\ transaction' = NoTransaction
      /\ clients' = [o \in PMDataOwners |-> IdleClient]
      /\ pc' = ResetVector /\ opcode' = Unknown /\ fetchPending' = FALSE
      /\ vectoring' = NoVector
      /\ Cache!Clear /\ condition' \in BOOLEAN /\ current' = Copies /\ program' = program
  BY DEF Reset, AssertReset, ResetPhaseState, ResetFetch, AnyCondition
<1>2. clients' \in [PMDataOwners -> Clients] /\ \A o \in PMDataOwners : ~Held(o)'
  BY <1>1 DEF IdleClient, Clients, MaybeAddress, Values, Held
<1>3. BusInv'
  BY <1>1 DEF BusInv, BusModes, TypeOKTransaction, AwayIsIdle, AwayModes, RequestedIsIdle,
              ReacquireWindow
<1>4. FlowInv'
  BY <1>1, <1>2 DEF FlowInv, OpcodeMatchesPc, HeldWork, OnBus, FetchOnBus, Active
<1>5. Cache!TypeOK' /\ CacheIsFaithful'
  BY <1>1, EmptyCache
<1>6. TypeOK'
  <2>1. TypeOKPhase' /\ busMode' \in BusModes /\ haltMode' \in HaltModes /\ TypeOKTransaction'
    BY <1>1 DEF TypeOKPhase, Phases, BusModes, HaltModes, TypeOKTransaction
  <2>2. TypeOKFetch'
    BY <1>1, LinearFetchConstants DEF Inv, TypeOK, TypeOKFetch, Values
  <2> QED
    BY <1>1, <1>2, <1>5, <2>1, <2>2 DEF TypeOK
<1>7. ResetHolds' /\ HaltInv'
  BY <1>1, <1>2
     DEF ResetHolds, HaltInv, StopOnFetch, ForceAfterData, StoppedOnFetch, OneControllerActive
<1> QED
  BY <1>1, <1>3, <1>4, <1>5, <1>6, <1>7 DEF Inv

LEMMA InitInv == Init /\ ~SetupWrites => Inv
<1> SUFFICES ASSUME Init, ~SetupWrites PROVE Inv
  OBVIOUS
<1>1. clients \in [PMDataOwners -> Clients] /\ \A o \in PMDataOwners : ~Held(o)
  BY DEF Init, IdleClient, Clients, MaybeAddress, Values, Held
<1>2. BusInv
  BY ClearedBusInv DEF Init
<1>3. FlowInv
  BY <1>1 DEF Init, FlowInv, OpcodeMatchesPc, HeldWork, OnBus, FetchOnBus, Active
<1>4. Cache!TypeOK /\ CacheIsFaithful
  BY EmptyCache DEF Init
<1>5. TypeOK
  <2>1. TypeOKPhase /\ busMode \in BusModes /\ haltMode \in HaltModes /\ TypeOKTransaction
    BY DEF Init, InitPhase, ResetPhaseState, TypeOKPhase, Phases, BusModes, HaltModes,
           TypeOKTransaction
  <2>2. TypeOKFetch
    BY LinearFetchConstants, ProgramClientsConstants DEF Init, TypeOKFetch, Values
  <2> QED
    BY <1>1, <1>4, <2>1, <2>2 DEF Init, TypeOK
<1>6. ResetHolds /\ HaltInv
  BY <1>1
     DEF Init, InitPhase, ResetPhaseState, ResetHolds, HaltInv, StopOnFetch, ForceAfterData,
         StoppedOnFetch, OneControllerActive
<1> QED
  BY <1>2, <1>3, <1>4, <1>5, <1>6 DEF Inv, Init

-----------------------------------------------------------------------------
(* State 7: the transaction completes. *)

\* What every completion does to the phase, the bus and HALT.
LEMMA CompleteEnds ==
  ASSUME Inv, EndTransaction
  PROVE  /\ phase = 7 /\ phase' = 8 /\ ~resetActive /\ resetActive' = FALSE
         /\ UNCHANGED <<resetActive, busMode, transaction, program>>
         /\ BusInv'
         /\ haltMode \in {"RUNNING", "STOP_PENDING", "FORCE_FETCH"}
         /\ haltMode' = IF haltMode = "STOP_PENDING" THEN "STOPPED" ELSE haltMode
         /\ Active <=> InterfaceActive
<1>1. AdvanceFrom(7) /\ phase = 7 /\ phase' = 8 /\ ~resetActive /\ resetActive' = FALSE
  BY AdvanceStep DEF EndTransaction, Phases
<1>2. UNCHANGED <<resetActive, busMode, transaction, program>> /\ haltMode' = HaltModeAfterComplete
  BY DEF EndTransaction, AdvanceFrom
<1>3. BusInv'
  BY <1>1, <1>2, PassKeepsBusInv DEF Inv, Phases
<1>4. haltMode \in {"RUNNING", "STOP_PENDING", "FORCE_FETCH"}
  BY <1>1 DEF Inv, TypeOK, HaltModes, HaltInv, StoppedOnFetch
<1>5. Active <=> InterfaceActive
  BY <1>1, BusInvGrantSafe DEF Inv, InterfaceActive
<1> QED
  BY <1>1, <1>2, <1>3, <1>4, <1>5 DEF HaltModeAfterComplete

\* What a completion has to see to, each kind in its own way.
LEMMA CompleteKeeps ==
  ASSUME Inv, EndTransaction,
         clients' \in [PMDataOwners -> Clients],
         TypeOKFetch', OpcodeMatchesPc', HeldWork', fetchPending' = FALSE,
         Cache!TypeOK', CacheIsFaithful', current' = Copies,
         haltMode = "FORCE_FETCH" => \E o \in PMDataOwners : clients'[o].state = "RECOVERY",
         haltMode = "STOP_PENDING" /\ Active => transaction.address = pc'
  PROVE  Inv'
<1>1. /\ phase = 7 /\ phase' = 8 /\ resetActive' = FALSE
      /\ UNCHANGED <<busMode, transaction, program>>
      /\ BusInv'
      /\ haltMode \in {"RUNNING", "STOP_PENDING", "FORCE_FETCH"}
      /\ haltMode' = IF haltMode = "STOP_PENDING" THEN "STOPPED" ELSE haltMode
  BY CompleteEnds
<1>2. FlowInv'
  BY <1>1 DEF FlowInv, OnBus, FetchOnBus
<1>3. HaltInv'
  BY <1>1
     DEF Inv, HaltInv, StopOnFetch, ForceAfterData, StoppedOnFetch, OneControllerActive, Active
<1>4. TypeOK'
  <2>1. TypeOKPhase'
    <3>1. phase' \in 1..8 /\ resetActive' = FALSE
      BY <1>1
    <3> QED
      BY <3>1, PhaseType
  <2>2. busMode' \in BusModes /\ TypeOKTransaction' /\ haltMode' \in HaltModes
    BY <1>1 DEF BusInv, HaltModes
  <2> QED
    BY <2>1, <2>2 DEF TypeOK
<1>5. ResetHolds' /\ ~SetupWrites
  BY <1>1 DEF Inv, ResetHolds
<1> QED
  BY <1>1, <1>2, <1>3, <1>4, <1>5 DEF Inv

\* An instruction retires into the address flow asked for and that address's
\* word.
LEMMA Retirement ==
  ASSUME TypeOKFetch, OpcodeMatchesPc, condition' \in BOOLEAN, program' = program,
         NEW word \in {FetchAddress, Unknown}, NEW level \in Levels \cup {NoVector},
         RetireInto(word, level)
  PROVE  TypeOKFetch' /\ OpcodeMatchesPc' /\ fetchPending' = FALSE /\ pc' = FetchAddress
<1>1. /\ pc' = FetchAddress /\ fetchPending' = FALSE /\ vectoring' = level
      /\ opcode' = IF level = NoVector THEN word ELSE Unknown
  BY DEF RetireInto
<1>2. pc' \in Addresses /\ opcode' \in Values
  BY <1>1, AddressesAsked, LinearFetchConstants DEF Values
<1>3. fetchPending' \in BOOLEAN
  BY <1>1
<1>4. TypeOKFetch'
  BY <1>1, <1>2, <1>3 DEF TypeOKFetch
<1>5. OpcodeMatchesPc'
  BY <1>1 DEF OpcodeMatchesPc
<1> QED
  BY <1>1, <1>4, <1>5

\* With no client holding anything there is nothing for HeldWork to say.
LEMMA IdleWork ==
  ASSUME \A o \in PMDataOwners : clients'[o].state = "IDLE"
  PROVE  HeldWork'
  BY DEF HeldWork, Held

LEMMA IdleClientType == IdleClient \in Clients /\ IdleClient.state = "IDLE"
  BY DEF IdleClient, Clients, MaybeAddress, Values

LEMMA CompleteFetchStep ==
  ASSUME Inv, NEW word \in FetchedWords, NEW level \in Levels \cup {NoVector},
         CompleteFetch(word, level)
  PROVE  Inv'
<1>1. /\ InterfaceActive /\ fetchPending /\ ~Vectoring
      /\ EndTransaction /\ RetireInto(word, level) /\ FillCache(word)
      /\ UNCHANGED clients /\ program' = program
  BY DEF CompleteFetch, Completes, EndTransaction
<1>2. transaction = FetchRequest /\ transaction.address = FetchAddress
  BY <1>1 DEF Inv, FlowInv, FetchOnBus, FetchRequest
<1>3. FetchAddress \in Addresses /\ word \in {FetchAddress, Unknown}
  BY <1>2, AddressesAsked DEF Inv, TypeOK, FlowInv, FetchedWords
<1>4. condition' \in BOOLEAN
  BY DEF CompleteFetch, AnyCondition, Inv, TypeOK, TypeOKFetch
<1>5. current' = Copies
  <2>1. LinearShares \/ CopiesKept
    BY DEF CompleteFetch
  <2>2. CopiesAfter({}, {}, FALSE) = Copies /\ CopiesAfter({"FETCH"}, {}, TRUE) = Copies
    BY CopiesFollow DEF Inv
  <2> QED
    BY <2>1, <2>2 DEF LinearShares, CopiesKept
<1>6. TypeOKFetch' /\ OpcodeMatchesPc' /\ fetchPending' = FALSE /\ pc' = FetchAddress
  BY <1>1, <1>3, <1>4, Retirement DEF Inv, TypeOK, FlowInv
<1>7. Cache!TypeOK' /\ CacheIsFaithful'
  BY <1>1, <1>2, <1>3, FillKeepsCache DEF FillCache, Inv, TypeOK
<1>8. \A o \in PMDataOwners : ~Held(o)
  BY <1>1, OneHolds DEF Inv, FlowInv
<1>9. HeldWork'
  BY <1>1, <1>8, IdleWork DEF Held
<1>10. haltMode # "FORCE_FETCH"
  <2>1. phase = 7
    BY <1>1, CompleteEnds
  <2>2. ~transaction.dataAccess
    BY <1>2 DEF FetchRequest
  <2> QED
    BY <2>1, <2>2 DEF Inv, HaltInv, ForceAfterData
<1> QED
  BY <1>1, <1>2, <1>5, <1>6, <1>7, <1>9, <1>10, CompleteKeeps DEF Inv, TypeOK

LEMMA CompleteVectorFetchStep ==
  ASSUME Inv, NEW word \in FetchedWords, CompleteVectorFetch(word)
  PROVE  Inv'
<1>1. /\ InterfaceActive /\ fetchPending /\ Vectoring
      /\ EndTransaction /\ EnterVector(word) /\ FillCache(word) /\ CopiesKept
      /\ UNCHANGED <<condition, clients>> /\ program' = program
  BY DEF CompleteVectorFetch, Completes, EndTransaction
<1>2. transaction = FetchRequest /\ transaction.address = vectoring
  BY <1>1 DEF Inv, FlowInv, FetchOnBus, FetchRequest, FetchAddress
<1>3. vectoring \in Addresses /\ word \in {vectoring, Unknown}
  BY <1>1, <1>2, LinearFetchConstants DEF Inv, TypeOK, TypeOKFetch, Vectoring, FetchedWords
<1>4. current' = Copies
  BY <1>1, CopiesFollow DEF CopiesKept, Inv
<1>5. pc' = vectoring /\ opcode' = word /\ fetchPending' = FALSE /\ vectoring' = NoVector
  BY <1>1 DEF EnterVector
<1>6. TypeOKFetch' /\ OpcodeMatchesPc'
  <2>1. fetchPending' \in BOOLEAN
    BY <1>5
  <2> QED
    BY <1>1, <1>3, <1>5, <2>1, LinearFetchConstants
       DEF Inv, TypeOK, TypeOKFetch, OpcodeMatchesPc, Values
<1>7. Cache!TypeOK' /\ CacheIsFaithful'
  BY <1>1, <1>2, <1>3, FillKeepsCache DEF FillCache, Inv, TypeOK
<1>8. \A o \in PMDataOwners : ~Held(o)
  BY <1>1, OneHolds DEF Inv, FlowInv
<1>9. HeldWork'
  BY <1>1, <1>8, IdleWork DEF Held
<1>10. haltMode # "FORCE_FETCH"
  <2>1. phase = 7
    BY <1>1, CompleteEnds
  <2>2. ~transaction.dataAccess
    BY <1>2 DEF FetchRequest
  <2> QED
    BY <2>1, <2>2 DEF Inv, HaltInv, ForceAfterData
<1> QED
  BY <1>1, <1>2, <1>4, <1>5, <1>6, <1>7, <1>9, <1>10, CompleteKeeps DEF Inv, TypeOK

\* The transaction that completes for a client that holds one is the client's.
LEMMA OwnTransaction ==
  ASSUME Inv, NEW o \in PMDataOwners, Held(o), Active, phase = 7
  PROVE  /\ transaction = HeldRequest(o)
         /\ Decodes({o}) /\ ~Vectoring
         /\ FetchAddress = SequentialPc
         /\ \A other \in PMDataOwners \ {o} : clients[other].state = "IDLE"
<1>1. ~fetchPending /\ ~Vectoring /\ Decodes({o})
  BY DEF Inv, FlowInv, HeldWork, SequentialAllowed
<1>2. \A other \in PMDataOwners : Held(other) => other = o
  BY OneHolds DEF Inv, FlowInv
<1>3. transaction = HeldRequest(o)
  BY <1>1, <1>2 DEF Inv, FlowInv, OnBus
<1>4. ~Decodes({"JUMP"})
  BY <1>1 DEF Decodes, PMDataOwners
<1> QED
  BY <1>1, <1>2, <1>3, <1>4 DEF FetchAddress, NextPc, Held

LEMMA CompleteDataStep ==
  ASSUME Inv, NEW o \in PMDataOwners, NEW level \in Levels \cup {NoVector},
         CompleteData(o, level)
  PROVE  Inv'
<1>1. /\ InterfaceActive /\ clients[o].state = "DATA" /\ EndTransaction
      /\ clients' = [clients EXCEPT ![o] = ClientAfterData(o)]
      /\ condition' \in BOOLEAN /\ UNCHANGED cacheVars /\ program' = program
      /\ current' = CopiesAfter({o}, {o}, FALSE)
  BY DEF CompleteData, Completes, AnyCondition, EndTransaction
<1>2. /\ Held(o) /\ Active /\ phase = 7
      /\ haltMode \in {"RUNNING", "STOP_PENDING", "FORCE_FETCH"}
  BY <1>1, CompleteEnds DEF Held
<1>3. /\ transaction = clients[o].request /\ transaction.dataAccess
      /\ Decodes({o}) /\ ~Vectoring /\ FetchAddress = SequentialPc
      /\ clients[o].next = SequentialPc /\ clients[o].cached \in {SequentialPc, Unknown}
      /\ SequentialAllowed
      /\ \A other \in PMDataOwners \ {o} : clients[other].state = "IDLE"
  BY <1>1, <1>2, OwnTransaction DEF HeldRequest, Inv, FlowInv, HeldWork
<1>4. haltMode # "STOP_PENDING"
  BY <1>2, <1>3 DEF Inv, HaltInv, StopOnFetch
<1>5. current' = Copies
  BY <1>1, CopiesFollow DEF Inv
<1>6. Cache!TypeOK' /\ CacheIsFaithful'
  BY <1>1, CacheKept DEF Inv, TypeOK
<1>7. CASE NeedsRecovery(o)
  <2>1. /\ clients'[o] = [clients[o] EXCEPT !.state = "RECOVERY", !.request = NoTransaction,
                                            !.needsRecovery = FALSE]
        /\ \A other \in PMDataOwners \ {o} : clients'[other] = clients[other]
        /\ UNCHANGED fetchVars
    BY <1>1, <1>7 DEF ClientAfterData, CompleteData, Inv, TypeOK
  <2>2. clients[o] \in Clients
    BY DEF Inv, TypeOK
  <2>3. /\ clients'[o] \in Clients /\ clients'[o].state = "RECOVERY"
        /\ clients'[o].next = clients[o].next /\ clients'[o].cached = clients[o].cached
    BY <2>1, <2>2 DEF Clients
  <2>4. clients' \in [PMDataOwners -> Clients]
    BY <1>1, <2>1, <2>3 DEF Inv, TypeOK
  <2>5. TypeOKFetch' /\ OpcodeMatchesPc' /\ fetchPending' = FALSE
    BY <1>1, <1>3, <2>1
       DEF fetchVars, Inv, TypeOK, FlowInv, TypeOKFetch, OpcodeMatchesPc, SequentialAllowed
  <2>6. HeldWork'
    <3>1. Decodes({o})' /\ SequentialPc' = SequentialPc /\ SequentialAllowed'
      BY <1>1, <1>3, <2>1 DEF fetchVars, Decodes, SequentialPc, SequentialAllowed, Vectoring
    <3>2. \A other \in PMDataOwners : Held(other)' => other = o
      BY <1>3, <2>1 DEF Held
    <3> QED
      BY <1>3, <2>3, <3>1, <3>2 DEF HeldWork
  <2> QED
    BY <1>1, <1>4, <1>5, <1>6, <2>3, <2>4, <2>5, <2>6, CompleteKeeps
<1>8. CASE ~NeedsRecovery(o)
  <2>1. clients' = [clients EXCEPT ![o] = IdleClient] /\ RetireInto(clients[o].cached, level)
    BY <1>1, <1>8 DEF ClientAfterData, CompleteData
  <2>2. clients' \in [PMDataOwners -> Clients] /\ \A p \in PMDataOwners : clients'[p].state = "IDLE"
    BY <1>3, <2>1, IdleClientType DEF Inv, TypeOK
  <2>3. TypeOKFetch' /\ OpcodeMatchesPc' /\ fetchPending' = FALSE
    BY <1>1, <1>3, <2>1, Retirement DEF Inv, TypeOK, FlowInv
  <2>4. haltMode # "FORCE_FETCH"
    BY <1>8 DEF NeedsRecovery, ForceRequest
  <2> QED
    BY <1>1, <1>4, <1>5, <1>6, <2>2, <2>3, <2>4, IdleWork, CompleteKeeps
<1> QED
  BY <1>7, <1>8

LEMMA CompleteRecoveryStep ==
  ASSUME Inv, NEW o \in PMDataOwners, NEW word \in FetchedWords,
         NEW level \in Levels \cup {NoVector}, CompleteRecovery(o, word, level)
  PROVE  Inv'
<1>1. /\ InterfaceActive /\ clients[o].state = "RECOVERY" /\ EndTransaction
      /\ clients' = [clients EXCEPT ![o] = IdleClient]
      /\ RetireInto(word, level) /\ FillCache(word)
      /\ current' = CopiesAfter({}, {}, TRUE)
      /\ UNCHANGED condition /\ program' = program
  BY DEF CompleteRecovery, Completes, EndTransaction
<1>2. Held(o) /\ Active /\ phase = 7
  BY <1>1, CompleteEnds DEF Held
<1>3. /\ transaction.address = SequentialPc /\ ~transaction.dataAccess
      /\ FetchAddress = SequentialPc
      /\ \A other \in PMDataOwners \ {o} : clients[other].state = "IDLE"
  <2>1. /\ transaction = HeldRequest(o) /\ FetchAddress = SequentialPc
        /\ \A other \in PMDataOwners \ {o} : clients[other].state = "IDLE"
    BY <1>2, OwnTransaction
  <2>2. clients[o].next = SequentialPc
    BY <1>2 DEF Inv, FlowInv, HeldWork
  <2>3. transaction.address = SequentialPc /\ ~transaction.dataAccess
    BY <1>1, <2>1, <2>2 DEF HeldRequest
  <2> QED
    BY <2>1, <2>3
<1>4. SequentialPc \in Addresses /\ word \in {SequentialPc, Unknown}
  BY <1>3, AddressesAsked DEF Inv, TypeOK, FlowInv, FetchedWords
<1>5. current' = Copies
  BY <1>1, CopiesFollow DEF Inv
<1>6. condition' \in BOOLEAN
  BY <1>1 DEF Inv, TypeOK, TypeOKFetch
<1>7. TypeOKFetch' /\ OpcodeMatchesPc' /\ fetchPending' = FALSE /\ pc' = FetchAddress
  BY <1>1, <1>3, <1>4, <1>6, Retirement DEF Inv, TypeOK, FlowInv
<1>8. Cache!TypeOK' /\ CacheIsFaithful'
  BY <1>1, <1>3, <1>4, FillKeepsCache DEF FillCache, Inv, TypeOK
<1>9. clients' \in [PMDataOwners -> Clients] /\ \A p \in PMDataOwners : clients'[p].state = "IDLE"
  BY <1>1, <1>3, IdleClientType DEF Inv, TypeOK
<1>10. haltMode # "FORCE_FETCH"
  BY <1>2, <1>3 DEF Inv, HaltInv, ForceAfterData
<1> QED
  BY <1>1, <1>3, <1>5, <1>7, <1>8, <1>9, <1>10, IdleWork, CompleteKeeps

\* What is presented is never taken for an empty slot.
LEMMA NoSlotIsTransaction ==
  ASSUME TypeOKFetch, OpcodeMatchesPc
  PROVE  FetchRequest \in Requests /\ FetchRequest # NoTransaction
<1>1. FetchRequest \in Requests
  BY AddressesAsked DEF FetchRequest, Requests, FetchRequests, MaybeAddress
<1> QED
  BY <1>1, ProgramBusConstants

LEMMA CompleteNothingStep == ASSUME Inv, CompleteNothing PROVE Inv'
<1>1. /\ ~InterfaceActive /\ EndTransaction /\ CopiesKept
      /\ UNCHANGED <<clients, condition, fetchVars, cacheVars>> /\ program' = program
  BY DEF CompleteNothing, EndTransaction
<1>2. ~Active /\ phase = 7
  BY <1>1, CompleteEnds
<1>3. ~fetchPending
  BY <1>2, NoSlotIsTransaction DEF Inv, TypeOK, FlowInv, FetchOnBus, Active
<1>4. current' = Copies
  BY <1>1, CopiesFollow DEF CopiesKept, Inv
<1>5. Cache!TypeOK' /\ CacheIsFaithful'
  BY <1>1, CacheKept DEF Inv, TypeOK
<1>6. TypeOKFetch' /\ OpcodeMatchesPc' /\ fetchPending' = FALSE
  <2>1. fetchPending' = fetchPending /\ fetchPending \in BOOLEAN
    BY <1>1 DEF fetchVars, Inv, TypeOK, TypeOKFetch
  <2> QED
    BY <1>1, <1>3, <2>1, FetchKept, ProgramKept DEF Inv, TypeOK, FlowInv
<1>7. HeldWork'
  BY <1>1, ProgramKept, FetchKept DEF Inv, FlowInv, HeldWork, Held
<1>8. haltMode # "FORCE_FETCH"
  BY <1>2 DEF Inv, HaltInv, ForceAfterData
<1> QED
  BY <1>1, <1>2, <1>4, <1>5, <1>6, <1>7, <1>8, CompleteKeeps DEF Inv, TypeOK

LEMMA CompleteStep == ASSUME Inv, CompleteCycle PROVE Inv'
<1>1. \/ CompleteNothing
      \/ \E level \in Levels \cup {NoVector} :
           \/ \E o \in PMDataOwners : CompleteData(o, level)
           \/ \E word \in FetchedWords :
                \/ CompleteFetch(word, level)
                \/ \E o \in PMDataOwners : CompleteRecovery(o, word, level)
      \/ \E word \in FetchedWords : CompleteVectorFetch(word)
  BY DEF CompleteCycle
<1> QED
  BY <1>1, CompleteNothingStep, CompleteDataStep, CompleteFetchStep, CompleteRecoveryStep,
     CompleteVectorFetchStep

-----------------------------------------------------------------------------
(* State 8: the slot of the next cycle is given. *)

\* What an issue boundary has to see to, each kind in its own way.
LEMMA IssueKeeps ==
  ASSUME Inv, NEW asking, NEW request \in Requests, EndCycle(asking, request),
         clients' \in [PMDataOwners -> Clients],
         TypeOKFetch', OpcodeMatchesPc', HeldWork', current' = Copies,
         Active' => \/ fetchPending'
                    \/ \E o \in PMDataOwners : Held(o)' /\ transaction' = HeldRequest(o)',
         fetchPending' => /\ transaction' = FetchRequest'
                          /\ Vectoring' \/ Decodes({"SEQUENTIAL", "JUMP"})',
         haltMode = "FORCE_FETCH" /\ Active' => ~transaction'.dataAccess
  PROVE  Inv'
<1>1. /\ phase = 8 /\ phase' = 1 /\ resetActive' = FALSE
      /\ BusInv'
      /\ haltMode' = IF haltMode = "FORCE_FETCH" THEN "STOP_PENDING" ELSE "RUNNING"
      /\ UNCHANGED <<program, cacheVars>>
  BY BoundarySlot
<1>2. busMode' = BusModeAfterIssue
  BY DEF EndCycle
<1>3. FlowInv'
  BY <1>1 DEF FlowInv, OnBus, FetchOnBus
<1>4. HaltInv'
  BY <1>1, <1>2
     DEF Inv, HaltInv, StopOnFetch, ForceAfterData, StoppedOnFetch, OneControllerActive,
         BusModeAfterIssue, BusResumes
<1>5. Cache!TypeOK' /\ CacheIsFaithful'
  BY <1>1, CacheKept DEF Inv, TypeOK
<1>6. TypeOK'
  <2>1. TypeOKPhase'
    <3>1. phase' \in 1..8 /\ resetActive' = FALSE
      BY <1>1
    <3> QED
      BY <3>1, PhaseType
  <2>2. busMode' \in BusModes /\ TypeOKTransaction' /\ haltMode' \in HaltModes
    BY <1>1 DEF BusInv, HaltModes
  <2> QED
    BY <1>5, <2>1, <2>2 DEF TypeOK
<1>7. ResetHolds' /\ ~SetupWrites
  BY <1>1 DEF Inv, ResetHolds
<1> QED
  BY <1>1, <1>3, <1>4, <1>5, <1>6, <1>7 DEF Inv

\* A boundary that issues nothing leaves a held client with its work.
LEMMA IdleIssueKeeps ==
  ASSUME Inv, NEW asking, NEW request \in Requests, EndCycle(asking, request),
         ~OpenBoundary \/ asking = {},
         UNCHANGED <<clients, condition, fetchVars>>, current' = Copies
  PROVE  Inv'
<1>1. phase = 8 /\ transaction' = NoTransaction /\ program' = program
  BY BoundarySlot
<1>2. ~Active'
  BY <1>1 DEF Active
<1>3. ~fetchPending'
  BY <1>1, FetchKept DEF Inv, FlowInv, FetchOnBus
<1>4. TypeOKFetch' /\ OpcodeMatchesPc'
  BY <1>1, FetchKept, ProgramKept DEF Inv, TypeOK, FlowInv
<1>5. HeldWork'
  BY <1>1, ProgramKept, FetchKept DEF Inv, FlowInv, HeldWork, Held
<1> QED
  BY <1>2, <1>3, <1>4, <1>5, IssueKeeps DEF Inv, TypeOK

\* The fetch that is presented, and its address after the boundary.
LEMMA FetchAsked ==
  ASSUME Inv
  PROVE  FetchRequest \in Requests /\ FetchRequest.owner = "FETCH" /\ ~FetchRequest.dataAccess
  BY NoSlotIsTransaction DEF FetchRequest, Inv, TypeOK, FlowInv

LEMMA ClosedBoundaryStep == ASSUME Inv, ClosedBoundary PROVE Inv'
<1>1. current' = Copies
  BY CopiesFollow DEF ClosedBoundary, CopiesKept, Inv
<1> QED
  BY <1>1, FetchAsked, IdleIssueKeeps DEF ClosedBoundary

LEMMA IdleBoundaryStep ==
  ASSUME Inv, NEW port \in SetupPorts, IdleBoundary(port)
  PROVE  Inv'
<1>1. current' = Copies
  BY CopiesFollow DEF IdleBoundary, Inv
<1>2. UNCHANGED condition
  BY DEF IdleBoundary, SetupMay, Inv
<1> QED
  BY <1>1, <1>2, FetchAsked, IdleIssueKeeps DEF IdleBoundary

LEMMA PreloadStep ==
  ASSUME Inv, NEW address \in Addresses, Preload(address)
  PROVE  Inv'
<1>1. /\ EndCycle({}, FetchRequest) /\ PreloadAt(address) /\ CopiesKept
      /\ UNCHANGED <<clients, condition>>
  BY DEF Preload
<1>2. phase = 8 /\ transaction' = NoTransaction /\ program' = program
  <2>1. {} # {FetchRequest.owner}
    OBVIOUS
  <2> QED
    BY <1>1, <2>1, FetchAsked, BoundarySlot
<1>3. /\ opcode = Unknown /\ ~fetchPending /\ pc' = address /\ opcode' = address
      /\ UNCHANGED <<fetchPending, vectoring>>
  BY <1>1 DEF PreloadAt
<1>4. TypeOKFetch' /\ OpcodeMatchesPc'
  BY <1>1, <1>2, <1>3, LinearFetchConstants
     DEF Inv, TypeOK, TypeOKFetch, OpcodeMatchesPc, Values
<1>5. \A o \in PMDataOwners : clients'[o].state = "IDLE"
  BY <1>1, <1>3 DEF Inv, FlowInv, HeldWork, Held, Decodes
<1>6. current' = Copies
  BY <1>1, CopiesFollow DEF CopiesKept, Inv
<1> QED
  BY <1>1, <1>2, <1>3, <1>4, <1>5, <1>6, FetchAsked, IdleWork, IssueKeeps DEF Inv, TypeOK, Active

LEMMA PresentHeldStep ==
  ASSUME Inv, NEW o \in PMDataOwners, NEW port \in SetupPorts, PresentHeld(o, port)
  PROVE  Inv'
<1>1. /\ OpenBoundary /\ Held(o) /\ EndCycle(Presenting, HeldRequest(o))
      /\ UNCHANGED <<clients, condition, fetchVars>>
  BY DEF PresentHeld
<1>2. Presenting = {o} /\ \A other \in PMDataOwners : Held(other) => other = o
  BY <1>1, OneHolds DEF Inv, FlowInv
<1>3. HeldRequest(o) \in Requests /\ HeldRequest(o).owner = o
  <2>1. CASE clients[o].state = "DATA"
    BY <1>1, <2>1 DEF Inv, FlowInv, HeldWork, HeldRequest, Requests
  <2>2. CASE clients[o].state # "DATA"
    <3>1. clients[o].next \in MaybeAddress
      BY DEF Inv, TypeOK, Clients
    <3> QED
      BY <2>2, <3>1 DEF HeldRequest, Requests, ClientRequests, Values
  <2> QED
    BY <2>1, <2>2
<1>4. phase = 8 /\ transaction' = HeldRequest(o) /\ program' = program
  BY <1>1, <1>2, <1>3, BoundarySlot
<1>5. ~fetchPending' /\ TypeOKFetch' /\ OpcodeMatchesPc'
  BY <1>1, <1>4, FetchKept, ProgramKept DEF Inv, TypeOK, FlowInv, FetchOnBus
<1>6. HeldWork'
  BY <1>1, <1>4, ProgramKept, FetchKept DEF Inv, FlowInv, HeldWork, Held
<1>7. Held(o)' /\ transaction' = HeldRequest(o)'
  BY <1>1, <1>4 DEF Held, HeldRequest
<1>8. haltMode = "FORCE_FETCH" => ~transaction'.dataAccess
  <2>1. haltMode = "FORCE_FETCH" => clients[o].state = "RECOVERY"
    BY <1>2, <1>4 DEF Inv, HaltInv, ForceAfterData, Held
  <2> QED
    BY <1>4, <2>1 DEF HeldRequest
<1>9. current' = Copies
  BY CopiesFollow DEF PresentHeld, Inv
<1> QED
  BY <1>1, <1>3, <1>5, <1>6, <1>7, <1>8, <1>9, IssueKeeps DEF Inv, TypeOK

LEMMA IssueFetchStep ==
  ASSUME Inv, NEW port \in SetupPorts, IssueFetch(port)
  PROVE  Inv'
<1>1. /\ OpenBoundary /\ FetchPresented /\ EndCycle(Presenting, FetchRequest)
      /\ fetchPending' = (Presenting = {"FETCH"})
      /\ UNCHANGED <<clients, pc, opcode, vectoring>>
  BY DEF IssueFetch
<1>2. Presenting = {"FETCH"} /\ \A o \in PMDataOwners : clients[o].state = "IDLE"
  BY <1>1, OnePresents, OneHolds DEF Inv, FlowInv, Presenting, Held
<1>3. phase = 8 /\ transaction' = FetchRequest /\ program' = program
  BY <1>1, <1>2, FetchAsked, BoundarySlot
<1>4. condition' = condition
  BY DEF IssueFetch, SetupMay, Inv
<1>5. /\ FetchRequest' = FetchRequest
      /\ Vectoring' \/ Decodes({"SEQUENTIAL", "JUMP"})'
      /\ OpcodeMatchesPc'
  BY <1>1, <1>3, <1>4, ProgramKept DEF FetchPresented, Inv, FlowInv
<1>6. fetchPending' \in BOOLEAN
  BY <1>1
<1>7. TypeOKFetch'
  BY <1>1, <1>3, <1>4, <1>6 DEF Inv, TypeOK, TypeOKFetch
<1>8. current' = Copies
  BY CopiesFollow DEF IssueFetch, Inv
<1>9. fetchPending' /\ haltMode # "FORCE_FETCH"
  BY <1>1, <1>2, <1>3 DEF Inv, HaltInv, ForceAfterData
<1> QED
  BY <1>1, <1>2, <1>3, <1>5, <1>7, <1>8, <1>9, FetchAsked, IdleWork, IssueKeeps DEF Inv, TypeOK

LEMMA IssueDataStep ==
  ASSUME Inv, NEW o \in PMDataOwners, NEW address \in DataAddresses, NEW write \in BOOLEAN,
         NEW port \in SetupPorts, IssueData(o, address, write, port)
  PROVE  Inv'
<1> DEFINE request == [owner |-> o, address |-> address, dataAccess |-> TRUE,
                       write |-> write, data |-> Unknown]
           work == Captured(request, NextFetchAddress, Cache!Lookup(NextFetchAddress))
<1>1. /\ OpenBoundary /\ Executes(o) /\ EndCycle(Presenting, request)
      /\ clients' = [clients EXCEPT ![o] = work]
      /\ SetUp(port, FALSE)
      /\ UNCHANGED <<condition, fetchVars>>
  BY DEF IssueData
<1>2. /\ Presenting = {o} /\ Decodes({o}) /\ SequentialAllowed
      /\ \A p \in PMDataOwners : clients[p].state = "IDLE"
  BY <1>1, OneExecutes DEF Executes, Held
<1>3. request \in ClientRequests /\ request \in Requests /\ request.owner = o /\ request.dataAccess
  BY ProgramClientsConstants DEF ClientRequests, Requests, Values
<1>4. /\ NextFetchAddress = SequentialPc /\ SequentialPc \in Addresses
      /\ Cache!Lookup(SequentialPc) \in {SequentialPc, Unknown}
  BY AddressesAsked DEF NextFetchAddress, Inv, TypeOK, FlowInv, CacheIsFaithful
<1> HIDE DEF request
<1>5. /\ work.state = "DATA" /\ work.request = request /\ work.next = SequentialPc
      /\ work.cached \in {SequentialPc, Unknown} /\ work \in Clients
  BY <1>3, <1>4, LinearFetchConstants DEF Captured, Clients, MaybeAddress, Values
<1> HIDE DEF work
<1>6. clients' \in [PMDataOwners -> Clients] /\ clients'[o] = work
      /\ \A p \in PMDataOwners \ {o} : clients'[p].state = "IDLE"
  BY <1>1, <1>2, <1>5 DEF Inv, TypeOK
<1>7. phase = 8 /\ transaction' = request /\ program' = program
  BY <1>1, <1>2, <1>3, BoundarySlot
<1>8. ~fetchPending' /\ TypeOKFetch' /\ OpcodeMatchesPc'
  BY <1>1, <1>7, FetchKept, ProgramKept DEF Inv, TypeOK, FlowInv, FetchOnBus
<1>9. HeldWork'
  <2>1. Decodes({o})' /\ SequentialAllowed' /\ SequentialPc' = SequentialPc
    BY <1>1, <1>2, <1>7, FetchKept, ProgramKept
  <2>2. \A p \in PMDataOwners : Held(p)' => p = o
    BY <1>6 DEF Held
  <2> QED
    BY <1>3, <1>5, <1>6, <2>1, <2>2 DEF HeldWork
<1>10. Held(o)' /\ transaction' = HeldRequest(o)'
  BY <1>5, <1>6, <1>7 DEF Held, HeldRequest
<1>11. haltMode # "FORCE_FETCH"
  BY <1>2, <1>7 DEF Inv, HaltInv, ForceAfterData
<1>12. current' = Copies
  BY <1>1, CopiesFollow DEF Inv
<1> QED
  BY <1>1, <1>3, <1>6, <1>8, <1>9, <1>10, <1>11, <1>12, IssueKeeps

LEMMA IssueStep == ASSUME Inv, IssueCycle PROVE Inv'
  BY IssueFetchStep, IssueDataStep, PresentHeldStep, IdleBoundaryStep, PreloadStep,
     ClosedBoundaryStep DEF IssueCycle

-----------------------------------------------------------------------------
(* The theorems. *)

LEMMA StutterInv == ASSUME Inv, UNCHANGED vars PROVE Inv'
<1>1. /\ UNCHANGED <<phase, resetActive, busMode, haltMode, transaction, clients, program,
                     condition, fetchVars, cacheVars>>
      /\ current' = current /\ (Active' <=> Active)
  BY DEF vars, Active
<1>2. BusInv'
  BY <1>1 DEF Inv, BusInv, TypeOKTransaction, AwayIsIdle, RequestedIsIdle, ReacquireWindow
<1>3. Cache!TypeOK' /\ CacheIsFaithful'
  BY <1>1, CacheKept DEF Inv, TypeOK
<1>4. FlowInv'
  <2>1. \A o \in PMDataOwners : (Held(o)' <=> Held(o)) /\ HeldRequest(o)' = HeldRequest(o)
    BY <1>1 DEF Held, HeldRequest
  <2>2. HeldWork'
    BY <1>1, <2>1, ProgramKept, FetchKept DEF Inv, FlowInv, HeldWork
  <2>3. OnBus' /\ FetchOnBus' /\ OpcodeMatchesPc'
    BY <1>1, <2>1, ProgramKept, FetchKept DEF Inv, FlowInv, OnBus, FetchOnBus
  <2> QED
    BY <2>2, <2>3 DEF FlowInv
<1>5. HaltInv' /\ ResetHolds'
  BY <1>1
     DEF Inv, HaltInv, StopOnFetch, ForceAfterData, StoppedOnFetch, OneControllerActive,
         ResetHolds, Held, fetchVars
<1>6. TypeOK'
  BY <1>1, <1>3, FetchKept DEF Inv, TypeOK, TypeOKPhase, TypeOKTransaction
<1> QED
  BY <1>1, <1>2, <1>3, <1>4, <1>5, <1>6 DEF Inv

LEMMA StepInv == ASSUME Inv, [Next]_vars PROVE Inv'
<1>1. CASE UNCHANGED vars
  BY <1>1, StutterInv
<1>2. CASE ClockEdge
  BY <1>2, SampleStep, CompleteStep, IssueStep, PassStep DEF ClockEdge
<1>3. CASE Reset \/ LeaveReset
  BY <1>3, ResetStep, PassStep
<1> QED
  BY <1>1, <1>2, <1>3 DEF Next

LEMMA SpecInv == Spec /\ ~SetupWrites => []Inv
<1>1. Init /\ ~SetupWrites => Inv
  BY InitInv
<1>2. Inv /\ [Next]_vars => Inv'
  BY StepInv
<1> QED
  BY <1>1, <1>2, PTL DEF Spec

\* Every register of the composition keeps its range.
THEOREM TypeCorrect == Spec /\ ~SetupWrites => []TypeOK
<1>1. Inv => TypeOK
  BY DEF Inv
<1> QED
  BY <1>1, SpecInv, PTL

\* The instruction register holds the word at pc, whichever of fetch, cache and
\* recovery filled it, and whatever jump, wrap or interrupt came between.
THEOREM OpcodeRight == Spec /\ ~SetupWrites => []OpcodeMatchesPc
<1>1. Inv => OpcodeMatchesPc
  BY DEF Inv, FlowInv
<1> QED
  BY <1>1, SpecInv, PTL

\* The clients never ask together, and each has the registers as the last of
\* them left them.
THEOREM MachineIsOne == Spec /\ ~SetupWrites => []OneMachine
<1>1. ASSUME Inv PROVE OneMachine
  <2>1. Presenting = {} \/ \E o : Presenting = {o}
    BY <1>1, OnePresents DEF Inv, FlowInv
  <2>2. Cardinality(Presenting) \in {0, 1}
    BY <2>1, FS_EmptySet, FS_Singleton
  <2>3. OneRequester
    BY <2>2 DEF OneRequester
  <2> QED
    BY <1>1, <2>3 DEF Inv, OneMachine
<1> QED
  BY <1>1, SpecInv, PTL

\* HALT that meets a PM-data instruction gets its one instruction fetch, and
\* stops with that fetch's address on PMA.
THEOREM StopFinds == Spec /\ ~SetupWrites => []StopFindsSuccessor
<1>1. ASSUME Inv PROVE StopFindsSuccessor
  <2>1. StoppedShowsNextFetch
    BY <1>1 DEF Inv, HaltInv, StoppedOnFetch, StoppedShowsNextFetch
  <2>2. ForcedFetchIsRecovery
    BY <1>1, OneHolds
       DEF Inv, HaltInv, FlowInv, ForceAfterData, ForcedFetchIsRecovery, Held
  <2> QED
    BY <2>1, <2>2 DEF StopFindsSuccessor
<1> QED
  BY <1>1, SpecInv, PTL

-----------------------------------------------------------------------------
(* The composition implements the instruction stream. *)

\* A PM-data instruction whose action is done and which waits for its successor.
Performed == \E o \in PMDataOwners : clients[o].state = "RECOVERY"

StreamStep ==
  \/ Stream!Next
  \/ UNCHANGED <<program, pc, condition, opcode # Unknown, vectoring, Performed, resetActive>>

\* The Boolean state functions of the stream as values.
LEMMA StreamValues ==
  /\ (opcode # Unknown)' \in BOOLEAN
  /\ Performed => (\E o \in PMDataOwners : clients[o].state = "RECOVERY") = TRUE
  /\ ~Performed => ~(\E o \in PMDataOwners : clients[o].state = "RECOVERY")
  /\ Performed' => (\E o \in PMDataOwners : clients[o].state = "RECOVERY")' = TRUE
  /\ ~Performed' => (\E o \in PMDataOwners : clients[o].state = "RECOVERY")' = FALSE
  /\ (Performed' <=> Performed)
      => UNCHANGED (\E o \in PMDataOwners : clients[o].state = "RECOVERY")
<1>1. (opcode # Unknown)' \in BOOLEAN
  OBVIOUS
<1>2. /\ Performed' => (\E o \in PMDataOwners : clients[o].state = "RECOVERY")' = TRUE
      /\ ~Performed' => (\E o \in PMDataOwners : clients[o].state = "RECOVERY")' = FALSE
      /\ (Performed' <=> Performed)
          => UNCHANGED (\E o \in PMDataOwners : clients[o].state = "RECOVERY")
  BY Zenon DEF Performed
<1>3. /\ Performed => (\E o \in PMDataOwners : clients[o].state = "RECOVERY") = TRUE
      /\ ~Performed => ~(\E o \in PMDataOwners : clients[o].state = "RECOVERY")
  BY Zenon DEF Performed
<1> QED
  BY <1>1, <1>2, <1>3

\* A step the stream does not see.
LEMMA StreamStutter ==
  ASSUME UNCHANGED <<program, pc, condition, opcode, vectoring, resetActive>>,
         Performed' <=> Performed
  PROVE  StreamStep
<1>1. (opcode # Unknown)' <=> opcode # Unknown
  OBVIOUS
<1> QED
  BY <1>1 DEF StreamStep

\* The stream's view of the instruction in the register.
LEMMA StreamClass ==
  ASSUME Inv, NEW a, Decodes({a})
  PROVE  opcode # Unknown /\ opcode = pc /\ Stream!Class = a
  BY DEF Inv, FlowInv, OpcodeMatchesPc, Decodes, Stream!Class

\* An instruction that ends is the stream's Retire.
LEMMA RetireStep ==
  ASSUME Inv, EndTransaction, ~Vectoring,
         NEW a \in Classes \ {"UNSUPPORTED"}, Decodes({a}),
         NEW word, NEW level \in Levels \cup {NoVector}, RetireInto(word, level),
         condition' \in BOOLEAN, ~Performed',
         Performed \/ a = "JUMP" => condition' = condition
  PROVE  StreamStep
<1>1. /\ pc' = FetchAddress /\ vectoring' = level
      /\ opcode' = IF level = NoVector THEN word ELSE Unknown
      /\ program' = program /\ ~resetActive /\ resetActive' = resetActive
  BY CompleteEnds DEF RetireInto
<1>2. opcode # Unknown /\ opcode = pc /\ Stream!Class = a
  BY StreamClass
<1>3. pc' = Stream!Successor
  BY <1>1, <1>2
     DEF FetchAddress, NextPc, Decodes, SequentialPc, Stream!Successor, Stream!Class
<1>4. \/ (opcode # Unknown)' \in BOOLEAN /\ vectoring' = NoVector
      \/ (opcode # Unknown)' = FALSE /\ vectoring' \in Levels
  BY <1>1
<1>5. (\E o \in PMDataOwners : clients[o].state = "RECOVERY")' = FALSE
  BY StreamValues
<1>6. IF \/ Stream!IsData /\ \E o \in PMDataOwners : clients[o].state = "RECOVERY"
         \/ Stream!Class = "JUMP"
        THEN condition' = condition ELSE condition' \in BOOLEAN
  BY <1>2, StreamValues
<1>7. Stream!Retire
  BY <1>1, <1>2, <1>3, <1>4, <1>5, <1>6
     DEF Stream!Retire, Stream!MayChangeCondition
<1> QED
  BY <1>1, <1>7 DEF StreamStep, Stream!Next

LEMMA FetchRetires ==
  ASSUME Inv, NEW word \in FetchedWords, NEW level \in Levels \cup {NoVector},
         CompleteFetch(word, level)
  PROVE  StreamStep
<1>1. /\ fetchPending /\ ~Vectoring /\ EndTransaction /\ RetireInto(word, level)
      /\ UNCHANGED clients
  BY DEF CompleteFetch
<1>2. Decodes({"SEQUENTIAL", "JUMP"})
  BY <1>1 DEF Inv, FlowInv, FetchOnBus
<1>3. PICK a \in {"SEQUENTIAL", "JUMP"} : Decodes({a})
  BY <1>2 DEF Decodes
<1>4. \A o \in PMDataOwners : ~Held(o)
  BY <1>1, OneHolds DEF Inv, FlowInv
<1>5. ~Performed /\ ~Performed'
  BY <1>1, <1>4 DEF Performed, Held
<1>6. condition' \in BOOLEAN /\ (a = "JUMP" => condition' = condition)
  <2>1. a = "JUMP" => ~Decodes({"SEQUENTIAL"})
    BY <1>3, OneClass
  <2> QED
    BY <2>1 DEF CompleteFetch, AnyCondition, Inv, TypeOK, TypeOKFetch
<1> QED
  BY <1>1, <1>3, <1>5, <1>6, RetireStep DEF Classes

LEMMA RecoveryRetires ==
  ASSUME Inv, NEW o \in PMDataOwners, NEW word \in FetchedWords,
         NEW level \in Levels \cup {NoVector}, CompleteRecovery(o, word, level)
  PROVE  StreamStep
<1>1. /\ InterfaceActive /\ clients[o].state = "RECOVERY" /\ EndTransaction
      /\ clients' = [clients EXCEPT ![o] = IdleClient]
      /\ RetireInto(word, level) /\ condition' = condition
  BY DEF CompleteRecovery, Completes
<1>2. Held(o) /\ Active /\ phase = 7
  BY <1>1, CompleteEnds DEF Held
<1>3. Decodes({o}) /\ ~Vectoring
      /\ \A other \in PMDataOwners \ {o} : clients[other].state = "IDLE"
  BY <1>2, OwnTransaction
<1>4. ~Performed'
  BY <1>1, <1>3, IdleClientType DEF Performed, Inv, TypeOK
<1>5. condition' \in BOOLEAN
  BY <1>1 DEF Inv, TypeOK, TypeOKFetch
<1>6. o \in Classes \ {"UNSUPPORTED"}
  BY DEF Classes, PMDataOwners
<1> QED
  BY <1>1, <1>3, <1>4, <1>5, <1>6, RetireStep

LEMMA DataPerforms ==
  ASSUME Inv, NEW o \in PMDataOwners, NEW level \in Levels \cup {NoVector},
         CompleteData(o, level)
  PROVE  StreamStep
<1>1. /\ InterfaceActive /\ clients[o].state = "DATA" /\ EndTransaction
      /\ clients' = [clients EXCEPT ![o] = ClientAfterData(o)]
      /\ condition' \in BOOLEAN
  BY DEF CompleteData, Completes, AnyCondition
<1>2. /\ Held(o) /\ Active /\ phase = 7 /\ program' = program
      /\ ~resetActive /\ resetActive' = resetActive
  BY <1>1, CompleteEnds DEF Held
<1>3. Decodes({o}) /\ ~Vectoring
      /\ \A other \in PMDataOwners \ {o} : clients[other].state = "IDLE"
  BY <1>2, OwnTransaction
<1>4. ~Performed
  BY <1>1, <1>3 DEF Performed
<1>5. CASE NeedsRecovery(o)
  <2>1. UNCHANGED fetchVars /\ clients'[o].state = "RECOVERY"
    BY <1>1, <1>5 DEF CompleteData, ClientAfterData, Inv, TypeOK, Clients
  <2>2. Performed'
    BY <2>1 DEF Performed
  <2>3. opcode # Unknown /\ Stream!IsData
    BY <1>3, StreamClass DEF Stream!IsData, PMDataOwners
  <2>4. Stream!Perform
    <3>1. UNCHANGED <<pc, opcode, vectoring>>
      BY <2>1 DEF fetchVars
    <3>2. UNCHANGED (opcode # Unknown)
      BY <3>1
    <3> QED
      BY <1>1, <1>2, <1>4, <2>2, <2>3, <3>1, <3>2, StreamValues
         DEF Stream!Perform, Stream!MayChangeCondition
  <2> QED
    BY <1>2, <2>4 DEF StreamStep, Stream!Next
<1>6. CASE ~NeedsRecovery(o)
  <2>1. clients' = [clients EXCEPT ![o] = IdleClient] /\ RetireInto(clients[o].cached, level)
    BY <1>1, <1>6 DEF ClientAfterData, CompleteData
  <2>2. ~Performed'
    BY <1>3, <2>1, IdleClientType DEF Performed, Inv, TypeOK
  <2>3. o \in Classes \ {"UNSUPPORTED"} /\ o # "JUMP"
    BY DEF Classes, PMDataOwners
  <2> QED
    BY <1>1, <1>3, <1>4, <2>1, <2>2, <2>3, RetireStep
<1> QED
  BY <1>5, <1>6

LEMMA VectorTaken ==
  ASSUME Inv, NEW word \in FetchedWords, CompleteVectorFetch(word)
  PROVE  StreamStep
<1>1. /\ Vectoring /\ EndTransaction /\ EnterVector(word) /\ UNCHANGED <<condition, clients>>
  BY DEF CompleteVectorFetch
<1>2. program' = program /\ ~resetActive /\ resetActive' = resetActive
  BY <1>1, CompleteEnds
<1>3. pc' = vectoring /\ vectoring # NoVector /\ vectoring' = NoVector
  BY <1>1 DEF EnterVector, Vectoring
<1>4. Performed' <=> Performed
  BY <1>1 DEF Performed
<1>5. Stream!TakeVector
  BY <1>1, <1>2, <1>3, <1>4, StreamValues DEF Stream!TakeVector
<1> QED
  BY <1>2, <1>5 DEF StreamStep, Stream!Next

\* A boundary gives the slot, or the first instruction, and nothing else.
LEMMA IssueIsStreamStep == ASSUME Inv, IssueCycle PROVE StreamStep
<1>1. ASSUME NEW asking, NEW request, EndCycle(asking, request)
      PROVE  program' = program /\ ~resetActive /\ resetActive' = resetActive
  BY <1>1, AdvanceStep DEF EndCycle, Phases
<1>2. ASSUME NEW port \in SetupPorts, IssueFetch(port) PROVE StreamStep
  <2>1. UNCHANGED <<clients, pc, opcode, vectoring, condition, program, resetActive>>
    BY <1>1, <1>2 DEF IssueFetch, SetupMay, Inv
  <2> QED
    BY <2>1, StreamStutter DEF Performed
<1>3. ASSUME NEW port \in SetupPorts, NEW o \in PMDataOwners, NEW address \in DataAddresses,
             NEW write \in BOOLEAN, IssueData(o, address, write, port)
      PROVE  StreamStep
  <2>1. UNCHANGED <<pc, opcode, vectoring, condition, program, resetActive>>
    BY <1>1, <1>3 DEF IssueData, fetchVars
  <2>2. PICK work : clients' = [clients EXCEPT ![o] = work] /\ work.state = "DATA"
    <3>1. \A request, next, lookup : Captured(request, next, lookup).state = "DATA"
      BY DEF Captured
    <3> QED
      BY <1>3, <3>1 DEF IssueData
  <2>3. clients[o].state = "IDLE"
    BY <1>3 DEF IssueData, Executes, Held
  <2>4. Performed' <=> Performed
    BY <2>2, <2>3 DEF Performed, Inv, TypeOK
  <2> QED
    BY <2>1, <2>4, StreamStutter
<1>4. ASSUME NEW port \in SetupPorts, NEW o \in PMDataOwners, PresentHeld(o, port)
      PROVE  StreamStep
  <2>1. UNCHANGED <<clients, pc, opcode, vectoring, condition, program, resetActive>>
    BY <1>1, <1>4 DEF PresentHeld, fetchVars
  <2> QED
    BY <2>1, StreamStutter DEF Performed
<1>5. ASSUME NEW port \in SetupPorts, IdleBoundary(port) PROVE StreamStep
  <2>1. UNCHANGED <<clients, pc, opcode, vectoring, condition, program, resetActive>>
    BY <1>1, <1>5 DEF IdleBoundary, SetupMay, Inv, fetchVars
  <2> QED
    BY <2>1, StreamStutter DEF Performed
<1>6. ASSUME ClosedBoundary PROVE StreamStep
  <2>1. UNCHANGED <<clients, pc, opcode, vectoring, condition, program, resetActive>>
    BY <1>1, <1>6 DEF ClosedBoundary, fetchVars
  <2> QED
    BY <2>1, StreamStutter DEF Performed
<1>7. ASSUME NEW address \in Addresses, Preload(address) PROVE StreamStep
  <2>1. UNCHANGED <<clients, vectoring, condition, program, resetActive>> /\ ~resetActive
    BY <1>1, <1>7 DEF Preload, PreloadAt
  <2>2. /\ opcode = Unknown /\ ~Vectoring /\ pc' = address /\ opcode' = address
        /\ address # Unknown /\ address \in Stream!ProgramAddresses
    BY <1>7, LinearFetchConstants, ProgramBusConstants
       DEF Preload, PreloadAt, Stream!ProgramAddresses
  <2>3. (opcode # Unknown)' = TRUE
    BY <2>2
  <2>4. Performed' <=> Performed
    BY <2>1 DEF Performed
  <2>5. Stream!Preload
    BY <2>1, <2>2, <2>3, <2>4 DEF Stream!Preload, Performed, Vectoring
  <2> QED
    BY <2>1, <2>5 DEF StreamStep, Stream!Next
<1> QED
  BY <1>2, <1>3, <1>4, <1>5, <1>6, <1>7 DEF IssueCycle

\* Pins, phases and RESET.
LEMMA OtherIsStreamStep ==
  ASSUME Inv,
         \/ \E br, halt \in BOOLEAN : SamplePins(br, halt)
         \/ CompleteNothing \/ PassPhase \/ Reset \/ LeaveReset \/ UNCHANGED vars
  PROVE  StreamStep
<1>1. ASSUME NEW br \in BOOLEAN, NEW halt \in BOOLEAN, SamplePins(br, halt)
      PROVE  StreamStep
  <2>1. UNCHANGED <<pc, opcode, vectoring, condition, program, resetActive>>
    BY <1>1, AdvanceStep DEF SamplePins, fetchVars, Phases
  <2>2. EffectiveHaltLow(halt, br) \in BOOLEAN
    BY DEF EffectiveHaltLow
  <2>3. ClientsAgree
    BY <1>1, <2>2, ForceKeepsClients DEF SamplePins, Inv, TypeOK
  <2> QED
    BY <2>1, <2>3, StreamStutter DEF Performed, ClientsAgree
<1>2. ASSUME CompleteNothing PROVE StreamStep
  <2>1. EndTransaction /\ UNCHANGED <<clients, pc, opcode, vectoring, condition>>
    BY <1>2 DEF CompleteNothing, fetchVars
  <2>2. UNCHANGED <<program, resetActive>>
    BY <2>1, CompleteEnds
  <2> QED
    BY <2>1, <2>2, StreamStutter DEF Performed
<1>3. ASSUME PassPhase PROVE StreamStep
  <2>1. UNCHANGED <<clients, pc, opcode, vectoring, condition, program, resetActive>>
    BY <1>3, AdvanceStep DEF PassPhase, fetchVars
  <2> QED
    BY <2>1, StreamStutter DEF Performed
<1>4. ASSUME UNCHANGED vars PROVE StreamStep
  BY <1>4, StreamStutter DEF vars, fetchVars, Performed
<1>5. ASSUME Reset PROVE StreamStep
  <2>1. /\ resetActive' = TRUE /\ pc' = ResetVector /\ opcode' = Unknown
        /\ vectoring' = NoVector /\ condition' \in BOOLEAN /\ program' = program
        /\ clients' = [o \in PMDataOwners |-> IdleClient]
    BY <1>5 DEF Reset, AssertReset, ResetFetch, AnyCondition
  <2>2. ~Performed'
    BY <2>1, IdleClientType DEF Performed
  <2>3. Stream!Reset
    BY <2>1, <2>2 DEF Stream!Reset, Stream!MayChangeCondition, Performed
  <2> QED
    BY <2>1, <2>3 DEF StreamStep, Stream!Next
<1>6. ASSUME LeaveReset PROVE StreamStep
  <2>1. /\ resetActive /\ resetActive' = FALSE
        /\ UNCHANGED <<clients, pc, opcode, vectoring, condition, program>>
    BY <1>6 DEF LeaveReset, ReleaseReset, fetchVars
  <2>2. Performed' <=> Performed
    BY <2>1 DEF Performed
  <2>3. Stream!LeaveReset
    BY <2>1, <2>2 DEF Stream!LeaveReset, Performed
  <2> QED
    BY <2>1, <2>3 DEF StreamStep, Stream!Next
<1> QED
  BY <1>1, <1>2, <1>3, <1>4, <1>5, <1>6

LEMMA NextIsStreamStep == ASSUME Inv, [Next]_vars PROVE StreamStep
<1>1. \/ CompleteNothing
      \/ \E level \in Levels \cup {NoVector} :
           \/ \E o \in PMDataOwners : CompleteData(o, level)
           \/ \E word \in FetchedWords :
                \/ CompleteFetch(word, level)
                \/ \E o \in PMDataOwners : CompleteRecovery(o, word, level)
      \/ \E word \in FetchedWords : CompleteVectorFetch(word)
      \/ IssueCycle
      \/ \E br, halt \in BOOLEAN : SamplePins(br, halt)
      \/ PassPhase \/ Reset \/ LeaveReset \/ UNCHANGED vars
  BY DEF Next, ClockEdge, CompleteCycle
<1> QED
  BY <1>1, DataPerforms, FetchRetires, RecoveryRetires, VectorTaken, IssueIsStreamStep,
     OtherIsStreamStep

\* The machine runs its program: instructions retire in the sequencer's order
\* and each PM-data action is performed exactly once, whatever HALT, BR,
\* interrupts and the cache do to the bus.
THEOREM ImplementsStream == Spec /\ ~SetupWrites => StreamSpec
<1>1. Init => Stream!Init
  BY IdleClientType
     DEF Init, InitPhase, ResetPhaseState, Stream!Init
<1>2. Inv /\ [Next]_vars => [Stream!Next]_<<program, pc, condition, opcode # Unknown, vectoring,
        \E o \in PMDataOwners : clients[o].state = "RECOVERY", resetActive>>
  BY NextIsStreamStep DEF StreamStep, Performed
<1> QED
  BY <1>1, <1>2, SpecInv, PTL DEF Spec, StreamSpec, Stream!Spec

=================================================================================
