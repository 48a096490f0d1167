---------------------------- MODULE ProgramMemoryClient ----------------------------
(***************************************************************************)
(* A program-memory data instruction, Type 5 or Type 13, with its cache    *)
(* and its place on the shared bus: compute_pm_owner_control and           *)
(* shifter_pm_owner_control, with the forced instruction fetch of          *)
(* compute_pm_halt and shifter_pm_halt as a free input.                    *)
(*                                                                         *)
(* The data access takes the bus cycle of the next instruction's fetch.    *)
(* The next instruction then comes from the cache, in the word it held at  *)
(* issue, or from a recovery fetch in a second cycle.  Program memory is   *)
(* one memory: a data write may change an instruction.                     *)
(***************************************************************************)
EXTENDS AtomicInstructions, PhaseSource

CONSTANTS Programs,       \* a sequence of [instruction, machines, setUps, next]
          Memory,         \* the initial program memory
          ProgramWords,   \* its words
          CacheWords,     \* 16
          NoTransaction,  \* no descriptor on the bus
          NoRecovery,     \* no recovery fetch wanted
          MaxIssues       \* instructions and set-ups of a behaviour

VARIABLES busMode, transaction,   \* the shared bus
          window,      \* what the cache holds
          pending,     \* [prepared, issued, next, missed] of the access in flight
          cached,      \* the next instruction as the cache held it at issue
          recovery,    \* the address a recovery fetch reads
          issues,      \* instructions and set-ups so far
          rewritten,   \* history: addresses data-written since they were fetched
          forced       \* history: an external fetch was asked for during the access

busVars == <<phaseVars, busMode, transaction>>

historyVars == <<rewritten, forced>>

cacheVars == <<window, cached>>

clientVars == <<pending, cached, recovery>>

vars == <<busVars, atomicVars, cacheVars, clientVars, issues, historyVars>>

Bus == INSTANCE ProgramBus WITH Words <- ProgramWords

Cache == INSTANCE FetchWindow WITH Words <- ProgramWords, AddressSpace <- 2 ^ Address

ProgramTypes == {5, 13}

\* A program-memory program is one of the two types, on a machine that has all
\* its registers, known or not.
ASSUME ProgramClientConstants ==
  /\ NoRecovery \notin Addresses \cup {Unknown}
  /\ Memory = [a \in Addresses |-> Memory[a]]
  /\ \A n \in DOMAIN Programs :
       /\ MemoryWord(Programs[n].instruction, ProgramTypes)
       /\ Programs[n].next \subseteq Addresses \cup {Unknown}
       /\ \A m \in Programs[n].machines : WellFormed(m)

Init ==
  /\ InitPhase
  /\ busMode = "IDLE"
  /\ transaction = NoTransaction
  /\ Cache!Init
  /\ \E n \in DOMAIN Programs :
       /\ program = [instruction |-> Programs[n].instruction, setUps |-> Programs[n].setUps,
                     next |-> Programs[n].next]
       /\ machine \in Programs[n].machines
  /\ memory = Memory
  /\ pending = NoPending /\ cached = Unknown /\ recovery = NoRecovery
  /\ issues = 0
  /\ rewritten = {} /\ forced = FALSE

-----------------------------------------------------------------------------
(* The client *)

InFlight == pending # NoPending \/ recovery # NoRecovery

Client == IF program.instruction.type = 5 THEN "TYPE5" ELSE "TYPE13"

PreparedData(m, i) == IF i.type = 5 THEN Type5Prepared(m, i) ELSE Type13Prepared(m, i)

CompletedData(m, p, issued, word) ==
  IF p.instruction.type = 5 THEN Type5Completed(m, p, issued, word)
  ELSE Type13Completed(m, p, issued, word)

LookedUp(address) == IF Known(address) THEN Cache!Lookup(address) ELSE Unknown

\* Mutant: an access that was issued with a cache hit keeps it.
ForcedAtIssueOnly(force) == pending

\* A forced fetch asked for during the access is remembered.  The code latches
\* it at any edge; as only the completion looks, the inputs of states 3, 7 and 8
\* stand for those of the others.
PendingAfterForce(force) ==
  IF pending # NoPending /\ force THEN [pending EXCEPT !.missed = TRUE] ELSE pending

ForceSeen(force) == forced' = (forced \/ (pending # NoPending /\ force))

DataRequest(p) ==
  [owner |-> Client, address |-> p.address, dataAccess |-> TRUE,
   write |-> p.instruction.write, data |-> p.data]

FetchRequest(owner, address) ==
  [owner |-> owner, address |-> address, dataAccess |-> FALSE, write |-> FALSE,
   data |-> Unknown]

\* What the client asks the bus for at an issue boundary.
ClientRequest ==
  IF pending # NoPending THEN DataRequest(pending.prepared) ELSE FetchRequest(Client, recovery)

\* next_instruction at the edge that ends the instruction.
NextInstruction == IF recovery # NoRecovery THEN WordAt(memory, recovery) ELSE cached

DeliveredFrom == IF recovery # NoRecovery THEN recovery ELSE pending.next

\* Mutant: the recovery fetch is filed under the address after the one it read.
FillOfNext(address, word) ==
  IF Known(address) THEN Cache!Fill((address + 1) % 2 ^ Address, word) ELSE Cache!Forget

FillOf(address, word) == IF Known(address) THEN Cache!Fill(address, word) ELSE Cache!Forget

Filled(address) ==
  /\ FillOf(address, WordAt(memory, address))
  /\ rewritten' = rewritten \ {address}
  /\ UNCHANGED forced

-----------------------------------------------------------------------------
(* The clock edges *)

\* State 3: BR is sampled.
SampleBusRequest ==
  /\ AdvanceFrom(3)
  /\ \E brLow, force \in BOOLEAN :
       /\ busMode' = Bus!BusModeAfterSample(brLow)
       /\ pending' = PendingAfterForce(force)
       /\ ForceSeen(force)
  /\ UNCHANGED <<transaction, program, machine, memory, window, cached, recovery, issues,
                 rewritten>>

Completes(owners) == AdvanceFrom(7) /\ Bus!InterfaceActive /\ transaction.owner \in owners

\* State 7: the data access commits, and with it the instruction unless a
\* recovery fetch is still wanted.
CompleteData ==
  /\ Completes({Client})
  /\ pending # NoPending
  /\ \E force \in BOOLEAN :
       /\ recovery' = IF PendingAfterForce(force).missed THEN pending.next ELSE NoRecovery
       /\ ForceSeen(force)
  /\ LET p == pending.prepared
         i == p.instruction
     IN /\ machine' = CompletedData(machine, p, pending.issued,
                                    IF i.write THEN Unknown ELSE WordAt(memory, p.address))
        /\ IF i.write
             THEN /\ memory' = MemoryWritten(memory, p.address, p.data)
                  /\ rewritten' = rewritten \cup
                       (IF Known(p.address) THEN {p.address} ELSE Addresses)
             ELSE UNCHANGED <<memory, rewritten>>
  /\ pending' = NoPending
  /\ cached' = Unknown
  /\ UNCHANGED <<busMode, transaction, program, window, issues>>

\* State 7: the recovery fetch reads the next instruction and fills the cache.
CompleteRecovery ==
  /\ Completes({Client})
  /\ recovery # NoRecovery
  /\ Filled(recovery)
  /\ recovery' = NoRecovery
  /\ UNCHANGED <<busMode, transaction, program, machine, memory, pending, cached, issues>>

\* State 7: an instruction fetch of the sequencer fills the cache.
CompleteFetch ==
  /\ Completes({"FETCH"})
  /\ Filled(transaction.address)
  /\ UNCHANGED <<busMode, transaction, program, machine, memory, clientVars, issues>>

\* State 7 with a transaction of the other client, or none.
CompleteNothing ==
  /\ AdvanceFrom(7)
  /\ Bus!InterfaceActive => transaction.owner \notin {"FETCH", Client}
  /\ UNCHANGED <<busMode, transaction, program, machine, memory, window, clientVars, issues,
                 historyVars>>

IssueBoundary == AdvanceFrom(8) /\ ~Bus!NormalGranted /\ ~Bus!BusInhibitsIssue

\* The other owners may ask for the same slot; a slot asked for twice is
\* given to nobody, and whoever still holds a request asks again.
Slot(mine, request) ==
  \E others \in SUBSET (Bus!Owners \ {Client}), address \in Addresses \cup {Unknown} :
    LET asking == others \cup mine
    IN /\ transaction' = Bus!TransactionAfterIssue(asking,
                           IF mine # {} THEN request
                           ELSE FetchRequest(IF "FETCH" \in others THEN "FETCH"
                                             ELSE CHOOSE o \in Bus!Owners : o # Client,
                                             address), FALSE)
       /\ busMode' = Bus!BusModeAfterIssue

Counted == issues < MaxIssues /\ issues' = issues + 1

\* State 8: the operands and the cache's answer are captured together.
Issue ==
  /\ IssueBoundary
  /\ ~InFlight
  /\ MemorySupported(program.instruction)
  /\ Counted
  /\ \E next \in program.next, force \in BOOLEAN :
       LET missed == force \/ LookedUp(next) = Unknown
           p == PreparedData(machine, program.instruction)
       IN /\ pending' = [prepared |-> p, issued |-> machine, next |-> next, missed |-> missed]
          /\ forced' = force
          /\ cached' = IF missed THEN Unknown ELSE LookedUp(next)
          /\ Slot({Client}, DataRequest(p))
  /\ UNCHANGED <<program, machine, memory, window, recovery, rewritten>>

\* State 8: a client in flight asks again, for its data or its recovery.
Ask ==
  /\ IssueBoundary
  /\ InFlight
  /\ Slot({Client}, ClientRequest)
  /\ \E force \in BOOLEAN :
       /\ pending' = PendingAfterForce(force)
       /\ ForceSeen(force)
  /\ UNCHANGED <<program, machine, memory, window, cached, recovery, issues, rewritten>>

SetUp ==
  /\ IssueBoundary
  /\ ~InFlight
  /\ Counted
  /\ \E s \in program.setUps :
       /\ s[1] \in SetUpReach(program.instruction.type)
       /\ machine' = SetRegister(machine, s[1], s[2])
  /\ Slot({}, NoTransaction)
  /\ UNCHANGED <<program, memory, window, clientVars, historyVars>>

\* State 8 with no control for the client, or a refused one.
IssueNothing ==
  /\ IssueBoundary
  /\ ~InFlight
  /\ Slot({}, NoTransaction)
  /\ UNCHANGED <<program, machine, memory, window, clientVars, issues, historyVars>>

\* State 8 while the bus is granted, requested or not yet taken back.
IssueHeldOff ==
  /\ AdvanceFrom(8)
  /\ Bus!NormalGranted \/ Bus!BusInhibitsIssue
  /\ transaction' = Bus!TransactionAfterIssue({}, NoTransaction, TRUE)
  /\ busMode' = Bus!BusModeAfterIssue
  /\ UNCHANGED <<program, machine, memory, window, clientVars, issues, historyVars>>

OtherPhases ==
  /\ \E p \in Phases \ {3, 7, 8} : AdvanceFrom(p)
  /\ UNCHANGED <<busMode, transaction, program, machine, memory, window, clientVars, issues,
                 historyVars>>

Reset ==
  /\ AssertReset
  /\ busMode' = "IDLE"
  /\ transaction' = NoTransaction
  /\ machine' = ResetMachine(machine)
  /\ Cache!Forget
  /\ pending' = NoPending /\ cached' = Unknown /\ recovery' = NoRecovery
  /\ UNCHANGED <<program, memory, issues, historyVars>>

Release ==
  /\ ReleaseReset
  /\ UNCHANGED <<busMode, transaction, program, machine, memory, window, clientVars, issues,
                 historyVars>>

ClockEdge ==
  \/ SampleBusRequest
  \/ CompleteData \/ CompleteRecovery \/ CompleteFetch \/ CompleteNothing
  \/ Issue \/ Ask \/ SetUp \/ IssueNothing \/ IssueHeldOff \/ OtherPhases

Next == ClockEdge \/ Reset \/ Release

Spec == Init /\ [][Next]_vars

-----------------------------------------------------------------------------
(* Properties *)

\* The instruction that a finished PM-data instruction hands on is the word
\* program memory now holds at the next address.  A cached word may be stale
\* only where a data write changed the memory after the fetch, and never when
\* an external fetch was forced during the access.
DeliveredWord ==
  [][InFlight /\ ~InFlight' /\ ~resetActive' /\ NextInstruction # Unknown =>
       \/ NextInstruction = memory'[DeliveredFrom]
       \/ DeliveredFrom \in rewritten' /\ ~forced']_vars

=============================================================================
