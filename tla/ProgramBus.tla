------------------------------- MODULE ProgramBus -------------------------------
(***************************************************************************)
(* The native program-memory interface: rtl/core/adsp2100_program_bus.sv   *)
(* inside adsp2100_program_owner_bus.sv.                                   *)
(*                                                                         *)
(* One transaction descriptor is captured, or cleared, at each enabled     *)
(* state-8 boundary and completes at state 7 of the next cycle.  Three     *)
(* owners may ask for the slot: instruction fetch, and the Type 5 and      *)
(* Type 13 PM-data clients.  A slot asked for by more than one is given to *)
(* none.                                                                   *)
(***************************************************************************)
EXTENDS BusControl

CONSTANTS Addresses,     \* 14-bit program addresses
          Words,         \* 24-bit program words
          Unknown,       \* a value whose validity sidecar is low
          NoTransaction  \* active_q low

Owners == {"FETCH", "TYPE5", "TYPE13"}

PMDataOwners == {"TYPE5", "TYPE13"}

MaybeAddress == Addresses \cup {Unknown}

Values == Words \cup {Unknown}

\* The fetch port ties PMDA and the write strobe off; a PM-data client drives
\* both, and reads an instruction through the same port when it recovers.
FetchRequests ==
  [owner : {"FETCH"}, address : MaybeAddress, dataAccess : {FALSE},
   write : {FALSE}, data : {Unknown}]

ClientRequests ==
  [owner : PMDataOwners, address : MaybeAddress, dataAccess : BOOLEAN,
   write : BOOLEAN, data : Values]

Requests == FetchRequests \cup ClientRequests

ASSUME ProgramBusConstants ==
  /\ Unknown \notin Words \cup Addresses
  /\ NoTransaction \notin Requests

VARIABLE transaction   \* active_q with the captured descriptor and owner_q

Active == transaction # NoTransaction

TypeOKTransaction == transaction \in Requests \cup {NoTransaction}

\* Mutant: requests are not gated by the issue inhibit.
IssueUngated(asking, request, inhibited) ==
  IF NormalGranted THEN transaction
  ELSE IF asking = {request.owner} THEN request
  ELSE NoTransaction

\* The descriptor after an enabled state-8 boundary at which the owners in
\* asking each present a request, request being what one of them presents.
TransactionAfterIssue(asking, request, inhibited) ==
  IF NormalGranted THEN transaction
  ELSE IF ~inhibited /\ asking = {request.owner} THEN request
  ELSE NoTransaction

\* interface_active outside RESET: a transaction the processor still owns the
\* bus for.  It completes at an enabled state 7.
InterfaceActive == Active /\ ~NormalGranted /\ ~resetActive

(***************************************************************************)
(* The pins: PMA, PMDA and PMS while a transaction is on the bus, and the  *)
(* two strobes and the write data in the phases that carry them.           *)
(***************************************************************************)
Drives(brLow) == Active /\ ~BusRelinquished(brLow) /\ ~resetActive

ReadStrobe(brLow) == Drives(brLow) /\ ~transaction.write /\ phase \in 4..7

WriteStrobe(brLow) == Drives(brLow) /\ transaction.write /\ phase \in 4..7

DrivesData(brLow) == Drives(brLow) /\ transaction.write /\ phase \in 5..8

(***************************************************************************)
(* What every owner of the bus, with HALT or without it, has to keep.      *)
(***************************************************************************)

\* When BG is asserted by the sequencer the processor has no transaction in
\* flight: a request sampled during a cycle waits for that cycle's state 8
\* (the delay in adsp2100_bus_control, the issue gate in
\* program_owner_bus_control).
GrantedBusIsIdle == NormalGranted => ~Active

=============================================================================
