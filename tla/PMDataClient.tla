------------------------------ MODULE PMDataClient ------------------------------
(***************************************************************************)
(* The two PM-data clients, rtl/core/                                      *)
(* adsp2100_compute_pm_shared_state_client.sv (Type 5) and                 *)
(* adsp2100_shifter_pm_shared_state_client.sv (Type 13), each with its     *)
(* captured cache word in adsp2100_program_clients_owner_control_slice.sv. *)
(* Their protocol on the PM bus is the same; the arithmetic is not         *)
(* modelled.                                                               *)
(*                                                                         *)
(* A data access takes the PM slot of the cycle in which the next          *)
(* instruction would have been fetched.  The next instruction comes from   *)
(* the cache; when the cache does not hold it, or HALT forces an external  *)
(* fetch, the client spends a second, recovery, cycle to read it.          *)
(***************************************************************************)
EXTENDS OwnerMasks

VARIABLE clients   \* PMDataOwners -> what the client holds between clock edges

\* Nothing pending: pending_q and recovery_q low.
IdleClient ==
  [state |-> "IDLE", request |-> NoTransaction, needsRecovery |-> FALSE,
   next |-> Unknown, cached |-> Unknown]

Clients ==
  [state : {"IDLE", "DATA", "RECOVERY"}, request : Requests \cup {NoTransaction},
   needsRecovery : BOOLEAN, next : MaybeAddress, cached : Values]

\* held_transaction_o.
Held(o) == clients[o].state # "IDLE"

\* Mutant: HALT does not reach the client.
NeverForced(haltLow) == FALSE

\* halt_late_force_request, the client's force_instruction_fetch_i.
ForceRequest(haltLow) ==
  haltMode = "FORCE_FETCH" \/ (HaltRecognized(haltLow) /\ PMDataCycle)

\* The descriptor captured at issue: the operands and the cache's answer of
\* that boundary.
Captured(request, nextAddress, lookup) ==
  [state |-> "DATA", request |-> request,
   needsRecovery |-> haltMode = "FORCE_FETCH" \/ lookup = Unknown,
   next |-> nextAddress, cached |-> lookup]

\* A pending access remembers a forced fetch at whatever edge it appears.
ClientsAfterForce(haltLow) ==
  [o \in PMDataOwners |->
     IF clients[o].state = "DATA" /\ ForceRequest(haltLow)
       THEN [clients[o] EXCEPT !.needsRecovery = TRUE]
       ELSE clients[o]]

\* The access that completes leaves no next instruction behind.
NeedsRecovery(o) == clients[o].needsRecovery \/ ForceRequest(FALSE)

\* Mutant: the recovery fetch is dropped.
ClientAfterDataAlone(o) == IdleClient

\* Mutant: an access that needs a recovery fetch stays pending itself.
ClientAfterDataRepeats(o) == IF NeedsRecovery(o) THEN clients[o] ELSE IdleClient

\* The client after its data access completed.
ClientAfterData(o) ==
  IF NeedsRecovery(o)
    THEN [clients[o] EXCEPT !.state = "RECOVERY", !.request = NoTransaction,
                            !.needsRecovery = FALSE]
    ELSE IdleClient

\* What a held client presents at an open issue boundary: the access again, or
\* the recovery fetch, an instruction read.
HeldRequest(o) ==
  IF clients[o].state = "DATA" THEN clients[o].request
  ELSE [owner |-> o, address |-> clients[o].next, dataAccess |-> FALSE,
        write |-> FALSE, data |-> Unknown]

=============================================================================
