-------------------------------- MODULE DataBus --------------------------------
(***************************************************************************)
(* The native data-memory interface, data_bus.py and                       *)
(* rtl/core/adsp2100_data_bus.sv.  One access is captured, or cleared, at  *)
(* an enabled state-8 boundary.  DMACK is sampled at state 6: a low sample *)
(* extends the access by eight more physical phases, a high one lets it    *)
(* complete at the state 7 that follows.                                   *)
(***************************************************************************)
EXTENDS PhaseSource

CONSTANTS DataRequests,   \* address, direction and write data
          NoAccess        \* active low

ASSUME DataBusConstants == NoAccess \notin DataRequests

VARIABLES access,   \* the captured descriptor, or NoAccess
          stage     \* waiting, acknowledged and response_valid

dataBusVars == <<access, stage>>

\* At most one of the three flags is set.
Stages == {"OPEN", "WAITING", "ACKNOWLEDGED", "COMPLETE"}

TypeOKDataBus ==
  /\ access \in DataRequests \cup {NoAccess}
  /\ stage \in Stages

InProgress == access # NoAccess /\ stage # "COMPLETE"

\* dm_waiting: the architectural state stays 7.
Waiting == InProgress /\ stage = "WAITING"

\* request_ready at an enabled state 8 at which the processor owns the bus.
DataBusReady == access = NoAccess \/ stage = "COMPLETE"

ClearDataBus == access' = NoAccess /\ stage' = "OPEN"

\* That boundary captures a request, or clears what the last one left; an
\* access still in progress ignores it.
IssueAccess(request) ==
  IF DataBusReady THEN access' = request /\ stage' = "OPEN" ELSE UNCHANGED dataBusVars

\* Mutant: an access that waited once never sees a later acknowledgement.
StageStuck(ack) ==
  IF InProgress /\ stage # "WAITING"
    THEN IF ack THEN "ACKNOWLEDGED" ELSE "WAITING"
    ELSE stage

\* An enabled state 6 at which the processor owns the bus.
StageAfterSample(ack) ==
  IF InProgress THEN IF ack THEN "ACKNOWLEDGED" ELSE "WAITING" ELSE stage

\* completion_event at an enabled state 7 at which the processor owns the bus.
AccessCompletes == InProgress /\ stage = "ACKNOWLEDGED"

StageAfterComplete == IF AccessCompletes THEN "COMPLETE" ELSE stage

=============================================================================
