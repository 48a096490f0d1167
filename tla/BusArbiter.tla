------------------------------- MODULE BusArbiter -------------------------------
(***************************************************************************)
(* The promise of the BR/BG handshake, without its five control states:    *)
(* the bus-request pin is sampled once per processor cycle, and the bus    *)
(* changes hands exactly when two consecutive samples agree.  A single     *)
(* stray sample never moves the bus in either direction; only RESET        *)
(* returns the bus to the processor without asking.                        *)
(***************************************************************************)
VARIABLES granted,    \* the external master owns the bus (BG asserted)
          requested,  \* the last sample of BR was "asserted"
          pin,        \* BR is asserted
          held        \* RESET is being held

arbiterVars == <<granted, requested, pin, held>>

TypeOK ==
  /\ granted \in BOOLEAN
  /\ requested \in BOOLEAN
  /\ pin \in BOOLEAN
  /\ held \in BOOLEAN

Init ==
  /\ granted = FALSE
  /\ requested = FALSE
  /\ pin \in BOOLEAN
  /\ held = TRUE

\* One state-3 sample of BR.
Sample ==
  /\ ~held
  /\ requested' = pin
  /\ granted' = IF pin = requested THEN pin ELSE granted
  /\ UNCHANGED <<pin, held>>

Reset ==
  /\ held' = TRUE
  /\ granted' = FALSE
  /\ requested' = FALSE
  /\ UNCHANGED pin

LeaveReset ==
  /\ held
  /\ held' = FALSE
  /\ UNCHANGED <<granted, requested, pin>>

MovePin ==
  /\ pin' = ~pin
  /\ UNCHANGED <<granted, requested, held>>

Next == Sample \/ Reset \/ LeaveReset \/ MovePin

Spec == Init /\ [][Next]_arbiterVars

=============================================================================
