------------------------------ MODULE MCBridge ------------------------------
(* Small instances of CoredyBridge for TLC. *)
EXTENDS CoredyBridge, TLC

(* The fault and status tiles: two DPs, two attributes, one of them fed by
   both.  DP17: no fault, cliff, no_dust.  DP101: running, charging. *)
FaultDumpOrder == <<DP_ERROR, DP_STATUS>>
FaultValues == (DP_ERROR :> {0, 1}) @@ (DP_STATUS :> {2, 5})
FaultBoot == (DP_ERROR :> 1) @@ (DP_STATUS :> 5)
FaultAttrs == {"hardwareFault", "operatingState"}

(* A settable tile: suction, with a value the table does not decode. *)
SuctionDumpOrder == <<DP_FAN_SPEED>>
SuctionValues == DP_FAN_SPEED :> {1, 2}
SuctionBoot == DP_FAN_SPEED :> 1
SuctionAttrs == {"suctionLevel"}
SuctionTaps == {SetEnum(DP_FAN_SPEED, "max")}

(* The tile, or Find Me. *)
SuctionOrLocate == SuctionTaps \cup {Locate}

NoTaps == {}

(* With stored credentials STDK connects; a connected bridge falls back to
   "disconnected". *)
BootMoves == {<<"BOOT", "INIT">>, <<"INIT", "DISCONNECTED">>,
              <<"INIT", "CONNECTED">>, <<"DISCONNECTED", "CONNECTED">>,
              <<"CONNECTED", "DISCONNECTED">>}

(* A network reset: onboarding runs again before the next connection. *)
ResetMoves == {<<"CONNECTED", "REINIT">>, <<"REINIT", "READY">>, <<"READY", "CONNECTED">>}

(* The first connection succeeds at once; then a lost session or a reset. *)
FaultMoves == (BootMoves \ {<<"INIT", "DISCONNECTED">>}) \cup ResetMoves

(* An action constraint: the app taps a hydrated bridge with nothing under
   way, so that what goes wrong then is not a race with the hydration. *)
TapsWhenQuiet == budget'.taps # budget.taps => Quiet
=============================================================================
