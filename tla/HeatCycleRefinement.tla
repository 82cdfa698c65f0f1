------------------------- MODULE HeatCycleRefinement -------------------------
(***************************************************************************)
(* The cycle implements TransitionDelivery, twice: heat_zone_state drives  *)
(* Mill, and where there is no relay board, relay_state drives Glamox.     *)
(* Delivery is at most once; where the database, the thermostat and the    *)
(* host are reliable, it is exactly once.                                  *)
(***************************************************************************)
EXTENDS HeatCycle

MillDelivery == INSTANCE TransitionDelivery WITH
    Lossy <- TRUE,
    row <- heatZoneState,
    owed <- IF pc = "mill" THEN heatOn ELSE "nothing",
    setpoint <- mill

GlamoxDelivery == INSTANCE TransitionDelivery WITH
    Lossy <- TRUE,
    row <- relayState,
    owed <- IF pc = "glamox" THEN heatOn ELSE "nothing",
    setpoint <- glamox

\* Mill is commanded at most once per recorded transition of the prayer room,
\* with the recorded value and before the next one is recorded, whatever
\* fails, hangs or is killed (check_update_pray).
MillAtMostOnce == MillDelivery!Spec

\* The same of Glamox and relay_state where sr201.enabled is false
\* (check_relay_state with update_storsalen_glamox).
GlamoxAtMostOnce == GlamoxDelivery!Spec

SureMillDelivery == INSTANCE TransitionDelivery WITH
    Lossy <- FALSE,
    row <- heatZoneState,
    owed <- IF pc = "mill" THEN heatOn ELSE "nothing",
    setpoint <- mill

SureGlamoxDelivery == INSTANCE TransitionDelivery WITH
    Lossy <- FALSE,
    row <- relayState,
    owed <- IF pc = "glamox" THEN heatOn ELSE "nothing",
    setpoint <- glamox

\* Where neither the database nor Mill nor the host can fail, every recorded
\* transition reaches Mill: no outage of Google, of the relay board or of
\* Glamox comes between the row and the command (check_update_pray).
MillExactlyOnce == SureMillDelivery!Spec

\* The same of Glamox without a relay board, where the database, Glamox and
\* the host are reliable.
GlamoxExactlyOnce == SureGlamoxDelivery!Spec
=============================================================================
