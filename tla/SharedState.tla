----------------------------- MODULE SharedState -----------------------------
(***************************************************************************)
(* Two controllers on one state database and one set of devices: the one   *)
(* in charge, and a companion. config/bedehus-python.service.example and   *)
(* config/bedehus-rust.service.example run in the same directory with the  *)
(* same config.json, hence the same state_db.path; the Rust service runs   *)
(* with --dry-run. The cron deployment serialises its own runs by flock,   *)
(* but nothing serialises two deployments.                                 *)
(*                                                                         *)
(* Each controller is an instance of HeatCycle with its own program        *)
(* counter and locals; rows, devices, bookings and failures are shared.    *)
(* Beside both, somebody may run the one-shot on and off tools, each one   *)
(* command to the relay board at any moment: between a status query and    *)
(* the pulse train that it asks for, or in the middle of the train.        *)
(***************************************************************************)
EXTENDS Naturals, Sequences

CONSTANTS
    Impl,             \* the controller in charge
    CompanionImpl, CompanionDryRun,
    SR201Enabled, GlamoxEnabled, MillEnabled, Watchdog, CanFail,
    MaxTools          \* bound: runs of the tools

ASSUME ToolAssumption == MaxTools \in Nat

VARIABLES
    pc, heatOn, lastState, relayStatus, pulse,
    pc2, heatOn2, lastState2, relayStatus2, pulse2,
    calendarCache, relayState, heatZoneState, disk,
    booked, relay, glamox, mill, down, faulted,
    tools             \* how often a tool was run

Main == INSTANCE HeatCycle WITH DryRun <- FALSE
Companion == INSTANCE HeatCycle WITH
    Impl <- CompanionImpl, DryRun <- CompanionDryRun,
    pc <- pc2, heatOn <- heatOn2, lastState <- lastState2,
    relayStatus <- relayStatus2, pulse <- pulse2

mainVars == <<pc, heatOn, lastState, relayStatus, pulse>>
companionVars == <<pc2, heatOn2, lastState2, relayStatus2, pulse2>>
sharedVars == <<calendarCache, relayState, heatZoneState, disk,
                booked, relay, glamox, mill, down, faulted>>
vars == <<mainVars, companionVars, sharedVars, tools>>

Init == Main!Init /\ Companion!Init /\ tools = 0

MainStep == (Main!Cycle \/ Main!Crash \/ Main!Reload) /\ UNCHANGED <<companionVars, tools>>
CompanionStep == (Companion!Cycle \/ Companion!Crash \/ Companion!Reload) /\ UNCHANGED <<mainVars, tools>>
WorldStep == Main!World /\ UNCHANGED <<mainVars, companionVars, tools>>

\* on.py, off.py, cmd/on, cmd/off: neither rows nor calendars are looked at.
Tool(command) ==
    /\ tools < MaxTools /\ tools' = tools + 1
    /\ relay' = command
    /\ UNCHANGED <<mainVars, companionVars, calendarCache, relayState, heatZoneState,
                   disk, booked, glamox, mill, down, faulted>>

Next ==
    \/ MainStep
    \/ CompanionStep
    \/ WorldStep
    \/ \E command \in {"off", "on"} : Tool(command)

\* Both services keep cycling, and outages end.
Spec == /\ Init /\ [][Next]_vars
        /\ WF_vars(Main!Cycle /\ UNCHANGED <<companionVars, tools>>)
        /\ WF_vars(Companion!Cycle /\ UNCHANGED <<mainVars, tools>>)
        /\ \A p \in CanFail : WF_vars(Main!Repair(p) /\ UNCHANGED <<companionVars, tools>>)

-----------------------------------------------------------------------------
\* Unless by hand, the relay is moved only by the controller in charge, in a
\* cycle that saw it in the wrong position: a dry run never touches it.
RelayMovedByMain ==
    [][relay' # relay /\ tools' = tools => pc = "pulse" /\ relayStatus # heatOn]_vars

\* Neither a dry-run companion nor the tools keep the relay from settling at
\* the decision: it is compared with the board, not with the shared row, in
\* every cycle, so a command that fell into a pulse train is made up for
\* (go-bedehus/main.go:361-404).
RelayConverges ==
    \A h \in {"off", "on"} : (<>[](booked["storsalen"] = h)) => (<>[](relay = h))
=============================================================================
