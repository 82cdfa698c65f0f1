------------------------------ MODULE HeatCycle ------------------------------
(***************************************************************************)
(* One heating controller of the church hall: the poll cycle that every    *)
(* implementation runs (main.py and systemd_main.py, go-bedehus/main.go,   *)
(* rust-bedehus/src/controller.rs), from the Storsalen calendar to the     *)
(* Mill heater of the prayer room, one action per call that can fail, that *)
(* another process can interleave with, or after which a SIGKILL leaves a  *)
(* different world.                                                        *)
(*                                                                         *)
(* Impl selects the implementation: all three run the same steps, and      *)
(* differ in what an error does to the rest of the cycle.                  *)
(***************************************************************************)
EXTENDS Naturals, Sequences

CONSTANTS
    Impl,           \* "python", "go" or "rust"
    SR201Enabled,   \* cfg.sr201.enabled
    GlamoxEnabled,  \* cfg.glamox.enabled
    MillEnabled,    \* cfg.mill.enabled
    DryRun,         \* --dry-run of the Rust binary
    Watchdog,       \* started under "timeout -s9 150" (the cron deployment)
    CanFail         \* the parties whose calls may fail

Parties == {"calendar", "db", "sr201", "glamox", "mill", "host"}
Rooms == {"storsalen", "pray"}
Heat == {"off", "on"}

ASSUME ConfigAssumption ==
    /\ Impl \in {"python", "go", "rust"}
    /\ {SR201Enabled, GlamoxEnabled, MillEnabled, DryRun, Watchdog} \subseteq BOOLEAN
    /\ DryRun => Impl = "rust"
    /\ CanFail \subseteq Parties

VARIABLES
    \* the running cycle: where it is, and the locals it carries
    pc, heatOn, lastState, relayStatus, pulse,
    \* config/relay_state.db as the controller's connection sees it, and as it
    \* is committed; "none" is a row that does not exist
    calendarCache, relayState, heatZoneState, disk,
    \* the world: bookings in the look-ahead window, and the devices; a
    \* thermostat at "other" has never been set by a controller
    booked, relay, glamox, mill,
    \* parties that are unreliable now, and those that have failed a call
    down, faulted

cycleVars == <<pc, heatOn, lastState, relayStatus, pulse>>
dbVars == <<calendarCache, relayState, heatZoneState, disk>>
deviceVars == <<relay, glamox, mill>>
envVars == <<booked, down, faulted>>
vars == <<cycleVars, dbVars, deviceVars, envVars>>

Steps == {"calStorsalen", "readRelay", "status", "saveRelay", "pulse",
          "glamox", "calPray", "readZone", "saveZone", "mill"}

\* The relay commands of one switching operation, in the order they are
\* sent: "on" closes the contact ("1R"), "off" opens it ("2R").
Pulses(h) == IF h = "on" THEN <<"on", "off", "on">>
                         ELSE <<"on", "off", "on", "off">>

Init ==
    /\ pc = "idle" /\ heatOn = "off" /\ lastState = "off" /\ relayStatus = "off"
    /\ pulse = 0
    /\ calendarCache = [r \in Rooms |-> "none"]
    /\ relayState = "none" /\ heatZoneState = "none"
    /\ disk = [calendar |-> calendarCache, relay |-> "none", zone |-> "none"]
    /\ booked \in [Rooms -> Heat]
    /\ relay \in Heat /\ glamox = "other" /\ mill = "other"
    /\ down = CanFail /\ faulted = {}

-----------------------------------------------------------------------------
(* Control flow shared by the steps.                                       *)

\* Slip: no default for a row that does not exist.
StoredUnchecked(row) == row

\* A row that does not exist reads as "off" (False).
Stored(row) == IF row = "none" THEN "off" ELSE row

\* The cycle is over, by its last step, an error or a kill: locals are gone.
Leave(place) ==
    /\ pc' = place
    /\ heatOn' = "off" /\ lastState' = "off" /\ relayStatus' = "off" /\ pulse' = 0

EndCycle == Leave("idle")

Goto(step) == pc' = step /\ UNCHANGED <<heatOn, lastState, relayStatus, pulse>>

\* From here on the prayer room: the Storsalen locals go out of scope.
ToPray == Leave("calPray")

Works == UNCHANGED faulted
Fails(p) == p \in down /\ faulted' = faulted \cup {p}

\* Slip: every implementation gives up on the first error.
EveryErrorEndsCycle == TRUE

\* An error of the relay board or of the state DB ends a Python or a Rust
\* cycle; Go logs it.
ErrorEndsCycle == Impl # "go"

\* The Python controller runs once from cron (main.py), or as a daemon.
OneShot == Impl = "python" /\ Watchdog
Daemon == Impl = "python" /\ ~Watchdog

\* Go and Rust write in autocommit mode. In Python an INSERT may run and only
\* its commit fail: the row stays pending until another commit on the same
\* connection brings it in, or the connection is gone and with it the row.
Commit == disk' = [calendar |-> calendarCache', relay |-> relayState',
                   zone |-> heatZoneState']
RollBack ==
    /\ calendarCache' = disk.calendar
    /\ relayState' = disk.relay /\ heatZoneState' = disk.zone
    /\ UNCHANGED disk

\* An error ends the cycle. main.py leaves its `with conn` and rolls back: an
\* unsaved answer of Google's, for what else is pending ends the cycle itself.
Raise ==
    /\ EndCycle
    /\ calendarCache' = IF OneShot THEN disk.calendar ELSE calendarCache
    /\ UNCHANGED <<relayState, heatZoneState, disk>>

Onward(step) == step /\ UNCHANGED dbVars

-----------------------------------------------------------------------------
(* Calendars.                                                              *)

Begin ==
    /\ pc = "idle"
    /\ Goto("calStorsalen")
    /\ Works /\ UNCHANGED <<dbVars, deviceVars, booked, down>>

CalendarStep(room) == IF room = "storsalen" THEN "calStorsalen" ELSE "calPray"

\* process_events: any event in the window means heat.
Decide(room, answer) ==
    IF room = "pray" /\ ~MillEnabled
    THEN EndCycle
    ELSE /\ heatOn' = answer
         /\ pc' = IF room = "storsalen" THEN "readRelay" ELSE "readZone"
         /\ UNCHANGED <<lastState, relayStatus, pulse>>

\* Slip: a failed fetch counts as an empty calendar, cache or not.
FallbackToEmpty(room) == Onward(Decide(room, "off"))

\* What a failed fetch falls back to: the cached answer, else the error
\* (Python, Go) or "no upcoming events" (Rust).
Fallback(room) ==
    IF calendarCache[room] # "none" THEN Onward(Decide(room, calendarCache[room]))
    ELSE IF Impl = "rust" THEN Onward(Decide(room, "off"))
    ELSE Raise

FetchCalendar(room) ==
    /\ pc = CalendarStep(room)
    /\ calendarCache' = [calendarCache EXCEPT ![room] = booked[room]]
    /\ UNCHANGED <<relayState, heatZoneState>> /\ Commit
    /\ Decide(room, booked[room])
    /\ Works /\ UNCHANGED <<deviceVars, booked, down>>

\* The calendar answers, but the answer cannot be saved. Python then takes it
\* for a failed fetch, and falls back to the rows it sees: the old one, or, if
\* only the commit failed, the new one. If the cycle ends here, without error,
\* main.py commits it after all.
FetchUnsaved(room) ==
    /\ pc = CalendarStep(room)
    /\ Fails("db")
    /\ \/ Impl = "go" /\ Onward(Decide(room, booked[room]))
       \/ Impl # "go" /\ Raise
       \/ Impl = "python" /\ Fallback(room)
       \/ /\ Impl = "python" /\ Decide(room, booked[room])
          /\ calendarCache' = [calendarCache EXCEPT ![room] = booked[room]]
          /\ UNCHANGED <<relayState, heatZoneState>>
          /\ IF OneShot /\ pc' = "idle" THEN Commit ELSE UNCHANGED disk
    /\ UNCHANGED <<deviceVars, booked, down>>

FetchFails(room) ==
    /\ pc = CalendarStep(room)
    /\ \/ Fails("calendar") /\ Fallback(room)
       \/ /\ {"calendar", "db"} \subseteq down
          /\ faulted' = faulted \cup {"calendar", "db"}
          /\ Raise
    /\ UNCHANGED <<deviceVars, booked, down>>

-----------------------------------------------------------------------------
(* Storsalen: relay and Glamox (check_relay_state, update_storsalen_glamox) *)

ReadRelayState ==
    /\ pc = "readRelay"
    /\ LET onward == IF SR201Enabled THEN "status" ELSE "saveRelay" IN
       \/ /\ Works
          /\ lastState' = Stored(relayState)
          /\ pc' = onward /\ UNCHANGED <<heatOn, relayStatus, pulse, dbVars>>
       \/ /\ Fails("db")
          /\ IF ErrorEndsCycle THEN Raise ELSE Onward(Goto(onward))
    /\ UNCHANGED <<deviceVars, booked, down>>

ReadRelayStatus ==
    /\ pc = "status"
    /\ \/ /\ Works
          /\ relayStatus' = relay
          /\ pc' = "saveRelay" /\ UNCHANGED <<heatOn, lastState, pulse, dbVars>>
       \/ /\ Fails("sr201")
          /\ IF ErrorEndsCycle THEN Raise ELSE Onward(ToPray)
    /\ UNCHANGED <<deviceVars, booked, down>>

\* Slip: the stored decision decides, not the state read from the board.
ActOnStoredDecision ==
    IF heatOn = lastState THEN ToPray
    ELSE IF SR201Enabled /\ ~DryRun
         THEN pc' = "pulse" /\ pulse' = 1 /\ UNCHANGED <<heatOn, lastState, relayStatus>>
         ELSE Goto("glamox")

\* Slip: the dry run is forgotten.
ActOnDecisionAlways ==
    IF SR201Enabled
    THEN IF heatOn = relayStatus THEN ToPray
         ELSE pc' = "pulse" /\ pulse' = 1 /\ UNCHANGED <<heatOn, lastState, relayStatus>>
    ELSE IF heatOn = lastState THEN ToPray ELSE Goto("glamox")

\* Slip: "already off" returns from the cycle, not from the function.
ActOnDecisionOrReturn ==
    IF SR201Enabled
    THEN IF heatOn = relayStatus THEN EndCycle
         ELSE pc' = "pulse" /\ pulse' = 1 /\ UNCHANGED <<heatOn, lastState, relayStatus>>
    ELSE IF heatOn = lastState THEN EndCycle ELSE Goto("glamox")

\* After the row is written: switch, tell Glamox, or go on to the prayer room.
ActOnDecision ==
    IF SR201Enabled
    THEN IF heatOn = relayStatus THEN ToPray
         ELSE IF DryRun THEN Goto("glamox")
         ELSE pc' = "pulse" /\ pulse' = 1 /\ UNCHANGED <<heatOn, lastState, relayStatus>>
    ELSE IF heatOn = lastState THEN ToPray ELSE Goto("glamox")

SaveRelayState ==
    /\ pc = "saveRelay"
    /\ \/ /\ Works /\ relayState' = heatOn /\ ActOnDecision
          /\ UNCHANGED <<calendarCache, heatZoneState>> /\ Commit
       \/ /\ Fails("db")
          /\ IF ErrorEndsCycle THEN Raise ELSE Onward(ActOnDecision)
       \/ /\ Fails("db") /\ Daemon
          /\ relayState' = heatOn /\ EndCycle
          /\ UNCHANGED <<calendarCache, heatZoneState, disk>>
    /\ UNCHANGED <<deviceVars, booked, down>>

Command == Pulses(heatOn)[pulse]

Pulse ==
    /\ pc = "pulse"
    /\ Works
    /\ relay' = Command
    /\ IF pulse < Len(Pulses(heatOn))
       THEN pulse' = pulse + 1 /\ UNCHANGED <<pc, heatOn, lastState, relayStatus>>
       ELSE Goto("glamox")
    /\ UNCHANGED <<dbVars, glamox, mill, booked, down>>

\* No reply: the command may have reached the board or not.
PulseFails ==
    /\ pc = "pulse"
    /\ Fails("sr201")
    /\ relay' \in {relay, Command}
    /\ IF ErrorEndsCycle THEN EndCycle ELSE ToPray
    /\ UNCHANGED <<dbVars, glamox, mill, booked, down>>

\* Slip: the target is the on-temperature both ways.
UpdateGlamoxToOn ==
    /\ pc = "glamox"
    /\ Works
    /\ glamox' = IF GlamoxEnabled /\ Impl # "rust" THEN "on" ELSE glamox
    /\ ToPray
    /\ UNCHANGED <<dbVars, relay, mill, booked, down>>

UpdateGlamox ==
    /\ pc = "glamox"
    /\ Works
    /\ glamox' = IF GlamoxEnabled /\ Impl # "rust" THEN heatOn ELSE glamox
    /\ ToPray
    /\ UNCHANGED <<dbVars, relay, mill, booked, down>>

\* A request error is printed and forgotten; an unknown room is a RuntimeError
\* that ends a Python cycle.
GlamoxFails ==
    /\ pc = "glamox" /\ GlamoxEnabled /\ Impl # "rust"
    /\ Fails("glamox")
    /\ \/ glamox' \in {glamox, heatOn} /\ ToPray
       \/ Impl = "python" /\ UNCHANGED glamox /\ EndCycle
    /\ UNCHANGED <<dbVars, relay, mill, booked, down>>

-----------------------------------------------------------------------------
(* The prayer room: heat_zone_state and Mill (check_update_pray).          *)

ReadHeatZoneState ==
    /\ pc = "readZone"
    /\ \/ /\ Works
          /\ lastState' = Stored(heatZoneState)
          /\ pc' = "saveZone" /\ UNCHANGED <<heatOn, relayStatus, pulse, dbVars>>
       \/ /\ Fails("db")
          /\ IF ErrorEndsCycle THEN Raise ELSE Onward(Goto("saveZone"))
    /\ UNCHANGED <<deviceVars, booked, down>>

\* Slip: only the transition to "on" is acted on.
ActOnTransitionToOn ==
    IF heatOn = lastState \/ heatOn = "off" THEN EndCycle ELSE Goto("mill")

\* Slip: the decision is acted on, not the transition.
ActOnTransitionAlways == Goto("mill")

ActOnTransition == IF heatOn = lastState THEN EndCycle ELSE Goto("mill")

SaveHeatZoneState ==
    /\ pc = "saveZone"
    /\ \/ /\ Works /\ heatZoneState' = heatOn /\ ActOnTransition
          /\ UNCHANGED <<calendarCache, relayState>> /\ Commit
       \/ /\ Fails("db")
          /\ IF ErrorEndsCycle THEN Raise ELSE Onward(ActOnTransition)
       \/ /\ Fails("db") /\ Daemon
          /\ heatZoneState' = heatOn /\ EndCycle
          /\ UNCHANGED <<calendarCache, relayState, disk>>
    /\ UNCHANGED <<deviceVars, booked, down>>

UpdateMill ==
    /\ pc = "mill"
    /\ Works
    /\ mill' = IF Impl = "rust" THEN mill ELSE heatOn
    /\ EndCycle
    /\ UNCHANGED <<dbVars, relay, glamox, booked, down>>

\* The error is printed (Python) or logged (Go), and the cycle is over.
MillFails ==
    /\ pc = "mill" /\ Impl # "rust"
    /\ Fails("mill")
    /\ mill' \in {mill, heatOn}
    /\ EndCycle
    /\ UNCHANGED <<dbVars, relay, glamox, booked, down>>

-----------------------------------------------------------------------------
(* Hangs and kills.                                                        *)

\* The Python clients of the relay board and of Mill and the Go client of the
\* calendars set no timeout: a peer that accepts the connection and never
\* answers blocks the cycle for good.
Hang ==
    /\ \/ /\ Impl = "python" /\ pc \in {"status", "pulse"} /\ Fails("sr201")
          /\ IF pc = "pulse" THEN relay' \in {relay, Command} ELSE UNCHANGED relay
          /\ UNCHANGED mill
       \/ /\ Impl = "python" /\ pc = "mill" /\ Fails("mill")
          /\ mill' \in {mill, heatOn} /\ UNCHANGED relay
       \/ /\ Impl = "go" /\ pc \in {"calStorsalen", "calPray"} /\ Fails("calendar")
          /\ UNCHANGED <<relay, mill>>
    /\ Leave("hung")
    /\ UNCHANGED <<dbVars, glamox, booked, down>>

\* Slip: a crontab entry without its "timeout -s9".
NoWatchdogKill == FALSE /\ UNCHANGED vars

\* SIGKILL by the watchdog of the crontab entry: the next cron slot starts anew.
WatchdogKill ==
    /\ pc = "hung" /\ Watchdog
    /\ EndCycle /\ RollBack
    /\ Works /\ UNCHANGED <<deviceVars, booked, down>>

\* Power loss, kill or restart of the service in the middle of a cycle.
Crash ==
    /\ pc # "idle"
    /\ Fails("host")
    /\ EndCycle /\ RollBack
    /\ UNCHANGED <<deviceVars, booked, down>>

\* Between two cycles the daemon reloads its config, or is restarted: it closes
\* the connection.
Reload ==
    /\ pc = "idle" /\ Daemon
    /\ RollBack
    /\ UNCHANGED <<cycleVars, deviceVars, envVars>>

-----------------------------------------------------------------------------
(* The world.                                                              *)

\* The window slides over a booking's start or end, or the calendar is edited.
BookingChange(room) ==
    /\ booked' = [booked EXCEPT ![room] = IF @ = "on" THEN "off" ELSE "on"]
    /\ UNCHANGED <<cycleVars, dbVars, deviceVars, down, faulted>>

\* The cached answer is too old, or the window it was fetched for is over. One
\* that a pending answer hides may be so before it.
CacheExpires(room) ==
    /\ disk' = [disk EXCEPT !.calendar[room] = "none"]
    /\ \/ calendarCache' = [calendarCache EXCEPT ![room] = "none"]
       \/ disk.calendar[room] # calendarCache[room] /\ UNCHANGED calendarCache
    /\ UNCHANGED <<cycleVars, relayState, heatZoneState, deviceVars, booked, down, faulted>>

\* A party becomes reliable for good. Until then each call to it may fail or
\* work, so outages of every pattern are among the behaviours.
Repair(p) ==
    /\ p \in down
    /\ down' = down \ {p}
    /\ UNCHANGED <<cycleVars, dbVars, deviceVars, booked, faulted>>

-----------------------------------------------------------------------------
CalendarNext == \E room \in Rooms :
    FetchCalendar(room) \/ FetchUnsaved(room) \/ FetchFails(room)

StorsalenNext == ReadRelayState \/ ReadRelayStatus \/ SaveRelayState
                 \/ Pulse \/ PulseFails \/ UpdateGlamox \/ GlamoxFails

PrayNext == ReadHeatZoneState \/ SaveHeatZoneState \/ UpdateMill \/ MillFails

\* The controller's own steps, hangs included.
Cycle == Begin \/ CalendarNext \/ StorsalenNext \/ PrayNext \/ Hang \/ WatchdogKill

World == \/ \E room \in Rooms : BookingChange(room) \/ CacheExpires(room)
         \/ \E p \in Parties : Repair(p)

Next == Cycle \/ Crash \/ Reload \/ World

Spec == Init /\ [][Next]_vars

\* cron, or the daemon's loop, keeps the cycles going; nothing is promised
\* about crashes, hangs or failing calls.
Fairness == WF_vars(Cycle)
FairSpec == Spec /\ Fairness

\* The same, when Google's calendars are reliable in the end.
CalendarSpec == FairSpec /\ WF_vars(Repair("calendar"))

\* The same, when every party is reliable in the end.
RepairedSpec == FairSpec /\ \A p \in Parties : WF_vars(Repair(p))

-----------------------------------------------------------------------------
(* Properties.                                                             *)

TypeOK ==
    /\ pc \in Steps \cup {"idle", "hung"}
    /\ heatOn \in Heat /\ lastState \in Heat /\ relayStatus \in Heat
    /\ pulse \in 0..4
    /\ calendarCache \in [Rooms -> Heat \cup {"none"}]
    /\ relayState \in Heat \cup {"none"} /\ heatZoneState \in Heat \cup {"none"}
    /\ disk \in [calendar : [Rooms -> Heat \cup {"none"}],
                relay : Heat \cup {"none"}, zone : Heat \cup {"none"}]
    /\ booked \in [Rooms -> Heat]
    /\ relay \in Heat
    /\ glamox \in Heat \cup {"other"} /\ mill \in Heat \cup {"other"}
    /\ down \subseteq CanFail /\ faulted \subseteq CanFail

Unharmed(parties) == faulted \cap parties = {}

\* A switching operation that ran to its end leaves the contact where the
\* decision wants it: both pulse trains have the right length, and Glamox is
\* told of nothing else (sr201_heat_on, sr201_heat_off).
SwitchedAsDecided ==
    (pc = "glamox" /\ SR201Enabled /\ ~DryRun) => relay = heatOn

\* The prayer room's heater stands where heat_zone_state says, except while
\* the update is on its way, or once an update was lost: at Mill, or to a
\* crash after the row was saved, or (Go) to a row that was not saved. Nothing
\* that goes wrong in Storsalen or with a calendar can separate the two.
MillFollowsZoneState ==
    (Impl # "rust" /\ pc # "mill" /\ Unharmed({"mill", "host", "db"}))
        => mill = heatZoneState \/ (mill = "other" /\ heatZoneState # "on")

\* Likewise Glamox and the switch it goes with: the relay, or the stored
\* decision where there is no relay.
GlamoxFollowsSwitch ==
    LET switch == IF SR201Enabled THEN relay ELSE relayState IN
    (Impl # "rust" /\ pc \notin {"pulse", "glamox"}
        /\ Unharmed({"sr201", "glamox", "host", "db"}))
        => glamox = "other" \/ glamox = switch

\* The relay is moved only in a cycle that saw it in the wrong position, and
\* never by a dry run.
RelayMovedForCause ==
    [][relay' # relay => pc = "pulse" /\ relayStatus # heatOn /\ ~DryRun]_vars

\* A decision is the calendar's answer, fresh or cached: an outage alone never
\* decides, least of all that a booked hall needs no heat.
DecisionsFromCalendar ==
    [][\A room \in Rooms :
        pc = CalendarStep(room) /\ pc' \in {"readRelay", "readZone"}
            => heatOn' = calendarCache'[room]]_vars

\* If the Storsalen bookings settle and outages end, the relay settles at the
\* decision, whatever was lost before: its state is read from the board.
RelayConverges ==
    \A h \in Heat : (<>[](booked["storsalen"] = h)) => (<>[](relay = h))

\* If the prayer room's bookings settle, so does its stored decision.
ZoneStateConverges ==
    \A h \in Heat : (<>[](booked["pray"] = h)) => (<>[](Stored(heatZoneState) = h))

\* Mill ends at the decision.
MillConverges ==
    (<>[](booked["pray"] = "on")) => (<>[](mill = "on"))

\* Every cycle ends.
CyclesEnd == (pc # "idle") ~> (pc = "idle")
=============================================================================
