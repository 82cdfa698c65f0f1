# Bedehus: a verification project

The repository controls the heating of a church hall from two Google calendars,
one for the hall (Storsalen) and one for the prayer room (Bønnerom, "pray").
The same controller exists three times: in Python (`main.py`, run by cron;
`systemd_main.py`, a daemon), in Go (`go-bedehus/`, run by cron or a timer) and
in Rust (`rust-bedehus/`, a daemon whose Mill and Glamox drivers only log).
Around it are an auto-updater, loggers of temperatures, energy and presence,
and reports.

The TLA+ modules here model the controllers, the state they keep and what
surrounds them. TLC checks small instances, TLAPS proves the most important
properties for all values of the constants.

## 1. Inventory

| Part | State | Operations | Interacts with | What is hard | What makes it correct |
|---|---|---|---|---|---|
| Poll cycle (`main.py:506-545`, `systemd_main.py:29-70`, `go main.go:100-144`, `controller.rs:849-905`) | locals of a cycle: decision, last state, relay status | fetch calendar, read/save row, query relay, pulse train, tell Glamox, tell Mill | state DB, Google, SR201, Glamox, Mill | any call may fail, hang, or be the last before a kill; the three implementations differ in what an error ends | devices end at the decision; decisions are the calendar's; the relay moves only for cause |
| State DB (`main.py:177-319`, `state.go`, `controller.rs:342-502`) | `relay_state`, `heat_zone_state`, `calendar_cache` | read, upsert, append, query newest | every controller on the host | a failed commit that shows later; two processes on the same rows | a recorded transition is delivered |
| Calendar cache (`main.py:275-346`, `state.go:133-180`, `controller.rs:455-630`) | rows: window, fetch time, events | save after a fetch, newest usable row after a failure | poll cycle, clock | stale answers, window and age boundaries, rows never deleted | nobody who booked sits in the cold; nothing cancelled comes back |
| SR201 clients (`sr201class.py`, `sr201.go`, `controller.rs:654-722`) | one TCP connection | status `00`, on `1R`, off `2R` | relay board | lost replies, no timeout in Python, other clients | pulse trains end at the decision |
| Glamox and Mill clients | token, room id | set target, read status | cloud, heater | errors are printed and forgotten | at most one command per transition |
| Daemons (`systemd_main.py:122-230`, `controller.rs:1104-1178`) | runtime, interval, mtime, two flags | start, reload, cycle, wait, stop | administrator, systemd, config file | signals and edits at any moment, loads that fail half way, cycles that never end | edits are not lost, what a failed reload leaves half done is done again, SIGTERM stops |
| Auto-updater (`scripts/auto_update.sh`) and release pipelines | ETag file, version file, binaries, `.prev` copies | poll, compare, download, verify, back up, move, restart; rollback by hand | GitHub, systemd | releases published file by file, failing downloads, kills in the middle of a write, rollback by hand | what is recorded is installed; what is replaced is kept |
| ARP presence (`arp_presence_logger.py`, `temperature_logger.py:339-491`, `arp.rs`) | log file, alias file, `heater_presence_events`, `heater_presence_hourly` | scan, send, import the whole log, count | `arp-scan`, syslog over UDP, logrotate, administrator | lost and late lines, rotation, a second import without a transaction | "online" is backed by a sighting; pages agree with the events; imports repeat safely |
| Mill cloud client (`temperature_logger.py:509-762`) | token, refresh token, expiry | sign in, refresh, fetch | Mill cloud | a token that dies between check and use, refused refreshes | a checked token is alive |
| Hourly job (`cron_temperature_log.sh`, `temperature_logger.py:977-1024`, `energy_logger.py:328-348`) | rows of the hour, pages | import, fetch, save, draw | all of the above | `set -e`: the first failure ends it; rows committed one by one | whole batches, fresh pages, no lasting harm |
| Readings and pages (`energy_logger.py`, `temperature_logger.py:204-276`, `838-936`, `generate_*_report.py`) | `readings`, `energy_readings` | upsert, clean up, read a window, bars, curves | heater, hourly job | missing metrics, repeated reports, a meter that begins again, gaps | bars add up to what was used; curves break where nothing was logged |
| Logging, deployment and host scripts | files | rotate, copy | the above | rotation, copies that fail unseen | see section 8 |

`PROJECT.json` lists every component with its files, and under "hazards" the
places in the code that are hard to test, each with the properties aimed at it.

## 2. Modules

| Module | Models | State and actions in terms of the code |
|---|---|---|
| `HeatCycle` | one controller and its world | `pc` and the locals of `run_cycle`; the three tables, one value each as the connection sees them, and `disk`, as they are committed; relay, Glamox and Mill. One action per call that can fail or be interleaved: `FetchCalendar`, `FetchUnsaved` and `FetchFails` are the outcomes of `get_calendar_events_with_fallback`; `ReadRelayState` .. `UpdateGlamox` are `check_relay_state` and `update_storsalen_glamox`; `ReadHeatZoneState` .. `UpdateMill` are `check_update_pray`. `Hang`, `WatchdogKill` and `Crash` end a cycle from outside; `Reload` is the daemon's closing of its connection. `Raise`, `Commit` and `RollBack` say what becomes of rows that are not committed. `Impl` selects what an error does. |
| `TransitionDelivery` | the promise to a thermostat | a row, what is owed, the set point: one command per recorded transition, in order, and, if `Lossy`, possibly lost |
| `HeatCycleRefinement` | `HeatCycle` implements it twice | refinement mappings for Mill / `heat_zone_state` and, without a relay, Glamox / `relay_state`, each onto the lossy promise and onto the sure one |
| `SharedState` | two controllers on one host, and the one-shot tools | two instances of `HeatCycle`, sharing rows and devices; `Tool` is `on.py`, `off.py`, `cmd/on` or `cmd/off`, one command to the board |
| `CalendarCache`, `MCCalendarCache` | the cache in time | clock, bookings, the rows, a cycle that fixes its time when it begins, what Google answered and is not saved yet, and the last answer. `Fetch` is Google's answer, `Save` its stamp and row; `SaveFails` is Go's "fetched, not saved" |
| `ReloadDaemon` | the daemons | `impl`, which of the two the service runs; the config file as a version and a kind, the two flags, the remembered mtime, one action per step of the loop between which a signal or an edit can come. A Python cycle may hang: `Unhang` and `StopTimeout` are the two ways out |
| `AutoUpdate`, `MCAutoUpdate` | the updater | GitHub's release, the disk of the Pi, the variables of the script, one action per command with an effect, and two for `cp` and for an `mv` between file systems: `Backup` and `Copy`, `Move` and `Moved` |
| `Presence` | which heaters were on the network | `Scan`, `ScanFails`, `NoScan` are the outcomes of `arp_presence_logger.py main`; `Arrive`, `Rotate`, `EditAliases` the world of the log; `Import` is Python's `import_arp_presence` up to its commit; `RustRead` .. `RustEnds` are Rust's, one action per statement that commits. `OnlineCounts`, `LatestStatuses` are what the pages read. |
| `MillCloud` | one `MillCloudClient` | `hasToken`, `hasRefresh`, `expiresAt` are its fields, `liveUntil` is the cloud's; `EnsureLogin`, `SignIn`, `RefreshToken`, `RefreshRefused`, `Fetched`, `CloudFails` its methods and their outcomes |
| `Telemetry` | the hourly job and its processes | `step` is the line of `cron_temperature_log.sh` and, in `handle_log`, the call; one action per step, `Fails` for `set -e`, `Killed` for the host; `MillList` .. `ListEnds` are `mill-debug` and `mill-list`, run by hand |
| `EnergyHistory`, `MCEnergyHistory` | rows and what pages draw of them | `Poll` is `energy_logger.py log` with `ensure_db`'s clean-up and the upsert; `PollOthers` gives the other sources of the table a row; `Bars`, `SplitOnGaps`, `Downsample`, `PageReadings` are the pure functions of the pages |
| `*_proofs` | theorems | one per module it is about; `HeatCycle_proofs` also holds those of the delivery modules |

Composition: `SharedState` instantiates `HeatCycle` twice.
`HeatCycleRefinement` extends `HeatCycle` and instantiates
`TransitionDelivery`. A cycle is one step of `ReloadDaemon`, and a
`FetchCalendar`/`Fallback`/`CacheExpires` of `HeatCycle` is what
`CalendarCache` shows in detail. `Telemetry` extends `MillCloud`: its processes
create and drop the client, and its steps succeed when the client's do. What
its `ImportPresence` writes is `Presence`, what its saves write and its pages
draw is `EnergyHistory`.

### Abstractions

* `HeatCycle`: a calendar is whether it has an event in the look-ahead window,
  because `process_events` looks at nothing else; a cached row is usable or
  gone. A party in `down` may fail or work at every call, so every pattern of
  outages is a behaviour; `Repair` ends an outage for good. `faulted` is a
  history variable: who has failed a call so far. A thermostat is at the on- or
  off-temperature or at "other", where nobody commanded it yet. A request that
  fails may have had its effect or not.
* Rows whose commit failed: `sqlite3` opens a transaction before the INSERT, so
  a Python connection may see a row that is not on the disk. `main.py` rolls it
  back when an error leaves its `with conn` block (line 506), and commits it
  when the block ends well. The daemon keeps the connection: the row stays
  pending until any later commit brings it in, or a reload, a kill or a power
  loss takes it back, long after the cycle that wrote it. Go and Rust write in
  autocommit mode. That a pending row locks the database for others is left
  out; the run with two controllers has none in Python.
* `CalendarCache`: whole time units; Google's answer is the bookings that
  overlap the window. Any time may pass between the answer and its stamp. That
  Rust's error, or a kill, ends the cycle there is `Abandon`.
* `ReloadDaemon`: content and mtime of the file are one number. What a cycle
  does is left to `HeatCycle`, but that it may not end.
* `AutoUpdate`: a binary is the number of the release that last changed it; an
  ETag is the revision of the release document; the hash of a file is the file.
  `mishaps` is a history variable, the kinds of trouble so far, and `refused`
  what an administrator rolled back from. A binary or copy that is being
  written is corrupt until the write is whole; a full disk in the middle ends
  the script as a kill does (`set -e`). A rollback, a loop of `mv` within one
  directory and a restart, is one step, which may fall between any two of the
  script's. The other architecture's binary changes the release document and
  its ETag only. `mktemp` files and exit codes are left out.
* `Presence`: a scan is one unit of time; a line is its time and the heater it
  shows online, or `NoOne` (offline lines and summaries count for their hour
  only). A line that has not arrived a minute later is lost. Of a heater, MAC,
  IP and scanner are left out: they travel with the sighting. Python's import
  is one action: it reads the log once, and nothing it writes shows before its
  commit.
* `MillCloud`: the clock begins with the process. The cloud issues a token when
  the request reaches it; a reply of a healthy cloud takes at most `Timeout`.
  The timeout of `requests` bounds every silence of a reply and not its length,
  so a cloud that is in `down` may be slow without an end. Lifetimes are free:
  0, which `_parse_tokens` passes over, shorter than the margin, or not told. A
  call of several requests (`list_devices`) is one `Fetched`, at its last
  request.
* `Telemetry`: a page is the set of sources whose rows of this hour it shows.
  The Rust binary then draws the same pages elsewhere
  (`cron_temperature_log.sh:66-87`), which changes nothing the module keeps.
* `EnergyHistory`: one device, and of the other sources in its table the time
  of their newest row, because the page's fall-back looks at all sources
  together (`generate_static_report.py:161-166`, `183`). Whole units of half an
  hour. `used` and the serial of a report are the truth that the rows are
  compared with. The rows of `readings` are kept and read by the same SQL, so
  the curves, drawn of temperatures, are computed from the times of these rows.

## 3. What the runs show

| Run | Instance | Shows |
|---|---|---|
| `MCPython` | Python by cron with watchdog, relay, Glamox, Mill; board, Mill and host fail, and board and Mill hang, until repaired | `MillFollowsZoneState`, `GlamoxFollowsSwitch`, `RelayMovedForCause`: what the thermostats show is what was decided, until a failure that can separate them; `RelayConverges`, `ZoneStateConverges` |
| `MCCycleNoRelay` | the Python daemon without a relay; DB, Glamox and host fail, reloads | the two refinements `MillAtMostOnce`, `GlamoxAtMostOnce` |
| `MCLiveGo` | cron with watchdog; calendars fail and hang until repaired, board and Glamox may stay broken for ever | `MillConverges`, `MillExactlyOnce`: Storsalen's troubles never reach the prayer room, in the end or at any single transition; `DecisionsFromCalendar`, `CyclesEnd` |
| `MCSharedDryRun` | Go in charge, a Rust dry run beside it, all calls interleaved, reads and writes of rows fail, and one command by hand | `RelayMovedByMain`, `RelayConverges`: the relay is safe from the companion, and from a tool in the middle of a pulse train |
| `MCReload` | both daemons; configs that fail to load, or at the interval; state DB and clients that fail; edits, removals, signals and kills between any two steps; Python cycles that hang | `UnloadedEditShows`, `MixedRuntimeShows`, `VisibleEditLoaded`, `SighupServed` (Rust), `StopsInOneCycle`, `Stops` |
| `MCCache` | one booking, made and cancelled at any time, up to three rows, late stamps, lost saves, outages, slow cycles | `UnderWayIsHeated`, `HeatedForABooking`, `CancelledStaysCancelled` |
| `MCUpdate` | two releases, uploads file by file for two architectures, every mishap but restarts, kills that cut writes, rollbacks beside the script | `NothingCorrupt`, `BackupDiffers`, `VersionIsInstalled`, `ReplacedIsKept`, `RolledBackStaysOut` |
| `MCUpdateLive` | the same with failing restarts, without kills and failing downloads | `UpdateArrives`, `ServicesRunInstalled` |
| `MCPresence` | two heaters, three scans over two hours, lost and late lines, failing scans, one rotation, one edit of the aliases or one Rust import | `OnlineIsBacked`, `TablesAgree`, `PresenceSettles` |
| `MCEnergy` | up to four rows at three distances and three reports, with and without metrics, a meter that begins again, rows saved twice before the unique index, polls that only other sources answer | `BarsMatchMeter`, `CurveIsFaithful` |
| `MCTelemetry` | Mill, Yr, database and host fail at any step, the Mill cloud may be slow; tokens of four lifetimes, one of them nothing and one below the margin; up to two calls by hand | `WholeBatch`, `TokenInTime`, `PagesGetFresh` |

The theorems of section 6 cover the safety properties of `HeatCycle` for all
three implementations; Rust has no run of its own but as the companion.

One run ends in a counterexample, of a property that the documents of the
repository state, and is entered under "findings" with the lines that state it:
`MillLost` violates `MillConverges`, because the zone state is saved, the
request to Mill is lost, and later cycles see no transition.

What the other properties exempt are limits of the code too. Each exemption is
a conjunct of the property, and was needed for it to hold:

* `MillFollowsZoneState`, `GlamoxFollowsSwitch`: an update that was lost is not
  sent again; for Glamox also when only the last reply of the relay was lost,
  since the next cycle finds the relay in place (`main.py:440`).
* `DecisionsFromCalendar` is not met by Rust, which takes an outage without a
  usable row for no bookings (`controller.rs:622`), and `ZoneStateConverges`
  needs the relay board in Python, because its exception ends the cycle before
  the prayer room (`main.py:433`). `CyclesEnd` needs the watchdog, in Python
  for the relay board and Mill, in Go for the calendars. It is checked for Go;
  in `MCPython` a hung cycle without end would break the two properties of
  convergence.
* `SighupServed` is not met by Python: a SIGHUP between the load and
  `reload_event.clear()` is dropped (`systemd_main.py:197`).
* A dry run shares `heat_zone_state`, so it may take the transition that the
  controller in charge was to deliver to Mill (`controller.rs:438`).
* `VersionIsInstalled`, `UpdateArrives`: the ETag and the version are saved
  whatever failed, so a download that fails is not repeated before the next
  release, and a poll while a release is being published may be its last
  (`auto_update.sh:138`, `218`). `ServicesRunInstalled`: nor is a restart that
  failed, or that a kill prevented.
* `MixedRuntimeShows` says no more than that the state it names is seen and
  repaired: a config whose interval is no number does leave the new runtime
  with the old interval (`systemd_main.py:188-195`), under a log line that says
  "keeping current runtime", and is loaded again, and fails again, at every
  poll until the file is good. It exempts an edit between a look at the file
  and the reading of its mtime, at start (lines 135-166) as at a reload, and a
  file that was not there at that reading.
* `VisibleEditLoaded` exempts a Python daemon whose cycle hangs: neither the
  relay client (`sr201class.py:219`) nor Mill's (`mill_controller.py:18`) has a
  timeout, and the unit has no watchdog. Only the peer or systemctl ends it.
* `NothingCorrupt` exempts three ways in which something corrupt does stay: a
  hash that could not be fetched, where the script warns and installs unchecked
  (`auto_update.sh:182`), although `RELEASE_CHECKLIST.md:69` says that every
  binary is verified; a `cp` or an `mv` that is cut by a kill or a full disk
  (lines 200, 201); and a rollback by hand while `cp` writes the copy. What
  holds after a cut too is `ReplacedIsKept`: a whole binary that is replaced is
  whole in the copy. But the next update after a cut `mv` copies the truncated
  binary over the last whole one.
* `TablesAgree` exempts a rotation within the hour, whose import turns
  sightings that left the log into "offline" (`temperature_logger.py:464`), and
  holds only where the alias file stands: rows of heaters taken out of it stay.
  A failed scan counts its hour with every heater offline (lines 389-397).
* `BarsMatchMeter`: where the account gives what was used since the last
  report, a report polled twice counts twice (`energy_logger.py:254`). After a
  meter began again its first total is lost (line 260). With several devices in
  one table `prev_total` would be shared (line 263); the job logs one.
* `CurveIsFaithful`: a source without rows in a window in which others have
  some drops off the page. The property asks for a break only with three gaps
  or more: the upper median of two is the larger, which then never exceeds
  three times itself.
* `TokenInTime` speaks of tokens that live longer than the margin, and of
  requests made while the reply's delay and the time since the check together
  do not exceed it: the 30 seconds pay for nothing else. A slow cloud, or a
  call of `list_devices` with a request per house after a single check, uses
  them up.
* `WholeBatch`: a kill between two commits leaves part of an hour. One failing
  source costs the hour's other readings, pages and energy too.

Every property of a passing run has a mutant: a slip of the code (operators
marked "Slip" in the modules) under which the run finds the property violated.

## 4. Bounds

* `HeatCycle` is finite without a bound: two rooms, two decisions, pulse trains
  of three and four commands. `CanFail` is varied over the runs, because all
  six parties at once do not fit; together the runs let each of them fail.
* `CalendarCache`: `MaxTime = 5`, window and age of 2, a booking from 3 to 5. A
  row is then saved before the booking comes into the window, while it is in it
  and while it is under way, and becomes too old by either condition. `MaxRows
  = 3`: one row that is too old, one usable and one newer.
* `SharedState`: `MaxTools = 1`: one command by hand is enough to fall between
  any two commands or calls of a cycle; the cycles after it are unbounded.
* `ReloadDaemon`: `MaxVersion = 4` edits: one before, one during and one after
  a reload, and one more.
* `Presence`: `MaxTime = 3` scans with `PerHour = 2` make a full hour and a
  part of the next, so a sighting can be the newest of its hour, not the
  newest, or of another hour; `MaxRotations = 1`; `MaxUpsets = 1`, one edit of
  the alias file or one Rust import, which may stop, or write after the
  rotation and after Python's.
* `EnergyHistory`: `MaxPolls = 4` rows, because a break needs three gaps and
  thinning more rows than `MaxPoints = 2`; gaps of 0, 1 and 4 half hours are
  equal times, within an hour, and more than three times the rest; `MaxReports
  = 3` lets reports be missed and repeated around a reset; and other sources
  get rows up to `MaxTime = 5`, beyond the first of the three windows (3, 8 and
  30). Five rows hold as well, in runs that have either the reports or the
  other sources.
* `Telemetry`: `MaxClock = 8` outlives a token of lifetime 5 and a default of 7,
  with a `Margin` of 3 for 30 s, a `Timeout` of 2 for 20 s, and lifetimes of 0 (which `_parse_tokens` passes over), 2 (below the margin) and 5, so tokens
  are trusted, refreshed and refused; `MaxLists = 2` calls, because only
  `mill-list` asks one client twice. `CanFail` has one source that fails by its
  client (Mill), one that fails at once (Yr), the database and the host; the
  others fail alike. The token property also holds with a clock of 12.
* `AutoUpdate`: `MaxTag = 2` releases of two assets, one of which the second
  release does not change. Every mishap may happen any number of times and the
  administrator may roll back as often as there is a copy; so the second
  release is installed again over a rolled back, killed or corrupt first
  attempt. Cut writes and rollbacks beside the script make 10.9 million states,
  too many for liveness: `MCUpdateLive` leaves out the mishaps from which its
  properties are exempt anyway, kills and failing downloads, and has failing
  restarts.

## 5. Fairness

* `HeatCycle` (`Fairness`): the controller's steps go on, because cron starts
  the next cycle and the daemons loop (`systemd_main.py:177-216`). Hangs are
  steps of their own, after which only the watchdog, where configured, is
  enabled. `RepairedSpec` adds that outages end, `CalendarSpec` that those of
  Google's calendars do. Go's calendar client has no timeout (`gcal.go:25`), so
  `MCLiveGo` runs it under the `timeout -s9 150` of the crontab entry. Nothing
  is assumed of crashes.
* `SharedState`: the same of both services; a tool need never be run.
* `ReloadDaemon`: the process runs, and systemd starts it again
  (`Restart=always`), and kills one that does not stop (`TimeoutStopSec`, by
  its default). Kills and signals are free, and so is the end of a hang: no
  fairness says that a Python cycle ends.
* `VisibleEditLoaded` has a premise of its own: a load tried again and again
  works now and then.
* `Presence`: cron runs the Python import every hour (weak fairness of
  `Import`). Nothing is assumed of scans, of the wire or of the Rust import.
* `Telemetry`: cron starts the job, its processes run, and their requests end
  (weak fairness of `Job \/ Mill`: `requests` has a timeout everywhere, which a
  reply that trickles without an end would escape). Outages and kills are free;
  `PagesGetFresh` speaks of runs in which they end, and in which the tokens of
  the cloud outlive a reply and the request after it.
* `AutoUpdate`: the timer polls again and again; a started script runs; the
  pipelines upload what they began. Nothing is assumed of mishaps, kills and
  rollbacks, except that a poll that fails changes nothing and does not count:
  the API answers in the end.

## 6. What is proved

The proofs use the named assumptions on the constants (`ConfigAssumption`,
`CacheAssumption`, `DaemonAssumption`, `UpdateAssumption`,
`PresenceAssumption`, `CloudAssumption`, `TelemetryAssumption`,
`HistoryAssumption`, `ToolAssumption`), and hold for every implementation,
configuration, set of failing parties, set of bookings, list of assets, set of
heaters, token lifetime, and without the bounds on time, edits and releases
being small. What a theorem assumes beyond them is named here and in it.

`HeatCycle_proofs`:

* `TypeCorrect` needs `DbTyped` (the rows and `disk`) and `PulseInTrain` (the
  pulse counter lies within the train, and a train is begun only in a cycle
  that saw the relay wrong, with SR201 enabled and no dry run), which also
  gives `RelayMovedForCauseHolds`. `SwitchedAsDecidedHolds` rests on the lemma
  `PulseTrain`: both trains end where the decision wants them.
* `MillFollows` strengthens `MillFollowsZoneState` by `ZoneInFlight`: at
  "saveZone" the carried last state is the row, and at "mill" the row is the
  decision. `GlamoxFollows` does the same for Storsalen (`DecisionInFlight`,
  `GlamoxInv`), where the relay, not the row, is the state compared.
* `DecisionHasSourceHolds`, without any assumption: each step that decides
  takes Google's answer, the cached row, or, in Rust and without a row, "off".
  `DecisionsFromCalendarHolds` is the run's property, of Python and Go over a
  reliable database (`Impl # "rust"`, `"db" \notin CanFail`): a fetched answer
  whose row could not be saved is in no cache.
* `MillImplements` and `GlamoxImplements`: every step of the cycle is a step or
  a stutter of `TransitionDelivery` under the mapping. The invariant is
  `ComparesStored`: between its read and its write a row does not change under
  the cycle. `DiskInv` says what a rollback can undo: only a daemon whose
  database has failed has rows that are not committed, and never while a
  command is on its way, because the step before the command commits.
  Assumption `RowsAreSaved`: Go goes on after a failed write and may then
  command a transition it did not record.
* `MillExactlyOnceHolds` and `GlamoxExactlyOnceHolds`: the same mapping onto
  the promise that loses nothing. They assume that the database, the thermostat
  and the host do not fail, that the implementation is not Rust, whose
  thermostat drivers only log, and, for Glamox, that there is no relay board.
  The calendars, and for Mill also the relay board and Glamox, may fail at any
  call: no error path leads past a recorded transition. `LosslessDelivery` says
  what that promise is good for.

`SharedState_proofs`: `RelayMovedForCauseHolds`, of any two controllers, and
`RelayMovedByMainHolds`, with a companion that runs dry. `CauseInv` says of
each of the two that it is in a pulse train only if it saw the relay wrong;
neither writes what the other's part speaks of, so that no interleaving
disturbs it.

`ReloadDaemon_proofs`: `TypeCorrect` (strengthened: nothing remembered is newer
than the file), `UnloadedEditShowsHolds` (`MtimeInv` says what holds at each
place between a load and its stamp), `StopsInOneCycleHolds` (`LateInv`),
`MixedRuntimeShowsHolds` (`MixedInv`: a runtime from another file than its
interval is newer than the remembered mtime, through start, reload and wait).

`CalendarCache_proofs`: `TypeCorrect`; `RowOK` says what a row knew of every
booking when Google answered (`RowsInv` extends it to the answer that is held
and not saved yet), `Ordered` that rows fetched later are rows of later
windows, `AnswerInv` carries both into the last answer. From these follow
`AgeIsTheWindowHolds`, `UnderWayIsHeatedHolds`, `HeatedForABookingHolds`,
`CancelledStaysCancelledHolds`, and `FallsBackOnNewestHolds`: the conditions of
the query never make it pass over a newer row and take an older one, which is
why `HeatCycle` may keep one row per room.

`AutoUpdate_proofs`:

* `TypeCorrect`; `ReplacedIsKeptHolds` rests on `CopyInv` (between the copy and
  the move the copy is there); `NothingCorruptHolds` on `WholeInv` (as long as
  nothing is cut: where every poll saw its files and hashes, what is downloaded
  is verified, and the file at hand is never corrupt); `BackupDiffersHolds` on
  `DiffersInv`, which says at each command how binary, copy and download
  differ.
* `VersionIsInstalledHolds` rests on `InstalledInv`. `DoneIsInstalled`: of the
  release that the script saw, an asset is installed or still to come.
  `Accounted`: where a kill left an asset at a later release than the version
  file names, its copy is of that release or a later one too; without this a
  rollback after the kill could bring anything.
* `RolledBackStaysOutHolds`: two memories keep a release out, each in its own
  way. `VersionRemembers`, unless the script was killed: nothing is installed
  or rolled back from beyond the version that the file names or the script is
  about to write. `EtagRemembers`, unless a poll was early: nothing beyond the
  release whose ETag is stored. It takes both troubles to lose both. With
  rollbacks beside the script it also needs `FileInv`, what is on its way in is
  the seen release or corrupt, and `OnceInv`, the loop comes to no asset twice.

`Presence_proofs`:

* `TypeCorrect` and `OnlineIsBackedHolds` from one invariant. `OnlineIsBacked`
  alone is not inductive because of the Rust import: `RustIsBacked` adds that
  what it has read is stored or still to be stored, and that every row it is
  about to write is backed already. Python's import needs only the lemma
  `EventMapBacked`.
* `TablesAgreeHolds` from `AgreeInv`: where the alias file stands and only
  Python imports, an hour has the rows of all heaters or of none, and the row
  of a sighting that was not rotated away is that sighting or a newer one. That
  the counts of the page then add up is finite-set arithmetic (`CountsAgree`).
* `ImportRepeatsHolds`: a second import of the same log changes nothing, after
  whatever Rust imports and edits of the alias file came before.

`Telemetry_proofs`: `CloudTypeCorrect` and `TokenInTimeHolds` from `CloudInv`.
`TokenInv`: the expiry is the moment of the reply, plus the lifetime, less the
margin. `CheckInv`: a request goes out with a token that was just received, or
was checked against that expiry. `WholeBatchHolds` from `BatchInv`, which says
what each step of the job finds saved and drawn. `CloudAssumption` gives the
types of the constants and nothing more: margin, timeout and lifetimes may
stand in any relation.

`EnergyHistory_proofs`:

* `BarsMatchMeterHolds`, of windows and tables of any length. `HistoryInv`: the
  rows are in the order of time and of reports, and each is blank or holds what
  `Meter` and `Delta` say of its report. The bars are then added up row by row,
  beside the rows with metrics so far (`AddsUp`): with totals the sum is at
  most what was used from the first to the last of these, with deltas as many
  as there are rows. `Climb` is the induction, from the least element of a set
  of numbers; a recursive function is shown to exist by `StepByStep`, before
  anything is said of its values. `KeptInOrder`, that a query keeps whatever
  order its table has, is the lemma about `fetch_readings` and
  `cleanup_duplicate_readings`.
* `CurveIsFaithfulHolds`, from the same invariant. `KeptRows` and
  `WindowShowsNewest`: the clean-up leaves times that strictly rise, and never
  takes the newest row, so a window with rows has it. `SplitKeepsPoints`: point
  by point, the segments put together are the points so far, and begin exactly
  where the gap exceeds the threshold. `MedianExists`: the upper median is the
  least number that more than half of the gaps do not exceed. With three gaps
  or more it is not the one that exceeds all others, which is why the property
  asks for three (`BreaksWhereNothingWasLogged`).
* `DownsampleKeepsEnds`, of segments of any length and pictures of any width.
  The step is the number of points divided by the width, rounded up; the lemma
  `Steps` is the arithmetic of both roundings.

Every invariant and every safety property of the passing runs is stated by a
theorem. Left to TLC are the liveness properties, because the prover has no
fairness and no ENABLED. `SwitchedAsDecided`, `AgeIsTheWindow`,
`DecisionHasSource`, `FallsBackOnNewest`, `ImportRepeats`, `GlamoxExactlyOnce`,
`SharedState`'s `RelayMovedForCause` and the type invariants of
`CalendarCache`, `Presence` and `MillCloud` are proved and left out of the
runs.

## 7. Plan

Order of work; the first two blocks are done.

1. Poll cycle, transition delivery, shared state, calendar cache, daemons,
   auto-updater, with the theorems above.
2. ARP presence, Mill cloud client, hourly job, readings and pages. To make
   room for their runs, the two runs of the daemons became one whose initial
   states choose the implementation.
3. Open: SR201 clients in detail (two active controllers, reply parsing);
   rotation of the Go log; deployment with backup, copy and rollback over ssh;
   config merging and defaults; the text order of timestamps; SQLite's write
   lock, which a daemon with a pending row holds.

## 8. Not modelled, and why

* Drawing, HTML and fonts (`render_html`, `*_report.rs`, `font.rs`, `www/`):
  read-only output. The temperature overlay of the energy page
  (`build_temp_series`) is two more queries of the kind `FetchReadings` is.
* Inside a fetch: secrets, place names, the search for a temperature in an
  unknown reply (`extract_temp`), which either finds one or raises.
* Lines of the presence log that are no JSON: Python skips them, Rust skips or
  fails, which is one of the ends of `RustEnds`.
* Deployment (`deploy_pi.sh`, which has no health check and passes over a
  failing `cp`, lines 131-133 and 150-152), log rotation (`logging.go`), SR201
  beyond the cycle, config merging: open, see section 7.
* Text formats: the timestamps the three implementations write into the same
  columns have different text forms; one clock is used here.
* Host helpers (`checkwifi.sh`, `autosshd`, `rip1_tune.sh`, `speed.py`), mocks
  and emulators: no state shared with the controllers.
