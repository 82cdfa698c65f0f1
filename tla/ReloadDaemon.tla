----------------------------- MODULE ReloadDaemon -----------------------------
(***************************************************************************)
(* The polling daemons around the cycle (systemd_main.py main, and         *)
(* controller_daemon of rust-bedehus/src/controller.rs): start, the loop,  *)
(* the reload of config.json on SIGHUP or when its mtime moves, the wait,  *)
(* and the stop. The file is edited, and signals arrive, between any two   *)
(* steps. A cycle is one step here, or, in Python, two with a hang between  *)
(* them: HeatCycle says what it does.                                      *)
(*                                                                         *)
(* The config file is a version, which is its content and its mtime alike. *)
(***************************************************************************)
EXTENDS Naturals

CONSTANTS
    Impls,       \* implementations: "python", "rust"
    Kinds,       \* what an edit may leave behind
    LoadsFail,   \* state DB or Google client may fail in load_runtime
    MaxVersion   \* bound: edits of the file

\* "odd": loads and validates, but systemd.interval_seconds is no number,
\* which only Python's untyped config lets through.
ASSUME DaemonAssumption ==
    /\ Impls \subseteq {"python", "rust"}
    /\ Kinds \subseteq {"good", "bad", "odd"}
    /\ LoadsFail \in BOOLEAN
    /\ MaxVersion \in Nat \ {0}

VARIABLES
    impl,                     \* the implementation that the service runs
    version, kind,            \* the file: its version, and good, bad, odd or absent
    pc,
    loaded, interval,         \* versions the runtime and its interval come from
    configMtime,              \* config_mtime; 0 is None
    reloadEvent, stopEvent,
    asked,                    \* history: the version on disk at a SIGHUP, until a load is tried
    raced,                    \* history: the races that the last good load has not ended
    late                      \* history: cycles begun since SIGTERM, up to 2

fileVars == <<impl, version, kind>>
runtimeVars == <<loaded, interval, configMtime>>
history == <<asked, raced, late>>
vars == <<fileVars, pc, runtimeVars, reloadEvent, stopEvent, history>>

Places == {"down", "boot", "mtime0", "load0", "stamp0",
           "poll", "load", "stamp", "clear", "cycle", "hung", "wait"}

Init ==
    /\ impl \in Impls
    /\ version = 1 /\ kind = "good" /\ pc = "down"
    /\ loaded = 0 /\ interval = 0 /\ configMtime = 0
    /\ reloadEvent = FALSE /\ stopEvent = FALSE
    /\ asked = 0 /\ raced = {} /\ late = 0

-----------------------------------------------------------------------------
\* Slip: the mtime is rounded up.
MtimeRoundedUp == IF kind = "absent" THEN 0 ELSE version + 1

\* file_mtime
Mtime == IF kind = "absent" THEN 0 ELSE version

\* load_config and validate_config accept the file.
Loads == kind \in {"good", "odd"}

\* systemd starts a process (Restart=always).
Start ==
    /\ pc = "down" /\ ~stopEvent
    /\ pc' = "boot"
    /\ loaded' = 0 /\ interval' = 0 /\ configMtime' = 0 /\ reloadEvent' = FALSE
    /\ asked' = 0 /\ raced' = {} /\ late' = 0
    /\ UNCHANGED <<fileVars, stopEvent>>

\* The first look at the config: Python parses it for logging and interval,
\* before its handlers stand; Rust goes straight to load_runtime.
Boot ==
    /\ pc = "boot"
    /\ \/ /\ kind = "good"
          /\ interval' = version
          /\ IF impl = "python"
             THEN pc' = "mtime0" /\ UNCHANGED loaded
             ELSE pc' = "stamp0" /\ loaded' = version
       \/ /\ kind # "good" \/ LoadsFail
          /\ pc' = "down" /\ UNCHANGED <<loaded, interval>>
    /\ UNCHANGED <<fileVars, configMtime, reloadEvent, stopEvent, history>>

\* Python reads the mtime before it loads what it will run with ...
Mtime0 ==
    /\ pc = "mtime0"
    /\ configMtime' = Mtime
    /\ pc' = "load0"
    /\ UNCHANGED <<fileVars, loaded, interval, reloadEvent, stopEvent, history>>

Load0 ==
    /\ pc = "load0"
    /\ \/ Loads /\ loaded' = version /\ pc' = "poll"
       \/ (~Loads \/ LoadsFail) /\ pc' = "down" /\ UNCHANGED loaded
    /\ UNCHANGED <<fileVars, interval, configMtime, reloadEvent, stopEvent, history>>

\* ... Rust after it.
Stamp0 ==
    /\ pc = "stamp0"
    /\ configMtime' = Mtime
    /\ pc' = "poll"
    /\ UNCHANGED <<fileVars, loaded, interval, reloadEvent, stopEvent, history>>

\* A kill: systemd starts the next process.
Kill ==
    /\ pc # "down"
    /\ pc' = "down"
    /\ UNCHANGED <<fileVars, runtimeVars, reloadEvent, stopEvent, history>>

FileChanged == Mtime # 0 /\ configMtime # 0 /\ Mtime # configMtime

\* Slip: the stop flag is not tested.
PollUnguarded ==
    /\ pc = "poll"
    /\ pc' = IF reloadEvent \/ FileChanged THEN "load" ELSE "cycle"
    /\ reloadEvent' = IF impl = "rust" THEN FALSE ELSE reloadEvent
    /\ UNCHANGED <<fileVars, runtimeVars, stopEvent, history>>

\* Slip: only a signal reloads.
PollSignalOnly ==
    /\ pc = "poll"
    /\ IF stopEvent THEN pc' = "down" /\ UNCHANGED reloadEvent
       ELSE /\ pc' = IF reloadEvent THEN "load" ELSE "cycle"
            /\ reloadEvent' = IF impl = "rust" THEN FALSE ELSE reloadEvent
    /\ UNCHANGED <<fileVars, runtimeVars, stopEvent, history>>

\* The head of the loop. Rust takes the reload flag down with the same step.
Poll ==
    /\ pc = "poll"
    /\ IF stopEvent THEN pc' = "down" /\ UNCHANGED reloadEvent
       ELSE /\ pc' = IF reloadEvent \/ FileChanged THEN "load" ELSE "cycle"
            /\ reloadEvent' = IF impl = "rust" THEN FALSE ELSE reloadEvent
    /\ UNCHANGED <<fileVars, runtimeVars, stopEvent, history>>

\* Slip: an odd interval is caught where it is converted, and the reload ends
\* as if it had worked.
LoadOddAndStamp ==
    /\ pc = "load"
    /\ \/ /\ Loads
          /\ loaded' = version
          /\ interval' = IF kind = "good" THEN version ELSE interval
          /\ raced' = {}
          /\ pc' = "stamp"
       \/ /\ ~Loads \/ LoadsFail
          /\ UNCHANGED <<loaded, interval, raced>>
          /\ pc' = IF impl = "python" THEN "clear" ELSE "cycle"
    /\ asked' = 0
    /\ UNCHANGED <<fileVars, configMtime, reloadEvent, stopEvent, late>>

\* Slip: the mtime is remembered after a failed reload, too.
LoadOrFailAndStamp ==
    /\ pc = "load"
    /\ \/ kind = "good" /\ loaded' = version /\ interval' = version
       \/ kind # "good" /\ UNCHANGED <<loaded, interval>>
    /\ pc' = "stamp"
    /\ asked' = 0
    /\ UNCHANGED <<fileVars, configMtime, reloadEvent, stopEvent, raced, late>>

\* load_runtime and the switch to the new runtime. An odd interval is found
\* out only after the switch.
Load ==
    /\ pc = "load"
    /\ \/ /\ kind = "good"
          /\ loaded' = version /\ interval' = version /\ raced' = {}
          /\ pc' = "stamp"
       \/ /\ kind = "odd"
          /\ loaded' = version /\ UNCHANGED <<interval, raced>>
          /\ pc' = "clear"
       \/ /\ ~Loads \/ LoadsFail
          /\ UNCHANGED <<loaded, interval, raced>>
          /\ pc' = IF impl = "python" THEN "clear" ELSE "cycle"
    /\ asked' = 0
    /\ UNCHANGED <<fileVars, configMtime, reloadEvent, stopEvent, late>>

\* Slip: the flag is taken down once more after the reload.
StampAndClear ==
    /\ pc = "stamp"
    /\ configMtime' = Mtime
    /\ reloadEvent' = FALSE
    /\ pc' = "cycle"
    /\ UNCHANGED <<fileVars, loaded, interval, stopEvent, history>>

Stamp ==
    /\ pc = "stamp"
    /\ configMtime' = Mtime
    /\ pc' = IF impl = "python" THEN "clear" ELSE "cycle"
    /\ UNCHANGED <<fileVars, loaded, interval, reloadEvent, stopEvent, history>>

\* reload_event.clear(), after a reload that worked or failed (Python).
Clear ==
    /\ pc = "clear"
    /\ reloadEvent' = FALSE
    /\ pc' = "cycle"
    /\ UNCHANGED <<fileVars, runtimeVars, stopEvent, history>>

\* A cycle, whatever its errors. Python's clients of the relay board and of
\* Mill have no timeout, and a peer that never answers keeps it for good.
RunCycle ==
    /\ pc = "cycle"
    /\ pc' \in IF impl = "python" THEN {"wait", "hung"} ELSE {"wait"}
    /\ late' = IF stopEvent /\ late < 2 THEN late + 1 ELSE late
    /\ UNCHANGED <<fileVars, runtimeVars, reloadEvent, stopEvent, asked, raced>>

\* The peer answers after all, or closes the connection.
Unhang ==
    /\ pc = "hung"
    /\ pc' = "wait"
    /\ UNCHANGED <<fileVars, runtimeVars, reloadEvent, stopEvent, history>>

\* The interval is over, or a signal cut it short. Python leaves the loop from
\* here, Rust by the test at its head.
Wait ==
    /\ pc = "wait"
    /\ pc' = IF stopEvent /\ impl = "python" THEN "down" ELSE "poll"
    /\ UNCHANGED <<fileVars, runtimeVars, reloadEvent, stopEvent, history>>

-----------------------------------------------------------------------------
(* The world: the administrator and systemd.                               *)

\* Between the load and its mtime, a change is taken for the one just loaded;
\* between Python's first look and its mtime, for the one looked at.
RaceWindow == {"stamp", "stamp0"}
Race == IF pc \in RaceWindow THEN {"stamp"} ELSE IF pc = "mtime0" THEN {"start"} ELSE {}

Edit ==
    /\ version < MaxVersion
    /\ version' = version + 1
    /\ kind' \in Kinds /\ (impl = "rust" => kind' # "odd")
    /\ raced' = raced \cup Race
    /\ UNCHANGED <<impl, pc, runtimeVars, reloadEvent, stopEvent, asked, late>>

\* An editor that deletes before it writes.
Remove ==
    /\ kind # "absent"
    /\ kind' = "absent"
    /\ UNCHANGED <<impl, version, pc, runtimeVars, reloadEvent, stopEvent, history>>

\* Until Python's handlers stand, a signal kills.
Handled == ~(impl = "python" /\ pc = "boot")

Sighup ==
    /\ pc # "down"
    /\ IF Handled THEN reloadEvent' = TRUE /\ asked' = version /\ UNCHANGED pc
                  ELSE pc' = "down" /\ UNCHANGED <<reloadEvent, asked>>
    /\ UNCHANGED <<fileVars, runtimeVars, stopEvent, raced, late>>

\* systemctl stop.
Sigterm ==
    /\ pc # "down"
    /\ stopEvent' = TRUE
    /\ pc' = IF Handled THEN pc ELSE "down"
    /\ UNCHANGED <<fileVars, runtimeVars, reloadEvent, history>>

\* A process that hangs does not stop: systemd kills it at last
\* (TimeoutStopSec).
StopTimeout ==
    /\ pc = "hung" /\ stopEvent
    /\ pc' = "down"
    /\ UNCHANGED <<fileVars, runtimeVars, reloadEvent, stopEvent, history>>

SystemctlStart ==
    /\ pc = "down" /\ stopEvent
    /\ stopEvent' = FALSE
    /\ UNCHANGED <<fileVars, pc, runtimeVars, reloadEvent, history>>

-----------------------------------------------------------------------------
\* The steps of a process that is up.
Daemon == Boot \/ Mtime0 \/ Load0 \/ Stamp0 \/ Poll \/ Load \/ Stamp \/ Clear
          \/ RunCycle \/ Wait

World == Edit \/ Remove \/ Sighup \/ Sigterm \/ SystemctlStart

Next == Start \/ Daemon \/ Unhang \/ Kill \/ StopTimeout \/ World

\* The process runs, systemd restarts it, and kills one that will not stop;
\* other kills, and the end of a hang, are left to chance.
Spec == /\ Init /\ [][Next]_vars
        /\ WF_vars(Start) /\ WF_vars(Daemon) /\ WF_vars(StopTimeout)

-----------------------------------------------------------------------------
TypeOK ==
    /\ impl \in Impls
    /\ version \in 1..MaxVersion /\ kind \in Kinds \cup {"good", "absent"}
    /\ pc \in Places
    /\ loaded \in 0..MaxVersion /\ interval \in 0..MaxVersion
    /\ configMtime \in 0..MaxVersion
    /\ reloadEvent \in BOOLEAN /\ stopEvent \in BOOLEAN
    /\ asked \in 0..MaxVersion /\ raced \subseteq {"start", "stamp"} /\ late \in 0..2

Settled == {"poll", "load", "cycle", "hung", "wait"}

\* An edit the daemon has not loaded shows: the remembered mtime is never newer
\* than the config in use, unless the file was edited just between the last
\* good load and the reading of its mtime.
UnloadedEditShows ==
    (pc \in Settled /\ "stamp" \notin raced) => configMtime <= loaded

\* The runtime and its interval may come from different files: Python switches
\* the one before it converts the other (systemd_main.py:188-195), and at start
\* looks twice at the file (lines 135 and 169). But this is never final: the
\* file then shows as changed, and is loaded again at every poll until it is
\* good, unless it was edited just between a look at it and the reading of its
\* mtime, or was not there for that reading.
MixedRuntimeShows ==
    (pc \in Settled /\ raced = {} /\ interval # loaded)
        => (FileChanged \/ Mtime = 0 \/ configMtime = 0)

\* After SIGTERM at most one more cycle begins.
StopsInOneCycle == late <= 1

\* A SIGHUP is answered by Rust: a load is tried after it, unless the config
\* that was on disk when it came is in use already, or the process ends. Python
\* drops one that comes between its load and Clear.
SighupServed ==
    impl = "rust" /\ asked > loaded ~> (asked <= loaded \/ pc = "down")

\* An edit that shows while the daemon cycles or waits is loaded without a
\* signal, unless it is undone or spoilt, the process ends, or a Python cycle
\* hangs, as no watchdog looks after the unit: as long as a load that is tried
\* again and again works now and then (systemd_main.py:178-196,
\* controller.rs:1133-1153).
VisibleEditLoaded ==
    SF_vars(Load /\ loaded' = version) =>
        \A v \in 1..MaxVersion :
            (pc \in {"poll", "cycle", "wait"} /\ FileChanged /\ version = v)
                ~> (loaded >= v \/ kind # "good" \/ pc \in {"down", "hung"})

\* SIGTERM ends the daemon, a hung one by way of systemd's SIGKILL.
Stops == stopEvent ~> pc = "down"
=============================================================================
