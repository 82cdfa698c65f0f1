------------------------------ MODULE Telemetry ------------------------------
(***************************************************************************)
(* The hourly job of scripts/cron_temperature_log.sh, under `set -e`:       *)
(* import the presence log, read Glamox, the Mill cloud and Yr, save these  *)
(* readings, draw the temperature page, read the Mill cloud again, save the *)
(* energy row, draw the energy page.  One process reads all three sources   *)
(* before it saves any.  The first failure ends the job until the next hour.*)
(*                                                                          *)
(* Beside it, mill-debug calls a client once and mill-list up to twice, by   *)
(* hand and while no job runs; MaxLists bounds these calls.  CanFail are the *)
(* parties that may fail.                                                   *)
(***************************************************************************)
EXTENDS MillCloud

CONSTANTS CanFail, MaxLists

Sources == {"glamox", "mill", "yr"}
Parties == Sources \cup {"log", "db", "host"}

ASSUME TelemetryAssumption == CanFail \subseteq Parties /\ MaxLists \in Nat

VARIABLES
  step,   \* the step of the job; "idle" between jobs, "list" for calls by hand
  fresh,  \* what the newest job has saved: sources, and "energy"
  shown,  \* the pages it has drawn: "temperature", "energy"
  torn,   \* history: it was stopped between two commits
  down,   \* what fails: the sources, "log", "db" (SQLite, pages) or "host"
  lists   \* calls made by hand so far

jobVars == <<fresh, shown, torn, down, lists>>
vars == <<step, jobVars, cloudVars>>

Needs(s) ==
  CASE s = "import" -> {"log", "db"}
    [] s \in Sources -> {s}
    [] s = "energy" -> {"mill"}
    [] s \in {"save", "page", "saveEnergy", "energyPage"} -> {"db"}
    [] OTHER -> {}

InJob == step \notin {"idle", "list"}

Init ==
  /\ step = "idle" /\ fresh = {} /\ shown = {} /\ torn = FALSE
  /\ down \in SUBSET CanFail
  /\ lists = 0
  /\ CloudInit

\* cron starts the job: what was saved and drawn is an hour old now.
Start ==
  /\ step = "idle"
  /\ step' = "import"
  /\ fresh' = {} /\ shown' = {} /\ torn' = FALSE
  /\ UNCHANGED <<down, lists, cloudVars>>

\* A step succeeds and the next one follows.
Done(s, next) == step = s /\ Needs(s) \cap down = {} /\ step' = next

ImportPresence == Done("import", "glamox") /\ UNCHANGED <<jobVars, cloudVars>>

\* Slip: a reading is saved as soon as it is there.
FetchGlamoxAndSave ==
  Done("glamox", "mill") /\ fresh' = fresh \cup {"glamox"}
  /\ UNCHANGED <<shown, torn, down, lists, cloudVars>>

FetchGlamox == Done("glamox", "mill") /\ UNCHANGED <<jobVars, cloudVars>>

FetchMill == Done("mill", "yr") /\ Fetched /\ UNCHANGED jobVars

FetchYr == Done("yr", "save") /\ UNCHANGED <<jobVars, cloudVars>>

\* Every insert_reading commits; after the last one the process ends.
SaveReading ==
  /\ step = "save" /\ Needs("save") \cap down = {}
  /\ \E s \in Sources \ fresh : fresh' = fresh \cup {s}
  /\ IF Sources \subseteq fresh' THEN step' = "page" /\ NewClient ELSE UNCHANGED <<step, cloudVars>>
  /\ UNCHANGED <<shown, torn, down, lists>>

StaticReport ==
  /\ Done("page", "energy")
  /\ shown' = shown \cup {"temperature"}
  /\ UNCHANGED <<fresh, torn, down, lists, cloudVars>>

FetchEnergy == Done("energy", "saveEnergy") /\ Fetched /\ UNCHANGED jobVars

SaveEnergy ==
  /\ Done("saveEnergy", "energyPage")
  /\ fresh' = fresh \cup {"energy"}
  /\ NewClient
  /\ UNCHANGED <<shown, torn, down, lists>>

EnergyReport ==
  /\ Done("energyPage", "idle")
  /\ shown' = shown \cup {"energy"}
  /\ UNCHANGED <<fresh, torn, down, lists, cloudVars>>

\* Slip: a lock that a stopped job leaves behind.
StopForGood ==
  /\ InJob
  /\ step' = "locked"
  /\ torn' = (torn \/ (step = "save" /\ fresh # {}))
  /\ NewClient
  /\ UNCHANGED <<fresh, shown, down, lists>>

\* set -e: the first failure, or a kill, is the end of the job.
Stop ==
  /\ InJob
  /\ step' = "idle"
  /\ torn' = (torn \/ (step = "save" /\ fresh # {}))
  /\ NewClient
  /\ UNCHANGED <<fresh, shown, down, lists>>

Fails ==
  /\ IF step \in {"mill", "energy"} THEN cpc = "error" ELSE InJob /\ Needs(step) \cap down # {}
  /\ Stop

Killed == "host" \in down /\ Stop

-----------------------------------------------------------------------------
(* The client of a Mill step, or of a call by hand. *)

MillCall ==
  /\ step \in {"mill", "energy"}
  /\ Call
  /\ UNCHANGED <<step, jobVars>>

MillLogin == "mill" \notin down /\ Login /\ UNCHANGED <<step, jobVars>>

\* By hand, a call may also find no devices.
MillFails == CloudFails("mill" \in down \/ step = "list") /\ UNCHANGED <<step, jobVars>>

MillWaits ==
  /\ step \in {"mill", "energy", "list"} /\ cpc # "error"
  /\ CloudTick("mill" \in down \/ step = "list")
  /\ UNCHANGED <<step, jobVars>>

\* The call of mill-debug; list_houses, then the devices of the house or of all.
MillList ==
  /\ step \in {"idle", "list"} /\ lists < MaxLists
  /\ step' = "list" /\ lists' = lists + 1
  /\ Call
  /\ UNCHANGED <<fresh, shown, torn, down>>

ListFetched == step = "list" /\ "mill" \notin down /\ Fetched /\ UNCHANGED <<step, jobVars>>

ListEnds ==
  /\ step = "list" /\ cpc \in {"idle", "error"}
  /\ step' = "idle"
  /\ NewClient
  /\ UNCHANGED jobVars

-----------------------------------------------------------------------------
Breaks(p) == p \notin down /\ down' = down \cup {p} /\ UNCHANGED <<step, fresh, shown, torn, lists, cloudVars>>

Repair == down # {} /\ down' = {} /\ UNCHANGED <<step, fresh, shown, torn, lists, cloudVars>>

Job ==
  \/ Start \/ ImportPresence
  \/ FetchGlamox \/ FetchMill \/ FetchYr \/ SaveReading \/ StaticReport
  \/ FetchEnergy \/ SaveEnergy \/ EnergyReport
  \/ Fails

Mill == MillCall \/ MillLogin \/ MillFails \/ ListFetched \/ ListEnds

Next ==
  \/ Job
  \/ Mill
  \/ MillWaits
  \/ MillList
  \/ Killed
  \/ \E p \in CanFail : Breaks(p)
  \/ Repair

Spec == Init /\ [][Next]_vars

\* cron starts the job every hour, its processes run, and their requests end.
FairSpec == Spec /\ WF_vars(Job \/ Mill)

-----------------------------------------------------------------------------
(* The three readings of an hour are saved together or not at all, unless   *)
(* the job is stopped between their commits, and a page drawn by this job   *)
(* shows all of them: a source that fails must not leave the others of that *)
(* hour behind (temperature_logger.py:977-1024, cron_temperature_log.sh:5). *)
WholeBatch ==
  /\ step # "save" => torn \/ fresh \cap Sources \in {{}, Sources}
  /\ shown # {} => Sources \subseteq fresh
  /\ "energy" \in shown => "energy" \in fresh

\* The Mill cloud gives no token that dies before it can be used.
LongLived == cpc = "get" => liveUntil - sentAt > 2 * Timeout

(* However often sources, the database and the host fail, in any step: once *)
(* all work and stay up, and the cloud's tokens outlive a reply and the     *)
(* request after it, every hour's job draws both pages from rows of its own *)
(* (cron_temperature_log.sh:26-64).                                         *)
PagesGetFresh ==
  <>[](down = {} /\ LongLived) => []<>(shown = {"temperature", "energy"})
=============================================================================
