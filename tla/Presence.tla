------------------------------- MODULE Presence -------------------------------
(***************************************************************************)
(* Which heaters were on the network, hour by hour: every minute            *)
(* scripts/arp_presence_logger.py scans and sends one line per heater, and  *)
(* a summary, to syslog over UDP; every hour                                *)
(* scripts/temperature_logger.py import-arp-presence reads the whole log    *)
(* into two tables.  The events keep every sighting, the hourly rows say of *)
(* each expected heater whether it was seen in that hour.  The Rust binary  *)
(* has the same import without a transaction around it.                     *)
(*                                                                          *)
(* A line is <<ts, alias>>: an "online" line names its heater; every other  *)
(* line that carries a ts (an offline heater, the summary of a scan, the    *)
(* summary of a failed scan) counts for its hour only and names NoOne.      *)
(* Lines without a ts count for nothing and are left out.  MaxTime bounds   *)
(* the scans, MaxRotations the rotations of the log, MaxUpsets the edits of  *)
(* the alias file and the Rust imports together.                            *)
(***************************************************************************)
EXTENDS Naturals, FiniteSets

CONSTANTS Heaters, NoOne, MaxTime, PerHour, MaxRotations, MaxUpsets

ASSUME PresenceAssumption ==
  /\ IsFiniteSet(Heaters)
  /\ NoOne \notin Heaters
  /\ MaxTime \in Nat \ {0}
  /\ PerHour \in Nat \ {0}
  /\ MaxRotations \in Nat /\ MaxUpsets \in Nat

VARIABLES
  now,        \* scans so far: the time of the newest one
  expected,   \* the heaters in the alias file; {}: no file, or an empty one
  wire,       \* lines of the newest scan that have not arrived
  log,        \* lines of arp-scan.jsonl
  events,     \* heater_presence_events: <<recorded_at, alias>>
  hourly,     \* heater_presence_hourly: NoRow, Offline or the observed_at
  rpc,        \* the Rust import: "idle", "events" or "rows"
  view,       \* the lines it has read
  todo,       \* the events, then the hourly rows, it has still to write
  gone,       \* history: sightings rotated away
  rotations,  \* history: how often the log was rotated
  edits,      \* history: how often the alias file was changed
  rustRuns    \* history: how often the Rust import has run

files == <<now, expected, wire, log, gone, rotations, edits>>
rust == <<rpc, view, todo, rustRuns>>
vars == <<files, events, hourly, rust>>

Times == 1..MaxTime
Hour(t) == t \div PerHour
HourSet == {Hour(t) : t \in Times}
Cells == HourSet \X Heaters
Lines == Times \X (Heaters \cup {NoOne})
NoRow == MaxTime + 1
Offline == 0
Values == Times \cup {NoRow, Offline}

Init ==
  /\ now = 0
  /\ expected = Heaters
  /\ wire = {} /\ log = {} /\ gone = {}
  /\ events = {}
  /\ hourly = [c \in Cells |-> NoRow]
  /\ rpc = "idle" /\ view = {} /\ todo = {}
  /\ rotations = 0 /\ edits = 0 /\ rustRuns = 0

\* Of the lines with a ts, those an import takes as sightings.
OnlineLines(lines) == {l \in lines : l[2] # NoOne}

-----------------------------------------------------------------------------
(* The scanner, every minute. *)

\* A scan answers for every heater of the file, and ends with a summary.
Payloads(seen, t) == {<<t, x>> : x \in seen} \cup {<<t, NoOne>>}

\* A line that has not arrived a minute later is lost.
Emit(lines) ==
  /\ now < MaxTime
  /\ now' = now + 1
  /\ wire' = lines
  /\ UNCHANGED <<expected, log, gone, rotations, edits, events, hourly, rust>>

Scan(seen) == expected # {} /\ seen \subseteq expected /\ Emit(Payloads(seen, now + 1))

\* arp-scan failed: a summary with a ts and no heater.
ScanFails == expected # {} /\ Emit({<<now + 1, NoOne>>})

\* No aliases, or no run: no line with a ts.
NoScan == Emit({})

-----------------------------------------------------------------------------
(* Syslog over UDP, the log file, and the administrator. *)

Arrive(l) ==
  /\ wire' = wire \ {l}
  /\ log' = log \cup {l}
  /\ UNCHANGED <<now, expected, gone, rotations, edits, events, hourly, rust>>

Rotate ==
  /\ log # {}
  /\ rotations < MaxRotations /\ rotations' = rotations + 1
  /\ gone' = gone \cup OnlineLines(log)
  /\ log' = {}
  /\ UNCHANGED <<now, expected, wire, edits, events, hourly, rust>>

EditAliases(file) ==
  /\ file # expected
  /\ edits + rustRuns < MaxUpsets /\ edits' = edits + 1
  /\ expected' = file
  /\ UNCHANGED <<now, wire, log, gone, rotations, events, hourly, rust>>

-----------------------------------------------------------------------------
(* What an import makes of the lines it has read. *)

HoursIn(lines) == {Hour(l[1]) : l \in lines}

\* load_arp_aliases; without a file, the heaters that the log names.
Aliases(lines) == IF expected # {} THEN expected ELSE {l[2] : l \in OnlineLines(lines)}

\* Slip: the hour is forgotten.
SightingsAnyHour(lines, h, x) == {t \in Times : <<t, x>> \in lines}
Sightings(lines, h, x) == {t \in Times : <<t, x>> \in lines /\ Hour(t) = h}

\* Slip: the first sighting stays.
EventMapFirst(lines, h, x) ==
  LET old == {t \in Sightings(lines, h, x) : \A u \in Sightings(lines, h, x) : t <= u}
  IN  IF old = {} THEN Offline ELSE CHOOSE t \in old : TRUE

\* event_map: the newest sighting of a heater in an hour, whatever the order.
EventMap(lines, h, x) ==
  LET new == {t \in Sightings(lines, h, x) : \A u \in Sightings(lines, h, x) : u <= t}
  IN  IF new = {} THEN Offline ELSE CHOOSE t \in new : TRUE

\* Slip: a row that is there is not updated.
ImportInsertOnly ==
  /\ events' = events \cup OnlineLines(log)
  /\ hourly' = [c \in Cells |->
       IF c \in HoursIn(log) \X Aliases(log) /\ hourly[c] = NoRow
       THEN EventMap(log, c[1], c[2]) ELSE hourly[c]]
  /\ UNCHANGED <<files, rust>>

\* Python: one transaction from the first row written to the commit.
Import ==
  /\ events' = events \cup OnlineLines(log)
  /\ hourly' = [c \in Cells |->
       IF c \in HoursIn(log) \X Aliases(log) THEN EventMap(log, c[1], c[2]) ELSE hourly[c]]
  /\ UNCHANGED <<files, rust>>

-----------------------------------------------------------------------------
(* Rust: the lines are read once, every statement commits by itself. *)

RustRead ==
  /\ rpc = "idle"
  /\ rpc' = "events" /\ view' = log /\ todo' = OnlineLines(log)
  /\ edits + rustRuns < MaxUpsets /\ rustRuns' = rustRuns + 1
  /\ UNCHANGED <<files, events, hourly>>

\* In the order of the file; the heaters of one scan in some fixed order.
FirstLine(ls) == CHOOSE l \in ls : \A m \in ls : l[1] <= m[1]
FirstRow(rs) == CHOOSE r \in rs : \A q \in rs : r[1][1] <= q[1][1]

RustEvent(l) ==
  /\ rpc = "events" /\ l = FirstLine(todo)
  /\ events' = events \cup {l}
  /\ todo' = todo \ {l}
  /\ UNCHANGED <<files, hourly, rpc, view, rustRuns>>

RustAliases ==
  /\ rpc = "events" /\ todo = {}
  /\ rpc' = "rows" /\ view' = {}
  /\ todo' = {<<c, EventMap(view, c[1], c[2])>> : c \in HoursIn(view) \X Aliases(view)}
  /\ UNCHANGED <<files, events, hourly, rustRuns>>

RustRow(r) ==
  /\ rpc = "rows" /\ r = FirstRow(todo)
  /\ hourly' = [hourly EXCEPT ![r[1]] = r[2]]
  /\ todo' = todo \ {r}
  /\ UNCHANGED <<files, events, rpc, view, rustRuns>>

\* It returns after the last row; an error or a kill ends it anywhere.
RustEnds ==
  /\ rpc # "idle"
  /\ rpc' = "idle" /\ view' = {} /\ todo' = {}
  /\ UNCHANGED <<files, events, hourly, rustRuns>>

RustImport ==
  \/ RustRead
  \/ \E l \in todo : RustEvent(l)
  \/ RustAliases
  \/ \E r \in todo : RustRow(r)
  \/ RustEnds

Next ==
  \/ \E seen \in SUBSET Heaters : Scan(seen)
  \/ ScanFails
  \/ NoScan
  \/ \E l \in wire : Arrive(l)
  \/ Rotate
  \/ \E file \in SUBSET Heaters : EditAliases(file)
  \/ Import
  \/ RustImport

Spec == Init /\ [][Next]_vars

\* cron runs the import every hour; a line may stay on the wire for ever.
FairSpec == Spec /\ WF_vars(Import)

-----------------------------------------------------------------------------
(* What the pages show. *)

Rows(h) == {x \in Heaters : hourly[<<h, x>>] # NoRow}
Online(h) == {x \in Rows(h) : hourly[<<h, x>>] # Offline}

\* fetch_heater_online_counts: one pair per hour that has rows.
OnlineCounts ==
  {<<h, Cardinality(Online(h)), Cardinality(Rows(h))>> : h \in {g \in HourSet : Rows(g) # {}}}

\* fetch_latest_heater_presence_statuses: the rows of the newest hour.
LatestStatuses ==
  {<<c[2], hourly[c]>> : c \in
     {d \in Cells : d[2] \in Rows(d[1]) /\ \A g \in HourSet : Rows(g) # {} => g <= d[1]}}

-----------------------------------------------------------------------------
(* Types of the tables, the log and the Rust import. *)
TypeOK ==
  /\ now \in 0..MaxTime
  /\ expected \subseteq Heaters
  /\ wire \subseteq Lines /\ log \subseteq Lines /\ gone \subseteq Lines
  /\ events \subseteq Times \X Heaters
  /\ hourly \in [Cells -> Values]
  /\ rpc \in {"idle", "events", "rows"}
  /\ view \subseteq Lines
  /\ todo \subseteq IF rpc = "rows" THEN Cells \X Values ELSE Times \X Heaters
  /\ rotations \in 0..MaxRotations /\ edits \in 0..MaxUpsets /\ rustRuns \in 0..MaxUpsets

(* An hourly row that says "online" names a sighting of that heater in that  *)
(* hour that the events hold: the Rust import may stop anywhere, run beside  *)
(* the Python one and write rows from lines long rotated away               *)
(* (temperature_logger.py:412-441, arp.rs:84-117).                          *)
OnlineIsBacked ==
  \A c \in Cells : hourly[c] \in Times =>
    Hour(hourly[c]) = c[1] /\ <<hourly[c], c[2]>> \in events

(* Where the alias file stands and only Python imports, the pages agree      *)
(* with the events: every hour that has rows has all expected heaters, and   *)
(* counts and shows as online those that were seen in it, each with its      *)
(* newest sighting; only a rotation within the hour may take some away       *)
(* (temperature_logger.py:279-336, 453-485).                                *)
TablesAgree ==
  edits = 0 /\ rustRuns = 0 =>
    /\ \A n \in OnlineCounts :
         LET sighted == {e \in events : Hour(e[1]) = n[1]} IN
         /\ n[3] = Cardinality(expected)
         /\ n[2] <= Cardinality({e[2] : e \in sighted})
         /\ sighted \cap gone = {} => n[2] = Cardinality({e[2] : e \in sighted})
    /\ \A s \in LatestStatuses : \A e \in events :
         /\ \E t \in HourSet : Hour(e[1]) <= t /\ Rows(t) # {}
         /\ (e[2] = s[1] /\ e \notin gone /\ \A g \in HourSet : Rows(g) # {} => g <= Hour(e[1]))
              => s[2] >= e[1]

(* Every sighting that reached the log and stays in it is shown in the end,  *)
(* although lines come in any order and late, and other imports, stopped or  *)
(* stale, write the same rows: the hourly import repeats the whole log       *)
(* (temperature_logger.py:384-485).                                         *)
PresenceSettles ==
  <>[](edits > 0 \/ \A l \in OnlineLines(log) :
                   hourly[<<Hour(l[1]), l[2]>>] \in l[1]..MaxTime)
=============================================================================
