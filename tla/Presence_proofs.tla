---------------------------- MODULE Presence_proofs ----------------------------
(***************************************************************************)
(* Proofs about Presence: the types of its tables, and that no row ever     *)
(* claims a heater online that no event of that hour backs, for every set   *)
(* of heaters and all bounds.  The Rust import needs the strengthening: what *)
(* it has read is stored or still to be stored, and every row it is about   *)
(* to write is backed already.  And that, where only Python imports and the *)
(* alias file stands, the pages agree with the events.                      *)
(***************************************************************************)
EXTENDS Presence, FiniteSetTheorems, WellFoundedInduction, TLAPS

\* A value of an hourly row, against a table of events.
Backed(c, v, es) == v \in Times => Hour(v) = c[1] /\ <<v, c[2]>> \in es

RustIsBacked ==
  /\ rpc = "events" => OnlineLines(view) \subseteq events \cup todo
  /\ rpc = "rows" => \A r \in todo : Backed(r[1], r[2], events)

IInv == TypeOK /\ OnlineIsBacked /\ RustIsBacked

-----------------------------------------------------------------------------
(* The newest sighting of a heater in an hour is a sighting of that hour.   *)
LEMMA EventMapBacked ==
  ASSUME NEW lines \in SUBSET Lines, NEW h \in HourSet, NEW x \in Heaters
  PROVE  /\ EventMap(lines, h, x) \in Values
         /\ Backed(<<h, x>>, EventMap(lines, h, x), OnlineLines(lines))
<1> DEFINE new == {t \in Sightings(lines, h, x) : \A u \in Sightings(lines, h, x) : u <= t}
<1>1. CASE new = {}
  <2>1. EventMap(lines, h, x) = Offline
    BY <1>1 DEF EventMap
  <2>2. Offline \notin Times
    BY DEF Offline, Times
  <2> QED BY <2>1, <2>2 DEF Values, Backed
<1>2. CASE new # {}
  <2>1. EventMap(lines, h, x) \in new
    BY <1>2 DEF EventMap
  <2>2. EventMap(lines, h, x) \in Sightings(lines, h, x)
    BY <2>1
  <2>3. /\ EventMap(lines, h, x) \in Times
        /\ <<EventMap(lines, h, x), x>> \in lines
        /\ Hour(EventMap(lines, h, x)) = h
    BY <2>2 DEF Sightings
  <2>4. x # NoOne
    BY PresenceAssumption
  <2> QED BY <2>3, <2>4 DEF OnlineLines, Values, Backed
<1> QED BY <1>1, <1>2

(* What an import reads: hours of the tables, heaters, and pairs that are   *)
(* events.                                                                  *)
LEMMA ReadTypes ==
  ASSUME NEW lines \in SUBSET Lines, expected \subseteq Heaters
  PROVE  /\ OnlineLines(lines) \subseteq Times \X Heaters
         /\ HoursIn(lines) \subseteq HourSet
         /\ Aliases(lines) \subseteq Heaters
<1>1. OnlineLines(lines) \subseteq Times \X Heaters
  BY DEF OnlineLines, Lines
<1>2. HoursIn(lines) \subseteq HourSet
  BY DEF HoursIn, HourSet, Lines
<1>3. Aliases(lines) \subseteq Heaters
  BY <1>1 DEF Aliases
<1> QED BY <1>1, <1>2, <1>3

(* More events back no less.                                                *)
LEMMA BackedGrows ==
  ASSUME NEW c, NEW v, NEW es, NEW more, es \subseteq more, Backed(c, v, es)
  PROVE  Backed(c, v, more)
BY DEF Backed

-----------------------------------------------------------------------------
LEMMA InitIInv == Init => IInv
<1> SUFFICES ASSUME Init PROVE IInv
  OBVIOUS
<1>1. NoRow \notin Times /\ NoRow \in Values
  BY PresenceAssumption DEF NoRow, Times, Values
<1>2. TypeOK
  BY <1>1, PresenceAssumption DEF Init, TypeOK
<1>3. OnlineIsBacked /\ RustIsBacked
  BY <1>1 DEF Init, OnlineIsBacked, RustIsBacked
<1> QED BY <1>2, <1>3 DEF IInv

(* A step of the scanner, of syslog or of the administrator leaves the      *)
(* tables and the Rust import alone.                                        *)
LEMMA WorldStep ==
  ASSUME IInv, UNCHANGED <<events, hourly, rust>>,
         now' \in 0..MaxTime, expected' \subseteq Heaters,
         wire' \subseteq Lines, log' \subseteq Lines, gone' \subseteq Lines,
         rotations' \in 0..MaxRotations, edits' \in 0..MaxUpsets
  PROVE  IInv'
<1>1. TypeOK'
  BY DEF IInv, TypeOK, rust
<1>2. OnlineIsBacked' /\ RustIsBacked'
  BY DEF IInv, OnlineIsBacked, RustIsBacked, rust
<1> QED BY <1>1, <1>2 DEF IInv

LEMMA EmitStep ==
  ASSUME IInv, NEW seen \in SUBSET Heaters, Emit(Payloads(seen, now + 1)) \/ Emit({<<now + 1, NoOne>>}) \/ Emit({})
  PROVE  IInv'
<1>1. now' \in Times /\ now' = now + 1 /\ now' \in 0..MaxTime
  BY PresenceAssumption DEF IInv, TypeOK, Emit, Times
<1>2. wire' \subseteq Lines
  BY <1>1 DEF Emit, Payloads, Lines
<1> QED BY <1>1, <1>2, WorldStep DEF IInv, TypeOK, Emit

LEMMA ImportStep == ASSUME IInv, Import PROVE IInv'
<1> USE DEF IInv
<1>1. /\ log \in SUBSET Lines
      /\ expected \subseteq Heaters
      /\ OnlineLines(log) \subseteq Times \X Heaters
      /\ HoursIn(log) \X Aliases(log) \subseteq Cells
  BY ReadTypes DEF TypeOK, Cells
<1>2. ASSUME NEW c \in Cells
      PROVE  hourly'[c] \in Values /\ Backed(c, hourly'[c], events')
  <2>1. CASE c \in HoursIn(log) \X Aliases(log)
    <3>1. hourly'[c] = EventMap(log, c[1], c[2])
      BY <2>1, <1>2 DEF Import
    <3>2. c[1] \in HourSet /\ c[2] \in Heaters /\ c = <<c[1], c[2]>>
      BY <1>2 DEF Cells
    <3>3. hourly'[c] \in Values /\ Backed(c, hourly'[c], OnlineLines(log))
      BY <1>1, <3>1, <3>2, EventMapBacked
    <3>4. OnlineLines(log) \subseteq events'
      BY DEF Import
    <3> QED BY <3>3, <3>4, BackedGrows
  <2>2. CASE c \notin HoursIn(log) \X Aliases(log)
    <3>1. hourly'[c] = hourly[c]
      BY <2>2, <1>2 DEF Import
    <3> QED BY <3>1, <1>2 DEF Import, TypeOK, OnlineIsBacked, Backed
  <2> QED BY <2>1, <2>2
<1>3. hourly' \in [Cells -> Values]
  <2>1. hourly' = [c \in Cells |-> hourly'[c]]
    BY DEF Import
  <2> QED BY <2>1, <1>2
<1>4. TypeOK'
  BY <1>1, <1>3 DEF TypeOK, Import, files, rust
<1>5. OnlineIsBacked'
  BY <1>2 DEF OnlineIsBacked, Backed
<1>6. RustIsBacked'
  BY BackedGrows DEF RustIsBacked, Import, rust
<1> QED BY <1>4, <1>5, <1>6

-----------------------------------------------------------------------------
LEMMA RustStep == ASSUME IInv, RustImport PROVE IInv'
<1> USE DEF IInv
<1>1. CASE RustRead
  <2>1. OnlineLines(log) \subseteq Times \X Heaters
    BY ReadTypes DEF TypeOK
  <2>2. TypeOK'
    BY <1>1, <2>1, PresenceAssumption DEF RustRead, TypeOK, files
  <2>3. OnlineIsBacked' /\ RustIsBacked'
    BY <1>1 DEF RustRead, OnlineIsBacked, RustIsBacked
  <2> QED BY <2>2, <2>3
<1>2. ASSUME NEW l \in todo, RustEvent(l) PROVE IInv'
  <2>1. l \in Times \X Heaters
    BY <1>2 DEF RustEvent, TypeOK
  <2>2. TypeOK'
    BY <1>2, <2>1 DEF RustEvent, TypeOK, files
  <2>3. OnlineIsBacked' /\ RustIsBacked'
    BY <1>2 DEF RustEvent, OnlineIsBacked, RustIsBacked
  <2> QED BY <2>2, <2>3
<1>3. CASE RustAliases
  <2>1. /\ OnlineLines(view) \subseteq events
        /\ HoursIn(view) \subseteq HourSet /\ Aliases(view) \subseteq Heaters
    BY <1>3, ReadTypes DEF RustAliases, RustIsBacked, TypeOK
  <2>2. ASSUME NEW r \in todo'
        PROVE  r \in Cells \X Values /\ Backed(r[1], r[2], events')
    <3>1. PICK c \in HoursIn(view) \X Aliases(view) : r = <<c, EventMap(view, c[1], c[2])>>
      BY <1>3, <2>2 DEF RustAliases
    <3>2. c \in Cells /\ c[1] \in HourSet /\ c[2] \in Heaters /\ c = <<c[1], c[2]>>
      BY <2>1 DEF Cells
    <3>3. r[2] \in Values /\ Backed(c, r[2], OnlineLines(view))
      BY <3>1, <3>2, EventMapBacked DEF TypeOK
    <3> QED BY <1>3, <2>1, <3>1, <3>2, <3>3, BackedGrows DEF RustAliases
  <2>3. TypeOK'
    BY <1>3, <2>2 DEF RustAliases, TypeOK, files
  <2>4. OnlineIsBacked' /\ RustIsBacked'
    BY <1>3, <2>2 DEF RustAliases, OnlineIsBacked, RustIsBacked
  <2> QED BY <2>3, <2>4
<1>4. ASSUME NEW r \in todo, RustRow(r) PROVE IInv'
  <2>1. r \in Cells \X Values /\ Backed(r[1], r[2], events)
    BY <1>4 DEF RustRow, TypeOK, RustIsBacked
  <2>2. hourly' \in [Cells -> Values]
    BY <1>4, <2>1 DEF RustRow, TypeOK
  <2>3. TypeOK'
    BY <1>4, <2>2 DEF RustRow, TypeOK, files
  <2>4. OnlineIsBacked'
    BY <1>4, <2>1 DEF RustRow, TypeOK, OnlineIsBacked, Backed
  <2>5. RustIsBacked'
    BY <1>4 DEF RustRow, RustIsBacked
  <2> QED BY <2>3, <2>4, <2>5
<1>5. CASE RustEnds
  <2>1. TypeOK'
    BY <1>5 DEF RustEnds, TypeOK, files
  <2>2. OnlineIsBacked' /\ RustIsBacked'
    BY <1>5 DEF RustEnds, OnlineIsBacked, RustIsBacked
  <2> QED BY <2>1, <2>2
<1> QED BY <1>1, <1>2, <1>3, <1>4, <1>5 DEF RustImport

LEMMA StepIInv == ASSUME IInv, [Next]_vars PROVE IInv'
<1>1. CASE \/ \E seen \in SUBSET Heaters : Scan(seen)
           \/ ScanFails
           \/ NoScan
  BY <1>1, EmitStep DEF Scan, ScanFails, NoScan
<1>2. ASSUME NEW l \in wire, Arrive(l) PROVE IInv'
  BY <1>2, WorldStep DEF IInv, TypeOK, Arrive
<1>3. CASE Rotate
  <2>1. OnlineLines(log) \subseteq Lines
    BY DEF OnlineLines, IInv, TypeOK
  <2> QED BY <1>3, <2>1, WorldStep, PresenceAssumption DEF IInv, TypeOK, Rotate
<1>4. ASSUME NEW file \in SUBSET Heaters, EditAliases(file) PROVE IInv'
  BY <1>4, WorldStep, PresenceAssumption DEF IInv, TypeOK, EditAliases
<1>5. CASE UNCHANGED vars
  BY <1>5, WorldStep DEF IInv, TypeOK, vars, files
<1> QED BY <1>1, <1>2, <1>3, <1>4, <1>5, ImportStep, RustStep DEF Next

THEOREM InductiveInvariant == Spec => []IInv
BY InitIInv, StepIInv, PTL DEF Spec

(* The tables, the log and the Rust import keep their types.                *)
THEOREM TypeCorrect == Spec => []TypeOK
<1>1. IInv => TypeOK
  BY DEF IInv
<1> QED BY <1>1, InductiveInvariant, PTL

(* An hourly row says "online" only of a heater that an event of that hour  *)
(* names, whatever import wrote it and wherever it stopped                  *)
(* (temperature_logger.py:412-483, arp.rs:84-163).                          *)
THEOREM OnlineIsBackedHolds == Spec => []OnlineIsBacked
<1>1. IInv => OnlineIsBacked
  BY DEF IInv
<1> QED BY <1>1, InductiveInvariant, PTL

-----------------------------------------------------------------------------
(* Numbers and times: of a set of times there is a newest.                  *)
LEMMA LessIsWellFounded == IsWellFoundedOn({p \in Nat \X Nat : p[1] < p[2]}, Nat)
<1>1. OpToRel(<, Nat) = {p \in Nat \X Nat : p[1] < p[2]}
  BY DEF OpToRel
<1> QED BY <1>1, NatLessThanWellFounded

LEMMA LeastOfNaturals ==
  ASSUME NEW S \in SUBSET Nat, S # {}
  PROVE  \E n \in S : \A m \in S : n <= m
<1>1. PICK n \in S : \A m \in S : <<m, n>> \notin {p \in Nat \X Nat : p[1] < p[2]}
  BY LessIsWellFounded, WFMin
<1>2. \A m \in S : ~(m < n)
  BY <1>1
<1> QED BY <1>2

LEMMA NewestOfTimes ==
  ASSUME NEW S \in SUBSET Times, S # {}
  PROVE  \E n \in S : \A m \in S : m <= n
<1> DEFINE Bounds == {k \in Nat : \A m \in S : m <= k}
<1>1. S \subseteq Nat /\ MaxTime \in Bounds
  BY PresenceAssumption DEF Times
<1>2. PICK k \in Bounds : \A e \in Bounds : k <= e
  BY <1>1, LeastOfNaturals
<1>3. CASE k \in S
  BY <1>2, <1>3
<1>4. CASE k \notin S
  <2>1. \A m \in S : m \in Nat /\ m <= k /\ m # k
    BY <1>1, <1>4
  <2>2. PICK m \in S : TRUE
    OBVIOUS
  <2>3. k # 0
    BY <2>1, <2>2
  <2>4. k - 1 \in Bounds
    BY <2>1, <2>3
  <2> QED BY <1>2, <2>4
<1> QED BY <1>3, <1>4

(* event_map keeps the newest sighting of an hour, or that there was none.  *)
LEMMA EventMapNewest ==
  ASSUME NEW lines \in SUBSET Lines, NEW h \in HourSet, NEW x \in Heaters,
         NEW t \in Times, <<t, x>> \in lines, Hour(t) = h
  PROVE  EventMap(lines, h, x) \in t..MaxTime
<1> DEFINE S == Sightings(lines, h, x)
           new == {u \in S : \A w \in S : w <= u}
<1>1. S \in SUBSET Times /\ t \in S
  BY DEF Sightings
<1>2. new # {}
  BY <1>1, NewestOfTimes
<1>3. EventMap(lines, h, x) \in new
  BY <1>2 DEF EventMap
<1> QED BY <1>1, <1>3, PresenceAssumption DEF Times

LEMMA EventMapIsRow ==
  ASSUME NEW lines \in SUBSET Lines, NEW h \in HourSet, NEW x \in Heaters
  PROVE  EventMap(lines, h, x) # NoRow
<1> DEFINE new == {t \in Sightings(lines, h, x) : \A u \in Sightings(lines, h, x) : u <= t}
<1>1. new = {} => EventMap(lines, h, x) = Offline
  BY DEF EventMap
<1>2. new # {} => EventMap(lines, h, x) \in Times
  BY DEF EventMap, Sightings
<1>3. Offline # NoRow /\ NoRow \notin Times
  BY PresenceAssumption DEF Offline, NoRow, Times
<1> QED BY <1>1, <1>2, <1>3

-----------------------------------------------------------------------------
(* The alias file stands and only Python imports: every hour has the rows   *)
(* of all heaters or none, every event is of an hour with rows, and a       *)
(* sighting that was not rotated away is still in the log, so the last      *)
(* import has seen it and wrote it, or a newer one, to its row.             *)
AgreeInv ==
  edits = 0 /\ rustRuns = 0 =>
    /\ expected = Heaters /\ rpc = "idle"
    /\ \A h \in HourSet : Rows(h) \in {{}, Heaters}
    /\ \A e \in events : e \in log \cup gone /\ Rows(Hour(e[1])) # {}
    /\ \A e \in events \ gone : hourly[<<Hour(e[1]), e[2]>>] \in e[1]..MaxTime

LEMMA InitAgree == Init => AgreeInv
BY DEF Init, AgreeInv, Rows, Cells

(* A step of the scanner or of syslog: lines are added, or rotated away.    *)
LEMMA WorldAgree ==
  ASSUME IInv, AgreeInv,
         UNCHANGED <<events, hourly, rust, expected, edits>>,
         \/ log \subseteq log' /\ gone' = gone
         \/ gone' = gone \cup OnlineLines(log)
  PROVE  AgreeInv'
<1> SUFFICES ASSUME (edits = 0 /\ rustRuns = 0)'
             PROVE  /\ (expected = Heaters /\ rpc = "idle")'
                    /\ (\A h \in HourSet : Rows(h) \in {{}, Heaters})'
                    /\ (\A e \in events : e \in log \cup gone /\ Rows(Hour(e[1])) # {})'
                    /\ (\A e \in events \ gone : hourly[<<Hour(e[1]), e[2]>>] \in e[1]..MaxTime)'
  BY DEF AgreeInv
<1>1. gone \subseteq gone' /\ \A e \in events : e \in log => e \in log' \cup gone'
  <2>1. \A e \in events : e[2] # NoOne
    BY PresenceAssumption DEF IInv, TypeOK
  <2> QED BY <2>1 DEF OnlineLines
<1>2. \A h : Rows(h)' = Rows(h)
  BY DEF Rows
<1> QED BY <1>1, <1>2 DEF AgreeInv, rust

LEMMA ImportAgree == ASSUME IInv, AgreeInv, Import PROVE AgreeInv'
<1> SUFFICES ASSUME (edits = 0 /\ rustRuns = 0)'
             PROVE  /\ (expected = Heaters /\ rpc = "idle")'
                    /\ (\A h \in HourSet : Rows(h) \in {{}, Heaters})'
                    /\ (\A e \in events : e \in log \cup gone /\ Rows(Hour(e[1])) # {})'
                    /\ (\A e \in events \ gone : hourly[<<Hour(e[1]), e[2]>>] \in e[1]..MaxTime)'
  BY DEF AgreeInv
<1>0. /\ UNCHANGED <<expected, rpc, log, gone>> /\ edits = 0 /\ rustRuns = 0
      /\ expected = Heaters /\ rpc = "idle"
  BY DEF Import, files, rust, AgreeInv
<1>1. log \in SUBSET Lines /\ HoursIn(log) \subseteq HourSet /\ OnlineLines(log) \subseteq Times \X Heaters
  BY ReadTypes DEF IInv, TypeOK
<1>2. Aliases(log) = Heaters
  BY <1>0, <1>1 DEF Aliases
<1>3. \A h \in HourSet, x \in Heaters :
         hourly'[<<h, x>>] = IF h \in HoursIn(log) THEN EventMap(log, h, x) ELSE hourly[<<h, x>>]
  BY <1>2 DEF Import, Cells
<1>4. \A h \in HourSet : Rows(h)' = IF h \in HoursIn(log) THEN Heaters ELSE Rows(h)
  BY <1>1, <1>3, EventMapIsRow DEF Rows
<1>5. ASSUME NEW e \in events'
      PROVE  /\ e \in Times \X Heaters /\ e = <<e[1], e[2]>> /\ Hour(e[1]) \in HourSet
             /\ e \in log \cup gone /\ (Rows(Hour(e[1])) # {} \/ e \in log)
  <2>1. e \in events \/ e \in OnlineLines(log)
    BY <1>5 DEF Import
  <2>2. e \in Times \X Heaters
    BY <1>1, <2>1 DEF IInv, TypeOK
  <2>3. e = <<e[1], e[2]>> /\ Hour(e[1]) \in HourSet
    BY <2>2 DEF HourSet
  <2>4. e \in OnlineLines(log) => e \in log
    BY DEF OnlineLines
  <2>5. e \in events => e \in log \cup gone /\ Rows(Hour(e[1])) # {}
    BY <1>0 DEF AgreeInv
  <2> QED BY <2>1, <2>2, <2>3, <2>4, <2>5
<1>6. ASSUME NEW e \in log, e \in events'
      PROVE  Hour(e[1]) \in HoursIn(log)
  BY <1>6 DEF HoursIn
<1>7. ASSUME NEW e \in events' PROVE Rows(Hour(e[1]))' # {}
  BY <1>4, <1>5, <1>6
<1>8. ASSUME NEW e \in events', e \notin gone'
      PROVE  hourly'[<<Hour(e[1]), e[2]>>] \in e[1]..MaxTime
  <2>1. e \in log
    BY <1>0, <1>5, <1>8
  <2>2. e \in Times \X Heaters /\ e = <<e[1], e[2]>> /\ Hour(e[1]) \in HourSet
    BY <1>5, <1>8
  <2>3. Hour(e[1]) \in HoursIn(log)
    BY <1>6, <1>8, <2>1
  <2>4. hourly'[<<Hour(e[1]), e[2]>>] = EventMap(log, Hour(e[1]), e[2])
    BY <1>3, <2>2, <2>3
  <2>5. EventMap(log, Hour(e[1]), e[2]) \in e[1]..MaxTime
    BY <1>1, <2>1, <2>2, EventMapNewest
  <2> QED BY <2>4, <2>5
<1> QED BY <1>0, <1>4, <1>5, <1>7, <1>8 DEF AgreeInv

LEMMA StepAgree == ASSUME IInv, AgreeInv, [Next]_vars PROVE AgreeInv'
<1>1. CASE \/ \E seen \in SUBSET Heaters : Scan(seen)
           \/ ScanFails
           \/ NoScan
  BY <1>1, WorldAgree DEF Scan, ScanFails, NoScan, Emit
<1>2. ASSUME NEW l \in wire, Arrive(l) PROVE AgreeInv'
  BY <1>2, WorldAgree DEF Arrive
<1>3. CASE Rotate
  BY <1>3, WorldAgree DEF Rotate
<1>4. ASSUME NEW file \in SUBSET Heaters, EditAliases(file) PROVE AgreeInv'
  <2>1. edits' # 0
    BY <1>4, PresenceAssumption DEF EditAliases, IInv, TypeOK
  <2> QED BY <2>1 DEF AgreeInv
<1>5. CASE RustImport
  <2>1. RustRead => rustRuns' # 0
    BY PresenceAssumption DEF RustRead, IInv, TypeOK
  <2>2. ~RustRead => rpc # "idle" /\ UNCHANGED <<edits, rustRuns>>
    BY <1>5 DEF RustImport, RustEvent, RustAliases, RustRow, RustEnds, files
  <2> QED BY <2>1, <2>2 DEF AgreeInv
<1>6. CASE UNCHANGED vars
  BY <1>6, WorldAgree DEF vars, files
<1> QED BY <1>1, <1>2, <1>3, <1>4, <1>5, <1>6, ImportAgree DEF Next

(* Times are numbers, and hours are numbers.                                *)
LEMMA HoursAreNumbers == HourSet \subseteq Nat
BY PresenceAssumption DEF HourSet, Hour, Times

(* A counted hour has rows of all heaters, so as many as are expected; those *)
(* shown online have an event of the hour, and where none of its sightings  *)
(* was rotated away, all that have one are shown online.                    *)
LEMMA CountsAgree ==
  ASSUME IInv, AgreeInv, edits = 0 /\ rustRuns = 0, NEW h \in HourSet, Rows(h) # {}
  PROVE  LET sighted == {e \in events : Hour(e[1]) = h}
             seen == {e[2] : e \in sighted}
         IN  /\ Rows(h) = expected
             /\ Cardinality(Online(h)) <= Cardinality(seen)
             /\ sighted \cap gone = {} => Online(h) = seen
<1> DEFINE sighted == {e \in events : Hour(e[1]) = h}
           seen == {e[2] : e \in sighted}
<1>1. Rows(h) = Heaters /\ expected = Heaters
  BY DEF AgreeInv
<1>2. seen \subseteq Heaters /\ \A e \in events : e \in Times \X Heaters /\ e = <<e[1], e[2]>>
  BY DEF IInv, TypeOK
<1>3. ASSUME NEW x \in Online(h) PROVE x \in seen
  <2>1. x \in Heaters /\ <<h, x>> \in Cells /\ hourly[<<h, x>>] \in Times
    BY <1>3, PresenceAssumption DEF Online, Rows, Cells, IInv, TypeOK, Values
  <2>2. Hour(hourly[<<h, x>>]) = h /\ <<hourly[<<h, x>>], x>> \in events
    BY <2>1 DEF IInv, OnlineIsBacked
  <2>3. <<hourly[<<h, x>>], x>> \in sighted
    BY <2>2
  <2> QED BY <2>3
<1>4. ASSUME sighted \cap gone = {}, NEW x \in seen PROVE x \in Online(h)
  <2>1. PICK e \in sighted : e[2] = x
    BY <1>4
  <2>2. e \in events \ gone /\ Hour(e[1]) = h
    BY <1>4, <2>1
  <2>3. hourly[<<h, x>>] \in e[1]..MaxTime /\ e[1] \in Times
    BY <1>2, <2>1, <2>2 DEF AgreeInv
  <2>4. hourly[<<h, x>>] # Offline
    BY <2>3, PresenceAssumption DEF Offline, Times
  <2> QED BY <1>1, <1>2, <1>4, <2>4 DEF Online
<1>5. IsFiniteSet(seen)
  BY <1>2, FS_Subset, PresenceAssumption
<1>6. Cardinality(Online(h)) <= Cardinality(seen)
  BY <1>3, <1>5, FS_Subset
<1> QED BY <1>1, <1>3, <1>4, <1>6

(* The page of the newest hour: an event is of an hour up to it, and one of *)
(* that hour that was not rotated away is shown, or a newer one.            *)
LEMMA StatusesAgree ==
  ASSUME IInv, AgreeInv, edits = 0 /\ rustRuns = 0, NEW s \in LatestStatuses, NEW e \in events
  PROVE  /\ \E t \in HourSet : Hour(e[1]) <= t /\ Rows(t) # {}
         /\ (e[2] = s[1] /\ e \notin gone /\ \A g \in HourSet : Rows(g) # {} => g <= Hour(e[1]))
              => s[2] >= e[1]
<1>1. e \in Times \X Heaters /\ Hour(e[1]) \in HourSet /\ Hour(e[1]) \in Nat /\ e[1] \in Nat
  BY PresenceAssumption, HoursAreNumbers DEF IInv, TypeOK, HourSet, Times
<1>2. Rows(Hour(e[1])) # {}
  BY DEF AgreeInv
<1>3. ASSUME e[2] = s[1], e \notin gone, \A g \in HourSet : Rows(g) # {} => g <= Hour(e[1])
      PROVE  s[2] >= e[1]
  <2>1. PICK c \in Cells : /\ s = <<c[2], hourly[c]>> /\ c[2] \in Rows(c[1])
                           /\ \A g \in HourSet : Rows(g) # {} => g <= c[1]
    BY DEF LatestStatuses
  <2>2. c[1] \in HourSet /\ c = <<c[1], c[2]>>
    BY DEF Cells
  <2>3. c[1] \in Nat
    BY <2>2, HoursAreNumbers
  <2>4. c[1] = Hour(e[1])
    <3>1. c[1] <= Hour(e[1]) /\ Hour(e[1]) <= c[1]
      BY <1>1, <1>2, <1>3, <2>1, <2>2
    <3> QED BY <1>1, <2>3, <3>1
  <2>5. c = <<Hour(e[1]), e[2]>>
    <3>1. c[2] = e[2]
      BY <1>3, <2>1
    <3> QED BY <2>2, <2>4, <3>1
  <2>6. hourly[<<Hour(e[1]), e[2]>>] \in e[1]..MaxTime
    BY <1>3 DEF AgreeInv
  <2> QED BY <1>1, <2>1, <2>5, <2>6
<1> QED BY <1>1, <1>2, <1>3

(* Where the alias file stands and only Python imports, the counts and the  *)
(* statuses of the pages agree with the events (temperature_logger.py:      *)
(* 279-336, 453-485), for every number of heaters, hours, scans and         *)
(* rotations.                                                               *)
THEOREM TablesAgreeHolds == Spec => []TablesAgree
<1>1. ASSUME IInv, AgreeInv PROVE TablesAgree
  <2> SUFFICES ASSUME edits = 0 /\ rustRuns = 0 PROVE TablesAgree
    BY DEF TablesAgree
  <2>1. ASSUME NEW n \in OnlineCounts
        PROVE  LET sighted == {e \in events : Hour(e[1]) = n[1]} IN
               /\ n[3] = Cardinality(expected)
               /\ n[2] <= Cardinality({e[2] : e \in sighted})
               /\ sighted \cap gone = {} => n[2] = Cardinality({e[2] : e \in sighted})
    <3>1. PICK h \in HourSet : /\ Rows(h) # {}
                              /\ n = <<h, Cardinality(Online(h)), Cardinality(Rows(h))>>
      BY DEF OnlineCounts
    <3>2. n[1] = h /\ n[2] = Cardinality(Online(h)) /\ n[3] = Cardinality(Rows(h))
      BY <3>1
    <3> QED BY <1>1, <3>1, <3>2, CountsAgree
  <2>2. \A s \in LatestStatuses : \A e \in events :
          /\ \E t \in HourSet : Hour(e[1]) <= t /\ Rows(t) # {}
          /\ (e[2] = s[1] /\ e \notin gone /\ \A g \in HourSet : Rows(g) # {} => g <= Hour(e[1]))
               => s[2] >= e[1]
    BY <1>1, StatusesAgree
  <2> QED BY <2>1, <2>2 DEF TablesAgree
<1> QED BY <1>1, InitIInv, StepIInv, InitAgree, StepAgree, PTL DEF Spec

-----------------------------------------------------------------------------
(* What an import of the log as it is would write is already there.         *)
Imported ==
  /\ OnlineLines(log) \subseteq events
  /\ \A c \in HoursIn(log) \X Aliases(log) : hourly[c] = EventMap(log, c[1], c[2])

ImportRepeats == [][Import => Imported' /\ (Imported => UNCHANGED vars)]_vars

(* The hourly import reads the whole log each time: one that finds no line  *)
(* more than the last changes nothing, after whatever Rust imports and      *)
(* edits of the alias file (INSERT OR IGNORE and the upsert of              *)
(* temperature_logger.py:412-483).                                          *)
THEOREM ImportRepeatsHolds == Spec => ImportRepeats
<1>1. ASSUME IInv, Import PROVE Imported' /\ (Imported => UNCHANGED vars)
  <2>1. /\ log' = log /\ expected' = expected
        /\ HoursIn(log) \X Aliases(log) \subseteq Cells
    BY <1>1, ReadTypes DEF Import, files, IInv, TypeOK, Cells
  <2>2. /\ events' = events \cup OnlineLines(log)
        /\ hourly' = [c \in Cells |->
             IF c \in HoursIn(log) \X Aliases(log) THEN EventMap(log, c[1], c[2]) ELSE hourly[c]]
    BY <1>1 DEF Import
  <2>3. Imported'
    <3>1. \A c \in HoursIn(log) \X Aliases(log) : hourly'[c] = EventMap(log, c[1], c[2])
      BY <2>1, <2>2
    <3>2. OnlineLines(log) \subseteq events'
      BY <2>2
    <3>3. Aliases(log)' = Aliases(log)
      BY <2>1 DEF Aliases
    <3> QED BY <2>1, <3>1, <3>2, <3>3 DEF Imported
  <2>4. ASSUME Imported PROVE UNCHANGED vars
    <3>1. events' = events
      BY <2>2, <2>4 DEF Imported
    <3>2. hourly = [c \in Cells |-> hourly[c]]
      BY <1>1 DEF IInv, TypeOK
    <3>3. \A c \in Cells : hourly'[c] = hourly[c]
      BY <2>2, <2>4 DEF Imported
    <3>4. hourly' = [c \in Cells |-> hourly'[c]]
      BY <2>2
    <3>5. hourly' = hourly
      BY <3>2, <3>3, <3>4
    <3> QED BY <1>1, <3>1, <3>5 DEF Import, vars
  <2> QED BY <2>3, <2>4
<1>2. IInv => [Import => Imported' /\ (Imported => UNCHANGED vars)]_vars
  BY <1>1
<1> QED BY <1>2, InductiveInvariant, PTL DEF ImportRepeats
=============================================================================
