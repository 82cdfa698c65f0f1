----------------------------- MODULE EnergyHistory -----------------------------
(***************************************************************************)
(* The rows of scripts/energy_logger.py and what the pages draw of them.    *)
(* Every hour a poll reads the metrics that the heater last reported to the *)
(* Mill cloud, and saves them under its own time; a page reads the rows of  *)
(* a window of hours, draws one bar of consumption per row and, of the      *)
(* temperatures that temperature_logger.py keeps the same way, one curve    *)
(* that is broken where nothing was logged.                                 *)
(*                                                                          *)
(* External: the heater counts what it uses (total), may begin again at     *)
(* zero, and reports now and then its total and what it used since its last *)
(* report; an account shows one of the two or both (gives), and an answer   *)
(* may be without metrics.  Other sources keep their rows in the same       *)
(* table; a poll may get an answer from some of the sources only.  One unit *)
(* of time is half an hour.  MaxPolls, MaxReports, MaxTime and one reset    *)
(* bound the run; Gaps are the times between polls, zero for two that carry *)
(* the same time.                                                           *)
(***************************************************************************)
EXTENDS Integers, Sequences, SequencesExt

CONSTANTS Gaps, Windows, MaxPoints, MaxPolls, MaxReports, MaxTime

ASSUME HistoryAssumption ==
  /\ Gaps \subseteq Nat
  /\ Windows \in Seq(Nat) /\ Windows # <<>>
  /\ MaxPoints \in Nat \ {0} /\ MaxPolls \in Nat /\ MaxReports \in Nat
  /\ MaxTime \in Nat

None == -1
Hour == 2   \* in units of time

VARIABLES
  now,
  used,     \* what the heater has used in truth
  resetAt,  \* the report before which its total began again, or None
  report,   \* what it last reported: serial, total, delta, and used then
  gives,    \* the fields that the account shows
  rows,     \* energy_readings, in the order of id and of time
  others    \* when another source last got a row, or None

vars == <<now, used, resetAt, report, gives, rows, others>>

\* fetch_mill_energy: what a poll makes of a report; None for no metrics.
Reading(at, r, fields) ==
  [at |-> at,
   total |-> IF "total" \in fields THEN r.total ELSE None,
   delta |-> IF "delta" \in fields THEN r.delta ELSE None,
   serial |-> r.serial, used |-> r.used]

Report0 == [serial |-> 0, total |-> 0, delta |-> 0, used |-> 0]
Report1 == [serial |-> 1, total |-> 1, delta |-> 1, used |-> 1]

\* A new table, or one from before the unique index with a row saved twice.
Init ==
  /\ now = 0 /\ used = 1 /\ resetAt = None /\ report = Report1
  /\ gives \in {{"total"}, {"delta"}, {"total", "delta"}}
  /\ others = None
  /\ rows \in {<<>>, <<Reading(0, Report0, gives), Reading(0, Report1, gives)>>}

-----------------------------------------------------------------------------
Reports ==
  /\ report.serial < MaxReports
  /\ used' = used + 1
  /\ report' = [serial |-> report.serial + 1, total |-> report.total + 1, delta |-> 1, used |-> used']
  /\ UNCHANGED <<now, resetAt, gives, rows, others>>

BeginsAgain ==
  /\ resetAt = None /\ report.serial < MaxReports
  /\ resetAt' = report.serial + 1
  /\ used' = used + 1
  /\ report' = [serial |-> report.serial + 1, total |-> 1, delta |-> 1, used |-> used']
  /\ UNCHANGED <<now, gives, rows, others>>

\* The rows at some positions, in their order. (Recursive functions here, not
\* folds, are what the proofs can unfold.)
Kept(rs, keep) ==
  LET upTo[i \in 0..Len(rs)] ==
        IF i = 0 THEN <<>>
        ELSE IF i \in keep THEN Append(upTo[i - 1], rs[i]) ELSE upTo[i - 1]
  IN  upTo[Len(rs)]

\* cleanup_duplicate_readings: of the rows of one time the newest stays.
Cleaned(rs) == Kept(rs, {i \in DOMAIN rs : \A j \in (i + 1)..Len(rs) : rs[j].at # rs[i].at})

\* insert_reading: a second row of one time takes the place of the first.
Upsert(rs, r) ==
  IF \E i \in DOMAIN rs : rs[i].at = r.at
  THEN [i \in DOMAIN rs |-> IF rs[i].at = r.at THEN r ELSE rs[i]]
  ELSE Append(rs, r)

Poll ==
  /\ \E gap \in Gaps, fields \in {gives, {}} :
       /\ Len(rows) < MaxPolls \/ gap = 0
       /\ now' = now + gap
       /\ rows' = Upsert(Cleaned(rows), Reading(now', report, fields))
  /\ UNCHANGED <<used, resetAt, report, gives, others>>

\* The rows of the other sources: of the same poll, or of one that this source
\* does not answer.
PollOthers ==
  /\ \E gap \in Gaps :
       /\ now + gap <= MaxTime
       /\ now' = now + gap /\ others' = now'
  /\ UNCHANGED <<used, resetAt, report, gives, rows>>

Next == Reports \/ BeginsAgain \/ Poll \/ PollOthers

Spec == Init /\ [][Next]_vars

-----------------------------------------------------------------------------
(* The bars. *)

\* fetch_readings, from a table that ensure_db has cleaned.
FetchReadings(hours) ==
  LET rs == Cleaned(rows) IN Kept(rs, {i \in DOMAIN rs : rs[i].at >= now - hours})

\* The bar of a row, after a row with the total prev.
Bar(r, prev) ==
  LET delta == IF r.delta # None THEN r.delta
               ELSE IF r.total # None /\ prev # None THEN r.total - prev
               ELSE 0
  IN  IF delta < 0 THEN 0 ELSE delta

\* Slip: a row without a total is compared with, too.
PrevTotalOfRow(r, prev) == r.total

\* The total that the next row is compared with.
PrevTotal(r, prev) == IF r.total # None THEN r.total ELSE prev

Bars(rs) ==
  LET prev[i \in 0..Len(rs)] == IF i = 0 THEN None ELSE PrevTotal(rs[i], prev[i - 1])
  IN  [i \in 1..Len(rs) |-> Bar(rs[i], prev[i - 1])]

-----------------------------------------------------------------------------
(* The curves. *)

Deltas(points) ==
  LET ds == [i \in 1..(Len(points) - 1) |-> points[i + 1] - points[i]]
  IN  Kept(ds, {i \in DOMAIN ds : ds[i] > 0})

\* gap_threshold: three times the upper median, at least an hour.
Threshold(points) ==
  LET ds == Deltas(points)
      below(v) == {i \in DOMAIN ds : ds[i] < v}
      upTo(v) == {i \in DOMAIN ds : ds[i] <= v}
      middle == Len(ds) \div 2
      typical == CHOOSE v \in ToSet(ds) : Cardinality(below(v)) <= middle /\ middle < Cardinality(upTo(v))
  IN  IF ds = <<>> THEN None ELSE IF typical * 3 > Hour THEN typical * 3 ELSE Hour

SplitOnGaps(points) ==
  LET limit == Threshold(points)
      gap(i) == i > 1 /\ limit # None /\ points[i] - points[i - 1] > limit
      upTo[i \in 0..Len(points)] ==
        IF i = 0 THEN [segments |-> <<>>, current |-> <<>>]
        ELSE IF gap(i)
             THEN [segments |-> Append(upTo[i - 1].segments, upTo[i - 1].current), current |-> <<points[i]>>]
             ELSE [segments |-> upTo[i - 1].segments, current |-> Append(upTo[i - 1].current, points[i])]
      end == upTo[Len(points)]
  IN  IF points = <<>> THEN <<>> ELSE Append(end.segments, end.current)

\* Slip: the last point may be left out.
DownsampleShort(times) ==
  LET step == (Len(times) + MaxPoints - 1) \div MaxPoints
  IN  IF Len(times) <= MaxPoints THEN times
      ELSE [k \in 1..((Len(times) + step - 1) \div step) |-> times[1 + (k - 1) * step]]

\* downsample: every step-th point, and the last one.
Downsample(times) ==
  LET step == (Len(times) + MaxPoints - 1) \div MaxPoints
      taken == [k \in 1..((Len(times) + step - 1) \div step) |-> times[1 + (k - 1) * step]]
  IN  IF Len(times) <= MaxPoints THEN times
      ELSE IF Last(taken) # Last(times) THEN Append(taken, Last(times))
      ELSE taken

\* plot_history: the segments of a source, thinned out.
Curve(times) ==
  LET segments == SplitOnGaps(times) IN [k \in DOMAIN segments |-> Downsample(segments[k])]

\* latest_per_device, latest_per_source_room: of one source, the row read last.
Latest(rs) == Last(rs)

\* The page falls back on a longer window where one has no rows of any source.
PageReadings ==
  LET other(n) == others # None /\ others >= now - Windows[n]
      shown == Kept(Windows, {n \in DOMAIN Windows : FetchReadings(Windows[n]) # <<>> \/ other(n)})
  IN  IF shown = <<>> THEN <<>> ELSE FetchReadings(Head(shown))

-----------------------------------------------------------------------------
Sum(bars) ==
  LET upTo[i \in 0..Len(bars)] == IF i = 0 THEN 0 ELSE upTo[i - 1] + bars[i]
  IN  upTo[Len(bars)]

\* The rows with metrics.
Known(rs) == Kept(rs, {i \in DOMAIN rs : rs[i].total # None \/ rs[i].delta # None})

BarsMatch(rs) ==
  LET bars == Bars(rs)
      known == Known(rs)
      first == Head(known)
      final == Last(known)
      span == final.used - first.used
  IN  /\ Len(bars) = Len(rs) /\ \A i \in DOMAIN bars : bars[i] >= 0
      /\ known # <<>> /\ gives = {"total"} =>
           /\ Sum(bars) <= span
           /\ (resetAt \notin (first.serial + 1)..final.serial) => Sum(bars) = span
      /\ known # <<>> /\ "delta" \in gives
           /\ (\A i, j \in DOMAIN known : i # j => known[i].serial # known[j].serial) =>
           /\ Sum(bars) <= span + first.delta
           /\ Len(known) = final.serial - first.serial + 1 => Sum(bars) = span + first.delta

(* The bars of a window never show more than the heater used between its    *)
(* first and last known row, and exactly that where its total never began   *)
(* again: through polls without metrics, reports polled twice or never, a   *)
(* total that begins again, and rows saved twice.  Where the account shows  *)
(* what was used since the last report, each report counts in full, so the  *)
(* bars are right only if no report was polled twice                        *)
(* (energy_logger.py:109-181, 251-264).                                     *)
BarsMatchMeter == \A n \in DOMAIN Windows : BarsMatch(FetchReadings(Windows[n]))

(* A page shows the newest row of its widest window, unless another source  *)
(* has rows in a narrower one and this source has not: then it drops off.   *)
(* A curve is drawn of all points of the page's window; it is not broken    *)
(* between points an hour apart, but where, with three gaps or more, one is *)
(* more than an hour and than three times every other; and thinning out     *)
(* keeps its ends and the size of the picture                               *)
(* (temperature_logger.py:855-899, generate_static_report.py:155-192).      *)
CurveIsFaithful ==
  LET rs == PageReadings
      times == [i \in DOMAIN rs |-> rs[i].at]
      segments == SplitOnGaps(times)
      gap(i) == times[i] - times[i - 1]
      broken(i) == \E k \in DOMAIN segments : segments[k][1] = times[i]
      thin(k) == Curve(times)[k]
  IN  /\ FlattenSeq(segments) = times
      /\ \A r \in ToSet(rows) : r.at >= now - Last(Windows) =>
           \/ rs # <<>> /\ Latest(rs).at >= r.at
           \/ \E n \in DOMAIN Windows : others # None /\ others >= now - Windows[n] /\ now - Windows[n] > r.at
      /\ \A i \in 2..Len(times) :
           /\ gap(i) <= Hour => ~broken(i)
           /\ /\ Len(times) >= 4 /\ gap(i) > Hour
              /\ \A j \in 2..Len(times) : j # i => gap(i) > 3 * gap(j)
              => broken(i)
      /\ \A k \in DOMAIN segments :
           /\ Head(thin(k)) = Head(segments[k]) /\ Last(thin(k)) = Last(segments[k])
           /\ ToSet(thin(k)) \subseteq ToSet(segments[k])
           /\ Len(thin(k)) <= MaxPoints + 1
=============================================================================
