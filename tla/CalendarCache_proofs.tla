------------------------- MODULE CalendarCache_proofs -------------------------
(***************************************************************************)
(* Proofs about the calendar cache, for any set of bookings, any window    *)
(* and age, and any history of bookings, cancellations, answers, outages   *)
(* and slow cycles.                                                        *)
(***************************************************************************)
EXTENDS CalendarCache, TLAPS

LEMMA TypeInit == Init => TypeOK
  BY CacheAssumption DEF Init, Nothing, TypeOK, Rows, Moments, Later

LEMMA TypeNext == TypeOK /\ [Next]_vars => TypeOK'
<1> SUFFICES ASSUME TypeOK, [Next]_vars PROVE TypeOK'
  OBVIOUS
<1> USE CacheAssumption DEF TypeOK, Moments, Later
<1>1. CASE BeginCycle
  BY <1>1 DEF BeginCycle
<1>2. CASE Fetch
  <2>1. EventsBetween(currentTime, WindowEnd) \in SUBSET Bookings
    BY DEF EventsBetween, Current
  <2>2. held' = [answered |-> now, events |-> EventsBetween(currentTime, WindowEnd)]
    BY <1>2 DEF Fetch
  <2> QED
    BY <1>2, <2>1, <2>2 DEF Fetch
<1>3. CASE Save \/ FetchFails \/ SaveFails \/ Abandon
  <2>1. held' \in [answered : 0..now, events : SUBSET Bookings]
    BY <1>3 DEF Save, FetchFails, SaveFails, Abandon, Done, Nothing
  <2>2. Row \in Rows /\ NoRow \in [fetched : Nat, events : SUBSET Bookings, answered : Nat]
    BY DEF Row, NoRow, Rows, WindowEnd
  <2>3. cache' \subseteq Rows
    BY <1>3, <2>2 DEF Save, FetchFails, SaveFails, Abandon
  <2> DEFINE Told1(source, row) ==
                 /\ source \in {"calendar", "cache", "nothing"}
                 /\ row.fetched \in Nat /\ row.answered \in Nat
                 /\ row.events \in SUBSET Bookings
                 /\ Told(source, row)
  <2>4. answer' = answer \/ \E source, row : Told1(source, row)
    <3>1. CASE Save \/ SaveFails
      <4>1. Told1("calendar", Row)
        BY <2>2, <3>1 DEF Save, SaveFails, Rows
      <4> QED
        BY <4>1
    <3>2. CASE Abandon
      BY <3>2 DEF Abandon
    <3>3. ASSUME NEW r \in Newest(Usable), Told("cache", r) PROVE \E source, row : Told1(source, row)
      <4>1. Told1("cache", r)
        BY <3>3 DEF Newest, Usable, Rows
      <4> QED
        BY <4>1
    <3>4. CASE Told("nothing", NoRow)
      <4>1. Told1("nothing", NoRow)
        BY <2>2, <3>4
      <4> QED
        BY <4>1
    <3> QED
      BY <1>3, <3>1, <3>2, <3>3, <3>4 DEF FetchFails, FallBack
  <2>5. answer' \in [from : {"calendar", "cache", "nothing"},
                     events : SUBSET Bookings, at : Nat, when : Nat,
                     fetched : Nat, answered : Nat]
    BY <2>4 DEF Told
  <2> QED
    BY <1>3, <2>1, <2>3, <2>5 DEF Save, FetchFails, SaveFails, Abandon, Done
<1>4. CASE Tick
  BY <1>4 DEF Tick
<1>5. ASSUME NEW b \in Bookings, Book(b) PROVE TypeOK'
  BY <1>5 DEF Book
<1>6. ASSUME NEW b \in Bookings, Cancel(b) PROVE TypeOK'
  BY <1>6 DEF Cancel
<1>7. CASE UNCHANGED vars
  BY <1>7 DEF vars
<1> QED
  BY <1>1, <1>2, <1>3, <1>4, <1>5, <1>6, <1>7 DEF Next

\* TypeOK holds of the cache and of its answers.
THEOREM TypeCorrect == Spec => []TypeOK
  BY TypeInit, TypeNext, PTL DEF Spec

\* What an answer of Google's for the window from start says of the bookings,
\* from then on: what it names stood at moment t, and it names everything in
\* the window that was booked before the cycle began and not cancelled by t.
Faithful(start, t, events) ==
    /\ start <= t /\ t <= now
    /\ \A b \in events :
           /\ bookedAt[b] <= t /\ t <= cancelledAt[b]
           /\ b.end > start /\ b.start < start + Window
    /\ \A b \in Bookings :
           (/\ bookedAt[b] < start /\ t < cancelledAt[b]
            /\ b.end > start /\ b.start < start + Window)
               => b \in events

RowOK(r) ==
    /\ r.end = r.start + Window
    /\ r.answered <= r.fetched /\ r.fetched <= now
    /\ Faithful(r.start, r.answered, r.events)

\* Every row of the table, and the answer a cycle holds, are faithful.
RowsInv ==
    /\ TypeOK
    /\ \A r \in cache : RowOK(r)
    /\ pc = "save" => Faithful(currentTime, held.answered, held.events)

LEMMA RowsInit == Init => RowsInv
  BY TypeInit DEF Init, RowsInv

\* What Google answers is faithful.
LEMMA FetchedFaithful ==
  ASSUME TypeOK
  PROVE  Faithful(currentTime, now, EventsBetween(currentTime, WindowEnd))
<1> USE CacheAssumption DEF TypeOK, Moments, Later
<1>1. now \in Nat /\ currentTime \in Nat /\ currentTime <= now
  OBVIOUS
<1> QED
  BY <1>1 DEF Faithful, WindowEnd, EventsBetween, Current

\* The row that would be saved now is as RowOK says.
LEMMA SavedRow ==
  ASSUME RowsInv, pc = "save"
  PROVE  RowOK(Row) /\ Row \in Rows
<1>1. /\ Row.start = currentTime /\ Row.end = currentTime + Window /\ Row.fetched = now
      /\ Row.answered = held.answered /\ Row.events = held.events
  BY DEF Row, WindowEnd
<1>2. held.answered \in Nat /\ held.answered <= now /\ now \in Nat /\ currentTime \in Nat
  BY DEF RowsInv, TypeOK
<1>3. Row \in Rows
  BY <1>2, CacheAssumption DEF RowsInv, TypeOK, Row, Rows, WindowEnd
<1> QED
  BY <1>1, <1>2, <1>3 DEF RowsInv, RowOK

\* Bookings that come and go leave an earlier answer as faithful as it was.
LEMMA FaithfulStays ==
  ASSUME TypeOK, NEW start \in Nat, NEW t \in Nat, NEW events \in SUBSET Bookings,
         Faithful(start, t, events),
         Tick \/ (\E b \in Bookings : Book(b) \/ Cancel(b))
         \/ UNCHANGED <<now, bookedAt, cancelledAt>>
  PROVE  Faithful(start, t, events)'
<1>0. now \in Nat /\ now <= MaxTime
  BY CacheAssumption DEF TypeOK
<1>1. CASE Tick \/ UNCHANGED <<now, bookedAt, cancelledAt>>
  BY <1>0, <1>1 DEF Tick, Faithful
<1>2. ASSUME NEW c \in Bookings, Book(c) PROVE Faithful(start, t, events)'
  <2>1. bookedAt'[c] = now /\ \A b \in Bookings \ {c} : bookedAt'[b] = bookedAt[b]
    BY <1>2 DEF Book, TypeOK
  <2>2. c \notin events /\ ~(now < start)
    BY <1>0, <1>2, CacheAssumption DEF Book, Faithful, Later
  <2> QED
    BY <1>2, <2>1, <2>2 DEF Book, Faithful
<1>3. ASSUME NEW c \in Bookings, Cancel(c) PROVE Faithful(start, t, events)'
  <2>1. cancelledAt'[c] = now /\ \A b \in Bookings \ {c} : cancelledAt'[b] = cancelledAt[b]
    BY <1>3 DEF Cancel, TypeOK
  <2>2. cancelledAt[c] \in Nat /\ now < cancelledAt[c] /\ t <= now
    BY <1>3, CacheAssumption DEF Cancel, Current, Faithful, TypeOK, Moments, Later
  <2>3. t < cancelledAt[c]
    BY <1>0, <2>2
  <2> QED
    BY <1>3, <2>1, <2>2, <2>3 DEF Cancel, Faithful
<1> QED
  BY <1>1, <1>2, <1>3

LEMMA RowsNext == RowsInv /\ [Next]_vars => RowsInv'
<1> SUFFICES ASSUME RowsInv, [Next]_vars PROVE RowsInv'
  OBVIOUS
<1>0. TypeOK /\ TypeOK' /\ now <= now' /\ now \in Nat /\ now' \in Nat
  <2>1. TypeOK /\ TypeOK'
    BY TypeNext DEF RowsInv
  <2>2. now \in Nat /\ now' \in Nat
    BY <2>1, CacheAssumption DEF TypeOK
  <2>3. now' = now \/ now' = now + 1
    BY DEF Next, vars, BeginCycle, Fetch, Save, FetchFails, SaveFails, Abandon, Done,
       Tick, Book, Cancel
  <2> QED
    BY <2>1, <2>2, <2>3
<1>1. Tick \/ (\E b \in Bookings : Book(b) \/ Cancel(b))
      \/ UNCHANGED <<now, bookedAt, cancelledAt>>
  BY DEF Next, vars, BeginCycle, Fetch, Save, FetchFails, SaveFails, Abandon, Done
<1>2. ASSUME NEW r \in cache' PROVE RowOK(r)'
  <2>1. RowOK(r) /\ r \in Rows
    <3>1. CASE Save
      BY <1>2, <3>1, SavedRow DEF Save, RowsInv, TypeOK
    <3>2. CASE ~Save
      <4>1. cache' = cache
        BY <3>2 DEF Next, vars, BeginCycle, Fetch, FetchFails, SaveFails, Abandon, Tick,
           Book, Cancel
      <4> QED
        BY <1>2, <4>1 DEF RowsInv, TypeOK
    <3> QED
      BY <3>1, <3>2
  <2>2. Faithful(r.start, r.answered, r.events)'
    BY <1>0, <1>1, <2>1, FaithfulStays DEF RowOK, Rows
  <2> QED
    BY <1>0, <2>1, <2>2 DEF RowOK, Rows
<1>3. ASSUME pc' = "save" PROVE Faithful(currentTime, held.answered, held.events)'
  <2>1. CASE Fetch
    <3>1. /\ held'.answered = now /\ held'.events = EventsBetween(currentTime, WindowEnd)
          /\ UNCHANGED <<now, bookedAt, cancelledAt, currentTime>>
      BY <2>1 DEF Fetch
    <3> QED
      BY <1>0, <3>1, FetchedFaithful DEF Faithful
  <2>2. CASE ~Fetch
    <3>1. pc = "save" /\ UNCHANGED <<held, currentTime>>
      BY <1>3, <2>2 DEF Next, vars, BeginCycle, Save, FetchFails, SaveFails, Abandon,
         Done, Tick, Book, Cancel
    <3>2. /\ held.answered \in Nat /\ held.events \in SUBSET Bookings /\ currentTime \in Nat
          /\ Faithful(currentTime, held.answered, held.events)
      BY <1>0, <3>1 DEF RowsInv, TypeOK
    <3>3. PICK t \in Nat, e \in SUBSET Bookings, c \in Nat :
                 t = held.answered /\ e = held.events /\ c = currentTime
      BY <3>2
    <3>4. Faithful(c, t, e)'
      BY <1>0, <1>1, <3>2, <3>3, FaithfulStays
    <3>5. held'.answered = t /\ held'.events = e /\ currentTime' = c
      BY <3>1, <3>3
    <3> QED
      BY <3>4, <3>5 DEF Faithful
  <2> QED
    BY <2>1, <2>2
<1> QED
  BY <1>0, <1>2, <1>3 DEF RowsInv

\* In a cycle that does not lag, MaxAge refuses no row that the window admits:
\* with time_window_hours = 2 the default google_max_age_hours = 24 is never
\* what turns a row down (main.py:304-315).
THEOREM AgeIsTheWindowHolds == Spec => []AgeIsTheWindow
<1>1. RowsInv => AgeIsTheWindow
  <2> SUFFICES ASSUME RowsInv, Window <= MaxAge, now = currentTime,
                      NEW r \in cache, r.end >= currentTime
               PROVE  r.fetched >= now - MaxAge
    BY DEF AgeIsTheWindow
  <2>1. r \in Rows /\ RowOK(r) /\ now \in Nat /\ currentTime \in Nat
    BY DEF RowsInv, TypeOK
  <2> QED
    BY <2>1, CacheAssumption DEF RowOK, Faithful, Rows
<1> QED
  BY <1>1, RowsInit, RowsNext, PTL DEF Spec

\* Cycles run one after the other: what was stamped later was answered later,
\* for a later window, and every row was stamped before the running cycle began.
Ordered ==
    /\ RowsInv
    /\ \A r \in cache : r.start <= currentTime
    /\ pc # "idle" => \A r \in cache : r.fetched <= currentTime
    /\ \A r, q \in cache :
           r.fetched < q.fetched => r.start <= q.start /\ r.answered <= q.answered

LEMMA OrderedNext == Ordered /\ [Next]_vars => Ordered'
<1> SUFFICES ASSUME Ordered, [Next]_vars PROVE Ordered'
  OBVIOUS
<1>0. RowsInv /\ RowsInv'
  BY RowsNext DEF Ordered
<1>1. CASE BeginCycle
  <2>1. \A r \in cache : r.start <= now /\ r.fetched <= now
    BY <1>0 DEF RowsInv, RowOK, Faithful, TypeOK, Rows
  <2> QED
    BY <1>0, <1>1, <2>1 DEF BeginCycle, Ordered
<1>2. CASE Save
  <2>1. cache' = cache \cup {Row} /\ currentTime' = currentTime /\ pc' = "idle" /\ pc = "save"
    BY <1>2 DEF Save, Done
  <2>2. /\ Row.start = currentTime /\ Row.fetched = now /\ Row.answered = held.answered
        /\ currentTime \in Nat /\ now \in Nat /\ held.answered \in Nat
        /\ currentTime <= held.answered
    BY <1>0, <2>1 DEF Row, RowsInv, Faithful, TypeOK
  <2>3. \A r \in cache : /\ r.start \in Nat /\ r.fetched \in Nat /\ r.answered \in Nat
                        /\ r.fetched <= now /\ r.answered <= r.fetched
    BY <1>0 DEF RowsInv, RowOK, TypeOK, Rows
  <2>4. \A r \in cache' : r.start <= currentTime'
    BY <2>1, <2>2 DEF Ordered
  <2>5. ASSUME NEW r \in cache', NEW q \in cache', r.fetched < q.fetched
        PROVE  r.start <= q.start /\ r.answered <= q.answered
    <3>1. r # Row
      BY <2>1, <2>2, <2>3, <2>5
    <3>2. CASE q = Row
      <4>1. r \in cache /\ r.fetched <= currentTime
        BY <2>1, <3>1 DEF Ordered
      <4> QED
        BY <2>1, <2>2, <2>3, <2>4, <3>2, <4>1
    <3>3. CASE q \in cache
      BY <2>1, <2>5, <3>1, <3>3 DEF Ordered
    <3> QED
      BY <2>1, <3>2, <3>3
  <2> QED
    BY <1>0, <2>1, <2>4, <2>5 DEF Ordered
<1>3. CASE FetchFails \/ SaveFails \/ Abandon
  BY <1>0, <1>3 DEF FetchFails, SaveFails, Abandon, Done, Ordered
<1>4. CASE Fetch \/ Tick \/ UNCHANGED vars
  BY <1>0, <1>4 DEF Fetch, Tick, vars, Ordered
<1>5. ASSUME NEW b \in Bookings, Book(b) \/ Cancel(b) PROVE Ordered'
  BY <1>0, <1>5 DEF Book, Cancel, Ordered
<1> QED
  BY <1>1, <1>2, <1>3, <1>4, <1>5 DEF Next

\* The promises about the answer, and that it was given in the past.
AnswerInv ==
    /\ Ordered
    /\ answer.at <= answer.when /\ answer.when <= now
    /\ answer.answered <= answer.fetched
    /\ UnderWayIsHeated /\ HeatedForABooking /\ CancelledStaysCancelled

LEMMA AnswerInit == Init => AnswerInv
  BY RowsInit DEF Init, AnswerInv, Ordered, UnderWayIsHeated, HeatedForABooking,
     CancelledStaysCancelled

\* An answer taken from a row that the query may return keeps both promises.
LEMMA AnswerFromRow ==
  ASSUME RowsInv, NEW r \in Rows, RowOK(r),
         r.fetched >= now - MaxAge, r.end >= currentTime, r.start <= currentTime,
         NEW source, Told(source, r),
         UNCHANGED <<now, bookedAt, cancelledAt>>
  PROVE  UnderWayIsHeated' /\ HeatedForABooking'
<1>0. /\ now \in Nat /\ currentTime \in Nat /\ currentTime <= now
      /\ r.start \in Nat /\ r.end \in Nat /\ r.fetched \in Nat /\ r.answered \in Nat
      /\ r.events \subseteq Bookings
      /\ r.end = r.start + Window /\ r.start <= r.answered
      /\ r.answered <= r.fetched /\ r.fetched <= now
  BY DEF RowsInv, TypeOK, Rows, RowOK, Faithful
<1>1. \A b \in Bookings : /\ b.start \in Nat /\ b.end \in Nat
                          /\ bookedAt[b] \in Nat /\ cancelledAt[b] \in Nat
  BY CacheAssumption DEF RowsInv, TypeOK, Moments, Later
<1>2. Window \in Nat /\ MaxAge \in Nat
  BY CacheAssumption
<1>3. ASSUME NEW b \in Bookings,
             b.start < currentTime, currentTime < b.end,
             bookedAt[b] < currentTime - Window, cancelledAt[b] > now
      PROVE  b \in r.events
  <2>1. b.start \in Nat /\ b.end \in Nat /\ bookedAt[b] \in Nat /\ cancelledAt[b] \in Nat
    BY <1>1
  <2>2. bookedAt[b] < r.start /\ r.answered < cancelledAt[b]
    BY <1>0, <1>2, <1>3, <2>1
  <2>3. b.end > r.start /\ b.start < r.start + Window
    BY <1>0, <1>3, <2>1
  <2> QED
    BY <2>2, <2>3 DEF RowOK, Faithful
<1>4. ASSUME NEW b \in r.events
      PROVE  /\ bookedAt[b] <= now
             /\ cancelledAt[b] >= now - MaxAge - (r.fetched - r.answered)
             /\ b.end > currentTime - Window /\ b.start < currentTime + Window
  <2>1. b.start \in Nat /\ b.end \in Nat /\ bookedAt[b] \in Nat /\ cancelledAt[b] \in Nat
    BY <1>0, <1>1
  <2>2. /\ bookedAt[b] <= r.answered /\ r.answered <= cancelledAt[b]
        /\ b.end > r.start /\ b.start < r.start + Window
    BY <1>4 DEF RowOK, Faithful
  <2> QED
    BY <1>0, <1>2, <2>1, <2>2
<1>5. /\ answer'.events = r.events /\ answer'.at = currentTime /\ answer'.when = now
      /\ answer'.fetched = r.fetched /\ answer'.answered = r.answered
  BY DEF Told
<1>6. UnderWayIsHeated'
  BY <1>3, <1>5 DEF UnderWayIsHeated
<1>7. HeatedForABooking'
  BY <1>4, <1>5 DEF HeatedForABooking
<1> QED
  BY <1>6, <1>7

\* The newest usable row is the newest row: an older answer is never usable
\* where a newer one is not.
LEMMA NewestOfAll ==
  ASSUME Ordered, NEW r \in Newest(Usable), NEW q \in cache
  PROVE  q.fetched <= r.fetched
<1>1. r \in cache /\ r.fetched >= now - MaxAge /\ r.end >= currentTime
  BY DEF Newest, Usable
<1>2. /\ q.start \in Nat /\ q.end \in Nat /\ q.fetched \in Nat /\ q.end = q.start + Window
      /\ r.start \in Nat /\ r.end \in Nat /\ r.fetched \in Nat /\ r.end = r.start + Window
      /\ now \in Nat /\ currentTime \in Nat /\ Window \in Nat /\ MaxAge \in Nat
  BY <1>1, CacheAssumption DEF Ordered, RowsInv, RowOK, TypeOK, Rows
<1>3. CASE r.fetched < q.fetched
  <2>1. r.start <= q.start
    BY <1>1, <1>3 DEF Ordered
  <2>2. q \in Usable
    BY <1>1, <1>2, <1>3, <2>1 DEF Usable
  <2> QED
    BY <1>2, <1>3, <2>2 DEF Newest
<1> QED
  BY <1>2, <1>3

LEMMA AnswerNext == AnswerInv /\ [Next]_vars => AnswerInv'
<1> SUFFICES ASSUME AnswerInv, [Next]_vars PROVE AnswerInv'
  OBVIOUS
<1>0. /\ Ordered /\ Ordered' /\ RowsInv /\ RowsInv' /\ TypeOK /\ TypeOK'
      /\ answer.at \in Nat /\ answer.when \in Nat
      /\ answer.fetched \in Nat /\ answer.answered \in Nat /\ now \in Nat /\ currentTime \in Nat
      /\ currentTime <= now /\ answer.events \subseteq Bookings
      /\ Window \in Nat /\ MaxAge \in Nat
  BY OrderedNext, CacheAssumption DEF AnswerInv, Ordered, RowsInv, TypeOK
<1>1. CASE BeginCycle \/ Fetch \/ Abandon \/ UNCHANGED vars
  BY <1>0, <1>1 DEF BeginCycle, Fetch, Abandon, Done, vars, AnswerInv, UnderWayIsHeated,
     HeatedForABooking, CancelledStaysCancelled
<1>2. CASE Save \/ SaveFails
  <2>1. /\ Told("calendar", Row) /\ pc = "save"
        /\ cache' \subseteq cache \cup {Row}
        /\ UNCHANGED <<now, bookedAt, cancelledAt, currentTime>>
    BY <1>2 DEF Save, SaveFails, Done
  <2>2. Row \in Rows /\ RowOK(Row)
    BY <1>0, <2>1, SavedRow
  <2>3. /\ Row.start = currentTime /\ Row.end = currentTime + Window /\ Row.fetched = now
        /\ Row.answered = held.answered /\ Row.events = held.events
    BY DEF Row, WindowEnd
  <2>4. UnderWayIsHeated' /\ HeatedForABooking'
    <3>1. Row.fetched >= now - MaxAge /\ Row.end >= currentTime /\ Row.start <= currentTime
      BY <1>0, <2>3
    <3> QED
      BY <1>0, <2>1, <2>2, <3>1, AnswerFromRow
  <2>5. /\ answer'.at = currentTime /\ answer'.when = now
        /\ answer'.events = Row.events /\ answer'.fetched = Row.fetched
        /\ answer'.answered <= answer'.fetched
    BY <2>1, <2>2 DEF Told, RowOK
  <2>6. CancelledStaysCancelled'
    <3> SUFFICES ASSUME NEW b \in Row.events, NEW r \in cache', r.fetched # Row.fetched
                 PROVE  cancelledAt[b] >= r.answered
      BY <2>1, <2>5 DEF CancelledStaysCancelled
    <3>1. r \in cache /\ r.fetched <= currentTime
      BY <2>1 DEF AnswerInv, Ordered
    <3>2. r.answered <= r.fetched /\ r.answered \in Nat /\ r.fetched \in Nat
      BY <1>0, <3>1 DEF RowsInv, RowOK, TypeOK, Rows
    <3>3. b \in Bookings /\ Row.answered <= cancelledAt[b] /\ currentTime <= Row.answered
      BY <2>2, <2>3 DEF RowOK, Faithful, Rows
    <3>4. cancelledAt[b] \in Nat /\ Row.answered \in Nat
      BY <1>0, <2>2, <3>3, CacheAssumption DEF TypeOK, Moments, Later, Rows
    <3> QED
      BY <1>0, <3>1, <3>2, <3>3, <3>4
  <2> QED
    BY <1>0, <2>1, <2>4, <2>5, <2>6 DEF AnswerInv
<1>3. CASE FetchFails
  <2>1. UNCHANGED <<now, bookedAt, cancelledAt, currentTime, cache>>
    BY <1>3 DEF FetchFails, Done
  <2>2. ASSUME NEW r \in Newest(Usable), Told("cache", r)
        PROVE  AnswerInv'
    <3>1. /\ r \in cache /\ r.fetched >= now - MaxAge /\ r.end >= currentTime
      BY DEF Newest, Usable
    <3>2. r \in Rows /\ RowOK(r) /\ r.start <= currentTime
      BY <1>0, <3>1 DEF RowsInv, TypeOK, Ordered
    <3>3. /\ answer'.at = currentTime /\ answer'.when = now
          /\ answer'.events = r.events /\ answer'.fetched = r.fetched
          /\ answer'.answered <= answer'.fetched
      BY <2>2, <3>2 DEF Told, RowOK
    <3>4. UnderWayIsHeated' /\ HeatedForABooking'
      BY <1>0, <2>1, <2>2, <3>1, <3>2, AnswerFromRow
    <3>5. CancelledStaysCancelled'
      <4> SUFFICES ASSUME NEW b \in r.events, NEW q \in cache, q.fetched # r.fetched
                   PROVE  cancelledAt[b] >= q.answered
        BY <2>1, <3>3 DEF CancelledStaysCancelled
      <4>1. q.fetched <= r.fetched
        BY <1>0, NewestOfAll
      <4>2. q.fetched \in Nat /\ r.fetched \in Nat /\ q.answered \in Nat /\ r.answered \in Nat
        BY <1>0, <3>2 DEF TypeOK, Rows
      <4>3. q.answered <= r.answered
        BY <1>0, <3>1, <4>1, <4>2 DEF Ordered
      <4>4. r.answered <= cancelledAt[b] /\ b \in Bookings
        BY <3>2 DEF RowOK, Faithful, Rows
      <4>5. cancelledAt[b] \in Nat
        BY <1>0, <4>4, CacheAssumption DEF TypeOK, Moments, Later
      <4> QED
        BY <4>2, <4>3, <4>4, <4>5
    <3> QED
      BY <1>0, <2>1, <3>3, <3>4, <3>5 DEF AnswerInv
  <2>3. CASE Told("nothing", NoRow)
    <3>1. /\ answer'.from = "nothing" /\ answer'.events = {}
          /\ answer'.at = currentTime /\ answer'.when = now
          /\ answer'.answered = now /\ answer'.fetched = now
      BY <2>3 DEF Told, NoRow
    <3> QED
      BY <1>0, <2>1, <3>1 DEF AnswerInv, UnderWayIsHeated, HeatedForABooking,
         CancelledStaysCancelled
  <2> QED
    BY <1>3, <2>2, <2>3 DEF FetchFails, FallBack
<1>4. CASE Tick
  BY <1>0, <1>4 DEF Tick, AnswerInv, UnderWayIsHeated, HeatedForABooking,
     CancelledStaysCancelled
<1>5. ASSUME NEW c \in Bookings, Book(c) PROVE AnswerInv'
  <2>1. UNCHANGED <<now, cancelledAt, cache, answer>>
    BY <1>5 DEF Book
  <2>2. bookedAt'[c] = now /\ \A b \in Bookings \ {c} : bookedAt'[b] = bookedAt[b]
    BY <1>0, <1>5 DEF Book, TypeOK
  <2>3. UnderWayIsHeated'
    BY <1>0, <2>1, <2>2 DEF AnswerInv, UnderWayIsHeated
  <2>4. c \notin answer.events
    BY <1>0, <1>5, CacheAssumption DEF Book, AnswerInv, HeatedForABooking, Later, TypeOK
  <2>5. HeatedForABooking' /\ CancelledStaysCancelled'
    BY <1>0, <2>1, <2>2, <2>4 DEF AnswerInv, HeatedForABooking, CancelledStaysCancelled
  <2> QED
    BY <1>0, <2>1, <2>3, <2>5 DEF AnswerInv
<1>6. ASSUME NEW c \in Bookings, Cancel(c) PROVE AnswerInv'
  <2>1. UNCHANGED <<now, bookedAt, cache, answer>>
    BY <1>6 DEF Cancel
  <2>2. cancelledAt'[c] = now /\ \A b \in Bookings \ {c} : cancelledAt'[b] = cancelledAt[b]
    BY <1>0, <1>6 DEF Cancel, TypeOK
  <2>3. cancelledAt[c] > now
    BY <1>6 DEF Cancel, Current
  <2>4. cancelledAt[c] \in Nat
    BY <1>0, CacheAssumption DEF TypeOK, Moments, Later
  <2>5. UnderWayIsHeated'
    BY <1>0, <2>1, <2>2, <2>3, <2>4 DEF AnswerInv, UnderWayIsHeated
  <2>6. HeatedForABooking'
    <3>1. /\ answer.answered <= answer.fetched /\ answer.when <= now
          /\ HeatedForABooking
      BY DEF AnswerInv
    <3>2. now >= answer.when - MaxAge - (answer.fetched - answer.answered)
      BY <1>0, <3>1
    <3>3. ASSUME NEW b \in answer.events
          PROVE  /\ bookedAt[b] <= answer.when
                 /\ cancelledAt'[b] >= answer.when - MaxAge - (answer.fetched - answer.answered)
                 /\ b.end > answer.at - Window /\ b.start < answer.at + Window
      <4>1. b \in Bookings
        BY <1>0
      <4>2. CASE b = c
        BY <2>2, <3>1, <3>2, <4>2 DEF HeatedForABooking
      <4>3. CASE b # c
        BY <2>2, <3>1, <4>1, <4>3 DEF HeatedForABooking
      <4> QED
        BY <4>2, <4>3
    <3> QED
      BY <2>1, <3>3 DEF HeatedForABooking
  <2>7. \A r \in cache : r.answered <= now
    BY <1>0 DEF RowsInv, RowOK, Faithful
  <2>8. CancelledStaysCancelled'
    BY <1>0, <2>1, <2>2, <2>7 DEF AnswerInv, CancelledStaysCancelled
  <2> QED
    BY <1>0, <2>1, <2>5, <2>6, <2>8 DEF AnswerInv
<1> QED
  BY <1>1, <1>2, <1>3, <1>4, <1>5, <1>6 DEF Next

\* Whoever has the hall is not told to sit in the cold, by Google or by the
\* cache (load_calendar_cache with save_calendar_cache).
THEOREM UnderWayIsHeatedHolds == Spec => []UnderWayIsHeated
<1>1. AnswerInv => UnderWayIsHeated
  BY DEF AnswerInv
<1> QED
  BY <1>1, AnswerInit, AnswerNext, PTL DEF Spec

\* Heat is for a booking that stood no longer than MaxAge ago and is near.
THEOREM HeatedForABookingHolds == Spec => []HeatedForABooking
<1>1. AnswerInv => HeatedForABooking
  BY DEF AnswerInv
<1> QED
  BY <1>1, AnswerInit, AnswerNext, PTL DEF Spec

\* No cached answer brings back a booking that a newer answer had dropped.
THEOREM CancelledStaysCancelledHolds == Spec => []CancelledStaysCancelled
<1>1. AnswerInv => CancelledStaysCancelled
  BY DEF AnswerInv
<1> QED
  BY <1>1, AnswerInit, AnswerNext, PTL DEF Spec

\* The conditions of the query never make it pass over a newer row and take
\* an older one: what a failed fetch falls back on is a newest row of the
\* table, or nothing. HeatCycle may therefore keep one row per room.
FallsBackOnNewest == Newest(Usable) \subseteq Newest(cache)

\* load_calendar_cache falls back on the newest answer ever saved, or on none,
\* although it asks for age and window before it orders by fetched_at.
THEOREM FallsBackOnNewestHolds == Spec => []FallsBackOnNewest
<1>1. AnswerInv => FallsBackOnNewest
  <2> SUFFICES ASSUME AnswerInv, NEW r \in Newest(Usable)
               PROVE  r \in cache /\ \A q \in cache : q.fetched <= r.fetched
    BY DEF FallsBackOnNewest, Newest
  <2>1. Ordered
    BY DEF AnswerInv
  <2>2. r \in cache
    BY DEF Newest, Usable
  <2> QED
    BY <2>1, <2>2, NewestOfAll
<1> QED
  BY <1>1, AnswerInit, AnswerNext, PTL DEF Spec
=============================================================================
