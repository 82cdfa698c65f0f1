---------------------------- MODULE CalendarCache ----------------------------
(***************************************************************************)
(* The calendar cache of the state DB, in time: what a cycle is told of    *)
(* the bookings when Google does not answer (get_calendar_events_with_     *)
(* fallback, save_calendar_cache and load_calendar_cache of main.py, and   *)
(* their Go and Rust twins). HeatCycle has the same calls without time.    *)
(*                                                                         *)
(* One calendar, whole time units. A cycle fixes currentTime when it       *)
(* begins and may reach the calendar later: the prayer room's calendar is  *)
(* asked after the relay pulses. Google answers at one moment, and the     *)
(* answer is stamped and saved at a later one.                             *)
(***************************************************************************)
EXTENDS Integers, FiniteSets

CONSTANTS
    Bookings,   \* the bookings there may be: records [start, end]
    Window,     \* time_window_hours
    MaxAge,     \* cache.google_max_age_hours
    MaxTime,    \* bound: the last moment
    MaxRows     \* bound: rows saved (the program never deletes one)

ASSUME CacheAssumption ==
    /\ Bookings \subseteq [start : Nat, end : Nat]
    /\ Window \in Nat \ {0} /\ MaxAge \in Nat \ {0}
    /\ MaxTime \in Nat /\ MaxRows \in Nat

VARIABLES
    now,
    bookedAt, cancelledAt,   \* moments of each booking's life; Later: not yet
    pc, currentTime,         \* the running cycle
    held,                    \* what Google answered it, not saved yet
    cache,                   \* table calendar_cache
    answer                   \* what the last cycle was told

vars == <<now, bookedAt, cancelledAt, pc, currentTime, held, cache, answer>>

Later == MaxTime + 1
Moments == 0..Later

\* A row, and (not in the table) the moment Google answered.
Rows == [start : Nat, end : Nat, fetched : Nat, events : SUBSET Bookings,
         answered : Nat]

Nothing == [answered |-> 0, events |-> {}]

Init ==
    /\ now = 0
    /\ bookedAt \in [Bookings -> {0, Later}]
    /\ cancelledAt = [b \in Bookings |-> Later]
    /\ pc = "idle" /\ currentTime = 0 /\ held = Nothing
    /\ cache = {}
    /\ answer = [from |-> "nothing", events |-> {}, at |-> 0, when |-> 0,
                 fetched |-> 0, answered |-> 0]

-----------------------------------------------------------------------------
\* The calendar now, and its answer for a window (timeMin, timeMax).
Current == {b \in Bookings : bookedAt[b] <= now /\ cancelledAt[b] > now}
EventsBetween(from, to) == {b \in Current : b.end > from /\ b.start < to}

\* Slip: the look-ahead is added twice.
WindowEndTwice == currentTime + Window + Window

WindowEnd == currentTime + Window

Told(source, row) ==
    answer' = [from |-> source, events |-> row.events,
               at |-> currentTime, when |-> now,
               fetched |-> row.fetched, answered |-> row.answered]

\* What save_calendar_cache inserts now, and an answer that names nothing.
Row == [start |-> currentTime, end |-> WindowEnd, fetched |-> now,
        events |-> held.events, answered |-> held.answered]
NoRow == [fetched |-> now, events |-> {}, answered |-> now]

BeginCycle ==
    /\ pc = "idle"
    /\ pc' = "fetch" /\ currentTime' = now
    /\ UNCHANGED <<now, bookedAt, cancelledAt, held, cache, answer>>

\* Google answers.
Fetch ==
    /\ pc = "fetch"
    /\ held' = [answered |-> now, events |-> EventsBetween(currentTime, WindowEnd)]
    /\ pc' = "save"
    /\ UNCHANGED <<now, bookedAt, cancelledAt, currentTime, cache, answer>>

Done ==
    /\ pc' = "idle" /\ held' = Nothing
    /\ UNCHANGED <<now, bookedAt, cancelledAt, currentTime>>

Save ==
    /\ pc = "save" /\ Cardinality(cache) < MaxRows
    /\ cache' = cache \cup {Row} /\ Told("calendar", Row)
    /\ Done

\* Slips: one of the two conditions of the query is missing.
UsableWhateverTheWindow == {r \in cache : r.fetched >= now - MaxAge}
UsableWhateverTheAge == {r \in cache : r.end >= currentTime}

\* The rows the query of load_calendar_cache may return.
Usable == {r \in cache : r.fetched >= now - MaxAge /\ r.end >= currentTime}

\* Slip: the order of the query is forgotten.
AnyFirst(rows) == rows

\* ORDER BY fetched_at DESC LIMIT 1
Newest(rows) == {r \in rows : \A q \in rows : q.fetched <= r.fetched}

FallBack ==
    \/ \E r \in Newest(Usable) : Told("cache", r)
    \/ Usable = {} /\ Told("nothing", NoRow)

\* Google does not answer; or Python, whose save is in the same try block,
\* cannot save what it answered.
FetchFails ==
    /\ pc \in {"fetch", "save"}
    /\ FallBack
    /\ Done /\ UNCHANGED cache

\* Go uses an answer it cannot save. So does Python when the commit fails: its
\* query finds the pending row, which is rolled back when the cycle ends.
SaveFails ==
    /\ pc = "save"
    /\ Told("calendar", Row)
    /\ Done /\ UNCHANGED cache

\* Rust's error, or a kill, ends the cycle with no answer.
Abandon ==
    /\ pc # "idle"
    /\ Done /\ UNCHANGED <<cache, answer>>

-----------------------------------------------------------------------------
Tick ==
    /\ now < MaxTime
    /\ now' = now + 1
    /\ UNCHANGED <<bookedAt, cancelledAt, pc, currentTime, held, cache, answer>>

Book(b) ==
    /\ bookedAt[b] = Later
    /\ bookedAt' = [bookedAt EXCEPT ![b] = now]
    /\ UNCHANGED <<now, cancelledAt, pc, currentTime, held, cache, answer>>

Cancel(b) ==
    /\ b \in Current
    /\ cancelledAt' = [cancelledAt EXCEPT ![b] = now]
    /\ UNCHANGED <<now, bookedAt, pc, currentTime, held, cache, answer>>

Next == BeginCycle \/ Fetch \/ Save \/ FetchFails \/ SaveFails \/ Abandon \/ Tick
        \/ \E b \in Bookings : Book(b) \/ Cancel(b)

Spec == Init /\ [][Next]_vars

-----------------------------------------------------------------------------
TypeOK ==
    /\ now \in 0..MaxTime
    /\ bookedAt \in [Bookings -> Moments] /\ cancelledAt \in [Bookings -> Moments]
    /\ pc \in {"idle", "fetch", "save"} /\ currentTime \in 0..now
    /\ held \in [answered : 0..now, events : SUBSET Bookings]
    /\ cache \subseteq Rows
    /\ answer \in [from : {"calendar", "cache", "nothing"},
                   events : SUBSET Bookings, at : Nat, when : Nat,
                   fetched : Nat, answered : Nat]

\* Who has the hall is never told to sit in the cold: whether Google or the
\* cache answers, the answer names every booking that had begun, provided it
\* was made more than one window ago. The query's window_end sees to it.
UnderWayIsHeated ==
    answer.from # "nothing" =>
        \A b \in Bookings :
            (/\ b.start < answer.at /\ answer.at < b.end
             /\ bookedAt[b] < answer.at - Window
             /\ cancelledAt[b] > answer.when)
                => b \in answer.events

\* What is heated for was booked and is near: an answer, cached or not, names
\* only bookings that stood no longer than MaxAge ago - counted from the stamp,
\* so longer by what passed between Google's answer and the stamp - and that
\* end after, or begin before, a window's length from the cycle's time.
HeatedForABooking ==
    \A b \in answer.events :
        /\ bookedAt[b] <= answer.when
        /\ cancelledAt[b] >= answer.when - MaxAge - (answer.fetched - answer.answered)
        /\ b.end > answer.at - Window /\ b.start < answer.at + Window

\* The cache never goes back: a booking that Google had dropped in some saved
\* answer is in no later answer, whichever rows the table still holds. Only
\* rows with one and the same stamp may come in either order.
CancelledStaysCancelled ==
    \A b \in answer.events, r \in cache :
        (r.fetched <= answer.when /\ r.fetched # answer.fetched)
            => cancelledAt[b] >= r.answered

\* With a look-ahead window no longer than MaxAge, MaxAge refuses nothing that
\* the window does not refuse as well, in a cycle that does not lag.
AgeIsTheWindow ==
    (Window <= MaxAge /\ now = currentTime) =>
        \A r \in cache : r.end >= currentTime => r.fetched >= now - MaxAge
=============================================================================
