-------------------------- MODULE TransitionDelivery --------------------------
(***************************************************************************)
(* What the controllers promise a thermostat: the decision of a cycle is   *)
(* recorded in a row, and the thermostat is commanded only when the row    *)
(* changes, once per change, with the recorded value, before the next one  *)
(* is recorded. Where Lossy, a command may be lost, and is then owed no    *)
(* more: delivery is at most once. This abstract specification is shared   *)
(* by Mill (heat_zone_state) and, without a relay, Glamox (relay_state).   *)
(***************************************************************************)
EXTENDS Naturals

CONSTANT Lossy   \* commands may be lost

VARIABLES row, owed, setpoint

vars == <<row, owed, setpoint>>

Heat == {"off", "on"}
Stored(r) == IF r = "none" THEN "off" ELSE r

Init == row = "none" /\ owed = "nothing" /\ setpoint = "other"

\* A decision is recorded; a changed one is owed to the thermostat.
Record(h) ==
    /\ owed = "nothing"
    /\ row' = h
    /\ owed' = IF h = Stored(row) THEN "nothing" ELSE h
    /\ UNCHANGED setpoint

Deliver ==
    /\ owed # "nothing"
    /\ setpoint' = owed
    /\ owed' = "nothing"
    /\ UNCHANGED row

\* The command is given up, or with it the whole cycle.
Lose ==
    /\ Lossy /\ owed # "nothing"
    /\ owed' = "nothing"
    /\ UNCHANGED <<row, setpoint>>

\* The decision is recorded by a cycle that ends right there; or a record that
\* was never committed is undone.
RecordAndLose(h) ==
    /\ Lossy /\ owed = "nothing"
    /\ row' = h
    /\ UNCHANGED <<owed, setpoint>>

Next == \/ \E h \in Heat : Record(h)
        \/ \E h \in Heat \cup {"none"} : RecordAndLose(h)
        \/ Deliver \/ Lose

Spec == Init /\ [][Next]_vars

\* Where nothing is lost, the thermostat stands at the recorded decision
\* whenever nothing is owed to it; before the first change it is untouched.
DeliveredUnlessOwed ==
    (~Lossy /\ owed = "nothing")
        => setpoint = row \/ (setpoint = "other" /\ row # "on")
=============================================================================
