--------------------------- MODULE HeatCycle_proofs ---------------------------
(***************************************************************************)
(* Proofs about HeatCycle, for every implementation, every configuration   *)
(* and every set of parties that can fail; at the end, that the cycle      *)
(* implements TransitionDelivery for Mill and, without a relay board, for  *)
(* Glamox, and what that promise is worth.                                 *)
(***************************************************************************)
EXTENDS HeatCycleRefinement, TLAPS

\* The abstract promise by itself, over variables of its own.
CONSTANT Lossy
VARIABLES row, owed, setpoint
Promise == INSTANCE TransitionDelivery

(***************************************************************************)
(* Both pulse trains end with the contact where the decision wants it, and *)
(* every command is a state of the contact.                                *)
(***************************************************************************)
LEMMA PulseTrain ==
    ASSUME NEW h \in Heat
    PROVE  /\ 1 \in 1..Len(Pulses(h))
           /\ Pulses(h)[Len(Pulses(h))] = h
           /\ \A i \in 1..Len(Pulses(h)) :
                 /\ Pulses(h)[i] \in Heat
                 /\ i < Len(Pulses(h)) => i + 1 \in 1..Len(Pulses(h)) /\ i + 1 \in 0..4
                 /\ ~(i < Len(Pulses(h))) => i = Len(Pulses(h))
<1>1. CASE h = "on"
  <2>1. Pulses(h) = <<"on", "off", "on">>
    BY <1>1 DEF Pulses
  <2>2. /\ Len(Pulses(h)) = 3
        /\ Pulses(h)[1] = "on" /\ Pulses(h)[2] = "off" /\ Pulses(h)[3] = "on"
    BY <2>1
  <2>3. \A i \in 1..3 : i \in {1, 2, 3}
    OBVIOUS
  <2>4. QED
    BY <1>1, <2>2, <2>3 DEF Heat
<1>2. CASE h = "off"
  <2>1. Pulses(h) = <<"on", "off", "on", "off">>
    BY <1>2 DEF Pulses
  <2>2. /\ Len(Pulses(h)) = 4
        /\ Pulses(h)[1] = "on" /\ Pulses(h)[2] = "off" /\ Pulses(h)[3] = "on" /\ Pulses(h)[4] = "off"
    BY <2>1
  <2>3. \A i \in 1..4 : i \in {1, 2, 3, 4}
    OBVIOUS
  <2>4. QED
    BY <1>2, <2>2, <2>3 DEF Heat
<1>3. QED
  BY <1>1, <1>2 DEF Heat

(***************************************************************************)
(* The inductive invariant of the type theorem: TypeOK, and where the      *)
(* pulse train stands. Without the second part a command could lie outside *)
(* the train, and the relay would have no type.                            *)
(***************************************************************************)
PulseInTrain ==
    pc = "pulse" => /\ pulse \in 1..Len(Pulses(heatOn))
                    /\ relayStatus # heatOn
                    /\ SR201Enabled /\ ~DryRun

TypeInv == TypeOK /\ PulseInTrain

LEMMA TypeInvInit == Init => TypeInv
  BY ConfigAssumption DEF Init, TypeInv, TypeOK, PulseInTrain, Heat, Rooms, Steps

LEMMA CommandTyped ==
    ASSUME TypeInv, pc = "pulse"
    PROVE  Command \in Heat
  BY PulseTrain DEF TypeInv, TypeOK, PulseInTrain, Command

\* The cycle's part of TypeOK, and that of the rows and the database.
CycleTyped ==
    /\ pc \in Steps \cup {"idle", "hung"}
    /\ heatOn \in Heat /\ lastState \in Heat /\ relayStatus \in Heat
    /\ pulse \in 0..4

DbTyped ==
    /\ calendarCache \in [Rooms -> Heat \cup {"none"}]
    /\ relayState \in Heat \cup {"none"} /\ heatZoneState \in Heat \cup {"none"}
    /\ disk \in [calendar : [Rooms -> Heat \cup {"none"}],
                relay : Heat \cup {"none"}, zone : Heat \cup {"none"}]

\* A cycle that leaves its current step is well typed.
LEMMA LeaveTyped ==
    ASSUME NEW place \in {"idle", "hung", "calPray"}, Leave(place)
    PROVE  CycleTyped' /\ pc' # "pulse"
  BY DEF Leave, Steps, Heat, CycleTyped

\* So are the rows after a commit, a rollback and an error.
LEMMA CommitTyped ==
    ASSUME Commit, calendarCache' \in [Rooms -> Heat \cup {"none"}],
           relayState' \in Heat \cup {"none"}, heatZoneState' \in Heat \cup {"none"}
    PROVE  DbTyped'
  BY DEF Commit, DbTyped

LEMMA RollBackTyped == ASSUME DbTyped, RollBack PROVE DbTyped'
  BY DEF RollBack, DbTyped

LEMMA RaiseTyped == ASSUME DbTyped, Raise PROVE DbTyped' /\ CycleTyped' /\ pc' # "pulse"
<1>1. CycleTyped' /\ pc' # "pulse"
  BY LeaveTyped DEF Raise, EndCycle
<1>2. DbTyped'
  BY DEF Raise, DbTyped
<1>3. QED
  BY <1>1, <1>2

LEMMA DbKept == ASSUME DbTyped, UNCHANGED dbVars PROVE DbTyped'
  BY DEF DbTyped, dbVars

LEMMA TypeInvNext == TypeInv /\ [Next]_vars => TypeInv'
<1> SUFFICES ASSUME TypeInv, [Next]_vars
             PROVE  TypeInv'
  OBVIOUS
<1>a. DbTyped /\ CycleTyped
  BY DEF TypeInv, TypeOK, DbTyped, CycleTyped
<1>b. ASSUME DbTyped', CycleTyped', PulseInTrain', booked' \in [Rooms -> Heat],
             relay' \in Heat, glamox' \in Heat \cup {"other"}, mill' \in Heat \cup {"other"},
             down' \subseteq CanFail, faulted' \subseteq CanFail
      PROVE  TypeInv'
  BY <1>b DEF TypeInv, TypeOK, DbTyped, CycleTyped
<1>c. ASSUME DbTyped', CycleTyped', PulseInTrain', UNCHANGED <<deviceVars, booked, down>>,
             faulted' \subseteq CanFail
      PROVE  TypeInv'
  BY <1>b, <1>c DEF TypeInv, TypeOK, deviceVars
<1>d. ASSUME UNCHANGED dbVars
      PROVE  DbTyped'
  BY <1>a, <1>d, DbKept
<1>e. ASSUME pc' # "pulse"
      PROVE  PulseInTrain'
  BY <1>e DEF PulseInTrain
<1>f. ASSUME UNCHANGED cycleVars
      PROVE  CycleTyped' /\ PulseInTrain'
  BY <1>f, <1>a DEF cycleVars, CycleTyped, TypeInv, PulseInTrain, Pulses
<1>g. faulted \subseteq CanFail /\ (Works => faulted' \subseteq CanFail)
      /\ \A p : Fails(p) => faulted' \subseteq CanFail
  BY DEF TypeInv, TypeOK, Works, Fails
<1>1. CASE Begin
  <2>1. CycleTyped' /\ pc' # "pulse"
    BY <1>1, <1>a DEF Begin, Goto, CycleTyped, Steps
  <2>2. UNCHANGED <<dbVars, deviceVars, booked, down>> /\ Works
    BY <1>1 DEF Begin
  <2>3. QED
    BY <1>c, <1>d, <1>e, <1>g, <2>1, <2>2
<1>2. ASSUME NEW room \in Rooms, NEW answer \in Heat, Decide(room, answer)
      PROVE  CycleTyped' /\ pc' # "pulse"
  <2>1. CASE room = "pray" /\ ~MillEnabled
    BY <1>2, <2>1, LeaveTyped DEF Decide, EndCycle
  <2>2. CASE ~(room = "pray" /\ ~MillEnabled)
    BY <1>2, <2>2, <1>a DEF Decide, Steps, CycleTyped
  <2>3. QED
    BY <2>1, <2>2
<1>3. ASSUME NEW room \in Rooms, Fallback(room)
      PROVE  DbTyped' /\ CycleTyped' /\ pc' # "pulse"
  <2>1. CASE calendarCache[room] # "none"
    <3>1. calendarCache[room] \in Heat
      BY <2>1, <1>a DEF DbTyped
    <3>2. Decide(room, calendarCache[room]) /\ UNCHANGED dbVars
      BY <1>3, <2>1 DEF Fallback, Onward
    <3>3. QED
      BY <1>2, <1>d, <3>1, <3>2
  <2>2. CASE calendarCache[room] = "none" /\ Impl = "rust"
    <3>1. Decide(room, "off") /\ UNCHANGED dbVars
      BY <1>3, <2>2 DEF Fallback, Onward
    <3>2. QED
      BY <1>2, <1>d, <3>1 DEF Heat
  <2>3. CASE calendarCache[room] = "none" /\ Impl # "rust"
    BY <1>3, <1>a, <2>3, RaiseTyped DEF Fallback
  <2>4. QED
    BY <2>1, <2>2, <2>3
<1>h. ASSUME NEW room \in Rooms
      PROVE  /\ booked[room] \in Heat
             /\ [calendarCache EXCEPT ![room] = booked[room]] \in [Rooms -> Heat \cup {"none"}]
             /\ relayState \in Heat \cup {"none"} /\ heatZoneState \in Heat \cup {"none"}
  BY DEF TypeInv, TypeOK
<1>4. ASSUME NEW room \in Rooms, FetchCalendar(room)
      PROVE  TypeInv'
  <2>1. DbTyped'
    BY <1>4, <1>h, CommitTyped DEF FetchCalendar
  <2>2. CycleTyped' /\ pc' # "pulse"
    BY <1>2, <1>4, <1>h DEF FetchCalendar
  <2>3. Works /\ UNCHANGED <<deviceVars, booked, down>>
    BY <1>4 DEF FetchCalendar
  <2>4. QED
    BY <1>c, <1>e, <1>g, <2>1, <2>2, <2>3
<1>5. ASSUME NEW room \in Rooms, FetchUnsaved(room)
      PROVE  TypeInv'
  <2>1. CASE Onward(Decide(room, booked[room]))
    BY <2>1, <1>2, <1>d, <1>h, <1>5, <1>c, <1>e, <1>g DEF Onward, FetchUnsaved
  <2>2. CASE Raise \/ Fallback(room)
    BY <2>2, <1>3, <1>a, RaiseTyped, <1>5, <1>c, <1>e, <1>g DEF FetchUnsaved
  <2>3. CASE /\ Decide(room, booked[room])
             /\ calendarCache' = [calendarCache EXCEPT ![room] = booked[room]]
             /\ UNCHANGED <<relayState, heatZoneState>>
             /\ Commit \/ UNCHANGED disk
    <3>1. DbTyped'
      <4>1. CASE Commit
        BY <4>1, <2>3, <1>h, CommitTyped
      <4>2. CASE UNCHANGED disk
        BY <4>2, <2>3, <1>a, <1>h DEF DbTyped
      <4>3. QED
        BY <2>3, <4>1, <4>2
    <3>2. QED
      BY <3>1, <2>3, <1>2, <1>h, <1>5, <1>c, <1>e, <1>g DEF FetchUnsaved
  <2>4. QED
    BY <2>1, <2>2, <2>3, <1>5 DEF FetchUnsaved
<1>6. ASSUME NEW room \in Rooms, FetchFails(room)
      PROVE  TypeInv'
  <2>1. Fallback(room) \/ Raise
    BY <1>6 DEF FetchFails
  <2>2. DbTyped' /\ CycleTyped' /\ pc' # "pulse"
    BY <1>3, <1>a, <2>1, RaiseTyped
  <2>3. faulted' \subseteq CanFail
    BY <1>6 DEF FetchFails, Fails, TypeInv, TypeOK
  <2>4. QED
    BY <1>6, <1>c, <1>e, <2>2, <2>3 DEF FetchFails
<1>i. ASSUME NEW step \in Steps \ {"pulse"}, Goto(step)
      PROVE  CycleTyped' /\ pc' # "pulse"
  BY <1>i, <1>a DEF Goto, CycleTyped
<1>7. CASE ReadRelayState
  <2>1. PICK onward \in {"status", "saveRelay"} :
          \/ /\ Works /\ lastState' = Stored(relayState) /\ pc' = onward
             /\ UNCHANGED <<heatOn, relayStatus, pulse, dbVars>>
          \/ Fails("db") /\ (Raise \/ Onward(Goto(onward)))
    BY <1>7 DEF ReadRelayState
  <2>2. CASE Fails("db") /\ (Raise \/ Onward(Goto(onward)))
    BY <2>2, <1>7, <1>i, <1>a, <1>c, <1>d, <1>e, <1>g, RaiseTyped
       DEF Onward, Steps, ReadRelayState
  <2>3. CASE /\ Works /\ lastState' = Stored(relayState) /\ pc' = onward
             /\ UNCHANGED <<heatOn, relayStatus, pulse, dbVars>>
    <3>1. CycleTyped' /\ pc' # "pulse"
      BY <2>3, <1>a DEF CycleTyped, DbTyped, Stored, Steps, Heat
    <3>2. QED
      BY <2>3, <3>1, <1>7, <1>c, <1>d, <1>e, <1>g DEF ReadRelayState
  <2>4. QED
    BY <2>1, <2>2, <2>3
<1>8. CASE ReadRelayStatus
  <2>1. CASE Fails("sr201") /\ (Raise \/ Onward(ToPray))
    BY <2>1, <1>8, <1>a, <1>c, <1>d, <1>e, <1>g, RaiseTyped, LeaveTyped
       DEF Onward, ToPray, ReadRelayStatus
  <2>2. CASE /\ Works /\ relayStatus' = relay /\ pc' = "saveRelay"
             /\ UNCHANGED <<heatOn, lastState, pulse, dbVars>>
    <3>1. CycleTyped' /\ pc' # "pulse"
      BY <2>2, <1>a DEF CycleTyped, TypeInv, TypeOK, Steps
    <3>2. QED
      BY <2>2, <3>1, <1>8, <1>c, <1>d, <1>e, <1>g DEF ReadRelayStatus
  <2>3. QED
    BY <1>8, <2>1, <2>2 DEF ReadRelayStatus
<1>9. ASSUME ActOnDecision
      PROVE  CycleTyped' /\ PulseInTrain'
  <2>1. CASE ToPray \/ Goto("glamox")
    BY <2>1, <1>e, <1>i, LeaveTyped DEF ToPray, Steps
  <2>2. CASE ~(ToPray \/ Goto("glamox"))
    <3>1. /\ SR201Enabled /\ ~DryRun /\ heatOn # relayStatus
          /\ pc' = "pulse" /\ pulse' = 1
          /\ UNCHANGED <<heatOn, lastState, relayStatus>>
      BY <1>9, <2>2 DEF ActOnDecision
    <3>2. 1 \in 1..Len(Pulses(heatOn))
      BY <1>a, PulseTrain DEF CycleTyped
    <3>3. Pulses(heatOn)' = Pulses(heatOn)
      BY <3>1 DEF Pulses
    <3>4. QED
      BY <1>a, <3>1, <3>2, <3>3 DEF PulseInTrain, CycleTyped, Steps
  <2>3. QED
    BY <2>1, <2>2
<1>10. CASE SaveRelayState
  <2>1. CASE /\ Works /\ relayState' = heatOn /\ ActOnDecision
             /\ UNCHANGED <<calendarCache, heatZoneState>> /\ Commit
    <3>1. DbTyped'
      BY <2>1, <1>a, CommitTyped DEF DbTyped, CycleTyped
    <3>2. QED
      BY <2>1, <3>1, <1>9, <1>10, <1>c, <1>g DEF SaveRelayState
  <2>2. CASE Fails("db") /\ Raise
    BY <2>2, <1>10, <1>a, <1>c, <1>e, <1>g, RaiseTyped DEF SaveRelayState
  <2>3. CASE Fails("db") /\ Onward(ActOnDecision)
    BY <2>3, <1>9, <1>10, <1>c, <1>d, <1>g DEF SaveRelayState, Onward
  <2>4. CASE /\ Fails("db") /\ relayState' = heatOn /\ EndCycle
             /\ UNCHANGED <<calendarCache, heatZoneState, disk>>
    <3>1. DbTyped'
      BY <2>4, <1>a DEF DbTyped, CycleTyped
    <3>2. QED
      BY <2>4, <3>1, <1>10, <1>c, <1>e, <1>g, LeaveTyped DEF SaveRelayState, EndCycle
  <2>5. QED
    BY <1>10, <2>1, <2>2, <2>3, <2>4 DEF SaveRelayState
<1>j. ASSUME DbTyped', CycleTyped', PulseInTrain', relay' \in Heat,
             glamox' \in Heat \cup {"other"}, mill' \in Heat \cup {"other"},
             UNCHANGED <<booked, down>>, faulted' \subseteq CanFail
      PROVE  TypeInv'
  BY <1>b, <1>j DEF TypeInv, TypeOK
<1>k. heatOn \in Heat /\ glamox \in Heat \cup {"other"} /\ mill \in Heat \cup {"other"}
      /\ relay \in Heat
  BY DEF TypeInv, TypeOK
<1>11. CASE Pulse
  <2>1. relay' \in Heat
    BY <1>11, CommandTyped DEF Pulse
  <2>2. CASE pulse < Len(Pulses(heatOn))
    <3>1. /\ pulse' = pulse + 1 /\ UNCHANGED <<pc, heatOn, lastState, relayStatus>>
      BY <1>11, <2>2 DEF Pulse
    <3>2. Pulses(heatOn)' = Pulses(heatOn)
      BY <3>1 DEF Pulses
    <3>3. pulse + 1 \in 1..Len(Pulses(heatOn)) /\ pulse + 1 \in 0..4
      BY <1>11, <1>k, <2>2, PulseTrain DEF Pulse, PulseInTrain, TypeInv
    <3>4. CycleTyped' /\ PulseInTrain'
      BY <1>11, <1>a, <3>1, <3>2, <3>3 DEF PulseInTrain, CycleTyped, TypeInv
    <3>5. QED
      BY <1>11, <2>1, <3>4, <1>d, <1>g, <1>j, <1>k DEF Pulse
  <2>3. CASE ~(pulse < Len(Pulses(heatOn)))
    BY <1>11, <2>1, <2>3, <1>d, <1>e, <1>g, <1>i, <1>j, <1>k DEF Pulse, Steps
  <2>4. QED
    BY <2>2, <2>3
<1>12. CASE PulseFails
  <2>1. relay' \in Heat
    BY <1>12, <1>k, CommandTyped DEF PulseFails
  <2>2. EndCycle \/ ToPray
    BY <1>12 DEF PulseFails
  <2>3. CycleTyped' /\ pc' # "pulse"
    BY <2>2, LeaveTyped DEF EndCycle, ToPray
  <2>4. QED
    BY <1>12, <2>1, <2>3, <1>d, <1>e, <1>g, <1>j, <1>k DEF PulseFails
<1>13. CASE UpdateGlamox
  BY <1>13, LeaveTyped, <1>d, <1>e, <1>g, <1>j, <1>k DEF UpdateGlamox, ToPray
<1>14. CASE GlamoxFails
  BY <1>14, LeaveTyped, <1>d, <1>e, <1>g, <1>j, <1>k DEF GlamoxFails, ToPray, EndCycle
<1>15. CASE ReadHeatZoneState
  <2>1. CASE Fails("db") /\ (Raise \/ Onward(Goto("saveZone")))
    BY <2>1, <1>15, <1>i, <1>a, <1>c, <1>d, <1>e, <1>g, RaiseTyped
       DEF Onward, Steps, ReadHeatZoneState
  <2>2. CASE /\ Works /\ lastState' = Stored(heatZoneState) /\ pc' = "saveZone"
             /\ UNCHANGED <<heatOn, relayStatus, pulse, dbVars>>
    <3>1. CycleTyped' /\ pc' # "pulse"
      BY <2>2, <1>a DEF CycleTyped, DbTyped, Stored, Steps, Heat
    <3>2. QED
      BY <2>2, <3>1, <1>15, <1>c, <1>d, <1>e, <1>g DEF ReadHeatZoneState
  <2>3. QED
    BY <1>15, <2>1, <2>2 DEF ReadHeatZoneState
<1>l. ASSUME ActOnTransition
      PROVE  CycleTyped' /\ pc' # "pulse"
  BY <1>l, <1>i, LeaveTyped DEF ActOnTransition, EndCycle, Steps
<1>16. CASE SaveHeatZoneState
  <2>1. CASE /\ Works /\ heatZoneState' = heatOn /\ ActOnTransition
             /\ UNCHANGED <<calendarCache, relayState>> /\ Commit
    <3>1. DbTyped'
      BY <2>1, <1>a, CommitTyped DEF DbTyped, CycleTyped
    <3>2. QED
      BY <2>1, <3>1, <1>l, <1>16, <1>c, <1>e, <1>g DEF SaveHeatZoneState
  <2>2. CASE Fails("db") /\ Raise
    BY <2>2, <1>16, <1>a, <1>c, <1>e, <1>g, RaiseTyped DEF SaveHeatZoneState
  <2>3. CASE Fails("db") /\ Onward(ActOnTransition)
    BY <2>3, <1>l, <1>16, <1>c, <1>d, <1>e, <1>g DEF SaveHeatZoneState, Onward
  <2>4. CASE /\ Fails("db") /\ heatZoneState' = heatOn /\ EndCycle
             /\ UNCHANGED <<calendarCache, relayState, disk>>
    <3>1. DbTyped'
      BY <2>4, <1>a DEF DbTyped, CycleTyped
    <3>2. QED
      BY <2>4, <3>1, <1>16, <1>c, <1>e, <1>g, LeaveTyped DEF SaveHeatZoneState, EndCycle
  <2>5. QED
    BY <1>16, <2>1, <2>2, <2>3, <2>4 DEF SaveHeatZoneState
<1>17. CASE UpdateMill
  BY <1>17, LeaveTyped, <1>d, <1>e, <1>g, <1>j, <1>k DEF UpdateMill, EndCycle
<1>18. CASE MillFails
  BY <1>18, LeaveTyped, <1>d, <1>e, <1>g, <1>j, <1>k DEF MillFails, EndCycle
<1>19. CASE Hang
  <2>1. relay' \in Heat /\ mill' \in Heat \cup {"other"} /\ glamox' = glamox
    BY <1>19, <1>k, CommandTyped DEF Hang
  <2>2. CycleTyped' /\ pc' # "pulse"
    BY <1>19, LeaveTyped DEF Hang
  <2>3. faulted' \subseteq CanFail
    BY <1>19, <1>g DEF Hang
  <2>4. UNCHANGED <<booked, down, dbVars>>
    BY <1>19 DEF Hang
  <2>5. QED
    BY <2>1, <2>2, <2>3, <2>4, <1>d, <1>e, <1>j, <1>k
<1>20. CASE WatchdogKill \/ Crash
  <2>1. EndCycle /\ RollBack /\ UNCHANGED <<deviceVars, booked, down>>
    BY <1>20 DEF WatchdogKill, Crash
  <2>2. faulted' \subseteq CanFail
    BY <1>20, <1>g DEF WatchdogKill, Crash
  <2>3. CycleTyped' /\ pc' # "pulse"
    BY <2>1, LeaveTyped DEF EndCycle
  <2>4. QED
    BY <2>1, <2>2, <2>3, <1>a, <1>c, <1>e, RollBackTyped
<1>21. CASE Reload
  <2>1. RollBack /\ UNCHANGED <<cycleVars, deviceVars, booked, down, faulted>>
    BY <1>21 DEF Reload, envVars
  <2>2. QED
    BY <2>1, <1>a, <1>c, <1>f, <1>g, RollBackTyped
<1>22. ASSUME NEW room \in Rooms, BookingChange(room)
       PROVE  TypeInv'
  <2>1. booked' \in [Rooms -> Heat]
    BY <1>22 DEF BookingChange, TypeInv, TypeOK, Heat
  <2>2. UNCHANGED <<cycleVars, dbVars, deviceVars, down, faulted>>
    BY <1>22 DEF BookingChange
  <2>3. UNCHANGED <<relay, glamox, mill>> /\ down' \subseteq CanFail
    BY <2>2 DEF deviceVars, TypeInv, TypeOK
  <2>4. QED
    BY <2>1, <2>2, <2>3, <1>b, <1>d, <1>f, <1>g, <1>k
<1>23. ASSUME NEW room \in Rooms, CacheExpires(room)
       PROVE  TypeInv'
  <2>1. DbTyped'
    BY <1>23, <1>a DEF CacheExpires, DbTyped
  <2>2. UNCHANGED <<cycleVars, deviceVars, booked, down>> /\ faulted' = faulted
    BY <1>23 DEF CacheExpires
  <2>3. QED
    BY <2>1, <2>2, <1>c, <1>f, <1>g
<1>24. ASSUME NEW p \in Parties, Repair(p)
       PROVE  TypeInv'
  <2>1. UNCHANGED <<cycleVars, dbVars, deviceVars, booked, faulted>>
    BY <1>24 DEF Repair
  <2>2. UNCHANGED <<relay, glamox, mill>> /\ booked' \in [Rooms -> Heat]
    BY <2>1 DEF deviceVars, TypeInv, TypeOK
  <2>3. down' \subseteq CanFail
    BY <1>24 DEF Repair, TypeInv, TypeOK
  <2>4. QED
    BY <2>1, <2>2, <2>3, <1>b, <1>d, <1>f, <1>g, <1>k
<1>25. CASE UNCHANGED vars
  <2>1. UNCHANGED <<cycleVars, dbVars, deviceVars, booked, down, faulted>>
    BY <1>25 DEF vars, envVars
  <2>2. QED
    BY <2>1, <1>c, <1>d, <1>f, <1>g
<1>26. QED
  BY <1>1, <1>4, <1>5, <1>6, <1>7, <1>8, <1>10, <1>11, <1>12, <1>13, <1>14, <1>15, <1>16,
     <1>17, <1>18, <1>19, <1>20, <1>21, <1>22, <1>23, <1>24, <1>25
     DEF Next, Cycle, World, CalendarNext, StorsalenNext, PrayNext

(***************************************************************************)
(* In every behaviour every variable keeps its type; in particular every   *)
(* relay command is one of the operation's pulse train.                    *)
(***************************************************************************)
THEOREM TypeCorrect == Spec => [](TypeOK /\ PulseInTrain)
<1>1. TypeInv => TypeOK /\ PulseInTrain
  BY DEF TypeInv
<1>2. QED
  BY <1>1, TypeInvInit, TypeInvNext, PTL DEF Spec

-----------------------------------------------------------------------------
(***************************************************************************)
(* A calendar step touches neither the rows nor the devices, and it never  *)
(* leads to a step that acts on them directly. In the database it may      *)
(* commit what is pending.                                                 *)
(***************************************************************************)
RowsCommitted == disk.relay = relayState /\ disk.zone = heatZoneState

LEMMA CalendarFrame ==
    ASSUME NEW room \in Rooms,
           FetchCalendar(room) \/ FetchUnsaved(room) \/ FetchFails(room)
    PROVE  /\ UNCHANGED <<relayState, heatZoneState, relay, glamox, mill>>
           /\ pc \in {"calStorsalen", "calPray"}
           /\ pc' \in {"idle", "readRelay", "readZone"}
           /\ faulted \subseteq faulted'
           /\ UNCHANGED disk \/ RowsCommitted'
<1>1. ASSUME NEW answer, Decide(room, answer)
      PROVE  pc' \in {"idle", "readRelay", "readZone"}
  BY <1>1 DEF Decide, EndCycle, Leave, Rooms
<1>2. ASSUME Fallback(room) \/ Raise
      PROVE  /\ pc' \in {"idle", "readRelay", "readZone"}
             /\ UNCHANGED <<relayState, heatZoneState, disk>>
  <2>1. ASSUME Raise
        PROVE  /\ pc' \in {"idle", "readRelay", "readZone"}
               /\ UNCHANGED <<relayState, heatZoneState, disk>>
    BY <2>1 DEF Raise, EndCycle, Leave
  <2>2. QED
    BY <1>1, <1>2, <2>1 DEF Fallback, Onward, dbVars
<1>3. CASE FetchCalendar(room)
  BY <1>1, <1>3 DEF FetchCalendar, CalendarStep, Works, deviceVars, Commit, RowsCommitted
<1>4. CASE FetchUnsaved(room)
  <2>1. /\ UNCHANGED <<relay, glamox, mill>> /\ pc \in {"calStorsalen", "calPray"}
        /\ faulted \subseteq faulted'
    BY <1>4 DEF FetchUnsaved, CalendarStep, Fails, deviceVars
  <2>2. CASE Fallback(room) \/ Raise
    BY <1>2, <2>1, <2>2
  <2>3. CASE Onward(Decide(room, booked[room]))
    BY <1>1, <2>1, <2>3 DEF Onward, dbVars
  <2>4. CASE Decide(room, booked[room]) /\ UNCHANGED <<relayState, heatZoneState>>
             /\ (Commit \/ UNCHANGED disk)
    BY <1>1, <2>1, <2>4 DEF Commit, RowsCommitted
  <2>5. QED
    BY <1>4, <2>2, <2>3, <2>4 DEF FetchUnsaved
<1>5. CASE FetchFails(room)
  BY <1>2, <1>5 DEF FetchFails, CalendarStep, Fails, deviceVars
<1>6. QED
  BY <1>3, <1>4, <1>5

(***************************************************************************)
(* What a rollback can undo. Only a daemon whose database has failed has   *)
(* rows it has not committed, and never while a command is on its way: the *)
(* step before it commits (save_relay_state, save_heat_zone_state).        *)
(***************************************************************************)
DiskInv ==
    RowsCommitted \/ (Daemon /\ "db" \in faulted /\ pc \notin {"pulse", "glamox", "mill"})

LEMMA DiskInvInit == Init => DiskInv
  BY DEF Init, DiskInv, RowsCommitted

LEMMA DiskInvNext == TypeInv /\ DiskInv /\ [Next]_vars => DiskInv'
<1> SUFFICES ASSUME TypeInv, DiskInv, [Next]_vars
             PROVE  DiskInv'
  OBVIOUS
<1>1. ASSUME UNCHANGED <<relayState, heatZoneState, disk>>, faulted \subseteq faulted',
             pc' \notin {"pulse", "glamox", "mill"} \/ pc \in {"pulse", "glamox", "mill"}
                \/ RowsCommitted
      PROVE  DiskInv'
  BY <1>1 DEF DiskInv, RowsCommitted, Daemon
<1>2. ASSUME RowsCommitted' PROVE DiskInv'
  BY <1>2 DEF DiskInv
<1>3. ASSUME NEW room \in Rooms,
             FetchCalendar(room) \/ FetchUnsaved(room) \/ FetchFails(room)
      PROVE  DiskInv'
  BY <1>1, <1>2, <1>3, CalendarFrame
<1>4. ASSUME Fails("db"), Raise PROVE DiskInv'
  BY <1>1, <1>4 DEF Fails, Raise, EndCycle, Leave
<1>5. CASE Begin
  BY <1>1, <1>5 DEF Begin, Works, Goto, dbVars
<1>6. CASE ReadRelayState
  BY <1>1, <1>4, <1>6 DEF ReadRelayState, Works, Fails, Onward, Goto, dbVars
<1>7. CASE ReadRelayStatus
  <2>1. /\ UNCHANGED <<relayState, heatZoneState, disk>> /\ faulted \subseteq faulted'
        /\ pc' \notin {"pulse", "glamox", "mill"}
    BY <1>7 DEF ReadRelayStatus, Works, Fails, Raise, Onward, ToPray, EndCycle, Leave, dbVars
  <2>2. QED
    BY <1>1, <2>1
<1>8. ASSUME Fails("db"), Daemon, EndCycle
      PROVE  DiskInv'
  BY <1>8 DEF DiskInv, Fails, EndCycle, Leave, Daemon
<1>9. ASSUME ~ErrorEndsCycle
      PROVE  RowsCommitted
  BY <1>9 DEF ErrorEndsCycle, DiskInv, Daemon
<1>10. CASE SaveRelayState
  <2>1. CASE Commit
    BY <1>2, <2>1 DEF Commit, RowsCommitted
  <2>2. CASE Fails("db") /\ Raise
    BY <1>4, <2>2
  <2>3. CASE Fails("db") /\ Onward(ActOnDecision) /\ ~ErrorEndsCycle
    BY <1>1, <1>9, <2>3 DEF Fails, Onward, dbVars
  <2>4. CASE Fails("db") /\ Daemon /\ EndCycle
    BY <1>8, <2>4
  <2>5. QED
    BY <1>10, <2>1, <2>2, <2>3, <2>4 DEF SaveRelayState
<1>11. CASE SaveHeatZoneState
  <2>1. CASE Commit
    BY <1>2, <2>1 DEF Commit, RowsCommitted
  <2>2. CASE Fails("db") /\ Raise
    BY <1>4, <2>2
  <2>3. CASE Fails("db") /\ Onward(ActOnTransition) /\ ~ErrorEndsCycle
    BY <1>1, <1>9, <2>3 DEF Fails, Onward, dbVars
  <2>4. CASE Fails("db") /\ Daemon /\ EndCycle
    BY <1>8, <2>4
  <2>5. QED
    BY <1>11, <2>1, <2>2, <2>3, <2>4 DEF SaveHeatZoneState
<1>12. CASE ReadHeatZoneState
  BY <1>1, <1>4, <1>12 DEF ReadHeatZoneState, Works, Fails, Onward, Goto, dbVars
<1>13. CASE Pulse \/ PulseFails \/ UpdateGlamox \/ GlamoxFails \/ UpdateMill \/ MillFails
  BY <1>1, <1>13 DEF Pulse, PulseFails, UpdateGlamox, GlamoxFails, UpdateMill, MillFails,
     Works, Fails, dbVars
<1>14. CASE Hang
  BY <1>1, <1>14 DEF Hang, Fails, Leave, dbVars
<1>15. CASE WatchdogKill \/ Crash \/ Reload
  BY <1>2, <1>15 DEF WatchdogKill, Crash, Reload, RollBack, RowsCommitted
<1>16. ASSUME NEW room \in Rooms, CacheExpires(room)
       PROVE  DiskInv'
  <2>1. disk'.relay = disk.relay /\ disk'.zone = disk.zone
    BY <1>16 DEF CacheExpires, TypeInv, TypeOK
  <2>2. UNCHANGED <<pc, relayState, heatZoneState, faulted>>
    BY <1>16 DEF CacheExpires, cycleVars
  <2>3. QED
    BY <2>1, <2>2 DEF DiskInv, RowsCommitted, Daemon
<1>17. ASSUME UNCHANGED <<cycleVars, dbVars, faulted>>
       PROVE  DiskInv'
  BY <1>17 DEF cycleVars, dbVars, DiskInv, RowsCommitted, Daemon
<1>18. CASE World \/ UNCHANGED vars
  BY <1>16, <1>17, <1>18 DEF World, BookingChange, Repair, vars, envVars
<1>19. QED
  BY <1>3, <1>5, <1>6, <1>7, <1>10, <1>11, <1>12, <1>13, <1>14, <1>15, <1>18
     DEF Next, Cycle, CalendarNext, StorsalenNext, PrayNext

(***************************************************************************)
(* The relay is moved only in a cycle that saw it in the wrong position,   *)
(* and never by a dry run.                                                 *)
(***************************************************************************)
LEMMA RelayStep ==
    ASSUME TypeInv, Next, relay' # relay
    PROVE  pc = "pulse" /\ relayStatus # heatOn /\ ~DryRun
<1>1. CASE pc = "pulse"
  BY <1>1 DEF TypeInv, PulseInTrain
<1>2. CASE pc # "pulse"
  <2>1. ASSUME NEW room \in Rooms,
               FetchCalendar(room) \/ FetchUnsaved(room) \/ FetchFails(room)
        PROVE  FALSE
    BY <2>1, CalendarFrame
  <2>2. ASSUME NEW room \in Rooms, BookingChange(room) \/ CacheExpires(room)
        PROVE  FALSE
    BY <2>2 DEF BookingChange, CacheExpires, deviceVars
  <2>3. ASSUME NEW p \in Parties, Repair(p)
        PROVE  FALSE
    BY <2>3 DEF Repair, deviceVars
  <2>4. ~(Begin \/ StorsalenNext \/ PrayNext \/ Hang \/ WatchdogKill \/ Crash \/ Reload)
    BY <1>2 DEF Begin, StorsalenNext, ReadRelayState, ReadRelayStatus, SaveRelayState,
       Pulse, PulseFails, UpdateGlamox, GlamoxFails, PrayNext, ReadHeatZoneState,
       SaveHeatZoneState, UpdateMill, MillFails, Hang, WatchdogKill, Crash, Reload, deviceVars
  <2>5. QED
    BY <2>1, <2>2, <2>3, <2>4 DEF Next, Cycle, World, CalendarNext
<1>3. QED
  BY <1>1, <1>2

(***************************************************************************)
(* In every behaviour: the relay moves only in a switching operation of a  *)
(* cycle that read it in the wrong position, and never by a dry run.       *)
(***************************************************************************)
THEOREM RelayMovedForCauseHolds == Spec => RelayMovedForCause
<1>1. TypeInv /\ [Next]_vars
        => [relay' # relay => pc = "pulse" /\ relayStatus # heatOn /\ ~DryRun]_vars
  BY RelayStep
<1>2. QED
  BY <1>1, TypeInvInit, TypeInvNext, PTL DEF Spec, RelayMovedForCause

-----------------------------------------------------------------------------
(***************************************************************************)
(* The prayer room. Inductively, without a fault of the database: the      *)
(* state that is about to be compared is the stored one, and the command   *)
(* that is on its way is the stored decision. MillFollowsZoneState alone   *)
(* is not inductive: it says nothing about the command on its way.         *)
(***************************************************************************)
ZoneInFlight ==
    Unharmed({"db"}) =>
        /\ pc = "saveZone" => lastState = Stored(heatZoneState)
        /\ pc = "mill" => heatOn = heatZoneState

MillInv == ZoneInFlight /\ MillFollowsZoneState

LEMMA MillInvInit == Init => MillInv
  BY DEF Init, MillInv, ZoneInFlight, MillFollowsZoneState

LEMMA MillInvNext == TypeInv /\ DiskInv /\ MillInv /\ [Next]_vars => MillInv'
<1> SUFFICES ASSUME TypeInv, DiskInv, MillInv, [Next]_vars
             PROVE  MillInv'
  OBVIOUS
<1> USE DEF MillInv, ZoneInFlight, MillFollowsZoneState, Unharmed
<1>1. ASSUME UNCHANGED <<heatZoneState, mill>>, faulted \subseteq faulted',
             pc # "mill", pc' \notin {"saveZone", "mill"}
      PROVE  MillInv'
  BY <1>1
<1>2. ASSUME NEW room \in Rooms,
             FetchCalendar(room) \/ FetchUnsaved(room) \/ FetchFails(room)
      PROVE  MillInv'
  BY <1>1, <1>2, CalendarFrame
<1>3. CASE Begin \/ StorsalenNext
  BY <1>1, <1>3 DEF Begin, StorsalenNext, ReadRelayState, ReadRelayStatus, SaveRelayState,
     ActOnDecision, Pulse, PulseFails, UpdateGlamox, GlamoxFails, Works, Fails,
     Onward, Raise, Goto, EndCycle, ToPray, Leave, dbVars, deviceVars
<1>4. CASE ReadHeatZoneState
  BY <1>4 DEF ReadHeatZoneState, Works, Fails, Onward, Raise, Goto, EndCycle, Leave,
     dbVars, deviceVars
<1>5. CASE SaveHeatZoneState
  <2>1. CASE Works /\ heatZoneState' = heatOn /\ ActOnTransition
    <3>1. pc' \in {"idle", "mill"} /\ (pc' = "mill" => heatOn' = heatOn)
      BY <2>1 DEF ActOnTransition, EndCycle, Leave, Goto
    <3>2. pc' # "mill" => heatOn = lastState
      BY <2>1 DEF ActOnTransition, Goto
    <3>3. mill' = mill /\ pc = "saveZone" /\ faulted' = faulted
      BY <1>5, <2>1 DEF SaveHeatZoneState, Works, deviceVars
    <3>4. ZoneInFlight'
      BY <2>1, <3>1
    <3>5. MillFollowsZoneState'
      BY <2>1, <3>1, <3>2, <3>3 DEF Stored, TypeInv, TypeOK, Heat
    <3>6. QED
      BY <3>4, <3>5
  <2>2. CASE Fails("db")
    BY <1>5, <2>2 DEF Fails
  <2>3. QED
    BY <1>5, <2>1, <2>2 DEF SaveHeatZoneState
<1>6. CASE UpdateMill
  BY <1>6 DEF UpdateMill, Works, EndCycle, Leave, dbVars
<1>7. CASE MillFails
  BY <1>7 DEF MillFails, Fails, EndCycle, Leave, dbVars
<1>8. CASE Hang
  BY <1>8 DEF Hang, Fails, Leave, dbVars
<1>9. CASE WatchdogKill \/ Reload
  <2>1. UNCHANGED <<mill, faulted>> /\ pc # "mill" /\ pc' = "idle" /\ heatZoneState' = disk.zone
    BY <1>9 DEF WatchdogKill, Reload, Works, RollBack, EndCycle, Leave, deviceVars, cycleVars,
       envVars
  <2>2. CASE "db" \in faulted
    BY <2>1, <2>2
  <2>3. CASE "db" \notin faulted
    BY <1>1, <2>1, <2>3 DEF DiskInv, RowsCommitted
  <2>4. QED
    BY <2>2, <2>3
<1>10. CASE Crash
  BY <1>10 DEF Crash, Fails, EndCycle, Leave
<1>11. ASSUME UNCHANGED <<cycleVars, heatZoneState, mill, faulted>>
       PROVE  MillInv'
  BY <1>11 DEF cycleVars, Stored
<1>12. CASE World \/ UNCHANGED vars
  BY <1>11, <1>12 DEF World, BookingChange, CacheExpires, Repair, vars, cycleVars,
     dbVars, deviceVars, envVars
<1>13. QED
  BY <1>2, <1>3, <1>4, <1>5, <1>6, <1>7, <1>8, <1>9, <1>10, <1>12
     DEF Next, Cycle, CalendarNext, PrayNext

(***************************************************************************)
(* Nothing but a fault of Mill, of the host or of the database separates   *)
(* the heater of the prayer room from heat_zone_state.                     *)
(***************************************************************************)
THEOREM MillFollows == Spec => []MillFollowsZoneState
<1>1. MillInv => MillFollowsZoneState
  BY DEF MillInv
<1>2. QED
  BY <1>1, TypeInvInit, TypeInvNext, DiskInvInit, DiskInvNext, MillInvInit, MillInvNext, PTL
     DEF Spec

-----------------------------------------------------------------------------
(***************************************************************************)
(* Storsalen. A switching operation ends where the cycle decided: its last *)
(* command is the decision (PulseTrain), and nothing moves the relay       *)
(* between that command and the Glamox update.                             *)
(***************************************************************************)
LEMMA SwitchedInit == Init => SwitchedAsDecided
  BY DEF Init, SwitchedAsDecided

LEMMA SwitchedNext == TypeInv /\ SwitchedAsDecided /\ [Next]_vars => SwitchedAsDecided'
<1> SUFFICES ASSUME TypeInv, SwitchedAsDecided, [Next]_vars, SR201Enabled, ~DryRun,
                    pc' = "glamox"
             PROVE  relay' = heatOn'
  BY DEF SwitchedAsDecided
<1>1. ASSUME NEW room \in Rooms,
             FetchCalendar(room) \/ FetchUnsaved(room) \/ FetchFails(room)
      PROVE  FALSE
  BY <1>1, CalendarFrame
<1>2. CASE SaveRelayState
  BY <1>2 DEF SaveRelayState, ActOnDecision, Onward, Raise, ToPray, EndCycle, Leave
<1>3. CASE Pulse
  <2>1. pulse = Len(Pulses(heatOn)) /\ heatOn' = heatOn
    BY <1>3, PulseTrain DEF Pulse, Goto, TypeInv, TypeOK, PulseInTrain
  <2>2. relay' = heatOn
    BY <1>3, <2>1, PulseTrain DEF Pulse, Command, TypeInv, TypeOK
  <2>3. QED
    BY <2>1, <2>2
<1>4. ~(Begin \/ ReadRelayState \/ ReadRelayStatus \/ PulseFails \/ UpdateGlamox
        \/ GlamoxFails \/ PrayNext \/ Hang \/ WatchdogKill \/ Crash \/ Reload)
  BY DEF Begin, ReadRelayState, ReadRelayStatus, PulseFails, UpdateGlamox, GlamoxFails,
     PrayNext, ReadHeatZoneState, SaveHeatZoneState, ActOnTransition, UpdateMill,
     MillFails, Hang, WatchdogKill, Crash, Reload, Onward, Raise, Goto, ToPray, EndCycle,
     Leave, cycleVars
<1>5. CASE World \/ UNCHANGED vars
  BY <1>5 DEF World, BookingChange, CacheExpires, Repair, vars, cycleVars, deviceVars,
     SwitchedAsDecided
<1>6. QED
  BY <1>1, <1>2, <1>3, <1>4, <1>5 DEF Next, Cycle, CalendarNext, StorsalenNext

(***************************************************************************)
(* Whenever Glamox is about to be told of a switching operation, the relay *)
(* is at the cycle's decision.                                             *)
(***************************************************************************)
THEOREM SwitchedAsDecidedHolds == Spec => []SwitchedAsDecided
  BY TypeInvInit, TypeInvNext, SwitchedInit, SwitchedNext, PTL DEF Spec

(***************************************************************************)
(* Glamox, inductively: a disabled Glamox is never touched; without a      *)
(* relay the state to be compared is the stored one, and the command on    *)
(* its way is the stored decision. With a relay the command on its way is  *)
(* the relay's state, by SwitchedAsDecided.                                *)
(***************************************************************************)
DecisionInFlight ==
    (~SR201Enabled /\ Unharmed({"db"})) =>
        /\ pc = "saveRelay" => lastState = Stored(relayState)
        /\ pc = "glamox" => heatOn = relayState

GlamoxInv ==
    /\ ~GlamoxEnabled => glamox = "other"
    /\ pc = "status" => SR201Enabled
    /\ DecisionInFlight
    /\ SwitchedAsDecided
    /\ GlamoxFollowsSwitch

LEMMA GlamoxInvInit == Init => GlamoxInv
  BY DEF Init, GlamoxInv, DecisionInFlight, SwitchedAsDecided, GlamoxFollowsSwitch

LEMMA GlamoxInvNext == TypeInv /\ DiskInv /\ GlamoxInv /\ [Next]_vars => GlamoxInv'
<1> SUFFICES ASSUME TypeInv, DiskInv, GlamoxInv, [Next]_vars
             PROVE  GlamoxInv'
  OBVIOUS
<1>1. SwitchedAsDecided'
  BY SwitchedNext DEF GlamoxInv
<1> USE DEF GlamoxInv, DecisionInFlight, GlamoxFollowsSwitch, Unharmed
<1>2. ASSUME UNCHANGED <<relayState, relay, glamox>>, faulted \subseteq faulted',
             pc \notin {"pulse", "glamox"}, pc' \notin {"status", "saveRelay", "glamox", "pulse"}
      PROVE  GlamoxInv'
  BY <1>1, <1>2
<1>3. ASSUME NEW room \in Rooms,
             FetchCalendar(room) \/ FetchUnsaved(room) \/ FetchFails(room)
      PROVE  GlamoxInv'
  BY <1>2, <1>3, CalendarFrame
<1>4. CASE Begin \/ PrayNext
  BY <1>2, <1>4 DEF Begin, PrayNext, ReadHeatZoneState, SaveHeatZoneState, ActOnTransition,
     UpdateMill, MillFails, Works, Fails, Onward, Raise, Goto, EndCycle, Leave, dbVars,
     deviceVars
<1>5. CASE ReadRelayState
  BY <1>1, <1>5 DEF ReadRelayState, Works, Fails, Onward, Raise, Goto, EndCycle, Leave,
     dbVars, deviceVars
<1>6. CASE ReadRelayStatus
  <2>1. UNCHANGED <<relayState, relay, glamox>> /\ faulted \subseteq faulted'
        /\ pc = "status" /\ pc' \in {"saveRelay", "idle", "calPray"}
    BY <1>6 DEF ReadRelayStatus, Works, Fails, Onward, Raise, ToPray, EndCycle, Leave,
       dbVars, deviceVars
  <2>2. QED
    BY <1>1, <2>1
<1>7. CASE SaveRelayState
  <2>1. CASE Fails("db")
    <3>1. pc' # "status" /\ UNCHANGED glamox /\ "db" \in faulted'
      BY <1>7, <2>1 DEF SaveRelayState, ActOnDecision, Onward, Raise, ToPray, EndCycle, Leave,
         Goto, Fails, deviceVars
    <3>2. QED
      BY <1>1, <3>1
  <2>2. CASE Works /\ relayState' = heatOn /\ ActOnDecision
    <3>1. UNCHANGED <<relay, glamox, faulted>> /\ pc = "saveRelay"
      BY <1>7, <2>2 DEF SaveRelayState, Works, deviceVars
    <3>2. CASE SR201Enabled
      <4>1. pc' \in {"pulse", "glamox", "calPray"}
        BY <2>2, <3>2 DEF ActOnDecision, ToPray, Leave, Goto
      <4>2. QED
        BY <1>1, <3>1, <3>2, <4>1
    <3>3. CASE ~SR201Enabled /\ heatOn = lastState
      BY <1>1, <2>2, <3>1, <3>3 DEF ActOnDecision, ToPray, Leave, Stored, TypeInv, TypeOK, Heat
    <3>4. CASE ~SR201Enabled /\ heatOn # lastState
      BY <1>1, <2>2, <3>1, <3>4 DEF ActOnDecision, Goto
    <3>5. QED
      BY <3>2, <3>3, <3>4
  <2>3. QED
    BY <1>7, <2>1, <2>2 DEF SaveRelayState
<1>8. CASE Pulse
  BY <1>1, <1>8 DEF Pulse, Goto, Works, dbVars, TypeInv, PulseInTrain
<1>9. CASE PulseFails
  BY <1>1, <1>9 DEF PulseFails, Fails, EndCycle, ToPray, Leave, dbVars, TypeInv, PulseInTrain
<1>10. CASE UpdateGlamox
  BY <1>1, <1>10, ConfigAssumption DEF UpdateGlamox, Works, ToPray, Leave, dbVars,
     SwitchedAsDecided
<1>11. CASE GlamoxFails
  BY <1>1, <1>11 DEF GlamoxFails, Fails, EndCycle, ToPray, Leave, dbVars
<1>12. CASE Hang
  BY <1>1, <1>12 DEF Hang, Fails, Leave, dbVars, TypeInv, PulseInTrain
<1>13. CASE WatchdogKill \/ Reload
  <2>1. /\ UNCHANGED <<relay, glamox, faulted>> /\ relayState' = disk.relay
        /\ pc \notin {"pulse", "glamox"} /\ pc' = "idle"
    BY <1>13 DEF WatchdogKill, Reload, Works, RollBack, EndCycle, Leave, deviceVars, cycleVars,
       envVars
  <2>2. CASE "db" \in faulted
    BY <1>1, <2>1, <2>2
  <2>3. CASE "db" \notin faulted
    BY <1>2, <2>1, <2>3 DEF DiskInv, RowsCommitted
  <2>4. QED
    BY <2>2, <2>3
<1>14. CASE Crash
  BY <1>1, <1>14 DEF Crash, Fails, EndCycle, Leave, deviceVars
<1>15. ASSUME UNCHANGED <<cycleVars, relayState, relay, glamox, faulted>>
       PROVE  GlamoxInv'
  BY <1>1, <1>15 DEF cycleVars, Stored
<1>16. CASE World \/ UNCHANGED vars
  BY <1>15, <1>16 DEF World, BookingChange, CacheExpires, Repair, vars, cycleVars,
     dbVars, deviceVars, envVars
<1>17. QED
  BY <1>3, <1>4, <1>5, <1>6, <1>7, <1>8, <1>9, <1>10, <1>11, <1>12, <1>13, <1>14, <1>16
     DEF Next, Cycle, CalendarNext, StorsalenNext

(***************************************************************************)
(* Nothing but a fault of the relay board, of Glamox, of the host or of    *)
(* the database separates Glamox from the switch it goes with.             *)
(***************************************************************************)
THEOREM GlamoxFollows == Spec => []GlamoxFollowsSwitch
<1>1. GlamoxInv => GlamoxFollowsSwitch
  BY DEF GlamoxInv
<1>2. QED
  BY <1>1, TypeInvInit, TypeInvNext, DiskInvInit, DiskInvNext, GlamoxInvInit, GlamoxInvNext,
     PTL DEF Spec

-----------------------------------------------------------------------------
(***************************************************************************)
(* What a calendar step decides: the answer it fetched, or what the cache  *)
(* holds when the step is over; the Rust binary takes a failed fetch that  *)
(* finds no row for "no upcoming events" (controller.rs:622).              *)
(***************************************************************************)
DecisionHasSource ==
    [][\A room \in Rooms :
        pc = CalendarStep(room) /\ pc' \in {"readRelay", "readZone"} =>
            \/ heatOn' \in {booked[room], calendarCache'[room]}
            \/ Impl = "rust" /\ calendarCache[room] = "none" /\ heatOn' = "off"]_vars

\* Only a calendar step of the room itself leaves the room's calendar for the
\* step that reads the stored decision.
LEMMA DecidingStep ==
    ASSUME [Next]_vars, NEW room \in Rooms,
           pc = CalendarStep(room), pc' \in {"readRelay", "readZone"}
    PROVE  FetchCalendar(room) \/ FetchUnsaved(room) \/ FetchFails(room)
<1>1. pc \in {"calStorsalen", "calPray"}
  BY DEF CalendarStep
<1>2. \A r \in Rooms : pc = CalendarStep(r) => r = room
  BY DEF CalendarStep, Rooms
<1>3. ~(Begin \/ StorsalenNext \/ PrayNext \/ Hang \/ WatchdogKill \/ Crash \/ Reload
        \/ UNCHANGED vars)
  BY <1>1 DEF Begin, StorsalenNext, ReadRelayState, ReadRelayStatus, SaveRelayState,
     Pulse, PulseFails, UpdateGlamox, GlamoxFails, PrayNext, ReadHeatZoneState,
     SaveHeatZoneState, UpdateMill, MillFails, Hang, WatchdogKill, Crash, Reload, EndCycle,
     Leave, vars, cycleVars
<1>4. ~World
  BY <1>1 DEF World, BookingChange, CacheExpires, Repair, cycleVars
<1>5. QED
  BY <1>2, <1>3, <1>4 DEF Next, Cycle, CalendarNext, FetchCalendar, FetchUnsaved, FetchFails

LEMMA FallbackDecides ==
    ASSUME NEW room \in Rooms, Fallback(room), pc' \in {"readRelay", "readZone"}
    PROVE  \/ calendarCache[room] # "none" /\ heatOn' = calendarCache[room]
                /\ UNCHANGED calendarCache
           \/ Impl = "rust" /\ calendarCache[room] = "none" /\ heatOn' = "off"
  BY DEF Fallback, Onward, Raise, Decide, EndCycle, Leave, dbVars

(***************************************************************************)
(* In every implementation and whatever fails, a decision has a source.    *)
(***************************************************************************)
THEOREM DecisionHasSourceHolds == Spec => DecisionHasSource
<1>1. TypeInv /\ [Next]_vars =>
        [\A room \in Rooms :
            pc = CalendarStep(room) /\ pc' \in {"readRelay", "readZone"} =>
                \/ heatOn' \in {booked[room], calendarCache'[room]}
                \/ Impl = "rust" /\ calendarCache[room] = "none" /\ heatOn' = "off"]_vars
  <2> SUFFICES ASSUME TypeInv, [Next]_vars, NEW room \in Rooms,
                      pc = CalendarStep(room), pc' \in {"readRelay", "readZone"}
               PROVE  \/ heatOn' \in {booked[room], calendarCache'[room]}
                      \/ Impl = "rust" /\ calendarCache[room] = "none" /\ heatOn' = "off"
    OBVIOUS
  <2>1. CASE FetchCalendar(room)
    BY <2>1 DEF FetchCalendar, Decide, EndCycle, Leave
  <2>2. CASE FetchUnsaved(room)
    <3>1. \/ Decide(room, booked[room]) \/ Raise \/ Fallback(room)
      BY <2>2 DEF FetchUnsaved, Onward
    <3>2. QED
      BY <3>1, FallbackDecides DEF Raise, Decide, EndCycle, Leave
  <2>3. CASE FetchFails(room)
    BY <2>3, FallbackDecides DEF FetchFails, Raise, EndCycle, Leave
  <2>4. QED
    BY <2>1, <2>2, <2>3, DecidingStep
<1>2. QED
  BY <1>1, TypeInvInit, TypeInvNext, PTL DEF Spec, DecisionHasSource

(***************************************************************************)
(* Python and Go, where the database is reliable, decide nothing but what  *)
(* is in the cache when the step is over: an outage of the calendar alone  *)
(* never decides. (Rust decides without a row, and a row that could not be *)
(* saved is not what was fetched: DecisionHasSource covers both.)          *)
(***************************************************************************)
THEOREM DecisionsFromCalendarHolds ==
    ASSUME Impl # "rust", "db" \notin CanFail
    PROVE  Spec => DecisionsFromCalendar
<1>1. TypeInv /\ [Next]_vars =>
        [\A room \in Rooms :
            pc = CalendarStep(room) /\ pc' \in {"readRelay", "readZone"}
                => heatOn' = calendarCache'[room]]_vars
  <2> SUFFICES ASSUME TypeInv, [Next]_vars, NEW room \in Rooms,
                      pc = CalendarStep(room), pc' \in {"readRelay", "readZone"}
               PROVE  heatOn' = calendarCache'[room]
    OBVIOUS
  <2>1. CASE FetchCalendar(room)
    BY <2>1 DEF FetchCalendar, Decide, EndCycle, Leave, TypeInv, TypeOK
  <2>2. ~FetchUnsaved(room)
    BY DEF FetchUnsaved, Fails, TypeInv, TypeOK
  <2>3. CASE FetchFails(room)
    BY <2>3, FallbackDecides DEF FetchFails, Raise, EndCycle, Leave
  <2>4. QED
    BY <2>1, <2>2, <2>3, DecidingStep
<1>2. QED
  BY <1>1, TypeInvInit, TypeInvNext, PTL DEF Spec, DecisionsFromCalendar

-----------------------------------------------------------------------------
(***************************************************************************)
(* The refinement holds in every configuration, except that a Go           *)
(* controller whose database can fail is excluded. Go sends the command    *)
(* although the row could not be saved, and sends it again in the next     *)
(* cycle.                                                                  *)
(***************************************************************************)
RowsAreSaved == Impl # "go" \/ "db" \notin CanFail

(***************************************************************************)
(* The state a decision is compared with is the stored one.                *)
(***************************************************************************)
ComparesStored ==
    RowsAreSaved =>
        /\ pc = "saveZone" => lastState = Stored(heatZoneState)
        /\ (pc = "saveRelay" /\ ~SR201Enabled) => lastState = Stored(relayState)
        /\ pc = "status" => SR201Enabled

LEMMA ComparesStoredInit == Init => ComparesStored
  BY DEF Init, ComparesStored

\* With saved rows, a failing database ends the cycle.
LEMMA DbFaultEndsCycle ==
    ASSUME TypeInv, RowsAreSaved, Fails("db")
    PROVE  ErrorEndsCycle
  BY DEF RowsAreSaved, Fails, ErrorEndsCycle, TypeInv, TypeOK

LEMMA ComparesStoredNext == TypeInv /\ ComparesStored /\ [Next]_vars => ComparesStored'
<1> SUFFICES ASSUME TypeInv, ComparesStored, [Next]_vars, RowsAreSaved
             PROVE  ComparesStored'
  BY DEF ComparesStored
<1> USE DEF ComparesStored
<1>1. ASSUME pc' \notin {"saveZone", "saveRelay", "status"}
      PROVE  ComparesStored'
  BY <1>1
<1>2. ASSUME NEW room \in Rooms,
             FetchCalendar(room) \/ FetchUnsaved(room) \/ FetchFails(room)
      PROVE  ComparesStored'
  BY <1>1, <1>2, CalendarFrame
<1>3. CASE ReadRelayState
  BY <1>3, DbFaultEndsCycle DEF ReadRelayState, Raise, EndCycle, Leave, dbVars
<1>4. CASE ReadRelayStatus
  BY <1>4 DEF ReadRelayStatus, Onward, Raise, ToPray, EndCycle, Leave, dbVars
<1>5. CASE ReadHeatZoneState
  BY <1>5, DbFaultEndsCycle DEF ReadHeatZoneState, Raise, EndCycle, Leave, dbVars
<1>6. CASE SaveRelayState
  BY <1>1, <1>6 DEF SaveRelayState, ActOnDecision, Onward, Raise, ToPray, EndCycle, Leave, Goto
<1>7. CASE Pulse
  BY <1>1, <1>7 DEF Pulse, Goto
<1>8. CASE Begin \/ PulseFails \/ UpdateGlamox \/ GlamoxFails
  BY <1>1, <1>8 DEF Begin, PulseFails, UpdateGlamox, GlamoxFails, Goto, ToPray, EndCycle, Leave
<1>9. CASE SaveHeatZoneState \/ UpdateMill \/ MillFails
  BY <1>1, <1>9 DEF SaveHeatZoneState, ActOnTransition, Onward, Raise, UpdateMill, MillFails,
     Goto, EndCycle, Leave
<1>10. CASE Hang \/ WatchdogKill \/ Crash \/ Reload
  BY <1>1, <1>10 DEF Hang, WatchdogKill, Crash, Reload, EndCycle, Leave, cycleVars
<1>11. ASSUME UNCHANGED <<cycleVars, relayState, heatZoneState>>
       PROVE  ComparesStored'
  BY <1>11 DEF cycleVars, Stored
<1>12. CASE World \/ UNCHANGED vars
  BY <1>11, <1>12 DEF World, BookingChange, CacheExpires, Repair, vars, cycleVars, dbVars
<1>13. QED
  BY <1>2, <1>3, <1>4, <1>5, <1>6, <1>7, <1>8, <1>9, <1>10, <1>12
     DEF Next, Cycle, CalendarNext, StorsalenNext, PrayNext

-----------------------------------------------------------------------------
LEMMA MillStep ==
    ASSUME TypeInv, DiskInv, ComparesStored, [Next]_vars, RowsAreSaved
    PROVE  [MillDelivery!Next]_(MillDelivery!vars)
<1>1. ASSUME UNCHANGED <<heatZoneState, mill>>, pc # "mill", pc' # "mill"
      PROVE  UNCHANGED MillDelivery!vars
  BY <1>1 DEF MillDelivery!vars
<1>2. ASSUME UNCHANGED <<heatZoneState, mill>>, pc = "mill", pc' # "mill"
      PROVE  MillDelivery!Lose
  BY <1>2 DEF MillDelivery!Lose, TypeInv, TypeOK, Heat
<1>3. ASSUME heatZoneState' = heatZoneState, mill' = heatOn, pc = "mill", pc' # "mill"
      PROVE  MillDelivery!Deliver
  BY <1>3 DEF MillDelivery!Deliver, TypeInv, TypeOK, Heat
<1>4. ASSUME NEW room \in Rooms,
             FetchCalendar(room) \/ FetchUnsaved(room) \/ FetchFails(room)
      PROVE  UNCHANGED MillDelivery!vars
  BY <1>1, <1>4, CalendarFrame
<1>5. CASE Begin \/ StorsalenNext
  <2>1. UNCHANGED <<heatZoneState, mill>> /\ pc # "mill" /\ pc' # "mill"
    BY <1>5 DEF Begin, StorsalenNext, ReadRelayState, ReadRelayStatus, SaveRelayState,
       ActOnDecision, Pulse, PulseFails, UpdateGlamox, GlamoxFails, Onward, Raise, Goto,
       EndCycle, ToPray, Leave, dbVars, deviceVars
  <2>2. QED
    BY <1>1, <2>1
<1>6. CASE ReadHeatZoneState
  <2>1. UNCHANGED <<heatZoneState, mill>> /\ pc # "mill" /\ pc' # "mill"
    BY <1>6 DEF ReadHeatZoneState, Onward, Raise, Goto, EndCycle, Leave, dbVars, deviceVars
  <2>2. QED
    BY <1>1, <2>1
<1>7. CASE SaveHeatZoneState
  <2>1. CASE Works /\ heatZoneState' = heatOn /\ ActOnTransition
    <3>1. MillDelivery!Record(heatOn)
      BY <1>7, <2>1 DEF SaveHeatZoneState, ActOnTransition, EndCycle, Leave, Goto,
         deviceVars, ComparesStored, MillDelivery!Record, MillDelivery!Stored, Stored
    <3>2. QED
      BY <3>1 DEF MillDelivery!Next, MillDelivery!Heat, Heat, TypeInv, TypeOK
  <2>2. CASE Fails("db") /\ Raise
    BY <1>1, <1>7, <2>2 DEF SaveHeatZoneState, Raise, EndCycle, Leave, deviceVars
  <2>3. CASE Fails("db") /\ Daemon /\ heatZoneState' = heatOn /\ EndCycle
    <3>1. MillDelivery!RecordAndLose(heatOn)
      BY <1>7, <2>3 DEF SaveHeatZoneState, deviceVars, MillDelivery!RecordAndLose, EndCycle, Leave
    <3>2. QED
      BY <3>1 DEF MillDelivery!Next, MillDelivery!Heat, Heat, TypeInv, TypeOK
  <2>4. QED
    BY <1>7, <2>1, <2>2, <2>3, DbFaultEndsCycle DEF SaveHeatZoneState
<1>8. ASSUME UpdateMill \/ MillFails \/ Hang
      PROVE  MillDelivery!Lose \/ MillDelivery!Deliver \/ UNCHANGED MillDelivery!vars
  <2>1. heatZoneState' = heatZoneState /\ pc' # "mill"
    BY <1>8 DEF UpdateMill, MillFails, Hang, EndCycle, Leave, dbVars
  <2>2. mill' = mill \/ (mill' = heatOn /\ pc = "mill")
    BY <1>8 DEF UpdateMill, MillFails, Hang, deviceVars
  <2>3. QED
    BY <1>1, <1>2, <1>3, <2>1, <2>2
<1>11. CASE WatchdogKill \/ Crash \/ Reload
  <2>1. heatZoneState' = disk.zone /\ mill' = mill /\ pc' = "idle"
    BY <1>11 DEF WatchdogKill, Crash, Reload, RollBack, EndCycle, Leave, deviceVars, cycleVars
  <2>2. CASE pc = "mill"
    BY <1>2, <2>1, <2>2 DEF DiskInv, RowsCommitted, MillDelivery!Next
  <2>3. CASE pc # "mill"
    <3>1. MillDelivery!RecordAndLose(heatZoneState')
      BY <2>1, <2>3 DEF MillDelivery!RecordAndLose
    <3>2. heatZoneState' \in Heat \cup {"none"}
      BY <2>1 DEF TypeInv, TypeOK
    <3>3. QED
      BY <3>1, <3>2 DEF MillDelivery!Next, MillDelivery!Heat, Heat
  <2>4. QED
    BY <2>2, <2>3
<1>9. CASE World \/ UNCHANGED vars
  BY <1>9 DEF World, BookingChange, CacheExpires, Repair, vars, cycleVars, dbVars,
     deviceVars, MillDelivery!vars
<1>10. QED
  BY <1>4, <1>5, <1>6, <1>7, <1>8, <1>9, <1>11
     DEF Next, Cycle, CalendarNext, PrayNext, MillDelivery!Next

(***************************************************************************)
(* Mill gets at most one command per recorded transition, with the         *)
(* recorded value, before the next transition is recorded.                 *)
(***************************************************************************)
THEOREM MillImplements ==
    ASSUME RowsAreSaved
    PROVE  Spec => MillAtMostOnce
<1>1. Init => MillDelivery!Init
  BY DEF Init, MillDelivery!Init
<1>2. TypeInv /\ DiskInv /\ ComparesStored /\ [Next]_vars => [MillDelivery!Next]_(MillDelivery!vars)
  BY MillStep
<1>3. QED
  BY <1>1, <1>2, TypeInvInit, TypeInvNext, DiskInvInit, DiskInvNext, ComparesStoredInit,
     ComparesStoredNext, PTL DEF Spec, MillAtMostOnce, MillDelivery!Spec

-----------------------------------------------------------------------------
(***************************************************************************)
(* Without a relay board the cycle has no status query and no pulse train. *)
(***************************************************************************)
LEMMA NoBoard ==
    ASSUME TypeInv, ComparesStored, RowsAreSaved, ~SR201Enabled
    PROVE  pc \notin {"status", "pulse"}
  BY DEF TypeInv, PulseInTrain, ComparesStored

LEMMA GlamoxStep ==
    ASSUME TypeInv, DiskInv, ComparesStored, [Next]_vars, RowsAreSaved, ~SR201Enabled
    PROVE  [GlamoxDelivery!Next]_(GlamoxDelivery!vars)
<1>1. ASSUME UNCHANGED <<relayState, glamox>>, pc # "glamox", pc' # "glamox"
      PROVE  UNCHANGED GlamoxDelivery!vars
  BY <1>1 DEF GlamoxDelivery!vars
<1>2. ASSUME UNCHANGED <<relayState, glamox>>, pc = "glamox", pc' # "glamox"
      PROVE  GlamoxDelivery!Lose
  BY <1>2 DEF GlamoxDelivery!Lose, TypeInv, TypeOK, Heat
<1>3. ASSUME relayState' = relayState, glamox' = heatOn, pc = "glamox", pc' # "glamox"
      PROVE  GlamoxDelivery!Deliver
  BY <1>3 DEF GlamoxDelivery!Deliver, TypeInv, TypeOK, Heat
<1>4. ASSUME NEW room \in Rooms,
             FetchCalendar(room) \/ FetchUnsaved(room) \/ FetchFails(room)
      PROVE  UNCHANGED GlamoxDelivery!vars
  BY <1>1, <1>4, CalendarFrame
<1>5. ~(ReadRelayStatus \/ Pulse \/ PulseFails)
  BY NoBoard DEF ReadRelayStatus, Pulse, PulseFails
<1>6. ASSUME Begin \/ ReadRelayState \/ PrayNext
      PROVE  UNCHANGED GlamoxDelivery!vars
  <2>1. UNCHANGED <<relayState, glamox>> /\ pc # "glamox" /\ pc' # "glamox"
    BY <1>6 DEF Begin, ReadRelayState, PrayNext, ReadHeatZoneState, SaveHeatZoneState,
       ActOnTransition, UpdateMill, MillFails, Onward, Raise, Goto, EndCycle, Leave, dbVars,
       deviceVars
  <2>2. QED
    BY <1>1, <2>1
<1>7. CASE SaveRelayState
  <2>1. CASE Works /\ relayState' = heatOn /\ ActOnDecision
    <3>1. GlamoxDelivery!Record(heatOn)
      BY <1>7, <2>1 DEF SaveRelayState, ActOnDecision, ToPray, Leave, Goto,
         deviceVars, ComparesStored, GlamoxDelivery!Record, GlamoxDelivery!Stored, Stored
    <3>2. QED
      BY <3>1 DEF GlamoxDelivery!Next, GlamoxDelivery!Heat, Heat, TypeInv, TypeOK
  <2>2. CASE Fails("db") /\ Raise
    BY <1>1, <1>7, <2>2 DEF SaveRelayState, Raise, EndCycle, Leave, deviceVars
  <2>3. CASE Fails("db") /\ Daemon /\ relayState' = heatOn /\ EndCycle
    <3>1. GlamoxDelivery!RecordAndLose(heatOn)
      BY <1>7, <2>3 DEF SaveRelayState, deviceVars, GlamoxDelivery!RecordAndLose, EndCycle, Leave
    <3>2. QED
      BY <3>1 DEF GlamoxDelivery!Next, GlamoxDelivery!Heat, Heat, TypeInv, TypeOK
  <2>4. QED
    BY <1>7, <2>1, <2>2, <2>3, DbFaultEndsCycle DEF SaveRelayState
<1>8. ASSUME UpdateGlamox \/ GlamoxFails \/ Hang
      PROVE  GlamoxDelivery!Lose \/ GlamoxDelivery!Deliver \/ UNCHANGED GlamoxDelivery!vars
  <2>1. relayState' = relayState /\ pc' # "glamox"
    BY <1>8 DEF UpdateGlamox, GlamoxFails, Hang, EndCycle, ToPray, Leave, dbVars
  <2>2. glamox' = glamox \/ (glamox' = heatOn /\ pc = "glamox")
    BY <1>8 DEF UpdateGlamox, GlamoxFails, Hang, deviceVars
  <2>3. QED
    BY <1>1, <1>2, <1>3, <2>1, <2>2
<1>11. CASE WatchdogKill \/ Crash \/ Reload
  <2>1. relayState' = disk.relay /\ glamox' = glamox /\ pc' = "idle"
    BY <1>11 DEF WatchdogKill, Crash, Reload, RollBack, EndCycle, Leave, deviceVars, cycleVars
  <2>2. CASE pc = "glamox"
    BY <1>2, <2>1, <2>2 DEF DiskInv, RowsCommitted, GlamoxDelivery!Next
  <2>3. CASE pc # "glamox"
    <3>1. GlamoxDelivery!RecordAndLose(relayState')
      BY <2>1, <2>3 DEF GlamoxDelivery!RecordAndLose
    <3>2. relayState' \in Heat \cup {"none"}
      BY <2>1 DEF TypeInv, TypeOK
    <3>3. QED
      BY <3>1, <3>2 DEF GlamoxDelivery!Next, GlamoxDelivery!Heat, Heat
  <2>4. QED
    BY <2>2, <2>3
<1>9. CASE World \/ UNCHANGED vars
  BY <1>9 DEF World, BookingChange, CacheExpires, Repair, vars, cycleVars, dbVars,
     deviceVars, GlamoxDelivery!vars
<1>10. QED
  BY <1>4, <1>5, <1>6, <1>7, <1>8, <1>9, <1>11
     DEF Next, Cycle, CalendarNext, StorsalenNext, GlamoxDelivery!Next

(***************************************************************************)
(* Without a relay board, Glamox gets at most one command per recorded     *)
(* transition of relay_state, with the recorded value.                     *)
(***************************************************************************)
THEOREM GlamoxImplements ==
    ASSUME RowsAreSaved, ~SR201Enabled
    PROVE  Spec => GlamoxAtMostOnce
<1>1. Init => GlamoxDelivery!Init
  BY DEF Init, GlamoxDelivery!Init
<1>2. TypeInv /\ DiskInv /\ ComparesStored /\ [Next]_vars
        => [GlamoxDelivery!Next]_(GlamoxDelivery!vars)
  BY GlamoxStep
<1>3. QED
  BY <1>1, <1>2, TypeInvInit, TypeInvNext, DiskInvInit, DiskInvNext, ComparesStoredInit,
     ComparesStoredNext, PTL DEF Spec, GlamoxAtMostOnce, GlamoxDelivery!Spec

-----------------------------------------------------------------------------
(***************************************************************************)
(* Exactly once. Where the database, the thermostat and the host are       *)
(* reliable, no step loses a command or records a decision in vain, so the *)
(* cycle implements the promise that is not Lossy.                         *)
(***************************************************************************)
LEMMA ReliableNeverFails ==
    ASSUME TypeInv, NEW p \in Parties, p \notin CanFail
    PROVE  ~Fails(p)
  BY DEF TypeInv, TypeOK, Fails

LEMMA SureMillStep ==
    ASSUME TypeInv, DiskInv, ComparesStored, [Next]_vars,
           Impl # "rust", {"db", "mill", "host"} \cap CanFail = {}
    PROVE  [SureMillDelivery!Next]_(SureMillDelivery!vars)
<1>0. ~Fails("db") /\ ~Fails("mill") /\ ~Fails("host") /\ RowsAreSaved
  BY ReliableNeverFails DEF Parties, RowsAreSaved
<1>1. ASSUME UNCHANGED <<heatZoneState, mill>>, pc # "mill", pc' # "mill"
      PROVE  UNCHANGED SureMillDelivery!vars
  BY <1>1 DEF SureMillDelivery!vars
<1>2. ASSUME NEW room \in Rooms,
             FetchCalendar(room) \/ FetchUnsaved(room) \/ FetchFails(room)
      PROVE  UNCHANGED SureMillDelivery!vars
  BY <1>1, <1>2, CalendarFrame
<1>3. CASE Begin \/ StorsalenNext
  <2>1. UNCHANGED <<heatZoneState, mill>> /\ pc # "mill" /\ pc' # "mill"
    BY <1>3 DEF Begin, StorsalenNext, ReadRelayState, ReadRelayStatus, SaveRelayState,
       ActOnDecision, Pulse, PulseFails, UpdateGlamox, GlamoxFails, Onward, Raise, Goto,
       EndCycle, ToPray, Leave, dbVars, deviceVars
  <2>2. QED
    BY <1>1, <2>1
<1>4. CASE ReadHeatZoneState
  <2>1. UNCHANGED <<heatZoneState, mill>> /\ pc # "mill" /\ pc' # "mill"
    BY <1>4 DEF ReadHeatZoneState, Onward, Raise, Goto, EndCycle, Leave, dbVars, deviceVars
  <2>2. QED
    BY <1>1, <2>1
<1>5. CASE SaveHeatZoneState
  <2>1. heatZoneState' = heatOn /\ ActOnTransition
    BY <1>0, <1>5 DEF SaveHeatZoneState
  <2>2. SureMillDelivery!Record(heatOn)
    BY <1>0, <1>5, <2>1 DEF SaveHeatZoneState, ActOnTransition, EndCycle, Leave, Goto,
       deviceVars, ComparesStored, SureMillDelivery!Record, SureMillDelivery!Stored, Stored
  <2>3. QED
    BY <2>2 DEF SureMillDelivery!Next, SureMillDelivery!Heat, Heat, TypeInv, TypeOK
<1>6. CASE UpdateMill
  <2>1. SureMillDelivery!Deliver
    BY <1>6 DEF UpdateMill, EndCycle, Leave, dbVars, SureMillDelivery!Deliver,
       TypeInv, TypeOK, Heat
  <2>2. QED
    BY <2>1 DEF SureMillDelivery!Next
<1>7. ~MillFails /\ ~Crash
  BY <1>0 DEF MillFails, Crash
<1>8. CASE Hang \/ WatchdogKill \/ Reload
  <2>1. RowsCommitted
    BY DEF DiskInv, TypeInv, TypeOK
  <2>2. UNCHANGED <<heatZoneState, mill>> /\ pc # "mill" /\ pc' # "mill"
    BY <1>0, <1>8, <2>1 DEF Hang, WatchdogKill, Reload, RollBack, RowsCommitted, EndCycle, Leave,
       dbVars, deviceVars, cycleVars
  <2>3. QED
    BY <1>1, <2>2
<1>9. CASE World \/ UNCHANGED vars
  BY <1>9 DEF World, BookingChange, CacheExpires, Repair, vars, cycleVars, dbVars,
     deviceVars, SureMillDelivery!vars
<1>10. QED
  BY <1>2, <1>3, <1>4, <1>5, <1>6, <1>7, <1>8, <1>9
     DEF Next, Cycle, CalendarNext, PrayNext

(***************************************************************************)
(* No outage of the calendars, the relay board or Glamox ever costs Mill a *)
(* transition: it is told each one, once and in order, where its own side  *)
(* is reliable (check_update_pray is reached whatever Storsalen met).      *)
(***************************************************************************)
THEOREM MillExactlyOnceHolds ==
    ASSUME Impl # "rust", {"db", "mill", "host"} \cap CanFail = {}
    PROVE  Spec => MillExactlyOnce
<1>1. Init => SureMillDelivery!Init
  BY DEF Init, SureMillDelivery!Init
<1>2. TypeInv /\ DiskInv /\ ComparesStored /\ [Next]_vars
        => [SureMillDelivery!Next]_(SureMillDelivery!vars)
  BY SureMillStep
<1>3. QED
  BY <1>1, <1>2, TypeInvInit, TypeInvNext, DiskInvInit, DiskInvNext, ComparesStoredInit,
     ComparesStoredNext, PTL DEF Spec, MillExactlyOnce, SureMillDelivery!Spec

LEMMA SureGlamoxStep ==
    ASSUME TypeInv, DiskInv, ComparesStored, [Next]_vars, ~SR201Enabled, GlamoxEnabled,
           Impl # "rust", {"db", "glamox", "host"} \cap CanFail = {}
    PROVE  [SureGlamoxDelivery!Next]_(SureGlamoxDelivery!vars)
<1>0. ~Fails("db") /\ ~Fails("glamox") /\ ~Fails("host") /\ RowsAreSaved
  BY ReliableNeverFails DEF Parties, RowsAreSaved
<1>1. ASSUME UNCHANGED <<relayState, glamox>>, pc # "glamox", pc' # "glamox"
      PROVE  UNCHANGED SureGlamoxDelivery!vars
  BY <1>1 DEF SureGlamoxDelivery!vars
<1>2. ASSUME NEW room \in Rooms,
             FetchCalendar(room) \/ FetchUnsaved(room) \/ FetchFails(room)
      PROVE  UNCHANGED SureGlamoxDelivery!vars
  BY <1>1, <1>2, CalendarFrame
<1>3. ~(ReadRelayStatus \/ Pulse \/ PulseFails)
  BY <1>0, NoBoard DEF ReadRelayStatus, Pulse, PulseFails
<1>4. ASSUME Begin \/ ReadRelayState \/ PrayNext
      PROVE  UNCHANGED SureGlamoxDelivery!vars
  <2>1. UNCHANGED <<relayState, glamox>> /\ pc # "glamox" /\ pc' # "glamox"
    BY <1>4 DEF Begin, ReadRelayState, PrayNext, ReadHeatZoneState, SaveHeatZoneState,
       ActOnTransition, UpdateMill, MillFails, Onward, Raise, Goto, EndCycle, Leave, dbVars,
       deviceVars
  <2>2. QED
    BY <1>1, <2>1
<1>5. CASE SaveRelayState
  <2>1. relayState' = heatOn /\ ActOnDecision
    BY <1>0, <1>5 DEF SaveRelayState
  <2>2. SureGlamoxDelivery!Record(heatOn)
    BY <1>0, <1>5, <2>1 DEF SaveRelayState, ActOnDecision, ToPray, Leave, Goto,
       deviceVars, ComparesStored, SureGlamoxDelivery!Record, SureGlamoxDelivery!Stored, Stored
  <2>3. QED
    BY <2>2 DEF SureGlamoxDelivery!Next, SureGlamoxDelivery!Heat, Heat, TypeInv, TypeOK
<1>6. CASE UpdateGlamox
  <2>1. SureGlamoxDelivery!Deliver
    BY <1>6 DEF UpdateGlamox, ToPray, Leave, dbVars, SureGlamoxDelivery!Deliver,
       TypeInv, TypeOK, Heat
  <2>2. QED
    BY <2>1 DEF SureGlamoxDelivery!Next
<1>7. ~GlamoxFails /\ ~Crash
  BY <1>0 DEF GlamoxFails, Crash
<1>8. CASE Hang \/ WatchdogKill \/ Reload
  <2>1. RowsCommitted
    BY DEF DiskInv, TypeInv, TypeOK
  <2>2. UNCHANGED <<relayState, glamox>> /\ pc # "glamox" /\ pc' # "glamox"
    BY <1>0, <1>8, <2>1 DEF Hang, WatchdogKill, Reload, RollBack, RowsCommitted, EndCycle, Leave,
       dbVars, deviceVars, cycleVars
  <2>3. QED
    BY <1>1, <2>2
<1>9. CASE World \/ UNCHANGED vars
  BY <1>9 DEF World, BookingChange, CacheExpires, Repair, vars, cycleVars, dbVars,
     deviceVars, SureGlamoxDelivery!vars
<1>10. QED
  BY <1>2, <1>3, <1>4, <1>5, <1>6, <1>7, <1>8, <1>9
     DEF Next, Cycle, CalendarNext, StorsalenNext

(***************************************************************************)
(* Without a relay board, Glamox is told every transition of relay_state,  *)
(* once and in order, where the database, Glamox and the host are reliable *)
(* (check_relay_state with update_storsalen_glamox).                       *)
(***************************************************************************)
THEOREM GlamoxExactlyOnceHolds ==
    ASSUME ~SR201Enabled, GlamoxEnabled, Impl # "rust",
           {"db", "glamox", "host"} \cap CanFail = {}
    PROVE  Spec => GlamoxExactlyOnce
<1>1. Init => SureGlamoxDelivery!Init
  BY DEF Init, SureGlamoxDelivery!Init
<1>2. TypeInv /\ DiskInv /\ ComparesStored /\ [Next]_vars
        => [SureGlamoxDelivery!Next]_(SureGlamoxDelivery!vars)
  BY SureGlamoxStep
<1>3. QED
  BY <1>1, <1>2, TypeInvInit, TypeInvNext, DiskInvInit, DiskInvNext, ComparesStoredInit,
     ComparesStoredNext, PTL DEF Spec, GlamoxExactlyOnce, SureGlamoxDelivery!Spec

-----------------------------------------------------------------------------
(***************************************************************************)
(* What the promise is worth, lossless. DeliveredUnlessOwed is not         *)
(* inductive: a delivery must bring the recorded decision, so what is owed *)
(* must be what is recorded.                                               *)
(***************************************************************************)
DeliveryInv ==
    /\ row \in Heat \cup {"none"}
    /\ owed # "nothing" => owed = row /\ owed \in Heat
    /\ Promise!DeliveredUnlessOwed
    /\ setpoint \in Heat \cup {"other"}

(***************************************************************************)
(* A lossless delivery keeps the thermostat at the recorded decision       *)
(* whenever nothing is owed (heat_zone_transition_target).                 *)
(***************************************************************************)
THEOREM LosslessDelivery == Promise!Spec => []Promise!DeliveredUnlessOwed
<1>1. Promise!Init => DeliveryInv
  BY DEF Promise!Init, DeliveryInv, Promise!DeliveredUnlessOwed
<1>2. DeliveryInv /\ [Promise!Next]_(Promise!vars) => DeliveryInv'
  <2> SUFFICES ASSUME DeliveryInv, [Promise!Next]_(Promise!vars)
               PROVE  DeliveryInv'
    OBVIOUS
  <2> USE DEF DeliveryInv, Promise!DeliveredUnlessOwed
  <2>1. ASSUME NEW h \in Heat, Promise!Record(h)
        PROVE  DeliveryInv'
    BY <2>1 DEF Promise!Record, Promise!Stored, Heat
  <2>2. ASSUME NEW h \in Heat \cup {"none"}, Promise!RecordAndLose(h)
        PROVE  DeliveryInv'
    BY <2>2 DEF Promise!RecordAndLose
  <2>3. CASE Promise!Deliver
    BY <2>3 DEF Promise!Deliver, Heat
  <2>4. CASE Promise!Lose
    BY <2>4 DEF Promise!Lose
  <2>5. CASE UNCHANGED Promise!vars
    BY <2>5 DEF Promise!vars
  <2>6. QED
    BY <2>1, <2>2, <2>3, <2>4, <2>5 DEF Promise!Next, Promise!Heat, Heat
<1>3. DeliveryInv => Promise!DeliveredUnlessOwed
  BY DEF DeliveryInv
<1>4. QED
  BY <1>1, <1>2, <1>3, PTL DEF Promise!Spec
=============================================================================
