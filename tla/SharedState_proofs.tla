-------------------------- MODULE SharedState_proofs --------------------------
(***************************************************************************)
(* Who moves the relay that two controllers share, for every pair of       *)
(* implementations, every configuration and any use of the tools.          *)
(***************************************************************************)
EXTENDS SharedState, TLAPS

(***************************************************************************)
(* A controller in a pulse train saw the relay in the wrong position, and  *)
(* is no dry run. The status it compared with may be old: the other one,   *)
(* or a tool, may have moved the relay since.                              *)
(***************************************************************************)
MainHasCause == pc = "pulse" => relayStatus # heatOn
CompanionHasCause == pc2 = "pulse" => relayStatus2 # heatOn2 /\ ~CompanionDryRun

CauseInv == MainHasCause /\ CompanionHasCause

LEMMA CauseInit == Init => CauseInv
  BY DEF Init, Main!Init, Companion!Init, CauseInv, MainHasCause, CompanionHasCause

(***************************************************************************)
(* The controller in charge: its steps, action by action.                  *)
(***************************************************************************)
LEMMA MainCause ==
  ASSUME MainHasCause, Main!Cycle \/ Main!Crash \/ Main!Reload
  PROVE  /\ MainHasCause'
         /\ relay' # relay => pc = "pulse"
<1> USE DEF MainHasCause
<1>1. ASSUME pc' # "pulse", UNCHANGED relay PROVE MainHasCause' /\ relay' = relay
  BY <1>1
<1>2. ASSUME NEW room \in Main!Rooms,
             Main!FetchCalendar(room) \/ Main!FetchUnsaved(room) \/ Main!FetchFails(room)
      PROVE  pc' # "pulse" /\ UNCHANGED relay
  <2>1. \A answer : Main!Decide(room, answer) => pc' # "pulse"
    BY DEF Main!Decide, Main!EndCycle, Main!Leave
  <2>2. Main!Fallback(room) \/ Main!Raise => pc' # "pulse"
    BY <2>1 DEF Main!Fallback, Main!Onward, Main!Raise, Main!EndCycle, Main!Leave
  <2>3. QED
    BY <1>2, <2>1, <2>2 DEF Main!FetchCalendar, Main!FetchUnsaved, Main!FetchFails, Main!Onward,
       Main!deviceVars
<1>3. CASE Main!Begin \/ Main!ReadRelayState \/ Main!ReadRelayStatus
  BY <1>3 DEF Main!Begin, Main!ReadRelayState, Main!ReadRelayStatus, Main!Onward, Main!Raise,
     Main!Goto, Main!ToPray, Main!EndCycle, Main!Leave, Main!deviceVars
<1>4. CASE Main!SaveRelayState
  <2>1. UNCHANGED relay /\ (Main!ActOnDecision \/ Main!EndCycle)
    BY <1>4 DEF Main!SaveRelayState, Main!Onward, Main!Raise, Main!deviceVars
  <2>2. CASE pc' # "pulse"
    BY <2>1, <2>2
  <2>3. CASE pc' = "pulse"
    BY <2>1, <2>3 DEF Main!ActOnDecision, Main!ToPray, Main!EndCycle, Main!Leave, Main!Goto
  <2>4. QED
    BY <2>2, <2>3
<1>5. CASE Main!Pulse
  BY <1>5 DEF Main!Pulse, Main!Goto
<1>6. CASE Main!PulseFails
  BY <1>6 DEF Main!PulseFails, Main!ToPray, Main!EndCycle, Main!Leave
<1>7. CASE Main!UpdateGlamox \/ Main!GlamoxFails
  BY <1>7 DEF Main!UpdateGlamox, Main!GlamoxFails, Main!ToPray, Main!EndCycle, Main!Leave
<1>8. CASE Main!PrayNext
  BY <1>8 DEF Main!PrayNext, Main!ReadHeatZoneState, Main!SaveHeatZoneState, Main!ActOnTransition,
     Main!UpdateMill, Main!MillFails, Main!Onward, Main!Raise, Main!Goto, Main!EndCycle, Main!Leave,
     Main!deviceVars
<1>9. CASE Main!Hang
  BY <1>9 DEF Main!Hang, Main!Leave
<1>10. CASE Main!WatchdogKill \/ Main!Crash \/ Main!Reload
  BY <1>10 DEF Main!WatchdogKill, Main!Crash, Main!Reload, Main!EndCycle, Main!Leave, Main!cycleVars,
     Main!deviceVars
<1>11. QED
  BY <1>1, <1>2, <1>3, <1>4, <1>5, <1>6, <1>7, <1>8, <1>9, <1>10
     DEF Main!Cycle, Main!CalendarNext, Main!StorsalenNext

(***************************************************************************)
(* The same of the companion, which may run dry.                           *)
(***************************************************************************)
LEMMA CompanionCause ==
  ASSUME CompanionHasCause, Companion!Cycle \/ Companion!Crash \/ Companion!Reload
  PROVE  /\ CompanionHasCause'
         /\ relay' # relay => pc2 = "pulse"
<1> USE DEF CompanionHasCause
<1>1. ASSUME pc2' # "pulse", UNCHANGED relay PROVE CompanionHasCause' /\ relay' = relay
  BY <1>1
<1>2. ASSUME NEW room \in Companion!Rooms,
             Companion!FetchCalendar(room) \/ Companion!FetchUnsaved(room) \/ Companion!FetchFails(room)
      PROVE  pc2' # "pulse" /\ UNCHANGED relay
  <2>1. \A answer : Companion!Decide(room, answer) => pc2' # "pulse"
    BY DEF Companion!Decide, Companion!EndCycle, Companion!Leave
  <2>2. Companion!Fallback(room) \/ Companion!Raise => pc2' # "pulse"
    BY <2>1 DEF Companion!Fallback, Companion!Onward, Companion!Raise, Companion!EndCycle, Companion!Leave
  <2>3. QED
    BY <1>2, <2>1, <2>2 DEF Companion!FetchCalendar, Companion!FetchUnsaved, Companion!FetchFails, Companion!Onward,
       Companion!deviceVars
<1>3. CASE Companion!Begin \/ Companion!ReadRelayState \/ Companion!ReadRelayStatus
  BY <1>3 DEF Companion!Begin, Companion!ReadRelayState, Companion!ReadRelayStatus, Companion!Onward, Companion!Raise,
     Companion!Goto, Companion!ToPray, Companion!EndCycle, Companion!Leave, Companion!deviceVars
<1>4. CASE Companion!SaveRelayState
  <2>1. UNCHANGED relay /\ (Companion!ActOnDecision \/ Companion!EndCycle)
    BY <1>4 DEF Companion!SaveRelayState, Companion!Onward, Companion!Raise, Companion!deviceVars
  <2>2. CASE pc2' # "pulse"
    BY <2>1, <2>2
  <2>3. CASE pc2' = "pulse"
    BY <2>1, <2>3 DEF Companion!ActOnDecision, Companion!ToPray, Companion!EndCycle, Companion!Leave, Companion!Goto
  <2>4. QED
    BY <2>2, <2>3
<1>5. CASE Companion!Pulse
  BY <1>5 DEF Companion!Pulse, Companion!Goto
<1>6. CASE Companion!PulseFails
  BY <1>6 DEF Companion!PulseFails, Companion!ToPray, Companion!EndCycle, Companion!Leave
<1>7. CASE Companion!UpdateGlamox \/ Companion!GlamoxFails
  BY <1>7 DEF Companion!UpdateGlamox, Companion!GlamoxFails, Companion!ToPray, Companion!EndCycle, Companion!Leave
<1>8. CASE Companion!PrayNext
  BY <1>8 DEF Companion!PrayNext, Companion!ReadHeatZoneState, Companion!SaveHeatZoneState, Companion!ActOnTransition,
     Companion!UpdateMill, Companion!MillFails, Companion!Onward, Companion!Raise, Companion!Goto, Companion!EndCycle, Companion!Leave,
     Companion!deviceVars
<1>9. CASE Companion!Hang
  BY <1>9 DEF Companion!Hang, Companion!Leave
<1>10. CASE Companion!WatchdogKill \/ Companion!Crash \/ Companion!Reload
  BY <1>10 DEF Companion!WatchdogKill, Companion!Crash, Companion!Reload, Companion!EndCycle, Companion!Leave, Companion!cycleVars,
     Companion!deviceVars
<1>11. QED
  BY <1>1, <1>2, <1>3, <1>4, <1>5, <1>6, <1>7, <1>8, <1>9, <1>10
     DEF Companion!Cycle, Companion!CalendarNext, Companion!StorsalenNext

-----------------------------------------------------------------------------
\* What is neither controller's, and leaves both where they are.
LEMMA OthersKeepCause ==
  ASSUME CauseInv, UNCHANGED <<mainVars, companionVars>>
  PROVE  CauseInv'
  BY DEF CauseInv, MainHasCause, CompanionHasCause, mainVars, companionVars

\* Bookings, caches and repairs do not touch the relay.
LEMMA WorldKeepsRelay == ASSUME WorldStep PROVE UNCHANGED <<relay, mainVars, companionVars>>
  BY DEF WorldStep, Main!World, Main!BookingChange, Main!CacheExpires, Main!Repair,
     Main!deviceVars

LEMMA CauseNext == CauseInv /\ [Next]_vars => CauseInv'
<1> SUFFICES ASSUME CauseInv, [Next]_vars PROVE CauseInv'
  OBVIOUS
<1>1. CASE MainStep
  BY <1>1, MainCause DEF MainStep, CauseInv, CompanionHasCause, companionVars
<1>2. CASE CompanionStep
  BY <1>2, CompanionCause DEF CompanionStep, CauseInv, MainHasCause, mainVars
<1>3. CASE WorldStep \/ (\E command \in {"off", "on"} : Tool(command)) \/ UNCHANGED vars
  BY <1>3, OthersKeepCause, WorldKeepsRelay DEF Tool, vars
<1>4. QED
  BY <1>1, <1>2, <1>3 DEF Next

\* A step that moves the relay and is no tool's.
LEMMA RelayStep ==
  ASSUME CauseInv, [Next]_vars, relay' # relay, tools' = tools
  PROVE  \/ pc = "pulse" /\ relayStatus # heatOn
         \/ pc2 = "pulse" /\ relayStatus2 # heatOn2 /\ ~CompanionDryRun
<1>1. CASE MainStep
  BY <1>1, MainCause DEF MainStep, CauseInv, MainHasCause
<1>2. CASE CompanionStep
  BY <1>2, CompanionCause DEF CompanionStep, CauseInv, CompanionHasCause
<1>3. ASSUME NEW command \in {"off", "on"}, Tool(command) PROVE FALSE
  BY <1>3, ToolAssumption DEF Tool
<1>4. ~(WorldStep \/ UNCHANGED vars)
  BY WorldKeepsRelay DEF vars, sharedVars
<1>5. QED
  BY <1>1, <1>2, <1>3, <1>4 DEF Next

(***************************************************************************)
(* Whatever two controllers are in charge of the one relay: unless by      *)
(* hand, it is moved by one that saw it in the wrong position.             *)
(***************************************************************************)
RelayMovedForCause ==
    [][relay' # relay /\ tools' = tools =>
          \/ pc = "pulse" /\ relayStatus # heatOn
          \/ pc2 = "pulse" /\ relayStatus2 # heatOn2 /\ ~CompanionDryRun]_vars

THEOREM RelayMovedForCauseHolds == Spec => RelayMovedForCause
<1>1. CauseInv /\ [Next]_vars =>
        [relay' # relay /\ tools' = tools =>
            \/ pc = "pulse" /\ relayStatus # heatOn
            \/ pc2 = "pulse" /\ relayStatus2 # heatOn2 /\ ~CompanionDryRun]_vars
  BY RelayStep
<1>2. QED
  BY <1>1, CauseInit, CauseNext, PTL DEF Spec, RelayMovedForCause

(***************************************************************************)
(* RelayMovedByMain: a companion that runs dry, as the example service of  *)
(* the Rust binary does, never moves the relay.                            *)
(***************************************************************************)
THEOREM RelayMovedByMainHolds ==
    ASSUME CompanionDryRun
    PROVE  Spec => RelayMovedByMain
<1>1. CauseInv /\ [Next]_vars =>
        [relay' # relay /\ tools' = tools => pc = "pulse" /\ relayStatus # heatOn]_vars
  BY RelayStep
<1>2. QED
  BY <1>1, CauseInit, CauseNext, PTL DEF Spec, RelayMovedByMain
=============================================================================
