--------------------------- MODULE Telemetry_proofs ---------------------------
(***************************************************************************)
(* Proofs about the Mill cloud client inside the hourly job: its types, and *)
(* that its margin keeps what it promises, for every margin, every lifetime *)
(* and replies that take as long as they like.  The strengthening: the      *)
(* expiry the client believes in is that of the token it has, counted from  *)
(* its reply.  And that the readings of an hour are saved together, which   *)
(* needs to know what each step of the job finds saved.                     *)
(***************************************************************************)
EXTENDS Telemetry, TLAPS

\* A token in use, by the client's count and by the cloud's.
TokenInv ==
  /\ sentAt <= repliedAt /\ repliedAt <= clock
  /\ liveUntil - sentAt > 0 =>
       hasExpiry /\ expiresAt = repliedAt + (liveUntil - sentAt) - Margin

\* A request goes out with a token just received, or checked.
CheckInv ==
  /\ hasToken /\ repliedAt <= checkedAt /\ checkedAt <= clock
  /\ checkedAt = repliedAt \/ ~hasExpiry \/ checkedAt < expiresAt

CloudInv ==
  /\ CloudTypeOK
  /\ sentAt <= clock
  /\ hasToken /\ cpc \in {"idle", "ensure", "get"} => TokenInv
  /\ cpc = "get" => CheckInv

-----------------------------------------------------------------------------
LEMMA NewClientInv == ASSUME NewClient PROVE CloudInv'
<1>1. CloudTypeOK' /\ sentAt' <= clock'
  <2>1. /\ clock' \in 0..MaxClock /\ expiresAt' \in Int /\ liveUntil' \in Nat
        /\ sentAt' \in Nat /\ checkedAt' \in Nat /\ repliedAt' \in Nat /\ sentAt' <= clock'
    BY CloudAssumption DEF NewClient
  <2> QED BY <2>1, Zenon DEF NewClient, CloudTypeOK
<1>2. ~hasToken' /\ cpc' = "idle"
  BY Zenon DEF NewClient
<1> QED BY <1>1, <1>2 DEF CloudInv

LEMMA UnchangedInv == ASSUME CloudInv, UNCHANGED cloudVars PROVE CloudInv'
BY DEF CloudInv, CloudTypeOK, TokenInv, CheckInv, cloudVars, client

LEMMA SendInv ==
  ASSUME CloudInv, NEW kind \in {"signIn", "refresh"}, Send(kind)
  PROVE  CloudInv'
BY CloudAssumption DEF Send, CloudInv, CloudTypeOK, client

(* A reply with a token, whatever lifetime it tells.                        *)
LEMMA LoggedInInv ==
  ASSUME CloudInv, NEW r \in BOOLEAN, LoggedIn(r)
  PROVE  CloudInv'
<1>1. PICK life \in Lifetimes \cup {Default} :
        /\ expiresAt' = (IF life = 0 THEN expiresAt ELSE clock + life - Margin)
        /\ hasExpiry' = (hasExpiry \/ life # 0)
        /\ liveUntil' = sentAt + life
  BY DEF LoggedIn, Expiry
<1>2. life \in Nat /\ Margin \in Nat /\ MaxClock \in Nat
  BY CloudAssumption
<1>3. /\ clock \in 0..MaxClock /\ sentAt \in Nat /\ sentAt <= clock /\ expiresAt \in Int
      /\ hasExpiry \in BOOLEAN
  BY DEF CloudInv, CloudTypeOK
<1>4. /\ UNCHANGED <<clock, sentAt>> /\ repliedAt' = clock /\ checkedAt' = clock
      /\ hasToken' = TRUE /\ hasRefresh' = r /\ cpc' = "get"
  BY DEF LoggedIn
<1>5. expiresAt' \in Int /\ liveUntil' \in Nat
  BY <1>1, <1>2, <1>3
<1>6. hasExpiry' \in BOOLEAN
  BY <1>1, <1>3, Zenon
<1>7. CloudTypeOK'
  BY <1>2, <1>3, <1>4, <1>5, <1>6 DEF CloudTypeOK
<1>8. ASSUME liveUntil' - sentAt' > 0 PROVE hasExpiry' /\ expiresAt' = clock + life - Margin
  <2>1. life # 0
    BY <1>1, <1>2, <1>3, <1>4, <1>8
  <2> QED BY <1>1, <2>1, Zenon
<1>9. TokenInv'
  BY <1>1, <1>2, <1>3, <1>4, <1>8 DEF TokenInv
<1> QED BY <1>2, <1>3, <1>4, <1>7, <1>9 DEF CloudInv, CheckInv

LEMMA LoginInv == ASSUME CloudInv, Login PROVE CloudInv'
<1>1. CASE EnsureLogin
  <2>1. CASE \E kind \in {"signIn", "refresh"} : Send(kind)
    BY <2>1, SendInv
  <2>2. CASE /\ hasToken /\ ~Expired
             /\ cpc' = "get" /\ checkedAt' = clock
             /\ UNCHANGED <<clock, sentAt, client>>
    <3>1. TokenInv /\ CloudTypeOK /\ sentAt <= clock
      BY <1>1, <2>2 DEF EnsureLogin, CloudInv
    <3>2. CloudTypeOK' /\ TokenInv' /\ sentAt' <= clock'
      BY <2>2, <3>1, CloudAssumption DEF CloudTypeOK, TokenInv, client
    <3>3. CheckInv'
      BY <2>2, <3>1, CloudAssumption DEF CloudTypeOK, TokenInv, CheckInv, Expired, client
    <3> QED BY <3>2, <3>3 DEF CloudInv
  <2> QED BY <1>1, <2>1, <2>2 DEF EnsureLogin
<1>2. CASE SignIn \/ RefreshToken
  BY <1>2, LoggedInInv DEF SignIn, RefreshToken
<1>3. CASE RefreshRefused
  BY <1>3, SendInv DEF RefreshRefused
<1> QED BY <1>1, <1>2, <1>3 DEF Login

LEMMA CallInv == ASSUME CloudInv, Call \/ Fetched PROVE CloudInv'
BY DEF Call, Fetched, CloudInv, CloudTypeOK, TokenInv, client

-----------------------------------------------------------------------------
LEMMA InitInv == Init => CloudInv
<1> SUFFICES ASSUME CloudInit PROVE CloudInv
  BY DEF Init
<1>1. CloudTypeOK /\ sentAt <= clock
  <2>1. /\ clock \in 0..MaxClock /\ expiresAt \in Int /\ liveUntil \in Nat
        /\ sentAt \in Nat /\ checkedAt \in Nat /\ repliedAt \in Nat /\ sentAt <= clock
    BY CloudAssumption DEF CloudInit
  <2> QED BY <2>1, Zenon DEF CloudInit, CloudTypeOK
<1>2. ~hasToken /\ cpc = "idle"
  BY Zenon DEF CloudInit
<1> QED BY <1>1, <1>2 DEF CloudInv

LEMMA StepInv == ASSUME CloudInv, [Next]_vars PROVE CloudInv'
<1>1. CASE \/ Start \/ ImportPresence \/ FetchGlamox \/ FetchYr \/ StaticReport \/ EnergyReport
           \/ (\E p \in CanFail : Breaks(p)) \/ Repair \/ UNCHANGED vars
  <2>1. UNCHANGED cloudVars
    BY <1>1 DEF Start, ImportPresence, FetchGlamox, FetchYr, StaticReport, EnergyReport,
                Breaks, Repair, vars
  <2> QED BY <2>1, UnchangedInv
<1>2. CASE SaveReading \/ SaveEnergy \/ Fails \/ Killed \/ ListEnds
  <2>1. NewClient \/ UNCHANGED cloudVars
    BY <1>2 DEF SaveReading, SaveEnergy, Fails, Killed, Stop, ListEnds
  <2> QED BY <2>1, NewClientInv, UnchangedInv
<1>3. CASE FetchMill \/ FetchEnergy \/ MillCall \/ MillList \/ ListFetched
  BY <1>3, CallInv DEF FetchMill, FetchEnergy, MillCall, MillList, ListFetched
<1>4. CASE MillFails
  BY <1>4 DEF MillFails, CloudFails, CloudInv, CloudTypeOK, client
<1>5. CASE MillWaits
  <2>1. CloudTypeOK' /\ sentAt' <= clock'
    BY <1>5, CloudAssumption DEF MillWaits, CloudTick, CloudInv, CloudTypeOK, client
  <2>2. TokenInv => TokenInv'
    BY <1>5, CloudAssumption DEF MillWaits, CloudTick, CloudInv, CloudTypeOK, TokenInv, client
  <2>3. CheckInv => CheckInv'
    BY <1>5, CloudAssumption DEF MillWaits, CloudTick, CloudInv, CloudTypeOK, CheckInv, client
  <2> QED BY <1>5, <2>1, <2>2, <2>3 DEF MillWaits, CloudTick, CloudInv, client
<1>6. CASE MillLogin
  BY <1>6, LoginInv DEF MillLogin
<1> QED BY <1>1, <1>2, <1>3, <1>4, <1>5, <1>6 DEF Next, Job, Mill

THEOREM CloudInvariant == Spec => []CloudInv
BY InitInv, StepInv, PTL DEF Spec

(* The client keeps its types.                                              *)
THEOREM CloudTypeCorrect == Spec => []CloudTypeOK
<1>1. CloudInv => CloudTypeOK
  BY DEF CloudInv
<1> QED BY <1>1, CloudInvariant, PTL

(* A token outlives its check by the margin less what its reply took, for   *)
(* every lifetime above the margin (temperature_logger.py:578-612).         *)
THEOREM TokenInTimeHolds == Spec => []TokenInTime
<1>1. CloudInv => TokenInTime
  BY CloudAssumption DEF CloudInv, CloudTypeOK, TokenInv, CheckInv, TokenInTime
<1> QED BY <1>1, CloudInvariant, PTL

-----------------------------------------------------------------------------
(* What a step of the job finds saved and drawn. *)
BatchInv ==
  /\ step \in {"import", "glamox", "mill", "yr"} => fresh = {}
  /\ step = "save" => fresh \subseteq Sources
  /\ step \in {"page", "energy", "saveEnergy"} => fresh = Sources
  /\ step = "energyPage" => fresh = Sources \cup {"energy"}
  /\ step \in {"idle", "list"} => torn \/ fresh \cap Sources \in {{}, Sources}
  /\ step \in {"import", "glamox", "mill", "yr", "save", "page"} => shown = {}
  /\ step \in {"energy", "saveEnergy", "energyPage"} => shown = {"temperature"}
  /\ shown # {} => Sources \subseteq fresh
  /\ "energy" \in shown => "energy" \in fresh
  /\ step \in {"idle", "list", "import", "glamox", "mill", "yr", "save", "page",
               "energy", "saveEnergy", "energyPage"}

LEMMA BatchInit == Init => BatchInv
BY DEF Init, BatchInv, Sources

(* A step of the job that succeeds.                                         *)
LEMMA BatchForward ==
  ASSUME BatchInv, Start \/ ImportPresence \/ FetchGlamox \/ FetchMill \/ FetchYr \/ SaveReading
                   \/ StaticReport \/ FetchEnergy \/ SaveEnergy \/ EnergyReport
  PROVE  BatchInv'
<1>1. CASE Start
  BY <1>1 DEF Start, BatchInv
<1>2. CASE ImportPresence \/ FetchGlamox \/ FetchMill \/ FetchYr
  BY <1>2 DEF ImportPresence, FetchGlamox, FetchMill, FetchYr, Done, BatchInv, jobVars
<1>3. CASE SaveReading
  <2>1. /\ step = "save" /\ fresh' \subseteq Sources /\ UNCHANGED <<shown, torn>> /\ shown = {}
        /\ step' = "save" \/ (step' = "page" /\ fresh' = Sources)
    BY <1>3 DEF SaveReading, BatchInv
  <2> QED BY <2>1 DEF BatchInv
<1>4. CASE StaticReport \/ FetchEnergy
  BY <1>4 DEF StaticReport, FetchEnergy, Done, BatchInv, jobVars
<1>5. CASE SaveEnergy
  BY <1>5 DEF SaveEnergy, Done, BatchInv
<1>6. CASE EnergyReport
  <2>1. /\ step' = "idle" /\ fresh' = Sources \cup {"energy"} /\ "energy" \in fresh'
        /\ fresh' \cap Sources = Sources
    BY <1>6 DEF EnergyReport, Done, BatchInv, Sources
  <2> QED BY <2>1 DEF BatchInv
<1> QED BY <1>1, <1>2, <1>3, <1>4, <1>5, <1>6

(* A step that fails, or a kill.                                            *)
LEMMA BatchStop == ASSUME BatchInv, Stop PROVE BatchInv'
<1>1. step' = "idle" /\ UNCHANGED <<fresh, shown>> /\ torn' = (torn \/ (step = "save" /\ fresh # {}))
  BY DEF Stop
<1>2. torn' \/ fresh \cap Sources \in {{}, Sources}
  <2>1. CASE step = "save"
    BY <1>1, <2>1
  <2>2. CASE step # "save"
    BY <2>2 DEF BatchInv, Stop, InJob, Sources
  <2> QED BY <2>1, <2>2
<1> QED BY <1>1, <1>2 DEF BatchInv

LEMMA BatchStep == ASSUME BatchInv, [Next]_vars PROVE BatchInv'
<1>1. CASE Start \/ ImportPresence \/ FetchGlamox \/ FetchMill \/ FetchYr \/ SaveReading
           \/ StaticReport \/ FetchEnergy \/ SaveEnergy \/ EnergyReport
  BY <1>1, BatchForward
<1>2. CASE Fails \/ Killed
  BY <1>2, BatchStop DEF Fails, Killed
<1>3. CASE Mill \/ MillWaits \/ (\E p \in CanFail : Breaks(p)) \/ Repair \/ UNCHANGED vars
  <2>1. /\ UNCHANGED <<fresh, shown, torn>>
        /\ UNCHANGED step \/ (step = "list" /\ step' = "idle")
    BY <1>3 DEF Mill, MillCall, MillLogin, MillFails, ListFetched, ListEnds, MillWaits, Breaks,
                Repair, vars, jobVars
  <2> QED BY <2>1 DEF BatchInv
<1>4. CASE MillList
  BY <1>4 DEF MillList, BatchInv
<1> QED BY <1>1, <1>2, <1>3, <1>4 DEF Next, Job

(* The readings of an hour are saved together or not at all, unless the job *)
(* is stopped between their commits, and its pages show all of them         *)
(* (temperature_logger.py:977-1024, cron_temperature_log.sh:5).             *)
THEOREM WholeBatchHolds == Spec => []WholeBatch
<1>1. BatchInv => WholeBatch
  <2> SUFFICES ASSUME BatchInv, step # "save" PROVE torn \/ fresh \cap Sources \in {{}, Sources}
    BY DEF BatchInv, WholeBatch
  <2> QED BY DEF BatchInv, Sources
<1> QED BY <1>1, BatchInit, BatchStep, PTL DEF Spec
=============================================================================
