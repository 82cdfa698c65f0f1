-------------------------- MODULE ReloadDaemon_proofs --------------------------
(***************************************************************************)
(* Proofs about the polling daemons, for both implementations, any number  *)
(* of edits and any pattern of signals, kills and failing loads.           *)
(***************************************************************************)
EXTENDS ReloadDaemon, TLAPS

\* TypeOK in two parts, numbers and names. The first is strengthened:
\* nothing the process remembers is newer than the file.
NumbersOK ==
    /\ version \in 1..MaxVersion
    /\ loaded \in 0..MaxVersion /\ interval \in 0..MaxVersion
    /\ configMtime \in 0..MaxVersion
    /\ asked \in 0..MaxVersion /\ late \in 0..2
    /\ loaded <= version /\ configMtime <= version

NamesOK ==
    /\ impl \in Impls /\ kind \in Kinds \cup {"good", "absent"} /\ pc \in Places
    /\ reloadEvent \in BOOLEAN /\ stopEvent \in BOOLEAN /\ raced \subseteq {"start", "stamp"}

RemembersThePast == NumbersOK /\ NamesOK

LEMMA MaxVersionType == MaxVersion \in Nat /\ 1 <= MaxVersion
  BY DaemonAssumption DEF DaemonAssumption

LEMMA PastInit == Init => RemembersThePast
<1> SUFFICES ASSUME Init PROVE RemembersThePast
  OBVIOUS
<1>1. NumbersOK
  BY MaxVersionType DEF Init, NumbersOK
<1>2. NamesOK
  BY DEF Init, NamesOK, Places
<1> QED
  BY <1>1, <1>2 DEF RemembersThePast

LEMMA NumbersOKNext == RemembersThePast /\ [Next]_vars => NumbersOK'
  <1> SUFFICES ASSUME RemembersThePast, [Next]_vars PROVE NumbersOK'
    OBVIOUS
  <1> USE DEF RemembersThePast, NumbersOK, fileVars, runtimeVars, history
  <1>1. CASE Start \/ Boot
    BY <1>1, MaxVersionType DEF Start, Boot
  <1>2. CASE Mtime0 \/ Load0 \/ Stamp0
    BY <1>2, MaxVersionType DEF Mtime0, Load0, Stamp0, Mtime
  <1>3. CASE Poll
    BY <1>3 DEF Poll
  <1>4. CASE Load
    BY <1>4, MaxVersionType DEF Load
  <1>5. CASE Stamp \/ Clear
    BY <1>5, MaxVersionType DEF Stamp, Clear, Mtime
  <1>6. CASE RunCycle \/ Unhang \/ Wait \/ Kill \/ StopTimeout
    BY <1>6 DEF RunCycle, Unhang, Wait, Kill, StopTimeout
  <1>7. CASE Edit \/ Remove
    BY <1>7, MaxVersionType DEF Edit, Remove
  <1>8. CASE Sighup \/ Sigterm \/ SystemctlStart
    BY <1>8 DEF Sighup, Sigterm, SystemctlStart
  <1>9. CASE UNCHANGED vars
    BY <1>9 DEF vars
  <1> QED
    BY <1>1, <1>2, <1>3, <1>4, <1>5, <1>6, <1>7, <1>8, <1>9 DEF Next, Daemon, World

LEMMA NamesOKNext == RemembersThePast /\ [Next]_vars => NamesOK'
  <1> SUFFICES ASSUME RemembersThePast, [Next]_vars PROVE NamesOK'
    OBVIOUS
  <1> USE DEF RemembersThePast, NamesOK, Places, fileVars, runtimeVars, history
  <1>1. CASE Start \/ Boot
    BY <1>1 DEF Start, Boot
  <1>2. CASE Mtime0 \/ Load0 \/ Stamp0
    BY <1>2 DEF Mtime0, Load0, Stamp0, Mtime
  <1>3. CASE Poll
    BY <1>3 DEF Poll
  <1>4. CASE Load
    BY <1>4 DEF Load
  <1>5. CASE Stamp \/ Clear
    BY <1>5 DEF Stamp, Clear, Mtime
  <1>6. CASE RunCycle \/ Unhang \/ Wait \/ Kill \/ StopTimeout
    BY <1>6 DEF RunCycle, Unhang, Wait, Kill, StopTimeout
  <1>7. CASE Edit \/ Remove
    BY <1>7 DEF Edit, Remove, Race
  <1>8. CASE Sighup \/ Sigterm \/ SystemctlStart
    BY <1>8 DEF Sighup, Sigterm, SystemctlStart
  <1>9. CASE UNCHANGED vars
    BY <1>9 DEF vars
  <1> QED
    BY <1>1, <1>2, <1>3, <1>4, <1>5, <1>6, <1>7, <1>8, <1>9 DEF Next, Daemon, World

\* TypeOK holds of the daemon (systemd_main.py main, controller_daemon).
THEOREM TypeCorrect == Spec => []TypeOK
<1>1. RemembersThePast => TypeOK
  BY DEF RemembersThePast, NumbersOK, NamesOK, TypeOK
<1>2. RemembersThePast /\ [Next]_vars => RemembersThePast'
  BY NumbersOKNext, NamesOKNext DEF RemembersThePast
<1> QED
  BY <1>1, <1>2, PastInit, PTL DEF Spec

\* Where the mtime that is remembered is that of the config in use, or older.
Looping == Settled \cup {"clear"}

\* The invariant behind UnloadedEditShows: in the race window itself nothing
\* moved yet, or raced says so; everywhere after it, the mtime is not ahead.
MtimeInv ==
    /\ RemembersThePast
    /\ (pc \in RaceWindow /\ "stamp" \notin raced) => loaded = version
    /\ (pc \in Looping /\ "stamp" \notin raced) => configMtime <= loaded

LEMMA MtimeInit == Init => MtimeInv
  BY PastInit DEF Init, MtimeInv, RaceWindow, Looping, Settled

LEMMA MtimeNext == MtimeInv /\ [Next]_vars => MtimeInv'
<1> SUFFICES ASSUME MtimeInv, [Next]_vars PROVE MtimeInv'
  OBVIOUS
<1>0. RemembersThePast'
  BY NumbersOKNext, NamesOKNext DEF MtimeInv, RemembersThePast
<1> USE <1>0 DEF MtimeInv, RaceWindow, Looping, Settled
<1>1. CASE Start \/ Boot
  BY <1>1 DEF Start, Boot, fileVars, history
<1>2. CASE Mtime0 \/ Load0 \/ Stamp0
  BY <1>2 DEF Mtime0, Load0, Stamp0, Mtime, fileVars, history, RemembersThePast, NumbersOK
<1>3. CASE Poll
  BY <1>3 DEF Poll, fileVars, runtimeVars, history
<1>4. CASE Load
  BY <1>4 DEF Load, fileVars, RemembersThePast, NumbersOK
<1>5. CASE Stamp \/ Clear
  BY <1>5 DEF Stamp, Clear, Mtime, fileVars, runtimeVars, history, RemembersThePast, NumbersOK
<1>6. CASE RunCycle \/ Unhang \/ Wait \/ Kill \/ StopTimeout
  BY <1>6 DEF RunCycle, Unhang, Wait, Kill, StopTimeout, fileVars, runtimeVars, history
<1>7. CASE Edit \/ Remove
  BY <1>7 DEF Edit, Remove, Race, runtimeVars, history
<1>8. CASE Sighup \/ Sigterm \/ SystemctlStart
  BY <1>8 DEF Sighup, Sigterm, SystemctlStart, fileVars, runtimeVars, history
<1>9. CASE UNCHANGED vars
  BY <1>9 DEF vars, fileVars, runtimeVars, history
<1> QED
  BY <1>1, <1>2, <1>3, <1>4, <1>5, <1>6, <1>7, <1>8, <1>9 DEF Next, Daemon, World

\* An edit that was not loaded shows in the mtime, unless the file moved
\* between the last good load and the reading of its mtime
\* (systemd_main.py:184-196, controller.rs:1118-1119 and 1143-1150).
THEOREM UnloadedEditShowsHolds == Spec => []UnloadedEditShows
<1>1. MtimeInv => UnloadedEditShows
  BY DEF MtimeInv, UnloadedEditShows, Looping
<1> QED
  BY <1>1, MtimeInit, MtimeNext, PTL DEF Spec

\* The invariant behind StopsInOneCycle: once a cycle began after SIGTERM, the
\* process hangs in it, waits, is about to leave the loop, or is gone.
LateInv ==
    /\ late \in {0, 1}
    /\ late = 1 => pc \in {"hung", "wait", "poll", "down"}
    /\ (late = 1 /\ pc # "down") => stopEvent

\* After SIGTERM at most one more cycle begins, in both daemons and whenever it
\* comes (systemd_main.py:177 and 215, controller.rs:1132 and 1168-1173).
THEOREM StopsInOneCycleHolds == Spec => []StopsInOneCycle
<1>1. Init => LateInv
  BY DEF Init, LateInv
<1>2. LateInv /\ [Next]_vars => LateInv'
  <2> SUFFICES ASSUME LateInv, [Next]_vars PROVE LateInv'
    OBVIOUS
  <2> USE DEF LateInv
  <2>1. CASE Start \/ Boot
    BY <2>1 DEF Start, Boot, history
  <2>2. CASE Mtime0 \/ Load0 \/ Stamp0
    BY <2>2 DEF Mtime0, Load0, Stamp0, history
  <2>3. CASE Poll
    BY <2>3 DEF Poll, history
  <2>4. CASE Load \/ Stamp \/ Clear
    BY <2>4 DEF Load, Stamp, Clear, history
  <2>5. CASE RunCycle
    BY <2>5 DEF RunCycle
  <2>6. CASE Unhang \/ Wait \/ Kill \/ StopTimeout
    BY <2>6 DEF Unhang, Wait, Kill, StopTimeout, history
  <2>7. CASE Edit \/ Remove
    BY <2>7 DEF Edit, Remove, history
  <2>8. CASE Sighup \/ Sigterm \/ SystemctlStart
    BY <2>8 DEF Sighup, Sigterm, SystemctlStart, history
  <2>9. CASE UNCHANGED vars
    BY <2>9 DEF vars, history
  <2> QED
    BY <2>1, <2>2, <2>3, <2>4, <2>5, <2>6, <2>7, <2>8, <2>9 DEF Next, Daemon, World
<1>3. LateInv => StopsInOneCycle
  BY DEF LateInv, StopsInOneCycle
<1> QED
  BY <1>1, <1>2, <1>3, PTL DEF Spec

\* The invariant behind MixedRuntimeShows: Python's start reads the mtime of
\* the file it took the interval from, or an older one than it then loads; a
\* runtime from another file than its interval is newer than the mtime.
MixedInv ==
    raced = {} =>
        /\ pc = "mtime0" => interval = version
        /\ pc = "load0" => configMtime <= interval /\ interval <= version
        /\ pc \in RaceWindow => interval = loaded
        /\ pc \in Looping => (interval = loaded \/ configMtime < loaded)

\* Whatever of the runtime is from another file than the rest shows as an edit,
\* and is loaded again, unless the file was edited between a look at it and the
\* reading of its mtime, or gone by then (systemd_main.py:135-169 and 184-196,
\* controller.rs:1118-1123 and 1143-1150).
THEOREM MixedRuntimeShowsHolds == Spec => []MixedRuntimeShows
<1> DEFINE I == MtimeInv /\ MixedInv
<1>1. Init => I
  BY MtimeInit DEF Init, MixedInv, RaceWindow, Looping, Settled
<1>2. I /\ [Next]_vars => I'
  <2> SUFFICES ASSUME MtimeInv, MixedInv, [Next]_vars PROVE MixedInv'
    BY MtimeNext
  <2>0. RemembersThePast /\ RemembersThePast'
    BY NumbersOKNext, NamesOKNext DEF MtimeInv, RemembersThePast
  <2>t. /\ version \in Nat /\ loaded \in Nat /\ interval \in Nat /\ configMtime \in Nat
        /\ loaded <= version /\ configMtime <= version
    BY <2>0, MaxVersionType DEF RemembersThePast, NumbersOK
  <2> USE <2>t DEF MixedInv, RaceWindow, Looping, Settled
  <2>1. CASE Start \/ Boot
    BY <2>1 DEF Start, Boot, fileVars, history
  <2>2. CASE Mtime0 \/ Load0 \/ Stamp0
    BY <2>2 DEF Mtime0, Load0, Stamp0, Mtime, fileVars, history
  <2>3. CASE Poll
    BY <2>3 DEF Poll, fileVars, runtimeVars, history
  <2>4. CASE Load
    <3>1. CASE pc' = "stamp"
      BY <2>4, <3>1 DEF Load
    <3>2. CASE pc' # "stamp" /\ UNCHANGED loaded
      BY <2>4, <3>2 DEF Load
    <3>3. CASE pc' # "stamp" /\ loaded' = version /\ loaded' # loaded
      BY <2>4, <3>3 DEF Load, MtimeInv
    <3> QED
      BY <2>4, <3>1, <3>2, <3>3 DEF Load
  <2>5. CASE Stamp \/ Clear
    BY <2>5 DEF Stamp, Clear, Mtime, fileVars, runtimeVars, history
  <2>6. CASE RunCycle \/ Unhang \/ Wait \/ Kill \/ StopTimeout
    BY <2>6 DEF RunCycle, Unhang, Wait, Kill, StopTimeout, fileVars, runtimeVars, history
  <2>7. CASE Edit \/ Remove
    BY <2>7 DEF Edit, Remove, Race, runtimeVars, history
  <2>8. CASE Sighup \/ Sigterm \/ SystemctlStart
    BY <2>8 DEF Sighup, Sigterm, SystemctlStart, fileVars, runtimeVars, history
  <2>9. CASE UNCHANGED vars
    BY <2>9 DEF vars, fileVars, runtimeVars, history
  <2> QED
    BY <2>1, <2>2, <2>3, <2>4, <2>5, <2>6, <2>7, <2>8, <2>9 DEF Next, Daemon, World
<1>3. I => MixedRuntimeShows
  BY MaxVersionType DEF MtimeInv, MixedInv, MixedRuntimeShows, RemembersThePast, NumbersOK,
     FileChanged, Mtime, Looping
<1> QED
  BY <1>1, <1>2, <1>3, PTL DEF Spec
=============================================================================
