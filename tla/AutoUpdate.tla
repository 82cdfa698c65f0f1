------------------------------ MODULE AutoUpdate ------------------------------
(***************************************************************************)
(* scripts/auto_update.sh: a timer polls GitHub Releases, and the script   *)
(* installs what changed and restarts the services. Two pipelines publish  *)
(* a release file by file while it may be polled; downloads fail, the      *)
(* script may be killed anywhere, in the middle of cp and mv too, and an   *)
(* administrator may roll back beside it.                                  *)
(*                                                                         *)
(* A binary is its content: the version that last changed it. ETags are    *)
(* revisions of the release document.                                      *)
(***************************************************************************)
EXTENDS Naturals, Sequences

CONSTANTS
    AssetList,   \* the array ASSETS, in its order
    Unchanged,   \* assets whose content the later releases do not change
    Services,    \* assets that run as services
    OtherArch,   \* the binary of the other architecture, published beside them
    CanFail,     \* what may go wrong
    MaxTag       \* bound: releases

\* A poll that fails, or sees a release that is not complete: early, when files
\* of this host are missing, open, when only the other architecture's are; a
\* hash or a binary that cannot be fetched; a download that is not what was
\* published; a service that does not restart; a script that is killed, and so
\* in the middle of a write, which is cut; a rollback beside a running script.
Mishaps == {"api", "early", "open", "checksum", "download", "corrupt", "restart",
            "kill", "cut", "beside"}
Assets == {AssetList[i] : i \in 1..Len(AssetList)}
Files == Assets \X {"binary", "sha256"}
AllFiles == Files \cup {<<OtherArch, "binary">>}

ASSUME UpdateAssumption ==
    /\ AssetList \in Seq(Assets) \ {<<>>}
    /\ \A i, j \in 1..Len(AssetList) : AssetList[i] = AssetList[j] => i = j
    /\ Unchanged \subseteq Assets /\ Services \subseteq Assets
    /\ OtherArch \notin Assets
    /\ CanFail \subseteq Mishaps
    /\ MaxTag \in Nat \ {0}

VARIABLES
    \* GitHub
    tag, published, revision,
    \* the Pi: the two state files, the binaries, their .prev copies, and what
    \* the services run
    etagFile, versionFile, binary, prev, running,
    \* the script: the release it saw, the assets still to do, its counters;
    \* what cp reads, or what the copy was when mv began
    pc, seen, todo, file, verified, installed, skipped, old,
    \* what an administrator took out for the release before it: assets and
    \* contents
    refused,
    \* history: what went wrong so far
    mishaps

github == <<tag, published, revision>>
disk == <<etagFile, versionFile, binary, prev>>
script == <<seen, todo, file, verified, installed, skipped, old>>
vars == <<github, disk, running, pc, script, refused, mishaps>>

Absent == 0
Corrupt == MaxTag + 1
Content(a, t) == IF a \in Unchanged THEN 1 ELSE t

NoRelease == [tag |-> 0, files |-> {}, revision |-> 0]

\* The Pi was set up by hand, with some of the binaries of the first release;
\* a service whose binary is there runs it.
Init ==
    /\ tag = 1 /\ published = AllFiles /\ revision = 1
    /\ etagFile = 0 /\ versionFile = 0
    /\ binary \in [Assets -> {Absent, 1}] /\ prev = [a \in Assets |-> Absent]
    /\ running = [a \in Services |-> binary[a]]
    /\ pc = "idle" /\ seen = NoRelease /\ todo = <<>>
    /\ file = Absent /\ verified = FALSE /\ installed = FALSE /\ skipped = FALSE
    /\ old = Absent
    /\ refused = {} /\ mishaps = {}

-----------------------------------------------------------------------------
(* The script.                                                             *)

Fails(call) == call \in CanFail /\ mishaps' = mishaps \cup {call}
Works == UNCHANGED mishaps

\* Every exit; what the script knew is gone.
Exit ==
    /\ pc' = "idle" /\ seen' = NoRelease /\ todo' = <<>>
    /\ file' = Absent /\ verified' = FALSE /\ installed' = FALSE /\ skipped' = FALSE
    /\ old' = Absent

\* The conditional request. A 304 or an error leaves it at that.
Poll ==
    /\ pc = "idle"
    /\ \/ /\ etagFile # revision
          /\ IF published = AllFiles THEN Works
             ELSE Fails(IF Files \subseteq published THEN "open" ELSE "early")
          /\ seen' = [tag |-> tag, files |-> published, revision |-> revision]
          /\ pc' = "etag"
       \/ /\ etagFile = revision \/ "api" \in CanFail
          /\ Works /\ UNCHANGED <<seen, pc>>
    /\ UNCHANGED <<github, disk, running, todo, file, verified, installed, skipped, old, refused>>

\* The ETag is remembered before anything is installed.
SaveEtag ==
    /\ pc = "etag"
    /\ etagFile' = seen.revision
    /\ pc' = "compare"
    /\ Works /\ UNCHANGED <<github, versionFile, binary, prev, running, script, refused>>

Compare ==
    /\ pc = "compare"
    /\ IF seen.tag = versionFile
       THEN Exit
       ELSE /\ todo' = AssetList /\ pc' = "asset"
            /\ UNCHANGED <<seen, file, verified, installed, skipped, old>>
    /\ Works /\ UNCHANGED <<github, disk, running, refused>>

\* Slip: the hash is fetched, and not compared with the installed binary.
AssetAlways ==
    /\ pc = "asset" /\ todo # <<>>
    /\ IF <<Head(todo), "binary">> \in seen.files
       THEN pc' = "download" /\ verified' = (<<Head(todo), "sha256">> \in seen.files)
            /\ UNCHANGED todo
       ELSE todo' = Tail(todo) /\ UNCHANGED <<pc, verified>>
    /\ Works /\ UNCHANGED <<github, disk, running, seen, file, installed, skipped, old, refused>>

\* Slip: an asset that is installed already is taken for unchanged.
AssetOnce ==
    /\ pc = "asset" /\ todo # <<>>
    /\ IF <<Head(todo), "binary">> \in seen.files /\ binary[Head(todo)] = Absent
       THEN pc' = "download" /\ verified' = TRUE /\ UNCHANGED <<todo, skipped>>
       ELSE todo' = Tail(todo) /\ skipped' = TRUE /\ UNCHANGED <<pc, verified>>
    /\ Works /\ UNCHANGED <<github, disk, running, seen, file, installed, old, refused>>

\* One turn of the loop, up to the download: the asset is not in the release,
\* or its hash says it has not changed, or it is to be downloaded, with a hash
\* to verify it by or, where none was to be had, without.
Asset ==
    /\ pc = "asset" /\ todo # <<>>
    /\ LET a == Head(todo)
           hashed == <<a, "sha256">> \in seen.files
       IN
       \/ /\ <<a, "binary">> \notin seen.files
          /\ todo' = Tail(todo)
          /\ Works /\ UNCHANGED <<pc, verified, skipped>>
       \/ /\ <<a, "binary">> \in seen.files /\ hashed
          /\ IF binary[a] = Content(a, seen.tag)
             THEN /\ todo' = Tail(todo) /\ skipped' = TRUE
                  /\ UNCHANGED <<pc, verified>>
             ELSE /\ pc' = "download" /\ verified' = TRUE
                  /\ UNCHANGED <<todo, skipped>>
          /\ Works
       \/ /\ <<a, "binary">> \in seen.files
          /\ IF hashed THEN Fails("checksum") ELSE Works
          /\ pc' = "download" /\ verified' = FALSE
          /\ UNCHANGED <<todo, skipped>>
    /\ UNCHANGED <<github, disk, running, seen, file, installed, old, refused>>

\* Slip: the hash of the download is not compared.
DownloadUnverified ==
    /\ pc = "download"
    /\ \/ Works /\ file' = Content(Head(todo), seen.tag)
       \/ Fails("corrupt") /\ file' = Corrupt
    /\ pc' = "backup"
    /\ UNCHANGED <<github, disk, running, seen, todo, verified, installed, skipped, old, refused>>

\* Slip: a download that failed is installed, with nothing in it.
DownloadUnchecked ==
    /\ pc = "download"
    /\ \/ Works /\ file' = Content(Head(todo), seen.tag)
       \/ Fails("download") /\ file' = Absent
    /\ pc' = "backup"
    /\ UNCHANGED <<github, disk, running, seen, todo, verified, installed, skipped, old, refused>>

\* The download, and the check of its hash.
Download ==
    /\ pc = "download"
    /\ \/ /\ Works
          /\ file' = Content(Head(todo), seen.tag) /\ pc' = "backup" /\ UNCHANGED todo
       \/ /\ Fails("corrupt") /\ ~verified
          /\ file' = Corrupt /\ pc' = "backup" /\ UNCHANGED todo
       \/ /\ Fails("download") \/ (Fails("corrupt") /\ verified)
          /\ todo' = Tail(todo) /\ pc' = "asset" /\ UNCHANGED file
    /\ UNCHANGED <<github, disk, running, seen, verified, installed, skipped, old, refused>>

\* Slip: a backup that is there is left as it is.
BackupOnce ==
    /\ pc = "backup"
    /\ prev' = IF prev[Head(todo)] # Absent THEN prev
               ELSE [prev EXCEPT ![Head(todo)] = binary[Head(todo)]]
    /\ pc' = "move"
    /\ Works /\ UNCHANGED <<github, etagFile, versionFile, binary, running, script, refused>>

\* cp empties the copy and fills it again.
Backup ==
    /\ pc = "backup"
    /\ LET a == Head(todo) IN
       IF binary[a] = Absent
       THEN pc' = "move" /\ UNCHANGED <<prev, old>>
       ELSE /\ prev' = [prev EXCEPT ![a] = Corrupt]
            /\ old' = binary[a] /\ pc' = "copy"
    /\ Works /\ UNCHANGED <<github, etagFile, versionFile, binary, running,
                   seen, todo, file, verified, installed, skipped, refused>>

\* The copy is whole; after a rollback meanwhile, it is the binary.
Copy ==
    /\ pc = "copy"
    /\ LET a == Head(todo) IN
       IF prev[a] = Absent
       THEN binary' = [binary EXCEPT ![a] = old] /\ UNCHANGED prev
       ELSE prev' = [prev EXCEPT ![a] = old] /\ UNCHANGED binary
    /\ pc' = "move"
    /\ Works /\ UNCHANGED <<github, etagFile, versionFile, running, script, refused>>

\* The rest of the turn, when the file is in place.
Installs ==
    /\ installed' = TRUE
    /\ todo' = Tail(todo) /\ file' = Absent /\ pc' = "asset"

\* mv renames, or, from a /tmp on another file system, begins a copy.
Move ==
    /\ pc = "move"
    /\ \/ /\ binary' = [binary EXCEPT ![Head(todo)] = file]
          /\ Installs /\ UNCHANGED old
       \/ /\ binary' = [binary EXCEPT ![Head(todo)] = Corrupt]
          /\ old' = prev[Head(todo)] /\ pc' = "moving"
          /\ UNCHANGED <<todo, file, installed>>
    /\ Works /\ UNCHANGED <<github, etagFile, versionFile, prev, running,
                   seen, verified, skipped, refused>>

\* The copy of mv is whole; after a rollback meanwhile, nobody sees it.
Moved ==
    /\ pc = "moving"
    /\ binary' = IF prev[Head(todo)] = old THEN [binary EXCEPT ![Head(todo)] = file]
                 ELSE binary
    /\ Installs
    /\ Works /\ UNCHANGED <<github, etagFile, versionFile, prev, running,
                   seen, verified, skipped, old, refused>>

\* Slip: the version is not remembered.
FinishForgets ==
    /\ pc = "asset" /\ todo = <<>>
    /\ IF installed THEN pc' = "restart" /\ UNCHANGED script ELSE Exit
    /\ Works /\ UNCHANGED <<github, disk, running, refused>>

\* Slip: no restart when some binary was left as it was.
FinishRestartsIfAllNew ==
    /\ pc = "asset" /\ todo = <<>>
    /\ versionFile' = IF installed \/ skipped THEN seen.tag ELSE versionFile
    /\ IF installed /\ ~skipped THEN pc' = "restart" /\ UNCHANGED script ELSE Exit
    /\ Works /\ UNCHANGED <<github, etagFile, binary, prev, running, refused>>

\* After the loop: an error if there was nothing at all, else the version is
\* remembered, whatever failed, and what was installed calls for a restart.
Finish ==
    /\ pc = "asset" /\ todo = <<>>
    /\ versionFile' = IF installed \/ skipped THEN seen.tag ELSE versionFile
    /\ IF installed THEN pc' = "restart" /\ UNCHANGED script ELSE Exit
    /\ Works /\ UNCHANGED <<github, etagFile, binary, prev, running, refused>>

\* A service that does not run is not started; the first restart that fails
\* ends the script.
Restart ==
    /\ pc = "restart"
    /\ \E done \in SUBSET Services :
          /\ IF done = Services THEN Works ELSE Fails("restart")
          /\ running' = [a \in Services |->
                IF a \in done /\ running[a] # Absent THEN binary[a] ELSE running[a]]
    /\ Exit
    /\ UNCHANGED <<github, disk, refused>>

\* Between two commands or in the middle of a write. A disk that is full in a
\* write ends the script in the same way: it runs with set -e.
Kill ==
    /\ pc # "idle" /\ "kill" \in CanFail
    /\ mishaps' = mishaps \cup
          (IF pc \in {"copy", "moving"} THEN {"kill", "cut"} ELSE {"kill"})
    /\ Exit
    /\ UNCHANGED <<github, disk, running, refused>>

-----------------------------------------------------------------------------
(* GitHub and the administrator.                                           *)

\* A tag is pushed, and the first pipeline creates the release.
Release ==
    /\ tag < MaxTag /\ published = AllFiles
    /\ tag' = tag + 1 /\ published' = {} /\ revision' = revision + 1
    /\ Works /\ UNCHANGED <<disk, running, pc, script, refused>>

Upload(f) ==
    /\ f \notin published
    /\ published' = published \cup {f} /\ revision' = revision + 1
    /\ Works /\ UNCHANGED <<tag, disk, running, pc, script, refused>>

\* The rollback of the release checklist: the .prev copies go back in place.
\* Nothing keeps it from a running script.
Rollback ==
    /\ IF pc = "idle" THEN Works ELSE Fails("beside")
    /\ \E a \in Assets : prev[a] # Absent
    /\ binary' = [a \in Assets |-> IF prev[a] # Absent THEN prev[a] ELSE binary[a]]
    /\ prev' = [a \in Assets |-> Absent]
    /\ running' = [a \in Services |-> binary'[a]]
    /\ refused' = refused \cup
          {<<a, binary[a]>> : a \in {b \in Assets :
              prev[b] # binary[b] /\ {prev[b], binary[b]} \cap {Absent, Corrupt} = {}}}
    /\ UNCHANGED <<github, etagFile, versionFile, pc, script>>

-----------------------------------------------------------------------------
\* Past the poll, the script runs by itself.
Run == \/ SaveEtag \/ Compare \/ Asset \/ Download
       \/ Backup \/ Copy \/ Move \/ Moved \/ Finish \/ Restart

Publish == \E f \in AllFiles : Upload(f)

Next == Poll \/ Run \/ Kill \/ Release \/ Publish \/ Rollback

\* The timer polls again and again, a script that was started runs, and the
\* pipelines finish what they began.
Spec == /\ Init /\ [][Next]_vars
        /\ WF_vars(Poll) /\ WF_vars(Run) /\ WF_vars(Publish)

-----------------------------------------------------------------------------
Contents == 0..Corrupt

\* Where the script is at an asset, with its download in /tmp.
Replacing == {"backup", "copy", "move", "moving"}

TypeOK ==
    /\ tag \in 1..MaxTag /\ published \subseteq AllFiles /\ revision \in Nat
    /\ etagFile \in 0..revision /\ versionFile \in 0..tag
    /\ binary \in [Assets -> Contents] /\ prev \in [Assets -> Contents]
    /\ running \in [Services -> Contents]
    /\ pc \in {"idle", "etag", "compare", "asset", "download", "restart"} \cup Replacing
    /\ seen.tag \in 0..tag /\ (pc # "idle" => seen.tag # 0)
    /\ seen.files \subseteq AllFiles /\ seen.revision \in 0..revision
    /\ todo \in Seq(Assets) /\ (pc \in {"download"} \cup Replacing => todo # <<>>)
    /\ file \in Contents /\ (pc \in Replacing => file # Absent) /\ old \in Contents
    /\ verified \in BOOLEAN /\ installed \in BOOLEAN /\ skipped \in BOOLEAN
    /\ refused \subseteq Assets \X Contents /\ mishaps \subseteq Mishaps
    /\ "cut" \in mishaps => "kill" \in mishaps

Unharmed(troubles) == mishaps \cap troubles = {}

\* Nothing corrupt is installed or kept but what cp or mv is just writing, and
\* no service runs it.
Whole ==
    /\ \A a \in Assets : /\ binary[a] = Corrupt => (pc = "moving" /\ a = Head(todo))
                         /\ prev[a] = Corrupt => (pc = "copy" /\ a = Head(todo))
    /\ \A a \in Services : running[a] # Corrupt

\* "Auto-updateren verifiserer hver binary mot <asset>.sha256 ... og avviser
\* nedlastingen ved mismatch": so it is, as long as no write is cut, nobody
\* rolls back beside the script, and the downloads arrive as published or the
\* hashes are to be had.
NothingCorrupt ==
    (Unharmed({"cut", "beside"}) /\ (Unharmed({"corrupt"}) \/ Unharmed({"early", "checksum"})))
        => Whole

\* A whole binary that an update replaces is never lost: it is the backup at
\* that moment, whatever failed or was cut short before. (A rollback beside the
\* script takes the backup away.)
ReplacedIsKept ==
    [][\A a \in Assets :
           (pc # "idle" /\ "beside" \notin mishaps' /\ binary[a] \notin {Absent, Corrupt, binary'[a]})
               => prev'[a] = binary[a]]_vars

\* A backup is worth having: rolling back brings another binary, as none was
\* replaced by itself. A missing hash makes the script replace what has not
\* changed, a kill leaves it between the copy and the move.
BackupDiffers ==
    Unharmed({"early", "checksum", "kill", "beside"}) =>
        \A a \in Assets : (prev[a] # Absent /\ pc # "move") => prev[a] # binary[a]

\* The version file speaks the truth, unless a download failed or the poll was
\* early: once it names a release, every asset of that release is installed,
\* or that of a later one whose installation was killed, or what a write that
\* was cut left of it, or it was taken out again by a rollback.
VersionIsInstalled ==
    (Unharmed({"early", "download", "corrupt", "beside"})
        /\ versionFile # 0 /\ pc \in {"idle", "etag", "compare"}) =>
        \A a \in Assets :
            \/ binary[a] = Content(a, versionFile)
            \/ "kill" \in mishaps /\ binary[a] \in {Content(a, t) : t \in versionFile..tag}
            \/ "cut" \in mishaps /\ binary[a] = Corrupt
            \/ <<a, Content(a, versionFile)>> \in refused

\* What was rolled back stays out: no update brings it in again by itself,
\* however often the same release is polled. Only a poll before the release
\* was complete and a kill together leave neither the ETag nor the version to
\* tell that it was there.
RolledBackStaysOut ==
    [][\A a \in Assets :
           ((Unharmed({"early", "open"}) \/ Unharmed({"kill"})) /\ pc # "idle" /\ binary'[a] # binary[a])
               => <<a, binary'[a]>> \notin refused]_vars

\* A release that is complete and stays the latest arrives on the Pi, whatever
\* was rolled back before it, unless its installation fails or is killed.
UpdateArrives ==
    \A t \in 1..MaxTag :
        (tag = t /\ published = AllFiles) ~>
            \/ tag > t
            \/ ~Unharmed({"early", "download", "corrupt", "kill", "beside"})
            \/ \A a \in Assets : \/ binary[a] = Content(a, t)
                                 \/ <<a, Content(a, t)>> \in refused

\* A service that runs ends up running what is installed, unless its restart
\* fails or is never reached.
ServicesRunInstalled ==
    \A a \in Services :
        running[a] \notin {Absent, binary[a]}
            ~> (running[a] = binary[a] \/ ~Unharmed({"restart", "kill"}))
=============================================================================
