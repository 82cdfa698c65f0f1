--------------------------- MODULE AutoUpdate_proofs ---------------------------
(***************************************************************************)
(* Proofs about the updater, for any list of assets and services, any      *)
(* number of releases, and any history of mishaps, kills and rollbacks.    *)
(***************************************************************************)
EXTENDS AutoUpdate, Integers, TLAPS

\* The turn of the loop: its asset is one of the list.
LEMMA HeadOfTodo ==
  ASSUME TypeOK, todo # <<>>
  PROVE  Head(todo) \in Assets /\ Tail(todo) \in Seq(Assets)
  BY DEF TypeOK

\* What a release holds for an asset is a binary, and not a corrupt one.
LEMMA ContentIsPublished ==
  ASSUME TypeOK, pc # "idle", NEW a
  PROVE  Content(a, seen.tag) \in 1..MaxTag
  BY UpdateAssumption DEF TypeOK, Content

\* What may be in a file: nothing, a published content, or a corrupt one.
LEMMA FileContents ==
  /\ Absent \in Contents /\ 1 \in Contents /\ Corrupt \in Contents
  /\ 1..MaxTag \subseteq Contents
  /\ \A c \in 1..MaxTag : c # Absent /\ c # Corrupt
  /\ Absent # Corrupt
  BY UpdateAssumption DEF Contents, Corrupt, Absent

LEMMA TypeInit == Init => TypeOK
<1> SUFFICES ASSUME Init PROVE TypeOK
  OBVIOUS
<1> USE DEF Init
<1>1. tag \in 1..MaxTag /\ revision \in Nat /\ etagFile \in 0..revision /\ versionFile \in 0..tag
  BY UpdateAssumption
<1>2. binary \in [Assets -> Contents] /\ prev \in [Assets -> Contents]
  BY FileContents
<1>3. running \in [Services -> Contents]
  BY <1>2, UpdateAssumption
<1>4. seen.tag \in 0..tag /\ seen.files \subseteq Files /\ seen.revision \in 0..revision
  BY DEF NoRelease
<1>5. todo \in Seq(Assets) /\ file \in Contents /\ old \in Contents
  BY FileContents
<1> QED
  BY <1>1, <1>2, <1>3, <1>4, <1>5 DEF TypeOK, Replacing, AllFiles

\* Every exit leaves the script as it was at first.
LEMMA AfterExit ==
  ASSUME TypeOK, Exit
  PROVE  /\ pc' = "idle" /\ todo' \in Seq(Assets) /\ file' \in Contents
         /\ seen'.tag = 0 /\ seen'.files = {} /\ seen'.revision = 0
         /\ verified' = FALSE /\ installed' = FALSE /\ skipped' = FALSE
         /\ old' \in Contents
  BY FileContents DEF Exit, NoRelease

\* Whatever is called, the mishaps stay among those there are, and a write is
\* only cut by a kill.
LEMMA MishapsGrow ==
  ASSUME TypeOK, [Next]_vars
  PROVE  /\ mishaps \subseteq mishaps' /\ mishaps' \subseteq Mishaps
         /\ "cut" \in mishaps' => "kill" \in mishaps'
<1>1. CASE Works \/ \E call \in CanFail \ {"cut"} : Fails(call)
  BY <1>1, UpdateAssumption DEF TypeOK, Works, Fails
<1>2. CASE Kill
  BY <1>2 DEF TypeOK, Kill, Mishaps
<1>3. CASE Poll \/ Asset \/ Download \/ Restart \/ Rollback
  BY <1>1, <1>3 DEF Poll, Asset, Download, Restart, Rollback, Fails, Works
<1>4. CASE SaveEtag \/ Compare \/ Backup \/ Copy \/ Move \/ Moved \/ Finish \/ Release
              \/ Publish \/ UNCHANGED vars
  BY <1>1, <1>4 DEF SaveEtag, Compare, Backup, Copy, Move, Moved, Finish, Release,
     Publish, Upload, vars, Works
<1> QED
  BY <1>2, <1>3, <1>4 DEF Next, Run

\* An exit keeps the types, whatever it changed of the disk before.
LEMMA ExitTypes ==
  ASSUME TypeOK, Exit, UNCHANGED <<github, refused>>, mishaps' \subseteq Mishaps,
         "cut" \in mishaps' => "kill" \in mishaps',
         versionFile' \in 0..tag, UNCHANGED <<etagFile, binary, prev>>,
         running' \in [Services -> Contents]
  PROVE  TypeOK'
<1>1. tag' = tag /\ revision' = revision
  BY DEF github
<1>2. seen'.tag \in 0..tag' /\ seen'.revision \in 0..revision' /\ seen'.files \subseteq AllFiles
  <2>1. tag \in Nat /\ revision \in Nat
    BY UpdateAssumption DEF TypeOK
  <2>2. seen'.tag = 0 /\ seen'.revision = 0 /\ seen'.files = {}
    BY AfterExit
  <2> QED
    BY <1>1, <2>1, <2>2
<1> QED
  BY <1>1, <1>2, AfterExit DEF TypeOK, Replacing, github

LEMMA TypeNext == TypeOK /\ [Next]_vars => TypeOK'
<1> SUFFICES ASSUME TypeOK, [Next]_vars PROVE TypeOK'
  OBVIOUS
<1>m. mishaps' \subseteq Mishaps /\ ("cut" \in mishaps' => "kill" \in mishaps')
  BY MishapsGrow
<1> USE <1>m DEF TypeOK
<1>1. CASE Poll
  BY <1>1, UpdateAssumption DEF Poll, github, disk, Replacing
<1>2. CASE SaveEtag
  BY <1>2 DEF SaveEtag, github, script, Replacing
<1>3. CASE Compare
  <2>1. CASE Exit
    BY <1>3, <2>1, ExitTypes DEF Compare, disk
  <2>2. CASE ~Exit
    BY <1>3, <2>2, UpdateAssumption DEF Compare, github, disk, Replacing
  <2> QED
    BY <2>1, <2>2
<1>4. CASE Asset
  BY <1>4, HeadOfTodo DEF Asset, github, disk, Replacing
<1>5. CASE Download
  <2>1. Content(Head(todo), seen.tag) \in 1..MaxTag
    BY <1>5, ContentIsPublished DEF Download
  <2>2. /\ file' \in Contents /\ todo' \in Seq(Assets) /\ pc' \in {"backup", "asset"}
        /\ pc' = "backup" => (file' # Absent /\ todo' # <<>>)
    BY <1>5, <2>1, HeadOfTodo, FileContents DEF Download
  <2> QED
    BY <1>5, <2>2 DEF Download, github, disk, Replacing
<1>6. CASE Backup
  <2>1. prev' \in [Assets -> Contents] /\ old' \in Contents /\ pc' \in {"copy", "move"}
    BY <1>6, HeadOfTodo, FileContents DEF Backup, Replacing
  <2> QED
    BY <1>6, <2>1 DEF Backup, github, Replacing
<1>14. CASE Copy
  <2>1. prev' \in [Assets -> Contents] /\ binary' \in [Assets -> Contents]
    BY <1>14, HeadOfTodo DEF Copy
  <2> QED
    BY <1>14, <2>1 DEF Copy, github, script, Replacing
<1>7. CASE Move \/ Moved
  <2>1. /\ binary' \in [Assets -> Contents] /\ todo' \in Seq(Assets) /\ file' \in Contents
        /\ old' \in Contents /\ installed' \in BOOLEAN /\ pc' \in {"asset", "moving"}
        /\ pc' = "moving" => (todo' # <<>> /\ file' # Absent)
    BY <1>7, HeadOfTodo, FileContents DEF Move, Moved, Installs, Replacing
  <2>2. UNCHANGED <<github, etagFile, versionFile, prev, running, seen, verified, skipped, refused>>
        /\ pc # "idle"
    BY <1>7 DEF Move, Moved
  <2> QED
    BY <2>1, <2>2 DEF github, Replacing
<1>8. CASE Finish
  <2>1. versionFile' \in 0..tag
    BY <1>8 DEF Finish
  <2>2. CASE Exit
    BY <1>8, <2>1, <2>2, ExitTypes DEF Finish, disk
  <2>3. CASE ~Exit
    BY <1>8, <2>1, <2>3 DEF Finish, github, script, Replacing
  <2> QED
    BY <2>2, <2>3
<1>9. CASE Restart
  <2>1. running' \in [Services -> Contents]
    BY <1>9, UpdateAssumption DEF Restart
  <2> QED
    BY <1>9, <2>1, ExitTypes DEF Restart, disk
<1>10. CASE Kill
  BY <1>10, ExitTypes DEF Kill, disk
<1>11. CASE Release
  <2>1. tag \in Nat /\ tag' \in 1..MaxTag /\ revision' \in Nat /\ published' \subseteq AllFiles
    BY <1>11, UpdateAssumption DEF Release
  <2>2. etagFile' \in 0..revision' /\ versionFile' \in 0..tag'
    BY <1>11, <2>1 DEF Release, disk
  <2>3. seen'.tag \in 0..tag' /\ seen'.revision \in 0..revision' /\ seen' = seen
    BY <1>11, <2>1 DEF Release, script
  <2> QED
    BY <1>11, <2>1, <2>2, <2>3 DEF Release, disk, script
<1>12. ASSUME NEW f \in AllFiles, Upload(f) PROVE TypeOK'
  BY <1>12 DEF Upload, disk, script
<1>13. CASE Rollback
  <2>1. binary' \in [Assets -> Contents] /\ prev' \in [Assets -> Contents]
    BY <1>13, FileContents DEF Rollback
  <2>2. running' \in [Services -> Contents]
    BY <1>13, <2>1, UpdateAssumption DEF Rollback
  <2>3. refused' \subseteq Assets \X Contents
    BY <1>13 DEF Rollback
  <2> QED
    BY <1>13, <2>1, <2>2, <2>3 DEF Rollback, github, script
<1>15. CASE UNCHANGED vars
  BY <1>15 DEF vars, github, disk, script
<1> QED
  BY <1>1, <1>2, <1>3, <1>4, <1>5, <1>6, <1>7, <1>8, <1>9, <1>10, <1>11,
     <1>12, <1>13, <1>14, <1>15 DEF Next, Run, Publish

\* TypeOK holds of the Pi, of the script and of what it has seen of GitHub.
THEOREM TypeCorrect == Spec => []TypeOK
  BY TypeInit, TypeNext, PTL DEF Spec

\* While the copy is made it is corrupt, and cp reads the binary; then the copy
\* is the binary, until mv begins; while mv writes, the copy is what it was.
CopyInv ==
    "beside" \notin mishaps =>
        /\ pc = "copy" => (prev[Head(todo)] = Corrupt /\ old = binary[Head(todo)] /\ old # Absent)
        /\ pc = "move" => (binary[Head(todo)] # Absent => prev[Head(todo)] = binary[Head(todo)])
        /\ pc = "moving" => (binary[Head(todo)] = Corrupt /\ prev[Head(todo)] = old)

LEMMA CopyNext == TypeOK /\ CopyInv /\ [Next]_vars => CopyInv'
<1> SUFFICES ASSUME TypeOK, CopyInv, [Next]_vars, "beside" \notin mishaps'
             PROVE  CopyInv'
  BY DEF CopyInv
<1>m. "beside" \notin mishaps
  BY MishapsGrow
<1> USE <1>m
<1>1. CASE Backup
  <2>1. Head(todo) \in Assets /\ prev \in [Assets -> Contents] /\ pc' \in {"copy", "move"}
    BY <1>1, HeadOfTodo DEF Backup, TypeOK, Replacing
  <2> QED
    BY <1>1, <2>1 DEF Backup, CopyInv, Corrupt
<1>2. CASE Copy
  <2>1. Head(todo) \in Assets /\ prev \in [Assets -> Contents]
    BY <1>2, HeadOfTodo DEF Copy, TypeOK, Replacing
  <2>2. prev' = [prev EXCEPT ![Head(todo)] = old] /\ UNCHANGED <<binary, todo>> /\ pc' = "move"
    BY <1>2, FileContents DEF Copy, CopyInv, script
  <2> QED
    BY <1>2, <2>1, <2>2 DEF CopyInv, Copy
<1>3. CASE Move
  <2>1. Head(todo) \in Assets /\ binary \in [Assets -> Contents] /\ pc' \in {"asset", "moving"}
    BY <1>3, HeadOfTodo DEF Move, Installs, TypeOK, Replacing
  <2> QED
    BY <1>3, <2>1 DEF Move, Installs, CopyInv, Corrupt
<1>4. CASE Release \/ Publish \/ UNCHANGED vars
  BY <1>4 DEF Release, Publish, Upload, vars, disk, script, CopyInv, Corrupt
<1>5. CASE Rollback
  BY <1>5 DEF Rollback, Fails, CopyInv
<1>6. CASE Poll \/ SaveEtag \/ Compare \/ Asset \/ Download \/ Moved \/ Finish \/ Restart \/ Kill
  <2>1. pc' \notin {"copy", "move", "moving"}
    BY <1>6 DEF Poll, SaveEtag, Compare, Asset, Download, Moved, Installs, Finish, Restart, Kill, Exit
  <2> QED
    BY <2>1 DEF CopyInv
<1> QED
  BY <1>1, <1>2, <1>3, <1>4, <1>5, <1>6 DEF Next, Run

\* Only the move changes a binary, and a rollback, and cp after one.
LEMMA BinaryChanges ==
  ASSUME [Next]_vars, binary' # binary
  PROVE  Copy \/ Move \/ Moved \/ Rollback
  BY DEF Next, Run, Publish, Poll, SaveEtag, Compare, Asset, Download, Backup,
         Finish, Restart, Kill, Release, Upload, vars, disk

\* ReplacedIsKept: whatever whole binary an update replaces is in the .prev
\* copy, unless it was rolled back beside the script.
THEOREM ReplacedIsKeptHolds == Spec => ReplacedIsKept
<1>1. Init => CopyInv
  BY DEF Init, CopyInv
<1>2. TypeOK /\ CopyInv /\ [Next]_vars =>
        [\A a \in Assets :
            (pc # "idle" /\ "beside" \notin mishaps' /\ binary[a] \notin {Absent, Corrupt, binary'[a]})
                => prev'[a] = binary[a]]_vars
  <2> SUFFICES ASSUME TypeOK, CopyInv, [Next]_vars, NEW a \in Assets,
                      pc # "idle", "beside" \notin mishaps',
                      binary[a] \notin {Absent, Corrupt, binary'[a]}
               PROVE  prev'[a] = binary[a]
    OBVIOUS
  <2>1. "beside" \notin mishaps
    BY MishapsGrow
  <2>2. Move \/ Moved
    BY <2>1, BinaryChanges, FileContents DEF Rollback, Fails, Copy, CopyInv
  <2>3. a = Head(todo)
    BY <2>2 DEF Move, Moved, TypeOK
  <2> QED
    BY <2>1, <2>2, <2>3 DEF Move, Moved, CopyInv
<1> QED
  BY <1>1, <1>2, TypeInit, TypeNext, CopyNext, PTL DEF Spec, ReplacedIsKept

\* Nothing corrupt is on its way in either: a download arrived as published, or
\* it was verified, with the release polled whole and its hashes to be had.
WholeInv ==
    (Unharmed({"cut", "beside"}) /\ (Unharmed({"corrupt"}) \/ Unharmed({"early", "checksum"}))) =>
        /\ Whole /\ file # Corrupt
        /\ Unharmed({"early", "checksum"}) =>
              /\ pc # "idle" => Files \subseteq seen.files
              /\ pc = "download" => verified

LEMMA WholeInit == Init => WholeInv
<1> SUFFICES ASSUME Init PROVE WholeInv
  OBVIOUS
<1>1. \A a \in Assets : binary[a] \in {Absent, 1}
  BY DEF Init
<1> QED
  BY <1>1, FileContents, UpdateAssumption DEF Init, WholeInv, Whole

LEMMA WholeNext == TypeOK /\ CopyInv /\ WholeInv /\ [Next]_vars => WholeInv'
<1> DEFINE Seen == Unharmed({"early", "checksum"}) =>
                       /\ pc # "idle" => Files \subseteq seen.files
                       /\ pc = "download" => verified
<1> SUFFICES ASSUME TypeOK, CopyInv, WholeInv, [Next]_vars, Unharmed({"cut", "beside"})',
                    (Unharmed({"corrupt"}) \/ Unharmed({"early", "checksum"}))'
             PROVE  Whole' /\ (file # Corrupt)' /\ Seen'
  BY DEF WholeInv
<1>m. "beside" \notin mishaps /\ mishaps \subseteq mishaps'
  BY MishapsGrow DEF Unharmed
<1>0. Whole /\ file # Corrupt /\ Seen
  BY <1>m DEF WholeInv, Unharmed
<1>c. Corrupt' = Corrupt
  BY DEF Corrupt
<1>1. CASE Poll
  <2>1. \/ pc' = "idle" /\ UNCHANGED seen
        \/ pc' = "etag" /\ (Files \subseteq seen'.files \/ "early" \in mishaps')
    BY <1>1 DEF Poll, Fails, AllFiles
  <2> QED
    BY <1>0, <1>1, <1>c, <1>m, <2>1 DEF Poll, Unharmed, Whole, disk
<1>2. CASE SaveEtag
  BY <1>0, <1>2, <1>c DEF SaveEtag, Whole, script, Works, Unharmed
<1>3. CASE Compare
  BY <1>0, <1>3, <1>c, FileContents DEF Compare, Exit, Whole, disk, Works, Unharmed
<1>4. CASE Asset
  <2>1. Head(todo) \in Assets
    BY <1>4, HeadOfTodo DEF Asset
  <2>2. Unharmed({"early", "checksum"})' => <<Head(todo), "sha256">> \in seen.files
    BY <1>0, <1>4, <1>m, <2>1 DEF Asset, Files, Unharmed
  <2>3. Unharmed({"early", "checksum"})' => (pc' = "download" => verified')
    BY <1>4, <2>2 DEF Asset, Fails, Unharmed
  <2> QED
    BY <1>0, <1>4, <1>c, <1>m, <2>3 DEF Asset, Whole, disk, Unharmed
<1>5. CASE Download
  <2>1. Content(Head(todo), seen.tag) # Corrupt
    BY <1>5, ContentIsPublished, FileContents DEF Download
  <2>2. file' # Corrupt
    BY <1>0, <1>5, <1>m, <2>1 DEF Download, Fails, Unharmed
  <2> QED
    BY <1>0, <1>5, <1>c, <1>m, <2>2 DEF Download, Whole, disk, Unharmed
<1>6. CASE Backup
  <2>1. /\ \A a \in Assets : a # Head(todo) => prev'[a] = prev[a]
        /\ pc' = "copy" \/ (pc' = "move" /\ UNCHANGED prev)
        /\ pc = "backup" /\ UNCHANGED <<binary, running, todo, seen, file, mishaps>>
    BY <1>6 DEF Backup, TypeOK, Works
  <2> QED
    BY <1>0, <1>c, <2>1 DEF Whole, Unharmed
<1>7. CASE Copy
  <2>1. /\ prev' = [prev EXCEPT ![Head(todo)] = old] /\ old = binary[Head(todo)]
        /\ UNCHANGED <<binary, running, seen, file, mishaps>> /\ pc = "copy" /\ pc' = "move"
    BY <1>7, <1>m, FileContents DEF Copy, CopyInv, script, Works
  <2>2. \A a \in Assets : prev'[a] # Corrupt
    BY <1>0, <2>1, <1>7, HeadOfTodo DEF Whole, TypeOK, Replacing
  <2> QED
    BY <1>0, <1>c, <2>1, <2>2 DEF Whole, Unharmed
<1>8. CASE Move
  <2>1. /\ \A a \in Assets : a # Head(todo) => binary'[a] = binary[a]
        /\ Head(todo) \in Assets /\ pc = "move" /\ UNCHANGED <<prev, running, seen, mishaps>>
        /\ \/ binary'[Head(todo)] = file /\ pc' = "asset" /\ file' = Absent
           \/ pc' = "moving" /\ UNCHANGED <<file, todo>>
    BY <1>8, HeadOfTodo DEF Move, Installs, TypeOK, Replacing, Works
  <2> QED
    BY <1>0, <1>c, <2>1, FileContents DEF Whole, Unharmed
<1>9. CASE Moved
  <2>1. /\ \A a \in Assets : a # Head(todo) => binary'[a] = binary[a]
        /\ binary'[Head(todo)] = file /\ pc' = "asset" /\ file' = Absent
        /\ pc = "moving" /\ UNCHANGED <<prev, running, seen, mishaps>>
    BY <1>9, <1>m, HeadOfTodo DEF Moved, Installs, TypeOK, Replacing, CopyInv, Works
  <2> QED
    BY <1>0, <1>c, <2>1, FileContents DEF Whole, Unharmed
<1>10. CASE Finish
  BY <1>0, <1>10, <1>c, FileContents DEF Finish, Exit, Whole, script, Works, Unharmed
<1>11. CASE Restart
  <2>1. \A a \in Services : running'[a] \in {running[a], binary[a]}
    BY <1>11 DEF Restart
  <2>2. pc = "restart" /\ pc' = "idle" /\ file' = Absent /\ UNCHANGED disk
    BY <1>11 DEF Restart, Exit
  <2> QED
    BY <1>0, <1>c, <2>1, <2>2, FileContents, UpdateAssumption DEF Whole, disk
<1>12. CASE Kill
  <2>1. pc \notin {"copy", "moving"} /\ pc' = "idle" /\ file' = Absent /\ UNCHANGED <<disk, running>>
    BY <1>12 DEF Kill, Exit, Unharmed
  <2> QED
    BY <1>0, <1>c, <2>1, FileContents DEF Whole, disk
<1>13. CASE Release \/ Publish \/ UNCHANGED vars
  <2>1. UNCHANGED <<disk, running, pc, script, mishaps>>
    BY <1>13 DEF Release, Publish, Upload, vars, Works
  <2> QED
    BY <1>0, <1>c, <2>1 DEF Whole, disk, script, Unharmed
<1>14. CASE Rollback
  <2>1. pc = "idle" /\ UNCHANGED <<pc, script>>
    BY <1>14 DEF Rollback, Fails, Unharmed
  <2>2. \A a \in Assets : binary'[a] \in {binary[a], prev[a]} /\ prev'[a] = Absent
    BY <1>14 DEF Rollback
  <2>3. \A a \in Services : running'[a] = binary'[a]
    BY <1>14 DEF Rollback
  <2> QED
    BY <1>0, <1>c, <2>1, <2>2, <2>3, FileContents, UpdateAssumption DEF Whole, script
<1> QED
  BY <1>1, <1>2, <1>3, <1>4, <1>5, <1>6, <1>7, <1>8, <1>9, <1>10, <1>11, <1>12, <1>13, <1>14
     DEF Next, Run

\* NothingCorrupt: nothing corrupt is installed, kept or run, but what is just
\* being written, where releases are polled whole and their hashes can be
\* fetched, or the downloads arrive as they were published, no write is cut and
\* nobody rolls back beside the script; whatever else fails or is killed.
THEOREM NothingCorruptHolds == Spec => []NothingCorrupt
<1>1. WholeInv => NothingCorrupt
  BY DEF WholeInv, NothingCorrupt
<1>2. Init => CopyInv
  BY DEF Init, CopyInv
<1> QED
  BY <1>1, <1>2, TypeInit, TypeNext, CopyNext, WholeInit, WholeNext, PTL DEF Spec

\* A copy differs from its binary, and so does what is on its way in from what
\* it replaces; once cp is through and until mv begins, the copy of the asset
\* at hand is the one exception. A binary that is there is never gone.
DiffersInv ==
    Unharmed({"early", "checksum", "kill", "beside"}) =>
        /\ \A a \in Assets :
              (prev[a] # Absent /\ ~(pc = "move" /\ a = Head(todo))) => prev[a] # binary[a]
        /\ pc = "download" => (verified /\ binary[Head(todo)] # Content(Head(todo), seen.tag))
        /\ pc \in {"backup", "copy", "move"} => binary[Head(todo)] # file
        /\ pc = "moving" => prev[Head(todo)] # file
        /\ pc # "idle" => Files \subseteq seen.files
        /\ \A a \in Assets : prev[a] # Absent => binary[a] # Absent

LEMMA DiffersInit == Init => DiffersInv
  BY DEF Init, DiffersInv

LEMMA DiffersNext ==
  TypeOK /\ CopyInv /\ WholeInv /\ DiffersInv /\ [Next]_vars => DiffersInv'
<1> DEFINE Copies == \A a \in Assets :
               (prev[a] # Absent /\ ~(pc = "move" /\ a = Head(todo))) => prev[a] # binary[a]
           Pending == /\ pc = "download" => (verified /\ binary[Head(todo)] # Content(Head(todo), seen.tag))
                      /\ pc \in {"backup", "copy", "move"} => binary[Head(todo)] # file
                      /\ pc = "moving" => prev[Head(todo)] # file
           Seen == pc # "idle" => Files \subseteq seen.files
           Kept == \A a \in Assets : prev[a] # Absent => binary[a] # Absent
<1> SUFFICES ASSUME TypeOK, CopyInv, WholeInv, DiffersInv, [Next]_vars,
                    Unharmed({"early", "checksum", "kill", "beside"})'
             PROVE  Copies' /\ Pending' /\ Seen' /\ Kept'
  BY DEF DiffersInv
<1>m. Unharmed({"early", "checksum", "kill", "beside"}) /\ "cut" \notin mishaps
  BY MishapsGrow DEF Unharmed, TypeOK
<1>0. Copies /\ Pending /\ Seen /\ Kept
  BY <1>m DEF DiffersInv
<1>w. Whole /\ file # Corrupt
  BY <1>m DEF WholeInv, Unharmed
<1>1. CASE Poll
  BY <1>0, <1>1 DEF Poll, Fails, Unharmed, disk, AllFiles
<1>2. CASE SaveEtag \/ Compare \/ Finish \/ Restart
  BY <1>0, <1>2 DEF SaveEtag, Compare, Finish, Restart, Exit, disk, script
<1>3. CASE Asset
  <2>1. Head(todo) \in Assets
    BY <1>3, HeadOfTodo DEF Asset
  <2>2. <<Head(todo), "sha256">> \in seen.files
    BY <1>0, <1>3, <2>1 DEF Asset, Files
  <2>3. pc' = "download" =>
          verified' /\ todo' = todo /\ binary[Head(todo)] # Content(Head(todo), seen.tag)
    BY <1>3, <2>2 DEF Asset, Fails, Unharmed
  <2> QED
    BY <1>0, <1>3, <2>3 DEF Asset, disk
<1>4. CASE Download
  <2>1. pc' = "backup" => file' = Content(Head(todo), seen.tag) /\ todo' = todo
    BY <1>0, <1>4 DEF Download
  <2>2. pc' \in {"backup", "asset"} /\ UNCHANGED <<binary, prev, seen>>
    BY <1>4 DEF Download, disk
  <2> QED
    BY <1>0, <1>4, <2>1, <2>2 DEF Download
<1>5. CASE Backup
  <2>1. \A a \in Assets : a # Head(todo) => prev'[a] = prev[a]
    BY <1>5 DEF Backup, TypeOK
  <2>2. \/ pc' = "move" /\ UNCHANGED prev /\ binary[Head(todo)] = Absent
        \/ pc' = "copy" /\ prev'[Head(todo)] = Corrupt /\ binary[Head(todo)] # Absent
    BY <1>5, HeadOfTodo DEF Backup, TypeOK, Replacing
  <2>3. UNCHANGED <<binary, todo, file, seen>> /\ pc = "backup"
    BY <1>5 DEF Backup
  <2>4. \A a \in Assets : binary[a] # Corrupt
    BY <1>w, <2>3 DEF Whole
  <2> QED
    BY <1>0, <2>1, <2>2, <2>3, <2>4
<1>6. CASE Copy
  <2>1. /\ prev' = [prev EXCEPT ![Head(todo)] = old] /\ old = binary[Head(todo)] /\ old # Absent
        /\ UNCHANGED <<binary, seen, file, todo>> /\ pc = "copy" /\ pc' = "move"
    BY <1>6, <1>m, FileContents DEF Copy, CopyInv, script, Unharmed
  <2>2. \A a \in Assets : a # Head(todo) => prev'[a] = prev[a]
    BY <2>1 DEF TypeOK
  <2> QED
    BY <1>0, <2>1, <2>2
<1>7. CASE Move \/ Moved
  <2>1. /\ \A a \in Assets : a # Head(todo) => binary'[a] = binary[a]
        /\ Head(todo) \in Assets /\ file # Absent /\ UNCHANGED <<prev, seen>>
    BY <1>7, HeadOfTodo DEF Move, Moved, TypeOK, Replacing
  <2>2. prev[Head(todo)] # file
    BY <1>0, <1>7, <1>m, <2>1 DEF Move, Moved, CopyInv, Unharmed
  <2>3. \/ binary'[Head(todo)] = file /\ pc' = "asset"
        \/ binary'[Head(todo)] = Corrupt /\ pc' = "moving" /\ UNCHANGED <<todo, file>>
    BY <1>7, <1>m, <2>1 DEF Move, Moved, Installs, CopyInv, TypeOK, Unharmed
  <2>4. \A a \in Assets : prev[a] # Corrupt /\ pc # "idle"
    BY <1>7, <1>w DEF Whole, Move, Moved
  <2>5. \A a \in Assets : (prev[a] # Absent /\ a # Head(todo)) => prev[a] # binary[a]
    BY <1>0
  <2>6. Corrupt # Absent
    BY FileContents
  <2>7. \A a \in Assets : prev[a] # Absent => (prev'[a] # binary'[a] /\ binary'[a] # Absent)
    BY <1>0, <2>1, <2>2, <2>3, <2>4, <2>5, <2>6
  <2> QED
    BY <1>0, <2>1, <2>2, <2>3, <2>4, <2>7
<1>8. CASE Kill
  BY <1>8 DEF Kill, Unharmed
<1>9. CASE Release \/ Publish \/ UNCHANGED vars
  BY <1>0, <1>9 DEF Release, Publish, Upload, vars, disk, script
<1>10. CASE Rollback
  <2>1. \A a \in Assets : prev'[a] = Absent
    BY <1>10 DEF Rollback
  <2>2. pc = "idle" /\ UNCHANGED <<pc, script>>
    BY <1>10 DEF Rollback, Fails, Unharmed
  <2> QED
    BY <1>0, <2>1, <2>2 DEF script
<1> QED
  BY <1>1, <1>2, <1>3, <1>4, <1>5, <1>6, <1>7, <1>8, <1>9, <1>10 DEF Next, Run

\* BackupDiffers: a rollback brings another binary, where hashes are to be had,
\* releases are polled whole, the script is not killed and nobody rolls back
\* beside it.
THEOREM BackupDiffersHolds == Spec => []BackupDiffers
<1>1. DiffersInv => BackupDiffers
  BY DEF DiffersInv, BackupDiffers
<1>2. Init => CopyInv
  BY DEF Init, CopyInv
<1> QED
  BY <1>1, <1>2, TypeInit, TypeNext, CopyNext, WholeInit, WholeNext, DiffersInit, DiffersNext,
     PTL DEF Spec

-----------------------------------------------------------------------------
(* What the version file says of the binaries.                             *)

\* The loop over the assets, and whether it still has to come to one.
Looping == pc \in {"asset", "download"} \cup Replacing
Pending(a) == \E i \in 1..Len(todo) : todo[i] = a

\* What release t or a later one holds for an asset.
Since(a, t) == {Content(a, u) : u \in t..tag}

SeenWhole ==
    /\ pc # "idle" => (Files \subseteq seen.files /\ versionFile <= seen.tag)
    /\ pc \in Replacing => file = Content(Head(todo), seen.tag)

\* An asset that the loop is through with is the seen release's.
DoneIsInstalled ==
    Looping => /\ \A a \in Assets : Pending(a) \/ binary[a] = Content(a, seen.tag)
               /\ todo = AssetList \/ installed \/ skipped

\* An asset of the release that the version file names was rolled back, or is
\* installed, or is on its way to a later release, or got there and the script
\* was killed, in the middle of a write or not. Then its copy is of that
\* release or a later one too, or cut: without this, a rollback after a kill
\* could bring anything.
Accounted(a) ==
    \/ <<a, Content(a, versionFile)>> \in refused
    \/ binary[a] = Content(a, versionFile)
    \/ /\ prev[a] \in Since(a, versionFile) \cup {Absent, Corrupt}
       /\ \/ /\ binary[a] \in Since(a, versionFile)
             /\ "kill" \in mishaps \/ (Looping /\ binary[a] = Content(a, seen.tag))
          \/ /\ binary[a] = Corrupt
             /\ "cut" \in mishaps \/ (pc = "moving" /\ a = Head(todo))

InstalledInv ==
    Unharmed({"early", "download", "corrupt", "beside"}) =>
        /\ SeenWhole /\ DoneIsInstalled
        /\ versionFile # 0 => \A a \in Assets : Accounted(a)

LEMMA InstalledInit == Init => InstalledInv
<1> SUFFICES ASSUME Init PROVE InstalledInv
  OBVIOUS
<1>1. SeenWhole /\ DoneIsInstalled /\ versionFile = 0
  BY DEF Init, SeenWhole, DoneIsInstalled, Looping, Replacing
<1> QED
  BY <1>1 DEF InstalledInv

\* The loop comes to every asset of the list, one after the other.
LEMMA AllPending == \A a \in Assets : \E i \in 1..Len(AssetList) : AssetList[i] = a
  BY DEF Assets

LEMMA PendingTail ==
  ASSUME TypeOK, todo # <<>>, NEW a, Pending(a), a # Head(todo)
  PROVE  \E i \in 1..Len(Tail(todo)) : Tail(todo)[i] = a
<1>1. PICK i \in 1..Len(todo) : todo[i] = a
  BY DEF Pending
<1>2. todo \in Seq(Assets) /\ i # 1
  BY <1>1 DEF TypeOK
<1>3. i - 1 \in 1..Len(Tail(todo)) /\ Tail(todo)[i - 1] = todo[i]
  BY <1>1, <1>2
<1> QED
  BY <1>1, <1>3

\* The asset at hand is pending.
LEMMA HeadPending ==
  ASSUME TypeOK, todo # <<>>
  PROVE  Pending(Head(todo))
<1>1. todo \in Seq(Assets) /\ 1 \in 1..Len(todo) /\ todo[1] = Head(todo)
  BY DEF TypeOK
<1> QED
  BY <1>1 DEF Pending

\* The step of the loop that is through with its asset.
LEMMA DoneNext ==
  ASSUME TypeOK, Looping, DoneIsInstalled, todo # <<>>, todo' = Tail(todo),
         UNCHANGED seen, installed' \/ skipped',
         binary'[Head(todo)] = Content(Head(todo), seen.tag),
         \A a \in Assets : a # Head(todo) => binary'[a] = binary[a]
  PROVE  DoneIsInstalled'
<1> SUFFICES ASSUME NEW a \in Assets PROVE (Pending(a) \/ binary[a] = Content(a, seen.tag))'
  BY DEF DoneIsInstalled
<1>1. CASE a = Head(todo)
  BY <1>1 DEF Content
<1>2. CASE a # Head(todo) /\ Pending(a)
  BY <1>2, PendingTail DEF Pending
<1>3. CASE a # Head(todo) /\ ~Pending(a)
  BY <1>3 DEF DoneIsInstalled, Content
<1> QED
  BY <1>1, <1>2, <1>3

\* A step that is not through with its asset.
LEMMA DoneStays ==
  ASSUME TypeOK, Looping, DoneIsInstalled, UNCHANGED <<todo, seen, installed, skipped>>,
         \A a \in Assets : Pending(a) \/ binary'[a] = binary[a]
  PROVE  DoneIsInstalled'
  BY DEF DoneIsInstalled, Pending, Content

\* Releases only get more: what was of a release or a later one stays so.
LEMMA SinceGrows ==
  ASSUME TypeOK, tag' \in {tag, tag + 1}, UNCHANGED versionFile, NEW a
  PROVE  Since(a, versionFile) \subseteq Since(a, versionFile)'
<1>1. tag \in Nat /\ versionFile \in Nat
  BY UpdateAssumption DEF TypeOK
<1> QED
  BY <1>1 DEF Since, Content

\* A step that leaves the binaries, the copies and the version file alone, and
\* does not leave the loop or a write unless it is by a kill, keeps the account.
LEMMA AccountedStays ==
  ASSUME TypeOK, NEW a, Accounted(a), UNCHANGED <<binary, prev, versionFile>>,
         tag' \in {tag, tag + 1}, refused \subseteq refused', mishaps \subseteq mishaps',
         "kill" \in mishaps' \/ (Looping => Looping' /\ UNCHANGED seen),
         pc # "moving" \/ "cut" \in mishaps' \/ UNCHANGED <<pc, todo>>
  PROVE  Accounted(a)'
  BY SinceGrows DEF Accounted, Content, Corrupt

\* A step of the loop that changes a binary only to what was downloaded, or to
\* what mv has written so far, keeps the account.
LEMMA AccountedMoves ==
  ASSUME TypeOK, CopyInv, "beside" \notin mishaps, NEW a \in Assets, Accounted(a),
         versionFile # 0, versionFile <= seen.tag, SeenWhole,
         Move \/ Moved
  PROVE  Accounted(a)'
<1> DEFINE h == Head(todo)
<1>1. /\ h \in Assets /\ binary \in [Assets -> Contents] /\ tag \in Nat /\ versionFile \in 0..tag
      /\ seen.tag \in versionFile..tag /\ file = Content(h, seen.tag) /\ pc \in {"move", "moving"}
  BY HeadOfTodo, UpdateAssumption DEF TypeOK, Move, Moved, SeenWhole, Replacing
<1>2. UNCHANGED <<seen, prev, versionFile, refused, tag, mishaps>> /\ Looping /\ Looping'
  BY DEF Move, Moved, Installs, Works, github, Looping, Replacing
<1>3. /\ Since(a, versionFile)' = Since(a, versionFile)
      /\ Content(a, versionFile)' = Content(a, versionFile)
      /\ Content(a, seen.tag)' = Content(a, seen.tag) /\ Corrupt' = Corrupt
  BY <1>2 DEF Since, Content, Corrupt
<1>4. CASE a # h
  <2>1. binary'[a] = binary[a]
    BY <1>1, <1>4 DEF Move, Moved
  <2>2. ~(pc = "moving" /\ a = h)
    BY <1>4
  <2> QED
    BY <1>2, <1>3, <2>1, <2>2 DEF Accounted
<1>5. CASE a = h
  <2>1. Content(a, versionFile) \in Since(a, versionFile) /\ Content(a, seen.tag) \in Since(a, versionFile)
    BY <1>1 DEF Since
  <2>2. Content(a, versionFile) \in 1..MaxTag
    BY <1>1, UpdateAssumption DEF Content, TypeOK
  <2>3. \/ <<a, Content(a, versionFile)>> \in refused
        \/ prev[a] \in Since(a, versionFile) \cup {Absent, Corrupt}
    <3>1. CASE binary[a] = Content(a, versionFile)
      <4>1. prev[a] = binary[a] \/ binary[a] = Corrupt
        BY <1>1, <1>5, <2>2, <3>1, FileContents DEF CopyInv
      <4> QED
        BY <2>1, <2>2, <3>1, <4>1, FileContents
    <3> QED
      BY <3>1 DEF Accounted
  <2>4. \/ binary'[a] = Content(a, seen.tag)
        \/ binary'[a] = Corrupt /\ pc' = "moving" /\ a = Head(todo')
    BY <1>1, <1>5 DEF Move, Moved, CopyInv
  <2> QED
    BY <1>2, <1>3, <2>1, <2>3, <2>4 DEF Accounted
<1> QED
  BY <1>4, <1>5

\* A rollback takes out what is on the account.
LEMMA AccountedRollback ==
  ASSUME TypeOK, Rollback, pc = "idle", NEW a \in Assets, Accounted(a), versionFile # 0,
         "cut" \in mishaps \/ Whole
  PROVE  Accounted(a)'
<1>1. /\ binary'[a] = (IF prev[a] # Absent THEN prev[a] ELSE binary[a]) /\ prev'[a] = Absent
      /\ UNCHANGED <<versionFile, tag, pc, seen>> /\ ~Looping
      /\ refused \subseteq refused'
  BY DEF Rollback, Looping, Replacing, github, script
<1>m. mishaps \subseteq mishaps' /\ ("cut" \in mishaps => "kill" \in mishaps)
  BY DEF Rollback, Works, Fails, TypeOK
<1>2. /\ Since(a, versionFile)' = Since(a, versionFile)
      /\ Content(a, versionFile)' = Content(a, versionFile) /\ Corrupt' = Corrupt
  BY <1>1 DEF Since, Content, Corrupt
<1>3. Content(a, versionFile) \in 1..MaxTag
  BY UpdateAssumption DEF Content, TypeOK
<1>4. prev[a] = Corrupt => "cut" \in mishaps
  BY DEF Whole
<1>5. CASE binary'[a] = binary[a]
  BY <1>1, <1>2, <1>m, <1>5 DEF Accounted
<1>6. CASE binary'[a] = Corrupt /\ binary'[a] # binary[a]
  <2>1. "cut" \in mishaps'
    BY <1>1, <1>4, <1>6, <1>m
  <2> QED
    BY <1>1, <1>2, <1>6, <2>1 DEF Accounted
<1>7. CASE binary'[a] # Corrupt /\ binary'[a] # binary[a] /\ binary[a] = Content(a, versionFile)
  <2>1. prev[a] # binary[a] /\ {prev[a], binary[a]} \cap {Absent, Corrupt} = {}
    BY <1>1, <1>3, <1>7, FileContents
  <2>2. <<a, binary[a]>> \in refused'
    BY <2>1 DEF Rollback
  <2> QED
    BY <1>2, <1>7, <2>2 DEF Accounted
<1>8. CASE binary'[a] # Corrupt /\ binary'[a] # binary[a] /\ binary[a] # Content(a, versionFile)
  <2>1. CASE <<a, Content(a, versionFile)>> \in refused
    BY <1>1, <1>2, <2>1 DEF Accounted
  <2>2. CASE <<a, Content(a, versionFile)>> \notin refused
    <3>1. prev[a] \in Since(a, versionFile) /\ ("kill" \in mishaps \/ "cut" \in mishaps)
      BY <1>1, <1>8, <2>2 DEF Accounted
    <3> QED
      BY <1>1, <1>2, <1>8, <1>m, <3>1 DEF Accounted
  <2> QED
    BY <2>1, <2>2
<1> QED
  BY <1>5, <1>6, <1>7, <1>8

LEMMA InstalledNext ==
  TypeOK /\ CopyInv /\ WholeInv /\ InstalledInv /\ [Next]_vars => InstalledInv'
<1> SUFFICES ASSUME TypeOK, CopyInv, WholeInv, InstalledInv, [Next]_vars,
                    Unharmed({"early", "download", "corrupt", "beside"})'
             PROVE  /\ SeenWhole' /\ DoneIsInstalled'
                    /\ (versionFile # 0 => \A a \in Assets : Accounted(a))'
  BY DEF InstalledInv
<1>m. mishaps \subseteq mishaps' /\ "beside" \notin mishaps /\ "corrupt" \notin mishaps
  BY MishapsGrow DEF Unharmed
<1>0. /\ SeenWhole /\ DoneIsInstalled
      /\ versionFile # 0 => \A a \in Assets : Accounted(a)
  BY <1>m DEF InstalledInv, Unharmed
<1>t. tag \in Nat /\ versionFile \in 0..tag
  BY UpdateAssumption DEF TypeOK
<1>1. CASE Poll
  <2>1. \/ pc' = "idle" /\ UNCHANGED seen
        \/ pc' = "etag" /\ Files \subseteq seen'.files /\ seen'.tag = tag
    BY <1>1 DEF Poll, Fails, Unharmed, AllFiles
  <2>2. pc = "idle" /\ UNCHANGED <<versionFile, tag, binary, prev, refused, todo>>
    BY <1>1 DEF Poll, github, disk
  <2>3. SeenWhole' /\ DoneIsInstalled'
    BY <1>0, <1>t, <2>1, <2>2 DEF SeenWhole, DoneIsInstalled, Looping, Replacing
  <2> QED
    BY <1>0, <1>m, <2>1, <2>2, <2>3, AccountedStays DEF Looping, Replacing
<1>2. CASE SaveEtag
  <2>1. SeenWhole' /\ DoneIsInstalled'
    BY <1>0, <1>2 DEF SaveEtag, SeenWhole, DoneIsInstalled, Looping, Replacing, script
  <2> QED
    BY <1>0, <1>2, <1>m, <2>1, AccountedStays DEF SaveEtag, Looping, Replacing, github
<1>3. CASE Compare
  <2>1. pc' = "idle" \/ (pc' = "asset" /\ todo' = AssetList /\ UNCHANGED seen)
    BY <1>3 DEF Compare, Exit
  <2>2. SeenWhole'
    BY <1>0, <1>3, <2>1 DEF Compare, SeenWhole, Replacing, disk
  <2>3. DoneIsInstalled'
    BY <2>1, AllPending DEF DoneIsInstalled, Looping, Pending, Replacing
  <2> QED
    BY <1>0, <1>3, <1>m, <2>2, <2>3, AccountedStays DEF Compare, Looping, Replacing, github, disk
<1>4. CASE Asset
  <2>1. Head(todo) \in Assets /\ <<Head(todo), "binary">> \in seen.files
    BY <1>0, <1>4, HeadOfTodo DEF Asset, Files, SeenWhole
  <2>2. SeenWhole' /\ Looping /\ Looping' /\ UNCHANGED <<binary, seen>>
    BY <1>0, <1>4 DEF Asset, SeenWhole, Looping, Replacing, disk
  <2>3. DoneIsInstalled'
    <3>1. CASE UNCHANGED <<todo, installed, skipped>>
      BY <1>0, <2>2, <3>1, DoneStays
    <3>2. CASE todo' = Tail(todo) /\ skipped' /\ binary[Head(todo)] = Content(Head(todo), seen.tag)
      BY <1>0, <1>4, <2>2, <3>2, DoneNext DEF Asset
    <3> QED
      BY <1>4, <2>1, <3>1, <3>2 DEF Asset
  <2> QED
    BY <1>0, <1>4, <1>m, <2>2, <2>3, AccountedStays DEF Asset, github, disk
<1>5. CASE Download
  <2>1. /\ file' = Content(Head(todo), seen.tag) /\ pc' = "backup"
        /\ UNCHANGED <<todo, seen, binary, prev, versionFile, installed, skipped>>
    BY <1>5 DEF Download, Fails, Unharmed, disk
  <2>2. SeenWhole' /\ Looping /\ Looping'
    BY <1>0, <1>5, <2>1 DEF Download, SeenWhole, Looping, Content, Replacing
  <2>3. DoneIsInstalled'
    BY <1>0, <2>1, <2>2, DoneStays
  <2> QED
    BY <1>0, <1>5, <1>m, <2>1, <2>2, <2>3, AccountedStays DEF Download, github
<1>6. CASE Backup \/ Copy
  <2>1. /\ \A a \in Assets : prev'[a] \in {prev[a], Corrupt, binary[a]}
        /\ pc \in {"backup", "copy"} /\ pc' \in {"copy", "move"}
        /\ UNCHANGED <<todo, seen, binary, versionFile, installed, skipped, file, refused, tag, mishaps>>
    BY <1>6, <1>m, FileContents DEF Backup, Copy, CopyInv, script, github, TypeOK, Works
  <2>2. SeenWhole' /\ Looping /\ Looping'
    BY <1>0, <2>1 DEF SeenWhole, Looping, Content, Replacing
  <2>3. DoneIsInstalled'
    BY <1>0, <2>1, <2>2, DoneStays
  <2>4. ASSUME NEW a \in Assets, Accounted(a) PROVE Accounted(a)'
    <3>1. /\ Since(a, versionFile)' = Since(a, versionFile) /\ Corrupt' = Corrupt
          /\ Content(a, versionFile)' = Content(a, versionFile)
          /\ Content(a, seen.tag)' = Content(a, seen.tag)
      BY <2>1 DEF Since, Content, Corrupt
    <3> QED
      BY <2>1, <2>2, <2>4, <3>1 DEF Accounted
  <2> QED
    BY <1>0, <2>1, <2>2, <2>3, <2>4
<1>7. CASE Move \/ Moved
  <2> DEFINE h == Head(todo)
  <2>1. /\ h \in Assets /\ todo # <<>> /\ Looping /\ Looping' /\ pc \in {"move", "moving"}
        /\ \A a \in Assets : a # h => binary'[a] = binary[a]
        /\ file = Content(h, seen.tag)
    BY <1>0, <1>7, HeadOfTodo DEF Move, Moved, Installs, TypeOK, Looping, Replacing, SeenWhole
  <2>2. UNCHANGED <<seen, versionFile>>
    BY <1>7 DEF Move, Moved
  <2>3. \/ pc' = "moving" /\ UNCHANGED <<todo, file, installed, skipped>>
        \/ /\ pc' = "asset" /\ installed' /\ todo' = Tail(todo) /\ binary'[h] = file
    BY <1>7, <1>m, <2>1 DEF Move, Moved, Installs, TypeOK, CopyInv
  <2>4. SeenWhole'
    BY <1>0, <2>1, <2>2, <2>3 DEF SeenWhole, Content, Replacing
  <2>5. DoneIsInstalled'
    BY <1>0, <2>1, <2>2, <2>3, DoneNext, DoneStays, HeadPending
  <2>6. versionFile <= seen.tag
    BY <1>0, <2>1 DEF SeenWhole
  <2> QED
    BY <1>0, <1>7, <1>m, <2>2, <2>4, <2>5, <2>6, AccountedMoves
<1>8. CASE Finish
  <2>1. todo = <<>> /\ todo # AssetList /\ Looping /\ \A a : ~Pending(a)
    BY <1>8, UpdateAssumption DEF Finish, Looping, Pending, Replacing
  <2>2. /\ versionFile' = seen.tag /\ pc' \in {"idle", "restart"}
        /\ pc' = "restart" => UNCHANGED seen
        /\ UNCHANGED binary
    BY <1>0, <1>8, <2>1 DEF Finish, Exit, script, DoneIsInstalled
  <2>3. SeenWhole' /\ DoneIsInstalled'
    BY <1>0, <1>8, <1>t, <2>2 DEF Finish, SeenWhole, DoneIsInstalled, Looping, Replacing, TypeOK
  <2>4. \A a \in Assets : binary'[a] = Content(a, versionFile)'
    BY <1>0, <2>1, <2>2 DEF DoneIsInstalled, Content
  <2> QED
    BY <2>3, <2>4 DEF Accounted
<1>9. CASE Restart \/ Kill
  <2>1. /\ pc' = "idle" /\ UNCHANGED <<binary, prev, versionFile, tag, refused>>
        /\ ~Looping \/ "kill" \in mishaps'
        /\ pc # "moving" \/ "cut" \in mishaps'
    BY <1>9 DEF Restart, Kill, Exit, Looping, Replacing, github, disk
  <2>2. SeenWhole' /\ DoneIsInstalled'
    BY <1>0, <2>1 DEF SeenWhole, DoneIsInstalled, Looping, Replacing
  <2> QED
    BY <1>0, <1>m, <2>1, <2>2, AccountedStays
<1>10. CASE Release \/ Publish \/ UNCHANGED vars
  <2>1. tag' \in {tag, tag + 1} /\ UNCHANGED <<binary, prev, versionFile, refused, pc, script>>
    BY <1>10 DEF Release, Publish, Upload, vars, github, disk
  <2>2. SeenWhole' /\ DoneIsInstalled'
    BY <1>0, <2>1 DEF SeenWhole, DoneIsInstalled, Looping, Pending, Content, script
  <2> QED
    BY <1>0, <1>m, <2>1, <2>2, AccountedStays DEF Looping, script
<1>11. CASE Rollback
  <2>1. pc = "idle" /\ UNCHANGED <<pc, versionFile, seen, todo>>
    BY <1>11 DEF Rollback, Fails, Unharmed, script
  <2>2. SeenWhole' /\ DoneIsInstalled'
    BY <2>1 DEF SeenWhole, DoneIsInstalled, Looping, Replacing
  <2>3. "cut" \in mishaps \/ Whole
    BY <1>m DEF WholeInv, Unharmed
  <2> QED
    BY <1>0, <1>11, <2>1, <2>2, <2>3, AccountedRollback
<1> QED
  BY <1>1, <1>2, <1>3, <1>4, <1>5, <1>6, <1>7, <1>8, <1>9, <1>10, <1>11 DEF Next, Run

\* VersionIsInstalled: with releases polled whole and downloads that arrive as
\* published, every asset of the release that the version file names is there,
\* unless a kill or a rollback accounts for another.
THEOREM VersionIsInstalledHolds == Spec => []VersionIsInstalled
<1>1. InstalledInv => VersionIsInstalled
  BY DEF InstalledInv, VersionIsInstalled, Accounted, Since, Looping, Replacing
<1>2. Init => CopyInv
  BY DEF Init, CopyInv
<1> QED
  BY <1>1, <1>2, TypeInit, TypeNext, CopyNext, WholeInit, WholeNext, InstalledInit,
     InstalledNext, PTL DEF Spec

-----------------------------------------------------------------------------
(* What was rolled back.                                                   *)

\* What an asset may hold once release t was its last to be installed.
UpTo(a, t) == {Absent, 1, Corrupt} \cup (IF a \in Unchanged THEN {} ELSE 1..t)

\* Release t was the last of an asset that was installed, or rolled back; and
\* nothing that is there, or that cp still holds, was rolled back.
Reached(a, t) ==
    /\ binary[a] \in UpTo(a, t) /\ prev[a] \in UpTo(a, t)
    /\ {<<a, binary[a]>>, <<a, prev[a]>>} \cap refused = {}
    /\ (pc = "copy" /\ a = Head(todo)) =>
          prev[a] \in {Absent, Corrupt} /\ old \in UpTo(a, t) /\ <<a, old>> \notin refused
    /\ \A c \in Contents : <<a, c>> \in refused => (a \notin Unchanged /\ c \in 1..t /\ c # Corrupt)

\* What is on its way in is what the seen release holds, or corrupt.
FileInv == pc \in Replacing => file \in {Corrupt, Content(Head(todo), seen.tag)}

LEMMA FileNext == TypeOK /\ FileInv /\ [Next]_vars => FileInv'
<1> SUFFICES ASSUME TypeOK, FileInv, [Next]_vars PROVE FileInv'
  OBVIOUS
<1>1. CASE Download
  <2>1. pc' = "backup" => file' \in {Corrupt, Content(Head(todo), seen.tag)} /\ todo' = todo
    BY <1>1 DEF Download
  <2>2. pc' \in {"backup", "asset"} /\ UNCHANGED <<seen, Corrupt>>
    BY <1>1 DEF Download, Corrupt
  <2> QED
    BY <2>1, <2>2 DEF FileInv, Content, Replacing
<1>2. CASE Backup \/ Copy \/ Move \/ Release \/ Publish \/ Rollback \/ UNCHANGED vars
  <2>1. \/ UNCHANGED <<file, todo, seen>> /\ (pc' \in Replacing => pc \in Replacing)
        \/ pc' \notin Replacing
    BY <1>2 DEF Backup, Copy, Move, Installs, Release, Publish, Upload, Rollback, vars, script,
       Replacing
  <2> QED
    BY <2>1 DEF FileInv, Content, Corrupt
<1>3. CASE Poll \/ SaveEtag \/ Compare \/ Asset \/ Moved \/ Finish \/ Restart \/ Kill
  <2>1. pc' \notin Replacing
    BY <1>3 DEF Poll, SaveEtag, Compare, Asset, Moved, Installs, Finish, Restart, Kill, Exit, Replacing
  <2> QED
    BY <2>1 DEF FileInv
<1> QED
  BY <1>1, <1>2, <1>3 DEF Next, Run

\* The loop comes to no asset twice.
OnceInv == \A i, j \in 1..Len(todo) : todo[i] = todo[j] => i = j

LEMMA OnceNext == TypeOK /\ OnceInv /\ [Next]_vars => OnceInv'
<1> SUFFICES ASSUME TypeOK, OnceInv, [Next]_vars PROVE OnceInv'
  OBVIOUS
<1>1. \/ todo' = todo \/ todo' = AssetList \/ todo' = <<>> \/ (todo # <<>> /\ todo' = Tail(todo))
  BY DEF Next, Run, Publish, Poll, SaveEtag, Compare, Asset, Download, Backup, Copy, Move, Moved,
     Installs, Finish, Restart, Kill, Release, Upload, Rollback, Exit, script, vars, TypeOK, Replacing
<1>2. CASE todo' = todo \/ todo' = <<>>
  BY <1>2 DEF OnceInv
<1>3. CASE todo' = AssetList
  BY <1>3, UpdateAssumption DEF OnceInv
<1>4. CASE todo # <<>> /\ todo' = Tail(todo)
  <2>1. todo \in Seq(Assets)
    BY DEF TypeOK
  <2>2. Len(todo') = Len(todo) - 1 /\ \A i \in 1..Len(todo') : todo'[i] = todo[i + 1] /\ i + 1 \in 1..Len(todo)
    BY <1>4, <2>1
  <2> QED
    BY <2>2 DEF OnceInv
<1> QED
  BY <1>1, <1>2, <1>3, <1>4

\* Once through with an asset, the loop does not come to it again, and what was
\* not to come before does not come after.
LEMMA PendingThrough ==
  ASSUME TypeOK, OnceInv, todo # <<>>, todo' = Tail(todo), NEW a
  PROVE  Pending(a)' => (Pending(a) /\ a # Head(todo))
<1>1. todo \in Seq(Assets) /\ 1 \in 1..Len(todo) /\ todo[1] = Head(todo)
  BY DEF TypeOK
<1>2. \A i \in 1..Len(todo') : todo'[i] = todo[i + 1] /\ i + 1 \in 1..Len(todo) /\ i + 1 # 1
  BY <1>1
<1> QED
  BY <1>1, <1>2 DEF Pending, OnceInv

\* A step to release u at most keeps what is reached, if what it moves in place
\* is of a release after t.
LEMMA ReachedNext ==
  ASSUME TypeOK, FileInv, [Next]_vars, NEW a \in Assets, NEW t \in Int, NEW u \in Int, t <= u,
         Reached(a, t),
         ((Move \/ Moved) /\ a = Head(todo) /\ pc' = "asset") => (t < seen.tag /\ seen.tag <= u)
  PROVE  Reached(a, u)'
<1>0. /\ UpTo(a, t) \subseteq UpTo(a, u) /\ UpTo(a, u)' = UpTo(a, u) /\ Contents' = Contents
      /\ Corrupt' = Corrupt /\ Absent \in Contents /\ Corrupt \in Contents
      /\ Absent \in UpTo(a, u) /\ Corrupt \in UpTo(a, u)
  BY FileContents DEF UpTo, Corrupt, Contents
<1>1. /\ binary[a] \in UpTo(a, u) /\ prev[a] \in UpTo(a, u)
      /\ \A c \in Contents : <<a, c>> \in refused => (a \notin Unchanged /\ c \in 1..t /\ c # Corrupt)
      /\ 1..t \subseteq 1..u
  BY <1>0 DEF Reached
<1>2. <<a, Absent>> \notin refused /\ <<a, Corrupt>> \notin refused
  BY <1>0, <1>1 DEF Absent
<1> HIDE DEF UpTo
<1>3. ASSUME UNCHANGED <<binary, prev, refused>>, pc' # "copy" \/ UNCHANGED <<pc, todo, old>>
      PROVE  Reached(a, u)'
  BY <1>0, <1>1, <1>3 DEF Reached
<1>4. CASE Poll \/ SaveEtag \/ Compare \/ Asset \/ Download \/ Finish \/ Restart \/ Kill
            \/ Release \/ Publish \/ UNCHANGED vars
  BY <1>3, <1>4 DEF Poll, SaveEtag, Compare, Asset, Download, Finish, Restart, Kill, Exit,
     Release, Publish, Upload, disk, script, vars
<1>5. CASE Backup
  <2>1. /\ prev'[a] = prev[a] \/ prev'[a] = Corrupt
        /\ (pc' = "copy" /\ a = Head(todo')) => (prev'[a] = Corrupt /\ old' = binary[a])
        /\ UNCHANGED <<binary, refused>>
    BY <1>5 DEF Backup, TypeOK
  <2> QED
    BY <1>0, <1>1, <1>2, <2>1 DEF Reached
<1>6. CASE Copy
  <2>1. /\ binary'[a] = binary[a] \/ (a = Head(todo) /\ binary'[a] = old)
        /\ prev'[a] = prev[a] \/ (a = Head(todo) /\ prev'[a] = old)
        /\ pc = "copy" /\ pc' = "move" /\ UNCHANGED refused
    BY <1>6 DEF Copy, TypeOK
  <2>2. a = Head(todo) => (old \in UpTo(a, u) /\ <<a, old>> \notin refused)
    BY <1>0, <2>1 DEF Reached
  <2> QED
    BY <1>0, <1>1, <2>1, <2>2 DEF Reached
<1>7. CASE Move \/ Moved
  <2>1. /\ \/ binary'[a] = binary[a] \/ binary'[a] = Corrupt
           \/ a = Head(todo) /\ binary'[a] = file /\ pc' = "asset"
        /\ UNCHANGED <<prev, refused>> /\ pc' # "copy" /\ pc \in Replacing
    BY <1>7 DEF Move, Moved, Installs, TypeOK, Replacing
  <2>2. CASE binary'[a] = binary[a] \/ binary'[a] = Corrupt
    BY <1>0, <1>1, <1>2, <2>1, <2>2 DEF Reached
  <2>3. CASE a = Head(todo) /\ binary'[a] = file /\ pc' = "asset"
    <3>1. file = Corrupt \/ (file = Content(a, seen.tag) /\ t < seen.tag /\ seen.tag <= u)
      BY <1>7, <2>1, <2>3 DEF FileInv
    <3>2. file \in UpTo(a, u) /\ <<a, file>> \notin refused
      <4>1. seen.tag \in 1..MaxTag /\ file \in Contents
        BY <2>1, UpdateAssumption DEF TypeOK, Replacing
      <4> QED
        BY <1>0, <1>1, <1>2, <3>1, <4>1 DEF UpTo, Content
    <3> QED
      BY <1>0, <1>1, <2>1, <2>3, <3>2 DEF Reached
  <2> QED
    BY <2>1, <2>2, <2>3
<1>8. CASE Rollback
  <2>1. /\ binary'[a] = (IF prev[a] # Absent THEN prev[a] ELSE binary[a]) /\ prev'[a] = Absent
        /\ UNCHANGED <<pc, todo, old>>
    BY <1>8 DEF Rollback, script
  <2>2. \A c \in Contents : <<a, c>> \in refused' =>
           \/ <<a, c>> \in refused
           \/ c = binary[a] /\ prev[a] # c /\ {prev[a], c} \cap {Absent, Corrupt} = {}
    BY <1>8 DEF Rollback
  <2>3. ASSUME NEW c \in Contents, c = binary[a], prev[a] # c, {prev[a], c} \cap {Absent, Corrupt} = {}
        PROVE  a \notin Unchanged /\ c \in 1..u /\ c # Corrupt
    <3>1. c \notin {Absent, Corrupt} /\ prev[a] \notin {Absent, Corrupt}
      BY <2>3
    <3>2. a \notin Unchanged
      BY <1>1, <2>3, <3>1 DEF UpTo
    <3>3. (c = 1 \/ c \in 1..u) /\ (prev[a] = 1 \/ prev[a] \in 1..u)
      BY <1>1, <2>3, <3>1, <3>2 DEF UpTo
    <3>4. c \in 1..u
      BY <2>3, <3>3
    <3> QED
      BY <3>1, <3>2, <3>4
  <2>4. \A c \in Contents : <<a, c>> \in refused' => (a \notin Unchanged /\ c \in 1..u /\ c # Corrupt)
    BY <1>1, <2>2, <2>3
  <2>5. binary[a] \in Contents /\ prev[a] \in Contents /\ old \in Contents
    BY DEF TypeOK
  <2>6. <<a, binary'[a]>> \notin refused' /\ <<a, prev'[a]>> \notin refused'
    <3>1. <<a, prev[a]>> \notin refused /\ <<a, binary[a]>> \notin refused
      BY DEF Reached
    <3>2. <<a, prev[a]>> \notin refused'
      BY <2>2, <2>5, <3>1
    <3>3. prev[a] = Absent => <<a, binary[a]>> \notin refused'
      BY <2>2, <2>5, <3>1
    <3>4. <<a, Absent>> \notin refused'
      BY <1>0, <2>4 DEF Absent
    <3> QED
      BY <2>1, <3>2, <3>3, <3>4
  <2>7. (pc = "copy" /\ a = Head(todo)) => (old \in UpTo(a, u) /\ <<a, old>> \notin refused')
    BY <1>0, <2>2, <2>5 DEF Reached
  <2> QED
    BY <1>0, <1>1, <2>1, <2>4, <2>6, <2>7 DEF Reached
<1> QED
  BY <1>4, <1>5, <1>6, <1>7, <1>8 DEF Next, Run

\* Without a kill, the version file remembers what was installed: it is
\* written at the end of every loop that installed something. Until then, the
\* assets still to come are those of the version file.
VersionBound(a) == IF Looping /\ installed /\ ~Pending(a) THEN seen.tag ELSE versionFile

VersionRemembers ==
    "kill" \notin mishaps =>
        /\ pc # "idle" => versionFile <= seen.tag
        /\ Looping => versionFile < seen.tag
        /\ pc \in {"idle", "etag", "compare"} => ~installed
        /\ pc = "restart" => versionFile = seen.tag
        /\ \A a \in Assets : Reached(a, VersionBound(a))

\* Where the assets' bounds only grow, and that of the asset that gets in place
\* to the seen release, what is reached stays so.
LEMMA VersionBoundNext ==
  ASSUME TypeOK, FileInv, [Next]_vars, NEW a \in Assets, Reached(a, VersionBound(a)),
         VersionBound(a) \in Int, VersionBound(a)' \in Int, VersionBound(a) <= VersionBound(a)',
         ((Move \/ Moved) /\ a = Head(todo) /\ pc' = "asset") =>
             (VersionBound(a) < seen.tag /\ seen.tag <= VersionBound(a)')
  PROVE  Reached(a, VersionBound(a))'
<1>1. PICK u \in Int : u = VersionBound(a)'
  OBVIOUS
<1> HIDE DEF VersionBound
<1>2. Reached(a, u)'
  BY <1>1, ReachedNext
<1> QED
  BY <1>1, <1>2 DEF Reached

LEMMA VersionRemembersNext ==
  TypeOK /\ FileInv /\ OnceInv /\ VersionRemembers /\ [Next]_vars => VersionRemembers'
<1> DEFINE Place == /\ pc # "idle" => versionFile <= seen.tag
                    /\ Looping => versionFile < seen.tag
                    /\ pc \in {"idle", "etag", "compare"} => ~installed
                    /\ pc = "restart" => versionFile = seen.tag
           Grows == \A a \in Assets : VersionBound(a)' \in Int /\ VersionBound(a) <= VersionBound(a)'
<1> SUFFICES ASSUME TypeOK, FileInv, OnceInv, VersionRemembers, [Next]_vars, "kill" \notin mishaps'
             PROVE  Place' /\ \A a \in Assets : Reached(a, VersionBound(a))'
  BY DEF VersionRemembers
<1>0. Place /\ \A a \in Assets : Reached(a, VersionBound(a))
  BY MishapsGrow DEF VersionRemembers
<1>t. /\ tag \in Nat /\ versionFile \in Nat /\ seen.tag \in Nat /\ versionFile <= tag
      /\ \A a : VersionBound(a) \in Int
  BY UpdateAssumption DEF TypeOK, VersionBound
<1>1. ASSUME Place', Grows,
             ((Move \/ Moved) /\ pc' = "asset") =>
                 (VersionBound(Head(todo)) < seen.tag /\ \A a : a = Head(todo) => seen.tag <= VersionBound(a)')
      PROVE  Place' /\ \A a \in Assets : Reached(a, VersionBound(a))'
  <2>1. ASSUME NEW a \in Assets PROVE Reached(a, VersionBound(a))'
    BY <1>0, <1>1, <1>t, <2>1, VersionBoundNext
  <2> QED
    BY <1>1, <2>1
<1>2. ASSUME UNCHANGED <<versionFile, seen, installed, todo>>, ~(Move \/ Moved) \/ pc' # "asset",
             \/ UNCHANGED pc \/ (Looping /\ Looping' /\ pc' # "restart")
             \/ pc = "etag" /\ pc' = "compare"
      PROVE  Place' /\ \A a \in Assets : Reached(a, VersionBound(a))'
  <2>1. Looping' = Looping
    BY <1>2 DEF Looping, Replacing
  <2>2. \A a : VersionBound(a)' = VersionBound(a)
    BY <1>2, <2>1 DEF VersionBound, Pending
  <2>3. Place'
    BY <1>0, <1>2, <2>1 DEF Looping, Replacing
  <2>4. Grows
    BY <1>t, <2>2
  <2> QED
    BY <1>1, <1>2, <2>3, <2>4
<1>3. CASE Poll
  <2>1. \/ UNCHANGED <<versionFile, seen, installed, todo, pc>>
        \/ pc = "idle" /\ pc' = "etag" /\ seen'.tag = tag /\ UNCHANGED <<versionFile, installed>>
    BY <1>3 DEF Poll, disk
  <2>2. ~Looping /\ ~Looping' /\ ~(Move \/ Moved)
    BY <1>3 DEF Poll, Move, Moved, Looping, Replacing
  <2>3. Place'
    BY <1>0, <1>3, <1>t, <2>1, <2>2 DEF Poll
  <2>4. Grows
    BY <1>t, <2>1, <2>2 DEF VersionBound
  <2> QED
    BY <1>1, <2>2, <2>3, <2>4
<1>4. CASE SaveEtag \/ Download \/ Backup \/ Copy \/ Release \/ Publish \/ Rollback \/ UNCHANGED vars
  <2>1. UNCHANGED <<versionFile, seen, installed>> /\ (UNCHANGED todo \/ Download)
    BY <1>4 DEF SaveEtag, Download, Backup, Copy, Release, Publish, Upload, Rollback, vars, disk, script
  <2>2. \/ UNCHANGED pc \/ (Looping /\ Looping' /\ pc' \in {"copy", "move", "asset", "backup"})
        \/ pc = "etag" /\ pc' = "compare"
    BY <1>4 DEF SaveEtag, Download, Backup, Copy, Release, Publish, Upload, Rollback, vars, Looping,
       Replacing
  <2>3. CASE UNCHANGED todo
    <3>1. ~(Move \/ Moved) \/ pc' # "asset"
      BY <1>4, <2>1, <2>3 DEF SaveEtag, Download, Backup, Copy, Release, Publish, Upload, Rollback,
         vars, Move, Moved, Installs
    <3> QED
      BY <1>2, <2>1, <2>2, <2>3, <3>1
  <2>4. CASE Download /\ todo' = Tail(todo)
    <3>1. todo # <<>> /\ Looping /\ Looping' /\ ~(Move \/ Moved) /\ pc' \in {"asset", "backup"}
      BY <2>4 DEF Download, Move, Moved, Looping, Replacing, TypeOK
    <3>2. \A a : Pending(a)' => Pending(a)
      BY <2>4, <3>1, PendingThrough
    <3>3. Place'
      BY <1>0, <1>t, <2>1, <3>1
    <3>4. Grows
      BY <1>0, <1>t, <2>1, <3>1, <3>2 DEF VersionBound
    <3> QED
      BY <1>1, <3>1, <3>3, <3>4
  <2> QED
    BY <2>1, <2>3, <2>4 DEF Download
<1>5. CASE Asset
  <2>1. UNCHANGED <<versionFile, seen, installed>> /\ Looping /\ Looping' /\ ~(Move \/ Moved)
    BY <1>5 DEF Asset, disk, Looping, Replacing, Move, Moved
  <2>2. UNCHANGED todo \/ (todo # <<>> /\ todo' = Tail(todo))
    BY <1>5 DEF Asset
  <2>3. \A a : Pending(a)' => Pending(a)
    BY <2>2, PendingThrough DEF Pending
  <2>4. Place'
    BY <1>0, <1>5, <2>1 DEF Asset
  <2>5. Grows
    BY <1>0, <1>t, <2>1, <2>3 DEF VersionBound
  <2> QED
    BY <1>1, <2>1, <2>4, <2>5
<1>6. CASE Compare
  <2>1. \/ pc' = "idle" /\ installed' = FALSE
        \/ pc' = "asset" /\ versionFile # seen.tag /\ UNCHANGED <<seen, installed>>
    BY <1>6 DEF Compare, Exit
  <2>2. UNCHANGED versionFile /\ pc = "compare" /\ ~installed /\ ~(Move \/ Moved) /\ ~Looping
    BY <1>0, <1>6 DEF Compare, disk, Move, Moved, Looping, Replacing
  <2>3. Place'
    BY <1>0, <1>t, <2>1, <2>2 DEF Looping, Replacing
  <2>4. Grows
    BY <1>t, <2>1, <2>2 DEF VersionBound
  <2> QED
    BY <1>1, <2>2, <2>3, <2>4
<1>7. CASE Move \/ Moved
  <2>1. UNCHANGED <<versionFile, seen>> /\ Looping /\ Looping' /\ todo # <<>>
    BY <1>7 DEF Move, Moved, Installs, TypeOK, Looping, Replacing
  <2>2. CASE pc' = "moving"
    BY <1>2, <1>7, <2>1, <2>2 DEF Move, Moved, Installs
  <2>3. CASE pc' = "asset"
    <3>1. todo' = Tail(todo) /\ installed'
      BY <1>7, <2>3 DEF Move, Moved, Installs
    <3>2. \A a : Pending(a)' => (Pending(a) /\ a # Head(todo))
      BY <2>1, <3>1, PendingThrough
    <3>3. VersionBound(Head(todo)) = versionFile /\ versionFile < seen.tag
      BY <1>0, <2>1, HeadPending DEF VersionBound
    <3>4. \A a : a = Head(todo) => VersionBound(a)' = seen.tag
      BY <2>1, <3>1, <3>2 DEF VersionBound
    <3>5. Place'
      BY <1>0, <1>t, <2>1, <2>3
    <3>6. Grows
      BY <1>0, <1>t, <2>1, <3>1, <3>2 DEF VersionBound
    <3>7. \A a : a = Head(todo) => seen.tag <= VersionBound(a)'
      BY <1>t, <3>4
    <3> HIDE DEF Place, Grows
    <3> QED
      BY <1>1, <3>3, <3>5, <3>6, <3>7
  <2> QED
    BY <1>7, <2>2, <2>3 DEF Move, Moved, Installs
<1>8. CASE Finish
  <2>1. \/ pc' = "idle" /\ ~installed /\ installed' = FALSE /\ versionFile' \in {versionFile, seen.tag}
        \/ pc' = "restart" /\ installed /\ installed' = installed /\ seen' = seen /\ versionFile' = seen.tag
    BY <1>8 DEF Finish, Exit, script
  <2>2. pc = "asset" /\ ~(Move \/ Moved) /\ Looping /\ ~Looping'
    BY <1>8, <2>1 DEF Finish, Move, Moved, Looping, Replacing
  <2>3. Place'
    BY <1>0, <1>t, <2>1, <2>2
  <2>4. Grows
    BY <1>0, <1>t, <2>1, <2>2 DEF VersionBound
  <2> QED
    BY <1>1, <2>2, <2>3, <2>4
<1>9. CASE Restart
  <2>1. pc = "restart" /\ pc' = "idle" /\ installed' = FALSE /\ UNCHANGED versionFile
    BY <1>9 DEF Restart, Exit, disk
  <2>2. ~Looping /\ ~Looping' /\ ~(Move \/ Moved)
    BY <2>1 DEF Looping, Replacing, Move, Moved
  <2>3. Place'
    BY <2>1, <2>2
  <2>4. Grows
    BY <1>t, <2>1, <2>2 DEF VersionBound
  <2> QED
    BY <1>1, <2>2, <2>3, <2>4
<1>10. CASE Kill
  BY <1>10 DEF Kill
<1> QED
  BY <1>3, <1>4, <1>5, <1>6, <1>7, <1>8, <1>9, <1>10 DEF Next, Run

\* Without a poll of a release that is not complete, the ETag does: the
\* revision of a release is its last once it is complete, and whoever saved it
\* as the ETag does not see that release again. This is the last release that
\* may have been installed.
Tried == IF etagFile = revision THEN tag ELSE tag - 1

EtagBound(a) ==
    IF pc = "idle" THEN Tried
    ELSE IF pc \in {"etag", "compare"} \/ (Looping /\ Pending(a)) THEN seen.tag - 1
    ELSE seen.tag

EtagRemembers ==
    Unharmed({"early", "open"}) =>
        /\ etagFile = revision => published = AllFiles
        /\ pc # "idle" =>
              /\ seen.revision = revision => published = AllFiles
              /\ seen.tag = tag => (published = AllFiles /\ seen.revision = revision)
        /\ pc \notin {"idle", "etag"} => etagFile = seen.revision
        /\ \A a \in Assets : Reached(a, EtagBound(a))

\* As for the version file.
LEMMA EtagBoundNext ==
  ASSUME TypeOK, FileInv, [Next]_vars, NEW a \in Assets, Reached(a, EtagBound(a)),
         EtagBound(a) \in Int, EtagBound(a)' \in Int, EtagBound(a) <= EtagBound(a)',
         ((Move \/ Moved) /\ a = Head(todo) /\ pc' = "asset") =>
             (EtagBound(a) < seen.tag /\ seen.tag <= EtagBound(a)')
  PROVE  Reached(a, EtagBound(a))'
<1>1. PICK u \in Int : u = EtagBound(a)'
  OBVIOUS
<1> HIDE DEF EtagBound
<1>2. Reached(a, u)'
  BY <1>1, ReachedNext
<1> QED
  BY <1>1, <1>2 DEF Reached

LEMMA EtagRemembersNext ==
  TypeOK /\ FileInv /\ OnceInv /\ EtagRemembers /\ [Next]_vars => EtagRemembers'
<1> DEFINE Complete == /\ etagFile = revision => published = AllFiles
                       /\ pc # "idle" =>
                            /\ seen.revision = revision => published = AllFiles
                            /\ seen.tag = tag => (published = AllFiles /\ seen.revision = revision)
                       /\ pc \notin {"idle", "etag"} => etagFile = seen.revision
           Grows == \A a \in Assets : EtagBound(a)' \in Int /\ EtagBound(a) <= EtagBound(a)'
           Goal == Complete' /\ \A a \in Assets : Reached(a, EtagBound(a))'
<1> SUFFICES ASSUME TypeOK, FileInv, OnceInv, EtagRemembers, [Next]_vars, Unharmed({"early", "open"})'
             PROVE  Goal
  BY DEF EtagRemembers
<1>m. Unharmed({"early", "open"})
  BY MishapsGrow DEF Unharmed
<1>0. Complete /\ \A a \in Assets : Reached(a, EtagBound(a))
  BY <1>m DEF EtagRemembers
<1>t. /\ tag \in Nat /\ tag # 0 /\ revision \in Nat /\ etagFile \in Nat /\ etagFile <= revision
      /\ seen.tag \in Nat /\ seen.tag <= tag /\ seen.revision \in Nat /\ seen.revision <= revision
      /\ \A a : EtagBound(a) \in Int
      /\ Tried \in Int
  BY UpdateAssumption DEF TypeOK, EtagBound, Tried
<1>p. ASSUME pc # "idle" PROVE \A a : EtagBound(a) <= Tried
  <2>1. seen.tag <= tag /\ (seen.tag = tag => seen.revision = revision)
    BY <1>0, <1>p, <1>t
  <2>2. seen.tag - 1 <= Tried
    BY <1>t, <2>1 DEF Tried
  <2>3. pc \notin {"idle", "etag"} => seen.tag <= Tried
    BY <1>0, <1>t, <2>1 DEF Tried
  <2> QED
    BY <1>p, <2>2, <2>3 DEF EtagBound
<1>1. ASSUME Complete', Grows,
             ((Move \/ Moved) /\ pc' = "asset") =>
                 (EtagBound(Head(todo)) < seen.tag /\ \A a : a = Head(todo) => seen.tag <= EtagBound(a)')
      PROVE  Goal
  <2>1. ASSUME NEW a \in Assets PROVE Reached(a, EtagBound(a))'
    BY <1>0, <1>1, <1>t, <2>1, EtagBoundNext
  <2> QED
    BY <1>1, <2>1
<1>2. ASSUME UNCHANGED <<github, etagFile, seen>>, \A a : Pending(a)' => Pending(a),
             \/ UNCHANGED pc \/ (Looping /\ pc' \in {"restart"} \cup Replacing \cup {"asset", "download"})
             \/ pc = "compare" /\ pc' = "asset",
             ~(Move \/ Moved) \/ pc' # "asset"
      PROVE  Goal
  <2>1. Complete'
    BY <1>0, <1>2 DEF github, Looping, Replacing
  <2>2. Tried' = Tried
    BY <1>2 DEF Tried, github
  <2>3. Grows
    BY <1>t, <1>2, <2>2 DEF EtagBound, Looping, Replacing
  <2> QED
    BY <1>1, <1>2, <2>1, <2>3
<1>3. ASSUME Exit, pc # "idle", UNCHANGED <<github, etagFile>> PROVE Goal
  <2>1. pc' = "idle" /\ Tried' = Tried
    BY <1>3 DEF Exit, Tried, github
  <2>2. Complete'
    BY <1>0, <1>3, <2>1 DEF github
  <2>3. \A a : EtagBound(a)' = Tried
    BY <2>1 DEF EtagBound
  <2>4. Grows
    BY <1>3, <1>p, <1>t, <2>3
  <2> QED
    BY <1>1, <2>1, <2>2, <2>4
<1>4. CASE Poll
  <2>1. \/ UNCHANGED <<github, etagFile, pc, seen, todo>>
        \/ /\ pc' = "etag" /\ published = AllFiles /\ etagFile # revision
           /\ seen'.tag = tag /\ seen'.revision = revision
    BY <1>4 DEF Poll, Fails, Unharmed, disk
  <2>2. pc = "idle" /\ UNCHANGED <<github, etagFile>> /\ ~(Move \/ Moved)
    BY <1>4 DEF Poll, disk, Move, Moved
  <2>3. Complete'
    BY <1>0, <2>1, <2>2 DEF github
  <2>4. \A a : EtagBound(a) = Tried /\ EtagBound(a)' = Tried
    BY <2>1, <2>2 DEF EtagBound, Tried, github
  <2>5. Grows
    BY <1>t, <2>4
  <2> QED
    BY <1>1, <2>2, <2>3, <2>5
<1>5. CASE SaveEtag
  <2>1. /\ UNCHANGED <<github, seen>> /\ etagFile' = seen.revision /\ pc = "etag" /\ pc' = "compare"
        /\ ~(Move \/ Moved)
    BY <1>5 DEF SaveEtag, script, Move, Moved
  <2>2. Complete'
    BY <1>0, <2>1 DEF github
  <2>3. Grows
    BY <1>t, <2>1 DEF EtagBound
  <2> QED
    BY <1>1, <2>1, <2>2, <2>3
<1>6. CASE Compare
  <2>1. /\ UNCHANGED <<github, etagFile>> /\ pc = "compare"
        /\ Exit \/ (pc' = "asset" /\ UNCHANGED seen)
    BY <1>6 DEF Compare, disk
  <2>2. CASE pc' = "asset" /\ UNCHANGED seen
    <3>1. Complete'
      BY <1>0, <2>1, <2>2 DEF github
    <3>2. ~(Move \/ Moved) /\ Grows
      BY <1>t, <2>1, <2>2 DEF EtagBound, Move, Moved
    <3> QED
      BY <1>1, <3>1, <3>2
  <2> QED
    BY <1>3, <2>1, <2>2
<1>7. CASE Finish
  <2>1. /\ UNCHANGED <<github, etagFile>> /\ pc = "asset"
        /\ Exit \/ (pc' = "restart" /\ UNCHANGED <<seen, todo>>)
    BY <1>7 DEF Finish, script
  <2>2. CASE pc' = "restart" /\ UNCHANGED <<seen, todo>>
    BY <1>2, <2>1, <2>2 DEF Pending, Looping
  <2> QED
    BY <1>3, <2>1, <2>2
<1>8. CASE Restart \/ Kill
  BY <1>3, <1>8 DEF Restart, Kill, disk
<1>9. CASE Asset \/ Download \/ Backup \/ Copy \/ Rollback \/ UNCHANGED vars
  <2>1. /\ UNCHANGED <<github, etagFile, seen>>
        /\ UNCHANGED todo \/ (todo # <<>> /\ todo' = Tail(todo))
        /\ \/ UNCHANGED pc
           \/ Looping /\ pc' \in Replacing \cup {"asset", "download"}
    BY <1>9 DEF Asset, Download, Backup, Copy, Rollback, vars, disk, script, TypeOK, Looping, Replacing
  <2>2. \A a : Pending(a)' => Pending(a)
    BY <2>1, PendingThrough DEF Pending
  <2>3. ~(Move \/ Moved) \/ pc' # "asset"
    BY <1>9 DEF Asset, Download, Backup, Copy, Rollback, vars, script, Move, Moved
  <2> QED
    BY <1>2, <2>1, <2>2, <2>3
<1>10. CASE Move \/ Moved
  <2>1. UNCHANGED <<github, etagFile, seen>> /\ Looping /\ todo # <<>> /\ pc # "idle"
    BY <1>10 DEF Move, Moved, TypeOK, Looping, Replacing
  <2>2. CASE pc' = "moving"
    <3>1. UNCHANGED todo
      BY <1>10, <2>2 DEF Move, Moved, Installs
    <3> QED
      BY <1>2, <2>1, <2>2, <3>1 DEF Pending, Replacing
  <2>3. CASE pc' = "asset"
    <3>1. todo' = Tail(todo)
      BY <1>10, <2>3 DEF Move, Moved, Installs
    <3>2. \A a : Pending(a)' => (Pending(a) /\ a # Head(todo))
      BY <2>1, <3>1, PendingThrough
    <3>3. EtagBound(Head(todo)) = seen.tag - 1
      BY <2>1, HeadPending DEF EtagBound
    <3>4. \A a : a = Head(todo) => EtagBound(a)' = seen.tag
      BY <2>1, <2>3, <3>2 DEF EtagBound
    <3>5. Complete'
      BY <1>0, <1>10, <2>1, <2>3 DEF github, Move, Moved
    <3>6. Grows
      BY <1>t, <1>10, <2>1, <2>3, <3>2 DEF EtagBound, Move, Moved
    <3>7. EtagBound(Head(todo)) < seen.tag /\ \A a : a = Head(todo) => seen.tag <= EtagBound(a)'
      BY <1>t, <3>3, <3>4
    <3> HIDE DEF Complete, Grows
    <3> QED
      BY <1>1, <3>5, <3>6, <3>7
  <2> QED
    BY <1>10, <2>2, <2>3 DEF Move, Moved, Installs
<1>11. CASE Release
  <2>1. /\ UNCHANGED <<etagFile, seen, pc, todo>> /\ tag' = tag + 1 /\ revision' = revision + 1
        /\ ~(Move \/ Moved)
    BY <1>11 DEF Release, disk, script, Move, Moved, github, Installs
  <2>2. Complete'
    BY <1>0, <1>t, <2>1
  <2>3. Tried' \in Int /\ Tried <= Tried'
    BY <1>t, <2>1 DEF Tried
  <2>4. Grows
    BY <1>t, <2>1, <2>3 DEF EtagBound, Looping, Pending
  <2> QED
    BY <1>1, <2>1, <2>2, <2>4
<1>12. ASSUME NEW f \in AllFiles, Upload(f) PROVE Goal
  <2>1. /\ UNCHANGED <<etagFile, seen, pc, todo, tag>> /\ published # AllFiles /\ revision' = revision + 1
        /\ pc' # "asset" \/ ~(Move \/ Moved)
    BY <1>12 DEF Upload, disk, script, Move, Moved
  <2>2. Complete'
    BY <1>0, <1>t, <2>1
  <2>3. Tried' = Tried
    BY <1>0, <1>t, <2>1 DEF Tried
  <2>4. Grows
    BY <1>t, <2>1, <2>3 DEF EtagBound, Looping, Pending
  <2> QED
    BY <1>1, <2>1, <2>2, <2>4
<1> QED
  BY <1>4, <1>5, <1>6, <1>7, <1>8, <1>9, <1>10, <1>11, <1>12 DEF Next, Run, Publish

\* RolledBackStaysOut: no update brings in what a rollback took out, for any
\* assets and releases, and with rollbacks beside the script too, unless there
\* was both a poll of a release that was not complete and a kill.
THEOREM RolledBackStaysOutHolds == Spec => RolledBackStaysOut
<1> DEFINE I == TypeOK /\ FileInv /\ OnceInv /\ VersionRemembers /\ EtagRemembers
<1>1. Init => I
  <2> SUFFICES ASSUME Init PROVE FileInv /\ OnceInv /\ VersionRemembers /\ EtagRemembers
    BY TypeInit
  <2>1. \A a \in Assets : \A t : Reached(a, t)
    BY DEF Init, UpTo, Reached
  <2>2. OnceInv
    BY DEF Init, OnceInv
  <2> QED
    BY <2>1, <2>2 DEF Init, FileInv, VersionRemembers, EtagRemembers, Looping, Replacing
<1>2. I /\ [Next]_vars => I'
  BY TypeNext, FileNext, OnceNext, VersionRemembersNext, EtagRemembersNext
<1>3. I /\ [Next]_vars =>
        [\A a \in Assets :
            ((Unharmed({"early", "open"}) \/ Unharmed({"kill"})) /\ pc # "idle" /\ binary'[a] # binary[a])
                => <<a, binary'[a]>> \notin refused]_vars
  <2> SUFFICES ASSUME I, [Next]_vars, NEW a \in Assets, pc # "idle", binary'[a] # binary[a],
                      Unharmed({"early", "open"}) \/ Unharmed({"kill"})
               PROVE  <<a, binary'[a]>> \notin refused
    OBVIOUS
  <2>1. PICK t \in Int : Reached(a, t) /\ (((Move \/ Moved) /\ a = Head(todo)) => t < seen.tag)
    <3>1. seen.tag \in Nat /\ versionFile \in Nat /\ tag \in Nat
      BY UpdateAssumption DEF TypeOK
    <3>2. (Move \/ Moved) => (Looping /\ todo # <<>> /\ pc # "idle")
      BY DEF Move, Moved, TypeOK, Looping, Replacing
    <3>3. (Move \/ Moved) => Pending(Head(todo))
      BY <3>2, HeadPending
    <3>4. CASE "kill" \notin mishaps
      <4>1. VersionBound(a) \in Int /\ Reached(a, VersionBound(a))
        BY <3>1, <3>4 DEF VersionRemembers, VersionBound
      <4>2. ((Move \/ Moved) /\ a = Head(todo)) => VersionBound(a) < seen.tag
        BY <3>2, <3>3, <3>4 DEF VersionRemembers, VersionBound
      <4> QED
        BY <4>1, <4>2
    <3>5. CASE Unharmed({"early", "open"})
      <4>1. EtagBound(a) \in Int /\ Reached(a, EtagBound(a))
        BY <3>1, <3>5 DEF EtagRemembers, EtagBound, Tried
      <4>2. ((Move \/ Moved) /\ a = Head(todo)) => EtagBound(a) < seen.tag
        BY <3>1, <3>2, <3>3, <3>5 DEF EtagBound, Looping, Replacing
      <4> QED
        BY <4>1, <4>2
    <3> QED
      BY <3>4, <3>5 DEF Unharmed
  <2>2. Copy \/ Move \/ Moved \/ Rollback
    BY BinaryChanges
  <2>3. <<a, Corrupt>> \notin refused
    BY <2>1, FileContents DEF Reached
  <2>4. CASE Rollback
    BY <2>1, <2>4 DEF Rollback, Reached
  <2>5. CASE Copy
    BY <2>1, <2>5 DEF Copy, Reached, TypeOK
  <2>6. CASE Move \/ Moved
    <3>1. a = Head(todo) /\ binary'[a] \in {file, Corrupt} /\ pc \in Replacing
      BY <2>6 DEF Move, Moved, TypeOK, Replacing
    <3>2. file = Corrupt \/ file = Content(a, seen.tag)
      BY <3>1 DEF FileInv
    <3>3. file \in Contents /\ seen.tag \in Nat
      BY <3>1, UpdateAssumption DEF TypeOK
    <3>4. <<a, file>> \in refused => (a \notin Unchanged /\ file \in 1..t)
      BY <2>1, <3>3 DEF Reached
    <3> QED
      BY <2>1, <2>3, <2>6, <3>1, <3>2, <3>3, <3>4 DEF Content
  <2> QED
    BY <2>2, <2>4, <2>5, <2>6
<1> QED
  BY <1>1, <1>2, <1>3, PTL DEF Spec, RolledBackStaysOut
=============================================================================
