-------------------------- MODULE Installer_proofs --------------------------
(***************************************************************************)
(* Proofs about Installer: for any items, releases and number of runs.     *)
(***************************************************************************)
EXTENDS Installer, TLAPS

-----------------------------------------------------------------------------
(* Types. *)

\* What a release ships of an item is a content of it, and so is what is left
\* of it when a command that writes it is interrupted.
LEMMA ShippedIsContent ==
  ASSUME NEW r \in Release, NEW i \in Item
  PROVE  Content(i, Ships[r][i])
BY InstallerAssumption DEF Content, Piece, Shipped, IsFile

LEMMA HalfIsContent ==
  ASSUME NEW i \in Item, NEW old, NEW new, Content(i, old), Content(i, new),
         NEW half \in Half(i, old, new)
  PROVE  Content(i, half)
<1>1. CASE Kind[i] = "template"
  BY <1>1 DEF Half, Content
<1>2. CASE Kind[i] # "template" /\ IsFile(i)
  BY <1>2 DEF Half, Content, Piece
<1>3. CASE Kind[i] # "template" /\ ~IsFile(i)
  BY <1>3 DEF Half, Content, Piece
<1> QED
  BY <1>1, <1>2, <1>3

FilesTyped ==
  /\ DOMAIN target = Item /\ \A i \in Item : Content(i, target[i])
  /\ DOMAIN backup = Dir /\ \A d \in Dir : DOMAIN backup[d] = Item
  /\ \A d \in Dir, i \in Item : Content(i, backup[d][i])

\* The types of what changes when a backup gets a new content.
LEMMA BackupTyped ==
  ASSUME TypeOK, dir \in Dir, NEW i \in Item, NEW c, Content(i, c),
         backup' = [backup EXCEPT ![dir][i] = c]
  PROVE  /\ DOMAIN backup' = Dir /\ \A d \in Dir : DOMAIN backup'[d] = Item
         /\ \A d \in Dir, j \in Item : Content(j, backup'[d][j])
<1>1. DOMAIN backup = Dir /\ \A d \in Dir : DOMAIN backup[d] = Item
  BY DEF TypeOK
<1>2. \A d \in Dir, j \in Item : Content(j, backup[d][j])
  BY DEF TypeOK
<1>3. DOMAIN backup' = Dir /\ \A d \in Dir : DOMAIN backup'[d] = Item
  BY <1>1
<1>4. \A d \in Dir, j \in Item : backup'[d][j] = IF d = dir /\ j = i THEN c ELSE backup[d][j]
  BY <1>1
<1> QED
  BY <1>2, <1>3, <1>4

LEMMA TargetTyped ==
  ASSUME TypeOK, NEW i \in Item, NEW c, Content(i, c),
         target' = [target EXCEPT ![i] = c]
  PROVE  DOMAIN target' = Item /\ \A j \in Item : Content(j, target'[j])
<1>1. DOMAIN target = Item /\ \A j \in Item : Content(j, target[j])
  BY DEF TypeOK
<1>2. \A j \in Item : target'[j] = IF j = i THEN c ELSE target[j]
  BY <1>1
<1> QED
  BY <1>1, <1>2

LEMMA TypeInit == Init => TypeOK
BY InstallerAssumption DEF Init, TypeOK, Content, Piece, Kinds

LEMMA TypeUserWrites ==
  ASSUME TypeOK, NEW i \in Item, NEW t \in Text, UserWrites(i, t)
  PROVE  TypeOK'
<1>1. Content(i, IF IsFile(i) THEN {t} ELSE target[i] \cup {t})
  BY DEF TypeOK, Content, Piece
<1>2. DOMAIN target' = Item /\ \A j \in Item : Content(j, target'[j])
  BY <1>1, TargetTyped DEF UserWrites
<1>3. /\ DOMAIN wanted' = Item
      /\ \A j \in Item : wanted'[j] \subseteq written'
  BY DEF UserWrites, TypeOK
<1>4. written' \subseteq Text
  BY DEF UserWrites, TypeOK
<1> QED
  BY <1>2, <1>3, <1>4 DEF UserWrites, options, TypeOK, Content

LEMMA TypePull ==
  ASSUME TypeOK, NEW r \in Release, Pull(r)
  PROVE  TypeOK'
BY DEF Pull, TypeOK, Content, files, options, user

LEMMA TypeStartInstall ==
  ASSUME TypeOK, NEW ks \in SUBSET Kinds, NEW f \in BOOLEAN, NEW d \in Dir,
         StartInstall(ks, f, d)
  PROVE  TypeOK'
<1>1. step = "next" /\ at = NoItem
  BY DEF StartInstall, Begin, TypeOK
<1>2. DOMAIN wanted' = Item /\ \A i \in Item : wanted'[i] \subseteq written'
  BY DEF StartInstall, TypeOK
<1>3. todo' \subseteq Item
  BY DEF StartInstall, Catalogue
<1> QED
  BY <1>1, <1>2, <1>3 DEF StartInstall, Begin, files, TypeOK, Content

LEMMA TypeStartUninstall ==
  ASSUME TypeOK, NEW d \in Dir, StartUninstall(d)
  PROVE  TypeOK'
<1>1. step = "next" /\ at = NoItem
  BY DEF StartUninstall, Begin, TypeOK
<1>2. todo' \subseteq Item
  BY DEF StartUninstall, Catalogue
<1> QED
  BY <1>1, <1>2 DEF StartUninstall, Begin, files, user, TypeOK, Content

LEMMA TypeTake ==
  ASSUME TypeOK, NEW i \in Item, Take(i)
  PROVE  TypeOK'
BY DEF Take, TypeOK, Content, files, options, user

LEMMA TypeMoveAway ==
  ASSUME TypeOK, NEW i \in Item, MoveAway(i)
  PROVE  TypeOK'
<1>1. dir \in Dir /\ step = "next" /\ at = NoItem
  BY DEF MoveAway, TypeOK
<1>2. Content(i, IF target[i] = {} THEN backup[dir][i] ELSE target[i])
  BY <1>1 DEF TypeOK
<1>3. backup' = [backup EXCEPT ![dir][i] = IF target[i] = {} THEN backup[dir][i] ELSE target[i]]
  BY DEF MoveAway
<1>4. /\ DOMAIN backup' = Dir /\ \A d \in Dir : DOMAIN backup'[d] = Item
      /\ \A d \in Dir, j \in Item : Content(j, backup'[d][j])
  BY <1>1, <1>2, <1>3, BackupTyped
<1>5. Content(i, {})
  BY DEF Content
<1>6. DOMAIN target' = Item /\ \A j \in Item : Content(j, target'[j])
  BY <1>5, TargetTyped DEF MoveAway
<1> QED
  BY <1>1, <1>4, <1>6 DEF MoveAway, options, user, TypeOK, Content

LEMMA TypeBackUp ==
  ASSUME TypeOK, BackUp
  PROVE  TypeOK'
<1>1. dir \in Dir /\ at \in Item /\ at \in todo /\ op = "install"
  BY DEF BackUp, TypeOK
<1>2. Content(at, target[at])
  BY <1>1 DEF TypeOK
<1>3. /\ DOMAIN backup' = Dir /\ \A d \in Dir : DOMAIN backup'[d] = Item
      /\ \A d \in Dir, j \in Item : Content(j, backup'[d][j])
  BY <1>1, <1>2, BackupTyped DEF BackUp
<1> QED
  BY <1>1, <1>3 DEF BackUp, options, user, TypeOK, Content

LEMMA TypeRemove ==
  ASSUME TypeOK, Remove
  PROVE  TypeOK'
<1>1. at \in Item /\ at \in todo /\ op = "install" /\ Content(at, {})
  BY DEF Remove, TypeOK, Content
<1>2. DOMAIN target' = Item /\ \A j \in Item : Content(j, target'[j])
  BY <1>1, TargetTyped DEF Remove
<1> QED
  BY <1>1, <1>2 DEF Remove, options, user, TypeOK, Content

LEMMA TypeCopy ==
  ASSUME TypeOK, Copy
  PROVE  TypeOK'
<1>1. at \in Item /\ release \in Release
  BY DEF Copy, TypeOK
<1>2. Content(at, Ships[release][at])
  BY <1>1, ShippedIsContent
<1>3. DOMAIN target' = Item /\ \A j \in Item : Content(j, target'[j])
  BY <1>1, <1>2, TargetTyped DEF Copy, Synced
<1> QED
  BY <1>1, <1>3 DEF Copy, options, user, TypeOK, Content

\* The end of a script: whatever is left in the files, the rest is typed.
LEMMA TypeEnd ==
  ASSUME TypeOK, End, FilesTyped'
  PROVE  TypeOK'
<1>1. FilesTyped' /\ DOMAIN wanted = Item /\ \A i \in Item : wanted[i] \subseteq written
  BY DEF TypeOK
<1>2. wanted' = wanted /\ written' = written /\ release' = release /\ dirs' = dirs
  BY DEF End, user
<1> QED
  BY <1>1, <1>2 DEF End, TypeOK, FilesTyped, Content

LEMMA TypeInterrupted ==
  ASSUME TypeOK, Interrupted
  PROVE  TypeOK'
<1>0. End /\ release \in Release /\ FilesTyped /\ \A i \in Item : Content(i, target[i])
  BY DEF Interrupted, TypeOK, FilesTyped
<1>1. CASE step = "next"
  <2>1. UNCHANGED files
    BY <1>1 DEF Interrupted
  <2>2. FilesTyped'
    BY <1>0, <2>1 DEF files, FilesTyped, Content
  <2> QED
    BY <1>0, <2>2, TypeEnd
<1>2. CASE step = "backup"
  <2>1. at \in Item /\ dir \in Dir /\ Content(at, {})
    BY <1>2 DEF TypeOK, Content
  <2>2. PICK half \in Half(at, {}, target[at]) : backup' = [backup EXCEPT ![dir][at] = half]
    BY <1>2 DEF Interrupted
  <2>3. Content(at, half)
    BY <1>0, <2>1, <2>2, HalfIsContent
  <2>4. target' = target
    BY <1>2 DEF Interrupted
  <2>5. /\ DOMAIN backup' = Dir /\ \A d \in Dir : DOMAIN backup'[d] = Item
        /\ \A d \in Dir, j \in Item : Content(j, backup'[d][j])
    BY <2>1, <2>2, <2>3, BackupTyped
  <2>6. FilesTyped'
    BY <1>0, <2>4, <2>5 DEF FilesTyped, Content
  <2> QED
    BY <1>0, <2>6, TypeEnd
<1>3. CASE step = "remove"
  <2>1. at \in Item
    BY <1>3 DEF TypeOK
  <2>2. PICK half \in SUBSET target[at] : target' = [target EXCEPT ![at] = half]
    BY <1>3 DEF Interrupted
  <2>3. Content(at, half)
    BY <1>0, <2>1, <2>2 DEF Content
  <2>4. backup' = backup
    BY <1>3 DEF Interrupted
  <2>5. DOMAIN target' = Item /\ \A j \in Item : Content(j, target'[j])
    BY <2>1, <2>2, <2>3, TargetTyped
  <2>6. FilesTyped'
    BY <1>0, <2>4, <2>5 DEF FilesTyped, Content
  <2> QED
    BY <1>0, <2>6, TypeEnd
<1>4. CASE step = "copy"
  <2>1. at \in Item
    BY <1>4 DEF TypeOK
  <2>2. PICK half \in Half(at, target[at], Ships[release][at]) :
          target' = [target EXCEPT ![at] = half]
    BY <1>4 DEF Interrupted
  <2>3. Content(at, half)
    <3>1. Content(at, Ships[release][at])
      BY <1>0, <2>1, ShippedIsContent
    <3>2. Content(at, target[at])
      BY <1>0, <2>1
    <3> QED
      BY <2>1, <2>2, <3>1, <3>2, HalfIsContent
  <2>4. backup' = backup
    BY <1>4 DEF Interrupted
  <2>5. DOMAIN target' = Item /\ \A j \in Item : Content(j, target'[j])
    BY <2>1, <2>2, <2>3, TargetTyped
  <2>6. FilesTyped'
    BY <1>0, <2>4, <2>5 DEF FilesTyped, Content
  <2> QED
    BY <1>0, <2>6, TypeEnd
<1> QED
  BY <1>1, <1>2, <1>3, <1>4 DEF TypeOK

LEMMA TypeStep == TypeOK /\ [Next]_vars => TypeOK'
<1> SUFFICES ASSUME TypeOK, [Next]_vars PROVE TypeOK'
  OBVIOUS
<1>1. CASE UNCHANGED vars
  BY <1>1 DEF vars, files, options, user, TypeOK, Content
<1>2. CASE Done
  <2>1. End /\ target' = target /\ backup' = backup
    BY <1>2 DEF Done, files
  <2>2. FilesTyped'
    BY <2>1 DEF TypeOK, FilesTyped, Content
  <2> QED
    BY <2>1, <2>2, TypeEnd
<1>3. CASE Next /\ ~Done
  BY <1>3, TypeUserWrites, TypePull, TypeStartInstall, TypeStartUninstall, TypeTake,
     TypeMoveAway, TypeBackUp, TypeRemove, TypeCopy, TypeInterrupted DEF Next
<1> QED
  BY <1>1, <1>2, <1>3

\* Every state has its types, a file never has two contents, and a script at
\* work has an item for every command, however the scripts are run.
THEOREM TypeCorrect == Spec => []TypeOK
<1> QED
  BY TypeInit, TypeStep, PTL DEF Spec

-----------------------------------------------------------------------------
(* What the user has written. *)

Backups(i) == UNION {backup[d][i] : d \in Dir}

\* The current run has not put anything under a name it has still to see to,
\* and the runs to come have no directory yet.
Fresh ==
  /\ \A d \in Dir \ dirs, i \in Item : backup[d][i] = {}
  /\ op # "idle" => \A i \in todo : (step \in {"next", "backup"} \/ i # at) => backup[dir][i] = {}

\* What is about to be removed or written over has been given up, or is in a
\* backup.
Saved ==
  /\ (op = "install" /\ force) => \A i \in todo : wanted[i] = {}
  /\ (step \in {"remove", "copy"} /\ Kind[at] # "template") => wanted[at] \subseteq Backups(at)

IInv == Fresh /\ Saved /\ NothingIsLost

\* A backup that only grows keeps what was saved.
LEMMA MoreIsSaved ==
  ASSUME NEW i \in Item, \A d \in Dir : backup[d][i] \subseteq backup'[d][i]
  PROVE  Backups(i) \subseteq Backups(i)'
BY DEF Backups

LEMMA SavedAsIs ==
  ASSUME NEW i \in Item
  PROVE  SavedAs(i) = target[i] \cup Backups(i)
BY DEF SavedAs, Backups

\* Writing under a name of the current run that has nothing yet.
LEMMA FirstBackup ==
  ASSUME TypeOK, dir \in Dir, NEW i \in Item, NEW c, backup[dir][i] = {},
         backup' = [backup EXCEPT ![dir][i] = c]
  PROVE  /\ backup'[dir][i] = c
         /\ \A d \in Dir, j \in Item : backup[d][j] \subseteq backup'[d][j]
         /\ \A d \in Dir, j \in Item : d # dir \/ j # i => backup'[d][j] = backup[d][j]
BY DEF TypeOK

\* Without a step that touches a backup or a text, and with at most one item
\* changed whose texts are in a backup, nothing is lost.
LEMMA NothingLostBy ==
  ASSUME TypeOK, NothingIsLost, wanted' = wanted, NEW i \in Item,
         \A d \in Dir, j \in Item : backup[d][j] \subseteq backup'[d][j],
         \A j \in Item \ {i} : target'[j] = target[j],
         Kind[i] # "template" => wanted[i] \subseteq target'[i] \cup Backups(i)'
  PROVE  NothingIsLost'
<1> SUFFICES ASSUME NEW j \in Item, Kind[j] # "template"
             PROVE  wanted[j] \subseteq target'[j] \cup Backups(j)'
  BY SavedAsIs DEF NothingIsLost, SavedAs, Backups
<1>1. wanted[j] \subseteq target[j] \cup Backups(j)
  BY SavedAsIs DEF NothingIsLost
<1>2. Backups(j) \subseteq Backups(j)'
  BY MoreIsSaved
<1> QED
  BY <1>1, <1>2

LEMMA LostUserWrites ==
  ASSUME TypeOK, IInv, NEW i \in Item, NEW t \in Text, UserWrites(i, t)
  PROVE  IInv'
<1>1. Fresh'
  BY DEF IInv, Fresh, UserWrites
<1>2. Saved'
  BY DEF Saved, UserWrites, TypeOK, options
<1>3. ASSUME NEW j \in Item, Kind[j] # "template" PROVE wanted'[j] \subseteq SavedAs(j)'
  <2>1. wanted[j] \subseteq SavedAs(j)
    BY <1>3 DEF IInv, NothingIsLost
  <2> QED
    BY <2>1 DEF UserWrites, SavedAs, TypeOK
<1> QED
  BY <1>1, <1>2, <1>3 DEF IInv, NothingIsLost

LEMMA LostStartInstall ==
  ASSUME TypeOK, IInv, NEW ks \in SUBSET Kinds, NEW f \in BOOLEAN, NEW d \in Dir,
         StartInstall(ks, f, d)
  PROVE  IInv'
<1>1. step = "next" /\ op = "idle" /\ d \notin dirs /\ dir' = d /\ dirs' = dirs \cup {d}
      /\ backup' = backup /\ target' = target /\ step' = step
  BY DEF StartInstall, Begin, TypeOK, files
<1>2. Fresh'
  <2>1. todo' \subseteq Item
    BY DEF StartInstall, Catalogue
  <2> QED
    BY <1>1, <2>1 DEF IInv, Fresh
<1>3. Saved'
  BY <1>1 DEF StartInstall, Saved, Catalogue
<1>4. \A i \in Item : wanted'[i] \subseteq wanted[i]
  BY DEF StartInstall
<1> QED
  BY <1>1, <1>2, <1>3, <1>4 DEF IInv, NothingIsLost, SavedAs

LEMMA LostStartUninstall ==
  ASSUME TypeOK, IInv, NEW d \in Dir, StartUninstall(d)
  PROVE  IInv'
<1>1. step = "next" /\ op = "idle" /\ d \notin dirs /\ dir' = d /\ dirs' = dirs \cup {d}
      /\ backup' = backup /\ target' = target /\ step' = step /\ wanted' = wanted
      /\ op' = "uninstall"
  BY DEF StartUninstall, Begin, TypeOK, files, user
<1>2. Fresh'
  <2>1. todo' \subseteq Item
    BY DEF StartUninstall, Catalogue
  <2> QED
    BY <1>1, <2>1 DEF IInv, Fresh
<1>3. Saved'
  BY <1>1 DEF Saved
<1> QED
  BY <1>1, <1>2, <1>3 DEF IInv, NothingIsLost, SavedAs

LEMMA LostTake ==
  ASSUME TypeOK, IInv, NEW i \in Item, Take(i)
  PROVE  IInv'
<1>1. /\ backup' = backup /\ target' = target /\ wanted' = wanted /\ todo' = todo
      /\ dir' = dir /\ dirs' = dirs /\ op' = op /\ force' = force
      /\ step = "next" /\ i \in todo /\ at' = i /\ op = "install"
  BY DEF Take, files, options, user
<1>2. Fresh'
  BY <1>1 DEF IInv, Fresh
<1>3. Saved'
  <2>1. ASSUME step' = "copy", Kind[i] # "template"
        PROVE  wanted[i] \subseteq Backups(i)
    <3>1. wanted[i] \subseteq target[i] \cup Backups(i)
      BY <2>1, SavedAsIs DEF IInv, NothingIsLost
    <3>2. CASE target[i] = {}
      BY <3>1, <3>2
    <3>3. CASE force
      BY <1>1, <3>3 DEF IInv, Saved
    <3> QED
      BY <2>1, <3>2, <3>3 DEF Take
  <2>2. step' # "remove"
    BY DEF Take
  <2> QED
    BY <1>1, <2>1, <2>2 DEF IInv, Saved, Backups
<1> QED
  BY <1>1, <1>2, <1>3 DEF IInv, NothingIsLost, SavedAs

LEMMA LostMoveAway ==
  ASSUME TypeOK, IInv, NEW i \in Item, MoveAway(i)
  PROVE  IInv'
<1>1. /\ step = "next" /\ dir \in Dir /\ dir \in dirs /\ op = "uninstall"
      /\ backup[dir][i] = {} /\ step' = step /\ dirs' = dirs /\ dir' = dir
      /\ wanted' = wanted /\ op' = op /\ todo' = todo \ {i}
  BY DEF MoveAway, IInv, Fresh, TypeOK, options, user
<1>2. backup' = [backup EXCEPT ![dir][i] = target[i]]
  BY <1>1 DEF MoveAway
<1>3. /\ backup'[dir][i] = target[i]
      /\ \A d \in Dir, j \in Item : backup[d][j] \subseteq backup'[d][j]
      /\ \A d \in Dir, j \in Item : d # dir \/ j # i => backup'[d][j] = backup[d][j]
  BY <1>1, <1>2, FirstBackup
<1>4. Fresh'
  <2>1. todo \subseteq Item
    BY DEF TypeOK
  <2> QED
    BY <1>1, <1>3, <2>1 DEF IInv, Fresh
<1>5. Saved'
  BY <1>1 DEF Saved
<1>6. Kind[i] # "template" => wanted[i] \subseteq Backups(i)'
  <2>1. target[i] \subseteq Backups(i)'
    BY <1>1, <1>3 DEF Backups
  <2>2. Backups(i) \subseteq Backups(i)'
    BY <1>3, MoreIsSaved
  <2> QED
    BY <2>1, <2>2, SavedAsIs DEF IInv, NothingIsLost
<1>7. \A j \in Item \ {i} : target'[j] = target[j]
  BY DEF MoveAway, TypeOK
<1>8. NothingIsLost'
  BY <1>1, <1>3, <1>6, <1>7, NothingLostBy DEF IInv
<1> QED
  BY <1>4, <1>5, <1>8 DEF IInv

LEMMA LostBackUp ==
  ASSUME TypeOK, IInv, BackUp
  PROVE  IInv'
<1>1. /\ step = "backup" /\ at \in Item /\ at \in todo /\ dir \in Dir /\ dir \in dirs
      /\ backup[dir][at] = {} /\ op = "install"
  BY DEF BackUp, IInv, Fresh, TypeOK
<1>2. /\ step' \in {"copy", "remove"} /\ dirs' = dirs /\ dir' = dir /\ at' = at
      /\ wanted' = wanted /\ op' = op /\ todo' = todo /\ target' = target /\ force' = force
  BY DEF BackUp, options, user
<1>3. /\ backup'[dir][at] = target[at]
      /\ \A d \in Dir, j \in Item : backup[d][j] \subseteq backup'[d][j]
      /\ \A d \in Dir, j \in Item : d # dir \/ j # at => backup'[d][j] = backup[d][j]
  BY <1>1, FirstBackup DEF BackUp
<1>4. Fresh'
  <2>1. todo \subseteq Item
    BY DEF TypeOK
  <2> QED
    BY <1>1, <1>2, <1>3, <2>1 DEF IInv, Fresh
<1>5. Kind[at] # "template" => wanted[at] \subseteq Backups(at)'
  <2>1. target[at] \subseteq Backups(at)'
    BY <1>1, <1>2, <1>3 DEF Backups
  <2>2. Backups(at) \subseteq Backups(at)'
    BY <1>1, <1>2, <1>3 DEF Backups
  <2> QED
    BY <1>1, <2>1, <2>2, SavedAsIs DEF IInv, NothingIsLost
<1>6. Saved'
  BY <1>2, <1>5 DEF IInv, Saved
<1>7. NothingIsLost'
  BY <1>1, <1>2, <1>3 DEF IInv, NothingIsLost, SavedAs
<1> QED
  BY <1>4, <1>6, <1>7 DEF IInv

\* Whatever a command leaves at the item it is at, when its texts are in a
\* backup.
LEMMA LostAtItem ==
  ASSUME TypeOK, IInv, step \in {"remove", "copy"}, backup' = backup, wanted' = wanted,
         NEW c, target' = [target EXCEPT ![at] = c]
  PROVE  NothingIsLost'
<1>1. PICK i \in Item : i = at
  BY DEF TypeOK
<1>2. \A j \in Item \ {i} : target'[j] = target[j]
  BY <1>1 DEF TypeOK
<1>3. Kind[i] # "template" => wanted[i] \subseteq Backups(i)'
  BY <1>1 DEF IInv, Saved, Backups
<1> QED
  BY <1>1, <1>2, <1>3, NothingLostBy DEF IInv

LEMMA LostRemove ==
  ASSUME TypeOK, IInv, Remove
  PROVE  IInv'
<1>1. NothingIsLost'
  BY LostAtItem DEF Remove, user
<1>2. Fresh'
  BY DEF IInv, Fresh, Remove, options
<1>3. Saved'
  BY DEF IInv, Saved, Backups, Remove, options, user
<1> QED
  BY <1>1, <1>2, <1>3 DEF IInv

LEMMA LostCopy ==
  ASSUME TypeOK, IInv, Copy
  PROVE  IInv'
<1>1. NothingIsLost'
  BY LostAtItem DEF Copy, user
<1>2. Fresh'
  BY DEF IInv, Fresh, Copy, options
<1>3. Saved'
  BY DEF IInv, Saved, Copy, options, user
<1> QED
  BY <1>1, <1>2, <1>3 DEF IInv

LEMMA LostInterrupted ==
  ASSUME TypeOK, IInv, Interrupted
  PROVE  IInv'
<1>1. /\ op' = "idle" /\ step' = "next" /\ dirs' = dirs /\ wanted' = wanted
  BY DEF Interrupted, End, user
<1>2. Saved'
  BY <1>1 DEF Saved
<1>3. CASE step = "next"
  BY <1>1, <1>2, <1>3 DEF Interrupted, files, IInv, Fresh, NothingIsLost, SavedAs
<1>4. CASE step = "backup"
  <2>1. at \in Item /\ dir \in Dir /\ dir \in dirs /\ backup[dir][at] = {} /\ target' = target
    BY <1>4 DEF Interrupted, IInv, Fresh, TypeOK
  <2>2. PICK half \in Half(at, {}, target[at]) : backup' = [backup EXCEPT ![dir][at] = half]
    BY <1>4 DEF Interrupted
  <2>3. /\ \A d \in Dir, j \in Item : backup[d][j] \subseteq backup'[d][j]
        /\ \A d \in Dir, j \in Item : d # dir \/ j # at => backup'[d][j] = backup[d][j]
    BY <2>1, <2>2, FirstBackup
  <2>4. Fresh'
    BY <1>1, <2>1, <2>3 DEF IInv, Fresh
  <2>5. NothingIsLost'
    BY <1>1, <2>1, <2>3 DEF IInv, NothingIsLost, SavedAs
  <2> QED
    BY <1>2, <2>4, <2>5 DEF IInv
<1>5. CASE step \in {"remove", "copy"}
  <2>1. /\ backup' = backup
        /\ \E half : target' = [target EXCEPT ![at] = half]
    BY <1>5 DEF Interrupted
  <2>2. NothingIsLost'
    BY <1>1, <1>5, <2>1, LostAtItem
  <2>3. Fresh'
    BY <1>1, <2>1 DEF IInv, Fresh
  <2> QED
    BY <1>2, <2>2, <2>3 DEF IInv
<1> QED
  BY <1>3, <1>4, <1>5 DEF TypeOK

LEMMA LostStep == TypeOK /\ IInv /\ [Next]_vars => IInv'
<1> SUFFICES ASSUME TypeOK, IInv, [Next]_vars PROVE IInv'
  OBVIOUS
<1>1. CASE UNCHANGED vars
  BY <1>1 DEF vars, files, options, user, IInv, Fresh, Saved, Backups, NothingIsLost, SavedAs
<1>2. CASE Done
  BY <1>2 DEF Done, End, files, user, IInv, Fresh, Saved, NothingIsLost, SavedAs
<1>3. ASSUME NEW r \in Release, Pull(r) PROVE IInv'
  BY <1>3 DEF Pull, files, options, user, IInv, Fresh, Saved, Backups, NothingIsLost, SavedAs
<1>4. CASE Next /\ ~Done /\ ~\E r \in Release : Pull(r)
  BY <1>4, LostUserWrites, LostStartInstall, LostStartUninstall, LostTake, LostMoveAway,
     LostBackUp, LostRemove, LostCopy, LostInterrupted DEF Next
<1> QED
  BY <1>1, <1>2, <1>3, <1>4

\* However the scripts are run, and wherever they are interrupted: what the
\* user has written of anything but a template, and has not given up by
\* --force, is in its place or in a backup.
THEOREM NothingLost == Spec => []NothingIsLost
<1>1. Init => IInv
  BY DEF Init, IInv, Fresh, Saved, NothingIsLost
<1>2. IInv => NothingIsLost
  BY DEF IInv
<1> QED
  BY <1>1, <1>2, LostStep, TypeCorrect, PTL DEF Spec

=============================================================================
