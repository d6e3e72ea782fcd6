------------------------------ MODULE Installer ------------------------------
(***************************************************************************)
(* scripts/install.sh and scripts/uninstall.sh on one target root, run any *)
(* number of times, from checkouts of different releases (omf-update.sh    *)
(* pulls and runs the installer with --force), and interrupted or failing  *)
(* anywhere: under set -e a command that fails ends the script.            *)
(*                                                                         *)
(* An item is a name the scripts handle as a whole: the file of an agent,  *)
(* command or template, or the directory of a skill.  Its content is the   *)
(* set of the pieces in it, of which a file has at most one; no piece is   *)
(* no item.  Every text the user writes is a piece of its own.             *)
(***************************************************************************)
CONSTANTS
  Item,
  Kind,     \* by item: "agent", "skill", "command" or "template"
  Release,  \* what may be checked out
  Ships,    \* by release and item: the pieces, {} if it does not ship the item
  Text,     \* what the user may write
  Torn,     \* the piece of a file that was being written
  Dir,      \* names of backup directories; each run has one of its own
  NoItem, NoDir

Kinds   == {"agent", "skill", "command", "template"}
Shipped == UNION {Ships[r][i] : r \in Release, i \in Item}
Piece   == Shipped \cup Text \cup {Torn}

ASSUME InstallerAssumption ==
  /\ Kind \in [Item -> Kinds]
  /\ \A r \in Release, i \in Item :
       Kind[i] # "skill" => \A p, q \in Ships[r][i] : p = q
  /\ Text \cap Shipped = {} /\ Torn \notin Text \cup Shipped
  /\ NoItem \notin Item /\ NoDir \notin Dir

VARIABLES
  release,  \* of the checkout
  target,   \* by item: what is under the target root
  backup,   \* by backup directory and item
  dirs,     \* the backup directories named so far
  op,       \* the script that runs: "idle", "install" or "uninstall"
  force, kinds, dir,   \* its options
  todo,     \* the items it has still to see to
  at, step, \* the item it is at, and the command: "next", "backup",
            \* "remove" or "copy"
  written,  \* the texts the user has written so far
  wanted    \* by item: those of them the user has not replaced, nor given up
            \* by running a script with --force

files   == <<target, backup>>
options == <<force, kinds, dir>>
user    == <<written, wanted>>
vars    == <<release, files, dirs, options, user, op, todo, at, step>>

-----------------------------------------------------------------------------
IsFile(i) == Kind[i] # "skill"

\* The items of these kinds that the checkout has.
Catalogue(ks) == {i \in Item : Kind[i] \in ks /\ Ships[release][i] # {}}

\* The order in which install.sh sees to the kinds.
Before(k) == CASE k = "agent"    -> {}
               [] k = "skill"    -> {"agent"}
               [] k = "command"  -> {"agent", "skill"}
               [] k = "template" -> {"agent", "skill", "command"}

Init ==
  /\ release \in Release
  /\ target = [i \in Item |-> {}]
  /\ backup = [d \in Dir |-> [i \in Item |-> {}]]
  /\ dirs = {}
  /\ op = "idle" /\ force = FALSE /\ kinds = {} /\ dir = NoDir
  /\ todo = {} /\ at = NoItem /\ step = "next"
  /\ written = {} /\ wanted = [i \in Item |-> {}]

\* The user writes a file, or a file of a skill, while no script runs.
UserWrites(i, t) ==
  /\ op = "idle" /\ t \notin written
  /\ target' = [target EXCEPT ![i] = IF IsFile(i) THEN {t} ELSE @ \cup {t}]
  /\ written' = written \cup {t}
  /\ wanted' = [wanted EXCEPT ![i] = IF IsFile(i) THEN {t} ELSE @ \cup {t}]
  /\ UNCHANGED <<release, backup, dirs, options, op, todo, at, step>>

\* git pull, or another checkout.
Pull(r) ==
  /\ op = "idle" /\ r # release
  /\ release' = r
  /\ UNCHANGED <<files, dirs, options, user, op, todo, at, step>>

Begin(what, d) ==
  /\ op = "idle" /\ op' = what
  /\ d \notin dirs /\ dirs' = dirs \cup {d} /\ dir' = d

\* install.sh, with or without --force, for some of the kinds.
StartInstall(ks, f, d) ==
  /\ Begin("install", d)
  /\ force' = f /\ kinds' = ks
  /\ todo' = Catalogue(ks)
  /\ wanted' = [i \in Item |-> IF f /\ i \in Catalogue(ks) THEN {} ELSE wanted[i]]
  /\ UNCHANGED <<release, files, written, at, step>>

\* uninstall.sh takes its list from the catalogue, which it reads for three
\* of the kinds, or, without python3, from the target itself.  There it looks
\* for skills by their SKILL.md, which may be missing.
StartUninstall(d) ==
  /\ Begin("uninstall", d)
  /\ force' = FALSE /\ kinds' = Kinds \ {"template"}
  /\ \/ todo' = Catalogue(Kinds \ {"template"})
     \/ LET there == {i \in Item : target[i] # {} /\ Kind[i] # "template"}
        IN \E some \in SUBSET there :
             {i \in there : IsFile(i)} \subseteq some /\ todo' = some
  /\ UNCHANGED <<release, files, user, at, step>>

\* install_flat_md, install_skills, install_templates: the next item, in the
\* order of the kinds.  Templates are never backed up.
Take(i) ==
  /\ op = "install" /\ step = "next" /\ i \in todo
  /\ \A j \in todo : Kind[j] \notin Before(Kind[i])
  /\ at' = i
  /\ step' = IF target[i] # {} /\ ~force /\ Kind[i] # "template"
               THEN "backup" ELSE "copy"
  /\ UNCHANGED <<release, files, dirs, options, user, op, todo>>

\* Seeded fault: a skill that is backed up is taken for saved beforehand: it
\* is removed first.
RemoveFirst ==
  /\ step = "backup"
  /\ backup' = [backup EXCEPT ![dir][at] = {}]
  /\ target' = [target EXCEPT ![at] = IF IsFile(at) THEN @ ELSE {}]
  /\ step' = "copy"
  /\ UNCHANGED <<release, dirs, options, user, op, todo, at>>

\* backup_if_exists: cp -a.
BackUp ==
  /\ step = "backup"
  /\ backup' = [backup EXCEPT ![dir][at] = target[at]]
  /\ step' = IF IsFile(at) THEN "copy" ELSE "remove"
  /\ UNCHANGED <<release, target, dirs, options, user, op, todo, at>>

\* rm -rf of a skill.
Remove ==
  /\ step = "remove"
  /\ target' = [target EXCEPT ![at] = {}]
  /\ step' = "copy"
  /\ UNCHANGED <<release, backup, dirs, options, user, op, todo, at>>

\* Seeded fault: what was there is not replaced.
SyncedInto(i) == target[i] \cup Ships[release][i]

\* install of a file, rsync -a --delete of a skill, rsync -a of a template.
Synced(i) == Ships[release][i]

Copy ==
  /\ step = "copy"
  /\ target' = [target EXCEPT ![at] = Synced(at)]
  /\ todo' = todo \ {at} /\ at' = NoItem /\ step' = "next"
  /\ UNCHANGED <<release, backup, dirs, options, user, op>>

\* remove_item: mv into the backup directory, on the same file system.
MoveAway(i) ==
  /\ op = "uninstall" /\ i \in todo
  /\ backup' = [backup EXCEPT ![dir][i] = IF target[i] = {} THEN @ ELSE target[i]]
  /\ target' = [target EXCEPT ![i] = {}]
  /\ todo' = todo \ {i}
  /\ UNCHANGED <<release, dirs, options, user, op, at, step>>

\* A script is over, and its options with it.
End ==
  /\ op # "idle" /\ op' = "idle"
  /\ force' = FALSE /\ kinds' = {} /\ dir' = NoDir
  /\ todo' = {} /\ at' = NoItem /\ step' = "next"
  /\ UNCHANGED <<release, dirs, user>>

\* The end of either script.
Done ==
  /\ step = "next" /\ todo = {}
  /\ End
  /\ UNCHANGED files

\* What a command that writes new over old may leave behind at item i.  For
\* a template it is rsync, which puts a file in place when it is complete.
Half(i, old, new) ==
  IF Kind[i] = "template" THEN {old, new}
  ELSE IF IsFile(i) THEN {old, {}, {Torn}} ELSE SUBSET (old \cup new \cup {Torn})

\* The script is killed, or the command it is at fails half-way.
Interrupted ==
  /\ End
  /\ CASE step = "next"   -> UNCHANGED files
       [] step = "backup" -> /\ \E half \in Half(at, {}, target[at]) :
                                  backup' = [backup EXCEPT ![dir][at] = half]
                             /\ UNCHANGED target
       [] step = "remove" -> /\ \E half \in SUBSET target[at] :
                                  target' = [target EXCEPT ![at] = half]
                             /\ UNCHANGED backup
       [] step = "copy"   -> /\ \E half \in Half(at, target[at], Ships[release][at]) :
                                  target' = [target EXCEPT ![at] = half]
                             /\ UNCHANGED backup

Next ==
  \/ \E i \in Item, t \in Text : UserWrites(i, t)
  \/ \E r \in Release : Pull(r)
  \/ \E ks \in SUBSET Kinds, f \in BOOLEAN, d \in Dir : StartInstall(ks, f, d)
  \/ \E d \in Dir : StartUninstall(d)
  \/ \E i \in Item : Take(i) \/ MoveAway(i)
  \/ BackUp \/ Remove \/ Copy \/ Done \/ Interrupted

Spec == Init /\ [][Next]_vars

-----------------------------------------------------------------------------
(* Properties. *)

Content(i, c) == c \subseteq Piece /\ (IsFile(i) => \A p, q \in c : p = q)

\* Types; a file never has two contents; a script at work has an item for
\* every command but the choice of the next one.
TypeOK ==
  /\ release \in Release /\ dirs \subseteq Dir
  /\ DOMAIN target = Item /\ DOMAIN wanted = Item
  /\ DOMAIN backup = Dir /\ \A d \in Dir : DOMAIN backup[d] = Item
  /\ \A i \in Item : Content(i, target[i]) /\ wanted[i] \subseteq written
  /\ \A d \in Dir, i \in Item : Content(i, backup[d][i])
  /\ op \in {"idle", "install", "uninstall"}
  /\ IF op = "idle" THEN dir = NoDir ELSE dir \in dirs
  /\ force \in BOOLEAN /\ kinds \subseteq Kinds /\ todo \subseteq Item
  /\ step \in {"next", "backup", "remove", "copy"}
  /\ IF step = "next" THEN at = NoItem ELSE at \in todo /\ op = "install"
  /\ written \subseteq Text

SavedAs(i) == target[i] \cup UNION {backup[d][i] : d \in Dir}

\* Whatever is installed and uninstalled, in whatever order, and wherever a
\* script is interrupted: what the user has written stays, whole, in its
\* place or in the backup of the same name.  (Not so for templates, nor under
\* --force, where the user has said so.)
NothingIsLost == \A i \in Item : Kind[i] # "template" => wanted[i] \subseteq SavedAs(i)

\* "The installer ... respects existing files (use --overwrite to force)"
\* (README.md): what is overwritten without --force is in a backup.
ExistingFilesRespected == \A i \in Item : wanted[i] \subseteq SavedAs(i)
=============================================================================
