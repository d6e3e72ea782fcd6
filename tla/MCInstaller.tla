----------------------------- MODULE MCInstaller -----------------------------
(***************************************************************************)
(* An agent that comes with the second release, a skill that changes with  *)
(* it, and a template; two runs, two texts of the user.                    *)
(***************************************************************************)
EXTENDS Installer, TLC

CONSTANTS old, new    \* releases

MCKind == "helper" :> "agent" @@ "plan" :> "skill" @@ "notes" :> "template"
MCItem == DOMAIN MCKind
MCShips ==
  old :> ("helper" :> {} @@ "plan" :> {"p1"} @@ "notes" :> {"n1"}) @@
  new :> ("helper" :> {"h2"} @@ "plan" :> {"p1", "p2"} @@ "notes" :> {"n1"})
Sym == Permutations(Dir) \cup Permutations(Text)
=============================================================================
