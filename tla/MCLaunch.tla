------------------------------ MODULE MCLaunch ------------------------------
(***************************************************************************)
(* Launch with backends of every route, three callers' environments, and   *)
(* caches of which one also holds names of the other kinds, and values     *)
(* that mention either home.                                               *)
(***************************************************************************)
EXTENDS Launch, TLC

MCSafe == {"PATH", "TMPDIR"}

Backend(name, account, routing, allow) ==
  [name |-> name, account |-> account, routing |-> routing, allow |-> allow,
   oneshot |-> name # "q", interactive |-> TRUE]

Mine   == Backend("p", TRUE, "private", {"PATH", "TMPDIR", "TOKEN", "KEY"})
Plain  == Backend("q", TRUE, "private", {"PATH"})
Work   == Backend("w", TRUE, "work", {"PATH", "TMPDIR", "TOKEN"})
Free   == Backend("f", FALSE, "none", {"PATH", "TOKEN"})

MCFiles == {
  <<Mine, Work>>, <<Free, Plain>>,
  <<Mine, [Work EXCEPT !.name = "p"]>>,            \* the same name twice
  <<[Free EXCEPT !.account = TRUE]>>,              \* a kind that needs a route
  <<[Plain EXCEPT !.routing = "missing"]>>,
  <<[Plain EXCEPT !.allow = {"HOME"}]>> }

MCEnvirons == {
  [n \in {"PATH", "TMPDIR", "TOKEN", "HOME"} |-> {Elsewhere}],
  [n \in {"PATH", "TMPDIR", "TOKEN"} |-> {"work", Elsewhere, "private"}],
  [n \in {"PATH", "KEY"} |-> {"work"}] }

MCCaches == {
  "TOKEN" :> {"private"} @@ "KEY" :> {"private"},
  [n \in {"TOKEN", "KEY", "PATH", "HOME"} |-> {"work", Elsewhere}] }
MCProfiles == {"p", "q", "w", "f"}
=============================================================================
