---------------------------- MODULE MCManifest -----------------------------
(***************************************************************************)
(* Files of at most two backends: everything two edits make of the         *)
(* shortest valid file, and everything one edit makes of two longer ones.  *)
(* An edit replaces, removes or inserts a line.                            *)
(***************************************************************************)
EXTENDS Manifest, SequencesExt

Str(t) == [type |-> "string", is |-> t]
Arr(t) == [type |-> "array", is |-> t]
Num(n) == [type |-> "integer", is |-> n]
Bool(b) == [type |-> "bool", is |-> b]

backend == [line |-> "backend"]
limitsTable == [line |-> "limits"]
Set(k, v) == [line |-> "entry", key |-> k, value |-> v]

Lines ==
  {backend, limitsTable, [line |-> "other"], [line |-> "part"], [line |-> "broken"],
   Set("schema_version", Num(1)), Set("schema_version", Num(20)),
   Set("name", Str("a")), Set("name", Str("b")), Set("name", Str("")), Set("name", Bool(TRUE)),
   Set("kind", Str("forge")), Set("kind", Str("vendor")), Set("kind", Str("local-llm")), Set("kind", Str("shell")),
   Set("routing", Str("none")), Set("routing", Str("private")),
   Set("env_allowlist", Arr(<<"PATH">>)), Set("env_allowlist", Arr(<<"PATH", "HOME">>)),
   Set("env_allowlist", Arr(<<"FORGE_CONFIG">>)), Set("interactive", Str("forge")),
   Set("danger_allowed", Bool(TRUE)), Set("danger_allowed", Num(1)),
   Set("wired_gib", Num(14)), Set("wired_gib", Num(15)), Set("memory_gib", Num(0)),
   Set("memory_gib", Num(19)), Set("cache_gib", Num(100)), Set("model", Str("a"))}

\* An edit: before, at a line or past the end; what is not there stays so.
Edits(n) == [at : 1 .. n, what : {"replace", "insert"}, with : Lines]
            \cup [at : 1 .. n, what : {"remove"}]
After(d, e) ==
  CASE e.what = "insert"  /\ e.at <= Len(d) + 1 -> InsertAt(d, e.at, e.with)
    [] e.what = "replace" /\ e.at <= Len(d)     -> ReplaceAt(d, e.at, e.with)
    [] e.what = "remove"  /\ e.at <= Len(d)     -> RemoveAt(d, e.at)
    [] OTHER -> d

Named(n, k, r) == <<backend, Set("name", Str(n)), Set("kind", Str(k)), Set("routing", Str(r))>>
Within3(w, m, c) ==
  <<limitsTable, Set("wired_gib", Num(w)), Set("memory_gib", Num(m)), Set("cache_gib", Num(c))>>

Short == Named("a", "forge", "work")
Long  == <<Set("schema_version", Num(1))>> \o Short
         \o <<Set("env_allowlist", Arr(<<"PATH">>)), Set("danger_allowed", Bool(TRUE))>>
         \o Within3(14, 19, 1)
Two   == Named("a", "local-llm", "none") \o Within3(15, 18, 3)
         \o Named("b", "codex", "private") \o Within3(99, 8, 2)

Files ==
  {After(After(Short, e), f) : e \in Edits(5), f \in Edits(6)}
  \cup {After(d, e) : d \in {Long, Two}, e \in Edits(17)}
=============================================================================
