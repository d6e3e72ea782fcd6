------------------------------ MODULE Manifest ------------------------------
(***************************************************************************)
(* The two readers of omf.toml.  The dispatcher's (Parse, Validate and     *)
(* ClampAll in omf/dispatch/internal/manifest) takes the file line by line *)
(* and is the state machine below; the floor's (omf/core/src/manifest.rs)  *)
(* is a declaration that serde reads, and is what a document means there.  *)
(*                                                                         *)
(* A document is the sequence of its lines that are not blank: a table     *)
(* header or a key with a value.  A value has a type and what it holds.    *)
(* A backend is named by the line its table begins at.  The headers are    *)
(* [[backend]], [backend.limits], two of tables that the structs do not    *)
(* have, [other] and [backend.other], and a line that is not TOML.         *)
(***************************************************************************)
EXTENDS Integers, Sequences

CONSTANTS
  Document, \* the files
  Word,     \* one more than the largest u32
  MaxToml   \* the largest TOML integer

BackendKey == {"name", "kind", "routing", "interactive", "oneshot", "env_allowlist",
               "danger_allowed"}
LimitKey   == {"wired_gib", "memory_gib", "cache_gib"}

Value == [type : {"string"}, is : STRING] \cup [type : {"array"}, is : Seq(STRING)]
         \cup [type : {"integer"}, is : Nat] \cup [type : {"bool"}, is : BOOLEAN]

Header == [line : {"backend", "limits", "other", "part", "broken"}]
Entry  == [line : {"entry"}, key : STRING, value : Value]

ASSUME ManifestAssumption ==
  /\ Document \subseteq Seq(Header \cup Entry)
  /\ Word \in Nat \ {0} /\ MaxToml \in Nat

-----------------------------------------------------------------------------
(* What both readers know.  Each has a copy; the floor's are named Core. *)

\* Seeded fault: a kind that only the floor knows.
validKindOld(k) ==
  k \in {"forge", "claude", "codex", "omc", "omx", "gemini", "copilot", "vendor"}

validKind(k) ==
  k \in {"forge", "claude", "codex", "omc", "omx", "gemini", "copilot", "vendor", "local-llm"}
CoreKind ==
  {"forge", "claude", "codex", "omc", "omx", "gemini", "copilot", "vendor", "local-llm"}

validRouting(r) == r \in {"none", "work", "private"}
CoreRouting == {"none", "work", "private"}

RequiresAccountRouting(k) == k \notin {"vendor", "local-llm"}

isRoutingManagedEnv(name) == name \in {"HOME", "FORGE_CONFIG"}
CoreManagedEnv == {"HOME", "FORGE_CONFIG"}

Managed(allowlist) == \E i \in DOMAIN allowlist : isRoutingManagedEnv(allowlist[i])

\* Seeded fault: a limit one above the floor.
MLXLimitAbove(f) ==
  CASE f = "wired_gib" -> 14 [] f = "memory_gib" -> 19 [] f = "cache_gib" -> 2

MLXLimitGiB(f) ==
  CASE f = "wired_gib" -> 14 [] f = "memory_gib" -> 18 [] f = "cache_gib" -> 2

CoreLimitGib(f) ==
  CASE f = "wired_gib" -> 14 [] f = "memory_gib" -> 18 [] f = "cache_gib" -> 2

\* The value of a key before it is read, and a backend of those.
Missing == ""
ZeroValue(k) ==
  CASE k \in {"name", "kind", "routing"} -> Missing
    [] k \in {"interactive", "oneshot", "env_allowlist"} -> <<>>
    [] k = "danger_allowed" -> FALSE
NewBackend == [k \in BackendKey |-> ZeroValue(k)]

\* Does the dispatcher take the value for the key of a backend?  A boolean
\* may be a number there (strconv.ParseBool).
Takes(k, v) ==
  CASE k = "name"           -> v.type = "string"
    [] k = "kind"           -> v.type = "string" /\ validKind(v.is)
    [] k = "routing"        -> v.type = "string" /\ validRouting(v.is)
    [] k = "env_allowlist"  -> v.type = "array" /\ ~Managed(v.is)
    [] k = "danger_allowed" -> v.type = "bool" \/ (v.type = "integer" /\ v.is \in {0, 1})
    [] OTHER                -> v.type = "array"

Reads(v, k) == IF k = "danger_allowed" /\ v.type = "integer" THEN v.is = 1 ELSE v.is

-----------------------------------------------------------------------------
(* The dispatcher. *)

VARIABLES
  doc,      \* the file
  status,   \* "reading", "parsed", "loaded" or "refused"
  pos,      \* the line to read next
  schema,   \* SchemaVersion
  current,  \* the backend that is being read; 0 before the first
  inLimits, \* its limits are being read
  rows,     \* Backends: the keys of each
  limits,   \* the Limits of those that have them
  asked,    \* history: the limits before they were clamped
  logs      \* the ClampLogs

reader == <<schema, current, inLimits, rows, limits>>
vars   == <<doc, status, pos, reader, asked, logs>>

Init ==
  /\ doc \in Document
  /\ status = "reading" /\ pos = 1
  /\ schema = 0 /\ current = 0 /\ inLimits = FALSE
  /\ rows = [s \in {} |-> NewBackend] /\ limits = [s \in {} |-> [f \in LimitKey |-> 0]]
  /\ asked = limits /\ logs = {}

\* The line at hand, and the reader goes on.
Reading(line) == status = "reading" /\ pos <= Len(doc) /\ doc[pos].line = line
GoOn == pos' = pos + 1 /\ UNCHANGED <<doc, status, asked, logs>>

\* Seeded fault: a backend begins as the one before it ended.
BackendAgain ==
  /\ Reading("backend") /\ GoOn
  /\ rows' = [s \in DOMAIN rows \cup {pos} |->
                IF s # pos THEN rows[s] ELSE IF current = 0 THEN NewBackend ELSE rows[current]]
  /\ current' = pos /\ inLimits' = FALSE
  /\ UNCHANGED <<schema, limits>>

\* [[backend]]
Backend ==
  /\ Reading("backend") /\ GoOn
  /\ rows' = [s \in DOMAIN rows \cup {pos} |-> IF s = pos THEN NewBackend ELSE rows[s]]
  /\ current' = pos /\ inLimits' = FALSE
  /\ UNCHANGED <<schema, limits>>

\* [backend.limits]; a second one goes on with the same limits.
Limits ==
  /\ Reading("limits") /\ current # 0 /\ GoOn
  /\ limits' = [s \in DOMAIN limits \cup {current} |->
                  IF s \in DOMAIN limits THEN limits[s] ELSE [f \in LimitKey |-> 0]]
  /\ inLimits' = TRUE
  /\ UNCHANGED <<schema, current, rows>>

\* Seeded fault: the version is kept whole.
TopLevelWhole ==
  /\ Reading("entry") /\ current = 0
  /\ doc[pos].key = "schema_version" /\ doc[pos].value.type = "integer" /\ GoOn
  /\ schema' = doc[pos].value.is
  /\ UNCHANGED <<current, inLimits, rows, limits>>

\* A key before the first backend; the version is cut to a word.
TopLevel ==
  /\ Reading("entry") /\ current = 0
  /\ doc[pos].key = "schema_version" /\ doc[pos].value.type = "integer" /\ GoOn
  /\ schema' = doc[pos].value.is % Word
  /\ UNCHANGED <<current, inLimits, rows, limits>>

LimitEntry ==
  /\ Reading("entry") /\ current # 0 /\ inLimits
  /\ doc[pos].key \in LimitKey /\ doc[pos].value.type = "integer" /\ GoOn
  /\ limits' = [limits EXCEPT ![current] = [@ EXCEPT ![doc[pos].key] = doc[pos].value.is]]
  /\ UNCHANGED <<schema, current, inLimits, rows>>

BackendEntry ==
  /\ Reading("entry") /\ current # 0 /\ ~inLimits
  /\ doc[pos].key \in BackendKey /\ Takes(doc[pos].key, doc[pos].value) /\ GoOn
  /\ rows' = [rows EXCEPT ![current] =
                [@ EXCEPT ![doc[pos].key] = Reads(doc[pos].value, doc[pos].key)]]
  /\ UNCHANGED <<schema, current, inLimits, limits>>

\* A line that none of the above takes.
Unreadable(l) ==
  CASE l.line \in {"other", "part", "broken"} -> TRUE
    [] l.line = "backend" -> FALSE
    [] l.line = "limits"  -> current = 0
    [] l.line = "entry"   ->
         IF current = 0 THEN l.key # "schema_version" \/ l.value.type # "integer"
         ELSE IF inLimits THEN l.key \notin LimitKey \/ l.value.type # "integer"
         ELSE l.key \notin BackendKey \/ ~Takes(l.key, l.value)

LineRefused ==
  /\ status = "reading" /\ pos <= Len(doc) /\ Unreadable(doc[pos])
  /\ status' = "refused"
  /\ UNCHANGED <<doc, pos, reader, asked, logs>>

\* Seeded fault: two backends may have one name.
ValidateEach ==
  \A s \in DOMAIN rows :
    /\ rows[s]["routing"] # Missing
    /\ rows[s]["routing"] = "none" => ~RequiresAccountRouting(rows[s]["kind"])
    /\ ~Managed(rows[s]["env_allowlist"])

Validate ==
  \A s \in DOMAIN rows :
    /\ \A t \in DOMAIN rows : rows[s]["name"] = rows[t]["name"] => s = t
    /\ rows[s]["routing"] # Missing
    /\ rows[s]["routing"] = "none" => ~RequiresAccountRouting(rows[s]["kind"])
    /\ ~Managed(rows[s]["env_allowlist"])

\* The end of the file.
Parsed ==
  /\ status = "reading" /\ pos > Len(doc)
  /\ status' = IF /\ \A s \in DOMAIN rows : rows[s]["name"] # Missing /\ rows[s]["kind"] # Missing
                  /\ Validate
                 THEN "parsed" ELSE "refused"
  /\ asked' = limits
  /\ UNCHANGED <<doc, pos, reader, logs>>

clampLimit(n, floor) == IF n <= floor THEN n ELSE floor

ClampLog(s, f) ==
  [backend |-> rows[s]["name"], field |-> f, requested |-> limits[s][f],
   clamped_to |-> MLXLimitGiB(f)]

\* The rest of LoadFile.
ClampAll ==
  /\ status = "parsed" /\ status' = "loaded"
  /\ limits' = [s \in DOMAIN limits |->
                  [f \in LimitKey |-> clampLimit(limits[s][f], MLXLimitGiB(f))]]
  /\ logs' = {ClampLog(p[1], p[2]) :
                p \in {q \in (DOMAIN limits) \X LimitKey : limits[q[1]][q[2]] > MLXLimitGiB(q[2])}}
  /\ UNCHANGED <<doc, pos, schema, current, inLimits, rows, asked>>

Next == \/ Backend \/ Limits \/ TopLevel \/ LimitEntry \/ BackendEntry
        \/ LineRefused \/ Parsed \/ ClampAll

Spec == Init /\ [][Next]_vars

-----------------------------------------------------------------------------
(* The floor. *)

Starts(d) == {n \in DOMAIN d : d[n].line = "backend"}

\* Line n belongs to the backend that begins at s, or to none when s is 0.
Within(d, s, n) == s < n /\ \A m \in Starts(d) : m <= s \/ n < m

\* The headers of tables that the structs do not have.  What is in such a table,
\* up to the next header, is no field of anything.
Others(d) == {n \in DOMAIN d : d[n].line \in {"other", "part"}}
Under(d, h, n) == h < n /\ \A m \in DOMAIN d : d[m].line = "entry" \/ m <= h \/ n < m
Ignored(d, n) == \E h \in Others(d) : Under(d, h, n)
PartsOf(d, s) == {n \in Others(d) : Within(d, s, n) /\ d[n].line = "part"}

\* The headers of a backend's limits, the lines of a key of it, and of its limits.
LimitsOf(d, s) == {n \in DOMAIN d : Within(d, s, n) /\ d[n].line = "limits"}
InLimits(d, s, n) == \E h \in LimitsOf(d, s) : h < n
KeyLines(d, s, k) ==
  {n \in DOMAIN d : Within(d, s, n) /\ d[n].line = "entry" /\ d[n].key = k /\ ~Ignored(d, n)}
Entries(d, s, k)      == {n \in KeyLines(d, s, k) : ~InLimits(d, s, n)}
LimitEntries(d, s, k) == {n \in KeyLines(d, s, k) : InLimits(d, s, n)}

AtMostOne(S) == \A m, n \in S : m = n

\* Serde takes the value for the key of a Backend.
CoreTakes(k, v) ==
  CASE k = "name"           -> v.type = "string"
    [] k = "kind"           -> v.type = "string" /\ v.is \in CoreKind
    [] k = "routing"        -> v.type = "string" /\ v.is \in CoreRouting
    [] k = "danger_allowed" -> v.type = "bool"
    [] OTHER                -> v.type = "array"

\* The file is TOML: no key and no table is given twice, and a table within a
\* backend has one to be in.
IsToml(d) ==
  /\ \A n \in DOMAIN d :
       /\ d[n].line # "broken"
       /\ d[n].line = "entry" /\ d[n].value.type = "integer" => d[n].value.is <= MaxToml
       /\ d[n].line = "entry" => \A s \in Starts(d) \cup {0} :
            AtMostOne(Entries(d, s, d[n].key)) /\ AtMostOne(LimitEntries(d, s, d[n].key))
  /\ LimitsOf(d, 0) = {} /\ PartsOf(d, 0) = {}
  /\ \A s \in Starts(d) : AtMostOne(LimitsOf(d, s)) /\ AtMostOne(PartsOf(d, s))
  /\ AtMostOne({n \in Others(d) : d[n].line = "other"})
  /\ \A h \in Others(d) : \A m, n \in DOMAIN d :
       Under(d, h, m) /\ Under(d, h, n) /\ d[m].key = d[n].key => m = n

\* parse: keys and tables that the structs do not have are ignored.
CoreReads(d) ==
  /\ IsToml(d)
  /\ \A n \in Entries(d, 0, "schema_version") : d[n].value.type = "integer" /\ d[n].value.is < Word
  /\ \A s \in Starts(d) :
       /\ Entries(d, s, "name") # {} /\ Entries(d, s, "kind") # {}
       /\ \A k \in BackendKey : \A n \in Entries(d, s, k) : CoreTakes(k, d[n].value)
       /\ LimitsOf(d, s) # {} => \A f \in LimitKey : LimitEntries(d, s, f) # {}
       /\ \A f \in LimitKey : \A n \in LimitEntries(d, s, f) : d[n].value.type = "integer"

\* The value of the only line of S, or the default.
ValueAt(d, S, default) == IF S = {} THEN default ELSE d[CHOOSE n \in S : TRUE].value.is

CoreSchema(d) == ValueAt(d, Entries(d, 0, "schema_version"), 0)
CoreBackend(d, s) ==
  [k \in BackendKey |-> ValueAt(d, Entries(d, s, k), IF k = "routing" THEN "none" ELSE NewBackend[k])]
CoreBackends(d) == [s \in Starts(d) |-> CoreBackend(d, s)]
CoreLimits(d) ==
  [s \in {t \in Starts(d) : LimitsOf(d, t) # {}} |-> [f \in LimitKey |-> ValueAt(d, LimitEntries(d, s, f), 0)]]

\* validate, of backends
CoreValid(b) ==
  \A s \in DOMAIN b : \A i \in DOMAIN b[s]["env_allowlist"] :
    b[s]["env_allowlist"][i] \notin CoreManagedEnv

\* clamp_to_floor, of the limits of a backend
clamp_to_floor(l) ==
  [f \in LimitKey |-> IF l[f] > CoreLimitGib(f) THEN CoreLimitGib(f) ELSE l[f]]

-----------------------------------------------------------------------------
(* Properties. *)

\* What is read has the types of the structs, each backend is one of the
\* document, and only a backend has limits.
TypeOK ==
  /\ doc \in Seq(Header \cup Entry) /\ status \in {"reading", "parsed", "loaded", "refused"}
  /\ pos \in 1 .. Len(doc) + 1
  /\ schema \in 0 .. Word - 1 /\ inLimits \in BOOLEAN
  /\ DOMAIN rows \subseteq Starts(doc) /\ current \in DOMAIN rows \cup {0}
  /\ DOMAIN limits \subseteq DOMAIN rows /\ (inLimits => current \in DOMAIN limits)
  /\ limits \in [DOMAIN limits -> [LimitKey -> Nat]]
  /\ status = "parsed" => asked = limits

\* Where both readers take the file they have read the same manifest, so the
\* floor would validate what the dispatcher routes.
ReadersAgree ==
  status = "parsed" /\ CoreReads(doc) =>
    schema = CoreSchema(doc) /\ rows = CoreBackends(doc) /\ limits = CoreLimits(doc)

\* The two readers take the same files, but for what is known to be read
\* differently: the floor wants every limit and no key twice, a boolean for
\* a boolean and a version that fits; the dispatcher wants a name, a routing
\* that its kind allows, names that differ, and no key and no table that it
\* does not know.
Usual(d) ==
  /\ Others(d) = {}
  /\ \A n \in DOMAIN d : d[n].line = "entry" =>
       /\ d[n].value.type = "integer" => d[n].value.is < Word /\ d[n].value.is <= MaxToml
       /\ d[n].key = "danger_allowed" => d[n].value.type = "bool"
       /\ d[n].key \in BackendKey \cup LimitKey \cup {"schema_version"}
       /\ \A s \in Starts(d) \cup {0} :
            /\ AtMostOne(Entries(d, s, d[n].key)) /\ AtMostOne(LimitEntries(d, s, d[n].key))
            /\ n \in Entries(d, s, d[n].key) =>
                 d[n].key \in (IF s = 0 THEN {"schema_version"} ELSE BackendKey)
            /\ n \in LimitEntries(d, s, d[n].key) => d[n].key \in LimitKey
  /\ \A s \in Starts(d) :
       /\ AtMostOne(LimitsOf(d, s))
       /\ LimitsOf(d, s) # {} => \A f \in LimitKey : LimitEntries(d, s, f) # {}
       /\ Entries(d, s, "routing") # {}
  /\ CoreReads(d) => \A s \in Starts(d) :
       /\ CoreBackend(d, s)["name"] # Missing
       /\ CoreBackend(d, s)["routing"] = "none" => ~RequiresAccountRouting(CoreBackend(d, s)["kind"])
       /\ \A t \in Starts(d) : CoreBackend(d, s)["name"] = CoreBackend(d, t)["name"] => s = t

SameFilesAreTaken ==
  status \in {"loaded", "refused"} /\ Usual(doc) =>
    (status = "loaded" <=> CoreReads(doc) /\ CoreValid(CoreBackends(doc)))

\* What the dispatcher routes is within the floor: the floor's validation
\* accepts it and its clamp changes nothing.
RoutedIsWithinFloor ==
  status = "loaded" =>
    /\ CoreValid(rows)
    /\ \A s \in DOMAIN limits : clamp_to_floor(limits[s]) = limits[s]

\* A limit changes only to become stricter, and the change is in the log of
\* its backend: who reads the names and the log knows what was asked for.
ClampsAreLogged ==
  status = "loaded" =>
    \A s \in DOMAIN limits : \A f \in LimitKey :
      /\ limits[s][f] <= asked[s][f]
      /\ {l.requested : l \in {m \in logs : m.backend = rows[s]["name"] /\ m.field = f}}
           = IF limits[s][f] = asked[s][f] THEN {} ELSE {asked[s][f]}
=============================================================================
