-------------------------- MODULE Manifest_proofs --------------------------
(***************************************************************************)
(* Proofs about Manifest, for every set of files.                          *)
(***************************************************************************)
EXTENDS Manifest, TLAPS

\* What a line of a document is.
LEMMA LineFacts ==
  ASSUME NEW d \in Seq(Header \cup Entry), NEW n \in DOMAIN d
  PROVE  /\ d[n].line = "entry" /\ d[n].value.type = "integer" => d[n].value.is \in Nat
         /\ n \in Nat \ {0} /\ n <= Len(d)
  BY SMT DEF Header, Entry, Value

\* Clamping: the two floors are the same, and a clamped limit is below.
LEMMA ClampFacts ==
  ASSUME NEW f \in LimitKey, NEW n \in Nat
  PROVE  /\ MLXLimitGiB(f) \in Nat /\ CoreLimitGib(f) = MLXLimitGiB(f)
         /\ clampLimit(n, MLXLimitGiB(f)) \in Nat
         /\ clampLimit(n, MLXLimitGiB(f)) <= MLXLimitGiB(f)
         /\ clampLimit(n, MLXLimitGiB(f)) <= n
         /\ clampLimit(n, MLXLimitGiB(f)) # n <=> n > MLXLimitGiB(f)
  <1>1. MLXLimitGiB(f) \in Nat /\ CoreLimitGib(f) = MLXLimitGiB(f)
    BY DEF LimitKey, MLXLimitGiB, CoreLimitGib
  <1>2. QED BY <1>1 DEF clampLimit

-----------------------------------------------------------------------------
(* Types. *)

LEMMA InitTypeOK == Init => TypeOK
  <1>1. SUFFICES ASSUME Init PROVE TypeOK OBVIOUS
  <1>2. doc \in Seq(Header \cup Entry) BY <1>1, ManifestAssumption DEF Init
  <1>3. DOMAIN rows = {} /\ DOMAIN limits = {} BY <1>1 DEF Init
  <1>4. limits \in [DOMAIN limits -> [LimitKey -> Nat]] BY <1>1 DEF Init
  <1>5. pos \in 1 .. Len(doc) + 1 BY <1>1, <1>2 DEF Init
  <1>6. schema \in 0 .. Word - 1 BY <1>1, ManifestAssumption DEF Init
  <1>7. /\ status = "reading" /\ inLimits = FALSE /\ current = 0 /\ asked = limits
    BY <1>1 DEF Init
  <1>8. QED BY <1>2, <1>3, <1>4, <1>5, <1>6, <1>7 DEF TypeOK

LEMMA NextTypeOK == TypeOK /\ [Next]_vars => TypeOK'
  <1>1. SUFFICES ASSUME TypeOK, [Next]_vars PROVE TypeOK' OBVIOUS
  <1> USE <1>1
  <1>2. ASSUME NEW line, Reading(line), GoOn
        PROVE  /\ doc' = doc /\ status' = status /\ status = "reading"
               /\ pos \in DOMAIN doc /\ pos' \in 1 .. Len(doc') + 1
               /\ doc[pos].line = line /\ logs' = logs /\ asked' = asked
    BY <1>2 DEF TypeOK, Reading, GoOn
  <1>3. CASE Backend
    <2>1. pos \in Starts(doc) /\ Starts(doc') = Starts(doc)
      BY <1>2, <1>3 DEF Backend, Starts
    <2>2. DOMAIN rows' = DOMAIN rows \cup {pos} BY <1>3 DEF Backend
    <2>3. QED BY <1>2, <1>3, <2>1, <2>2 DEF Backend, TypeOK
  <1>4. CASE Limits
    <2>1. DOMAIN limits' = DOMAIN limits \cup {current} BY <1>4 DEF Limits
    <2>2. limits' \in [DOMAIN limits' -> [LimitKey -> Nat]]
      BY <1>4, <2>1 DEF Limits, TypeOK
    <2>3. current' \in DOMAIN rows' /\ rows' = rows BY <1>4 DEF Limits, TypeOK
    <2>4. QED BY <1>2, <1>4, <2>1, <2>2, <2>3 DEF Limits, TypeOK
  <1>5. CASE TopLevel
    <2>1. doc[pos].value.is \in Nat BY <1>2, <1>5, LineFacts DEF TopLevel, TypeOK
    <2>2. schema' \in 0 .. Word - 1 BY <1>5, <2>1, ManifestAssumption DEF TopLevel
    <2>3. QED BY <1>2, <1>5, <2>2 DEF TopLevel, TypeOK
  <1>6. CASE LimitEntry
    <2>1. doc[pos].value.is \in Nat BY <1>2, <1>6, LineFacts DEF LimitEntry, TypeOK
    <2>2. limits' \in [DOMAIN limits -> [LimitKey -> Nat]] /\ DOMAIN limits' = DOMAIN limits
      BY <1>6, <2>1 DEF LimitEntry, TypeOK
    <2>3. QED BY <1>2, <1>6, <2>2 DEF LimitEntry, TypeOK
  <1>7. CASE BackendEntry
    <2>1. DOMAIN rows' = DOMAIN rows BY <1>7 DEF BackendEntry
    <2>2. QED BY <1>2, <1>7, <2>1 DEF BackendEntry, TypeOK
  <1>8. CASE LineRefused
    BY <1>8 DEF LineRefused, reader, TypeOK
  <1>9. CASE Parsed
    BY <1>9 DEF Parsed, reader, TypeOK
  <1>10. CASE ClampAll
    <2>1. /\ DOMAIN limits' = DOMAIN limits
          /\ \A s \in DOMAIN limits :
               limits'[s] = [f \in LimitKey |-> clampLimit(limits[s][f], MLXLimitGiB(f))]
      BY <1>10 DEF ClampAll
    <2>2. \A s \in DOMAIN limits : \A f \in LimitKey : limits[s][f] \in Nat BY DEF TypeOK
    <2>3. \A s \in DOMAIN limits : limits'[s] \in [LimitKey -> Nat]
      BY <2>1, <2>2, ClampFacts
    <2>4. limits' \in [DOMAIN limits' -> [LimitKey -> Nat]]
      BY <1>10, <2>1, <2>3 DEF ClampAll
    <2>5. QED BY <1>10, <2>1, <2>4 DEF ClampAll, TypeOK
  <1>11. CASE UNCHANGED vars BY <1>11 DEF vars, reader, TypeOK
  <1>12. QED
    BY <1>3, <1>4, <1>5, <1>6, <1>7, <1>8, <1>9, <1>10, <1>11 DEF Next

\* What the dispatcher has read has the types of its structs (Parse and
\* ClampAll in manifest.go), whatever the file holds.
THEOREM TypeCorrect == Spec => []TypeOK
  BY InitTypeOK, NextTypeOK, PTL DEF Spec

-----------------------------------------------------------------------------
(* Validation and clamping. *)

\* The log of a limit that was clamped.
LogOf(s, f) ==
  [backend |-> rows[s]["name"], field |-> f, requested |-> asked[s][f],
   clamped_to |-> MLXLimitGiB(f)]

\* A file that was taken has been validated.
Validated ==
  status \in {"parsed", "loaded"} =>
    /\ \A s, t \in DOMAIN rows : rows[s]["name"] = rows[t]["name"] => s = t
    /\ \A s \in DOMAIN rows : ~Managed(rows[s]["env_allowlist"])

\* The limits of a file that was loaded are what was asked for, clamped, and
\* the logs are those of the limits above the floor.
Clamped ==
  status = "loaded" =>
    /\ DOMAIN asked = DOMAIN limits
    /\ \A s \in DOMAIN limits : \A f \in LimitKey :
         asked[s][f] \in Nat /\ limits[s][f] = clampLimit(asked[s][f], MLXLimitGiB(f))
    /\ \A s \in DOMAIN limits : limits[s] = [f \in LimitKey |-> limits[s][f]]
    /\ \A l : l \in logs <=> \E s \in DOMAIN limits, f \in LimitKey :
                              asked[s][f] > MLXLimitGiB(f) /\ l = LogOf(s, f)

LoadInv == TypeOK /\ Validated /\ Clamped

LEMMA NextLoadInv == LoadInv /\ [Next]_vars => LoadInv'
  <1>1. SUFFICES ASSUME LoadInv, [Next]_vars PROVE LoadInv' OBVIOUS
  <1> USE <1>1 DEF LoadInv
  <1>2. TypeOK' BY NextTypeOK
  <1>3. CASE Backend \/ Limits \/ TopLevel \/ LimitEntry \/ BackendEntry
    BY <1>2, <1>3 DEF Backend, Limits, TopLevel, LimitEntry, BackendEntry, Reading, GoOn,
                      Validated, Clamped
  <1>4. CASE LineRefused BY <1>2, <1>4 DEF LineRefused, Validated, Clamped
  <1>5. CASE Parsed
    <2>1. rows' = rows /\ status' \in {"parsed", "refused"} /\ (status' = "parsed" => Validate)
      BY <1>5 DEF Parsed, reader
    <2>2. Validated' BY <2>1 DEF Validate, Validated
    <2>3. QED BY <1>2, <2>1, <2>2 DEF Clamped
  <1>6. CASE ClampAll
    <2>1. /\ status = "parsed" /\ status' = "loaded" /\ rows' = rows /\ asked' = limits
          /\ DOMAIN limits' = DOMAIN limits
          /\ \A s \in DOMAIN limits :
               limits'[s] = [f \in LimitKey |-> clampLimit(limits[s][f], MLXLimitGiB(f))]
      BY <1>6 DEF ClampAll, TypeOK
    <2>2. \A s \in DOMAIN limits : \A f \in LimitKey : limits[s][f] \in Nat BY DEF TypeOK
    <2>3. ASSUME NEW s \in DOMAIN limits, NEW f \in LimitKey
          PROVE  ClampLog(s, f) = LogOf(s, f)'
      BY <2>1 DEF ClampLog, LogOf
    <2>4. \A l : l \in logs' <=> \E s \in DOMAIN limits, f \in LimitKey :
                                 limits[s][f] > MLXLimitGiB(f) /\ l = ClampLog(s, f)
      <3>1. logs' = {ClampLog(p[1], p[2]) : p \in
                       {q \in (DOMAIN limits) \X LimitKey : limits[q[1]][q[2]] > MLXLimitGiB(q[2])}}
        BY <1>6 DEF ClampAll
      <3>2. ASSUME NEW l \in logs'
            PROVE  \E s \in DOMAIN limits, f \in LimitKey :
                     limits[s][f] > MLXLimitGiB(f) /\ l = ClampLog(s, f)
        BY <3>1
      <3>3. ASSUME NEW s \in DOMAIN limits, NEW f \in LimitKey, limits[s][f] > MLXLimitGiB(f)
            PROVE  ClampLog(s, f) \in logs'
        <4>1. <<s, f>> \in {q \in (DOMAIN limits) \X LimitKey :
                              limits[q[1]][q[2]] > MLXLimitGiB(q[2])}
          BY <3>3
        <4>2. QED BY <3>1, <4>1
      <3>4. QED BY <3>2, <3>3
    <2>5. Clamped'
      <3>1. \A s \in DOMAIN limits' : limits'[s] = [f \in LimitKey |-> limits'[s][f]] BY <2>1
      <3>2. \A l : l \in logs' <=> \E s \in DOMAIN limits', f \in LimitKey :
                                   asked'[s][f] > MLXLimitGiB(f) /\ l = LogOf(s, f)'
        BY <2>1, <2>3, <2>4
      <3>3. QED BY <2>1, <2>2, <3>1, <3>2 DEF Clamped
    <2>6. QED BY <1>2, <2>1, <2>5 DEF Validated
  <1>7. CASE UNCHANGED vars BY <1>2, <1>7 DEF vars, reader, Validated, Clamped, LogOf
  <1>8. QED BY <1>3, <1>4, <1>5, <1>6, <1>7 DEF Next

LEMMA LoadInvariant == Spec => []LoadInv
  <1>1. Init => LoadInv BY InitTypeOK DEF Init, LoadInv, Validated, Clamped
  <1>2. QED BY <1>1, NextLoadInv, PTL DEF Spec

\* The manifest that LoadFile hands out is one that the floor's validate
\* accepts and its clamp_to_floor leaves alone (manifest.go, manifest.rs).
THEOREM RoutedWithinFloor == Spec => []RoutedIsWithinFloor
  <1>1. LoadInv => RoutedIsWithinFloor
    <2>1. SUFFICES ASSUME LoadInv, status = "loaded" PROVE RoutedIsWithinFloor
      BY DEF RoutedIsWithinFloor
    <2>2. CoreValid(rows)
      BY <2>1 DEF LoadInv, Validated, CoreValid, Managed, isRoutingManagedEnv, CoreManagedEnv
    <2>3. ASSUME NEW s \in DOMAIN limits PROVE clamp_to_floor(limits[s]) = limits[s]
      <3>1. limits[s] = [f \in LimitKey |-> limits[s][f]] BY <2>1 DEF LoadInv, Clamped
      <3>2. ASSUME NEW f \in LimitKey PROVE limits[s][f] \in Nat /\ ~(limits[s][f] > CoreLimitGib(f))
        BY <2>1, ClampFacts DEF LoadInv, Clamped
      <3>3. QED BY <3>1, <3>2 DEF clamp_to_floor
    <2>4. QED BY <2>2, <2>3 DEF RoutedIsWithinFloor
  <1>2. QED BY <1>1, LoadInvariant, PTL

\* ClampAll only makes limits stricter, and its logs tell for every backend
\* what was asked for: validation has made their names distinct.
THEOREM ClampsLogged == Spec => []ClampsAreLogged
  <1>1. LoadInv => ClampsAreLogged
    <2>1. SUFFICES ASSUME LoadInv, status = "loaded",
                          NEW s \in DOMAIN limits, NEW f \in LimitKey
                   PROVE  /\ limits[s][f] <= asked[s][f]
                          /\ {l.requested : l \in {m \in logs : m.backend = rows[s]["name"] /\ m.field = f}}
                               = IF limits[s][f] = asked[s][f] THEN {} ELSE {asked[s][f]}
      BY DEF ClampsAreLogged
    <2>2. /\ asked[s][f] \in Nat /\ limits[s][f] <= asked[s][f]
          /\ limits[s][f] = asked[s][f] <=> ~(asked[s][f] > MLXLimitGiB(f))
      BY <2>1, ClampFacts DEF LoadInv, Clamped
    <2>3. DEFINE mine == {m \in logs : m.backend = rows[s]["name"] /\ m.field = f}
    <2>4. ASSUME NEW m \in mine PROVE m = LogOf(s, f) /\ asked[s][f] > MLXLimitGiB(f)
      <3>1. PICK t \in DOMAIN limits, g \in LimitKey :
              asked[t][g] > MLXLimitGiB(g) /\ m = LogOf(t, g)
        BY <2>1, <2>4 DEF LoadInv, Clamped
      <3>2. g = f /\ rows[t]["name"] = rows[s]["name"] BY <2>4, <3>1 DEF LogOf
      <3>3. t = s BY <2>1, <3>2 DEF LoadInv, Validated, TypeOK
      <3>4. QED BY <3>1, <3>2, <3>3
    <2>5. asked[s][f] > MLXLimitGiB(f) => LogOf(s, f) \in mine
      BY <2>1 DEF LoadInv, Clamped, LogOf
    <2>6. LogOf(s, f).requested = asked[s][f] BY DEF LogOf
    <2>7. CASE asked[s][f] > MLXLimitGiB(f)
      <3>1. mine = {LogOf(s, f)} BY <2>4, <2>5, <2>7
      <3>2. {l.requested : l \in mine} = {asked[s][f]} BY <2>6, <3>1
      <3>3. QED BY <2>2, <2>7, <3>2
    <2>8. CASE ~(asked[s][f] > MLXLimitGiB(f))
      <3>1. mine = {} BY <2>4, <2>8
      <3>2. {l.requested : l \in mine} = {} BY <3>1
      <3>3. QED BY <2>2, <2>8, <3>2
    <2>9. QED BY <2>7, <2>8
  <1>2. QED BY <1>1, LoadInvariant, PTL

-----------------------------------------------------------------------------
(* The two readers. *)

\* Where the reader is: it has opened the tables above the line at hand, which
\* are all of the structs', and is in the last of them.
AtLine ==
  /\ DOMAIN rows = {s \in Starts(doc) : s < pos}
  /\ \A s \in DOMAIN rows : s <= current
  /\ inLimits <=> InLimits(doc, current, pos)
  /\ DOMAIN limits = {s \in DOMAIN rows : InLimits(doc, s, pos)}
  /\ \A n \in Others(doc) : n >= pos

\* What it has read of the keys of a backend, of its limits and of the file
\* is what some line says, or the zero value if there is none yet.
RowsRead ==
  /\ rows = [s \in DOMAIN rows |-> [k \in BackendKey |-> rows[s][k]]]
  /\ \A s \in DOMAIN rows : \A k \in BackendKey :
       \/ rows[s][k] = NewBackend[k] /\ \A n \in Entries(doc, s, k) : n >= pos
       \/ \E n \in Entries(doc, s, k) : rows[s][k] = Reads(doc[n].value, k)

LimitsRead ==
  status # "loaded" =>
    \A s \in DOMAIN limits : \A f \in LimitKey :
      \/ limits[s][f] = 0 /\ \A n \in LimitEntries(doc, s, f) : n >= pos
      \/ \E n \in LimitEntries(doc, s, f) : limits[s][f] = doc[n].value.is

SchemaRead ==
  \/ schema = 0 /\ \A n \in Entries(doc, 0, "schema_version") : n >= pos
  \/ \E n \in Entries(doc, 0, "schema_version") : schema = doc[n].value.is % Word

ReadToEnd ==
  status = "parsed" => pos = Len(doc) + 1 /\ \A s \in DOMAIN rows : rows[s]["routing"] # Missing

ReadInv == TypeOK /\ AtLine /\ RowsRead /\ LimitsRead /\ SchemaRead /\ ReadToEnd

\* The lines of a document are numbers.
LEMMA Lines ==
  ASSUME TypeOK
  PROVE  /\ DOMAIN doc = 1 .. Len(doc) /\ Len(doc) \in Nat /\ pos \in Nat \ {0}
         /\ Starts(doc) \subseteq 1 .. Len(doc) /\ DOMAIN rows \subseteq 1 .. Len(doc)
         /\ \A s : LimitsOf(doc, s) \subseteq 1 .. Len(doc)
         /\ current \in Nat
  <1>1. doc \in Seq(Header \cup Entry) BY DEF TypeOK
  <1>2. DOMAIN doc = 1 .. Len(doc) /\ Len(doc) \in Nat BY <1>1
  <1>3. QED BY <1>2 DEF TypeOK, Starts, LimitsOf

\* A line that begins no backend is in the one that is being read.
LEMMA LineIsOfCurrent ==
  ASSUME TypeOK, AtLine, pos \in DOMAIN doc, doc[pos].line # "backend",
         NEW s \in DOMAIN rows \cup {0}
  PROVE  Within(doc, s, pos) <=> s = current
  <1>1. ASSUME NEW m \in Starts(doc), m <= current \/ ~(m < pos) PROVE m <= current \/ pos < m
    BY <1>1, Lines DEF Starts
  <1>2. \A m \in Starts(doc) : m <= current \/ pos < m
    BY <1>1, Lines DEF AtLine
  <1>3. current < pos BY Lines DEF TypeOK, AtLine
  <1>4. s # current => s < current /\ current \in Starts(doc)
    BY Lines DEF TypeOK, AtLine
  <1>5. s # current => ~Within(doc, s, pos)
    BY <1>3, <1>4, Lines DEF Within
  <1>6. QED BY <1>2, <1>3, <1>5 DEF Within

\* The limits above the next line.
LEMMA InLimitsNext ==
  ASSUME TypeOK, NEW s
  PROVE  InLimits(doc, s, pos + 1) <=> InLimits(doc, s, pos) \/ pos \in LimitsOf(doc, s)
  <1>1. \A h \in LimitsOf(doc, s) : h < pos + 1 <=> h < pos \/ h = pos BY Lines
  <1>2. QED BY <1>1 DEF InLimits

\* A step that reads a line moves on by one.
LEMMA ReadingStep ==
  ASSUME TypeOK, NEW line, Reading(line), GoOn
  PROVE  /\ doc' = doc /\ pos' = pos + 1 /\ status' = status /\ status = "reading"
         /\ pos \in DOMAIN doc /\ doc[pos].line = line
  BY Lines DEF Reading, GoOn

\* A line the reader goes over begins no table that it does not know.
LEMMA OthersToCome ==
  ASSUME TypeOK, AtLine, pos \in DOMAIN doc, doc[pos].line \in {"backend", "limits", "entry"}
  PROVE  \A n \in Others(doc) : n >= pos + 1
  <1>1. \A n \in Others(doc) : n \in DOMAIN doc /\ n # pos BY DEF Others
  <1>2. QED BY <1>1, Lines DEF AtLine

LEMMA NextAtLine == TypeOK /\ AtLine /\ [Next]_vars => AtLine'
  <1>1. SUFFICES ASSUME TypeOK, AtLine, [Next]_vars PROVE AtLine' OBVIOUS
  <1> USE <1>1
  <1>2. CASE Backend
    <2>1. /\ doc' = doc /\ pos' = pos + 1 /\ pos \in DOMAIN doc /\ doc[pos].line = "backend"
          /\ DOMAIN rows' = DOMAIN rows \cup {pos} /\ current' = pos /\ inLimits' = FALSE
          /\ limits' = limits
      BY <1>2, ReadingStep DEF Backend
    <2>2. DOMAIN rows' = {s \in Starts(doc) : s < pos + 1}
      BY <2>1, Lines DEF AtLine, Starts
    <2>3. \A s \in DOMAIN rows' : s <= pos BY <2>1, Lines DEF AtLine
    <2>4. \A s : pos \notin LimitsOf(doc, s) BY <2>1 DEF LimitsOf
    <2>5. ~InLimits(doc, pos, pos) BY Lines DEF InLimits, LimitsOf, Within
    <2>6. DOMAIN limits = {s \in DOMAIN rows' : InLimits(doc, s, pos + 1)}
      BY <2>1, <2>4, <2>5, InLimitsNext DEF AtLine
    <2>7. \A n \in Others(doc) : n >= pos + 1 BY <2>1, OthersToCome
    <2>8. QED BY <2>1, <2>2, <2>3, <2>4, <2>5, <2>6, <2>7, InLimitsNext DEF AtLine
  <1>3. CASE Limits
    <2>1. /\ doc' = doc /\ pos' = pos + 1 /\ pos \in DOMAIN doc /\ doc[pos].line = "limits"
          /\ rows' = rows /\ current' = current /\ inLimits' = TRUE /\ current # 0
          /\ DOMAIN limits' = DOMAIN limits \cup {current}
      BY <1>3, ReadingStep DEF Limits
    <2>2. \A s \in DOMAIN rows : pos \in LimitsOf(doc, s) <=> s = current
      BY <2>1, LineIsOfCurrent DEF LimitsOf
    <2>3. current \in DOMAIN rows BY <2>1 DEF TypeOK
    <2>4. DOMAIN rows = {s \in Starts(doc) : s < pos + 1}
      BY <2>1, Lines DEF AtLine, Starts
    <2>5. DOMAIN limits' = {s \in DOMAIN rows : InLimits(doc, s, pos + 1)}
      BY <2>1, <2>2, <2>3, InLimitsNext DEF AtLine
    <2>6. \A n \in Others(doc) : n >= pos + 1 BY <2>1, OthersToCome
    <2>7. QED BY <2>1, <2>2, <2>3, <2>4, <2>5, <2>6, InLimitsNext DEF AtLine
  <1>4. CASE TopLevel \/ LimitEntry \/ BackendEntry
    <2>1. /\ doc' = doc /\ pos' = pos + 1 /\ pos \in DOMAIN doc /\ doc[pos].line = "entry"
          /\ DOMAIN rows' = DOMAIN rows /\ DOMAIN limits' = DOMAIN limits
          /\ current' = current /\ inLimits' = inLimits
      BY <1>4, ReadingStep DEF TopLevel, LimitEntry, BackendEntry
    <2>2. \A s : pos \notin LimitsOf(doc, s) BY <2>1 DEF LimitsOf
    <2>3. DOMAIN rows = {s \in Starts(doc) : s < pos + 1}
      BY <2>1, Lines DEF AtLine, Starts
    <2>4. \A s : InLimits(doc, s, pos + 1) <=> InLimits(doc, s, pos) BY <2>2, InLimitsNext
    <2>5. \A n \in Others(doc) : n >= pos + 1 BY <2>1, OthersToCome
    <2>6. QED BY <2>1, <2>3, <2>4, <2>5 DEF AtLine
  <1>5. CASE LineRefused \/ Parsed \/ ClampAll \/ UNCHANGED vars
    <2>1. UNCHANGED <<doc, pos, current, inLimits, rows>> /\ DOMAIN limits' = DOMAIN limits
      BY <1>5 DEF LineRefused, Parsed, ClampAll, vars, reader
    <2>2. QED BY <2>1 DEF AtLine
  <1>6. QED BY <1>2, <1>3, <1>4, <1>5 DEF Next

\* The line at hand is a key of no backend but the one that is being read,
\* and of its limits if the reader is in them.
LEMMA KeyIsOfCurrent ==
  ASSUME TypeOK, AtLine, pos \in DOMAIN doc, doc[pos].line = "entry",
         NEW s \in DOMAIN rows \cup {0}, NEW k
  PROVE  /\ pos \in Entries(doc, s, k) <=> s = current /\ ~inLimits /\ doc[pos].key = k
         /\ pos \in LimitEntries(doc, s, k) <=> s = current /\ inLimits /\ doc[pos].key = k
  <1>1. Within(doc, s, pos) <=> s = current BY LineIsOfCurrent
  <1>2. s = current => (InLimits(doc, s, pos) <=> inLimits) BY DEF AtLine
  <1>3. ~Ignored(doc, pos) BY Lines DEF AtLine, Ignored, Under, Others
  <1>4. QED BY <1>1, <1>2, <1>3 DEF Entries, LimitEntries, KeyLines

\* A line that is not the next one was to come, or still is.
LEMMA ToCome ==
  ASSUME TypeOK, NEW n \in DOMAIN doc, n >= pos, n # pos
  PROVE  n >= pos + 1
  BY Lines

LEMMA NextRowsRead == TypeOK /\ AtLine /\ RowsRead /\ [Next]_vars => RowsRead'
  <1>1. SUFFICES ASSUME TypeOK, AtLine, RowsRead, [Next]_vars PROVE RowsRead' OBVIOUS
  <1> USE <1>1
  <1>2. ASSUME NEW s \in DOMAIN rows, NEW k \in BackendKey, pos \notin Entries(doc, s, k)
        PROVE  \/ rows[s][k] = NewBackend[k] /\ \A n \in Entries(doc, s, k) : n >= pos + 1
               \/ \E n \in Entries(doc, s, k) : rows[s][k] = Reads(doc[n].value, k)
    BY <1>2, ToCome DEF RowsRead, Entries, KeyLines
  <1>3. CASE Backend
    <2>1. /\ doc' = doc /\ pos' = pos + 1 /\ pos \in DOMAIN doc /\ doc[pos].line = "backend"
          /\ rows' = [s \in DOMAIN rows \cup {pos} |-> IF s = pos THEN NewBackend ELSE rows[s]]
      BY <1>3, ReadingStep DEF Backend
    <2>2. pos \notin DOMAIN rows BY Lines DEF AtLine
    <2>3. \A s, k : pos \notin Entries(doc, s, k) BY <2>1 DEF Entries, KeyLines
    <2>4. \A k : \A n \in Entries(doc, pos, k) : n >= pos + 1
      BY Lines DEF Entries, KeyLines, Within
    <2>5. ASSUME NEW s \in DOMAIN rows', NEW k \in BackendKey
          PROVE  \/ rows'[s][k] = NewBackend[k] /\ \A n \in Entries(doc, s, k) : n >= pos + 1
                 \/ \E n \in Entries(doc, s, k) : rows'[s][k] = Reads(doc[n].value, k)
      <3>1. CASE s = pos BY <2>1, <2>4, <3>1
      <3>2. CASE s \in DOMAIN rows
        <4>1. rows'[s] = rows[s] BY <2>1, <2>2, <3>2
        <4>2. QED BY <1>2, <2>3, <3>2, <4>1
      <3>3. QED BY <2>1, <3>1, <3>2
    <2>6. \A s \in DOMAIN rows' : rows'[s] = [k \in BackendKey |-> rows'[s][k]]
      <3>1. \A s \in DOMAIN rows : rows[s] = [k \in BackendKey |-> rows[s][k]] BY DEF RowsRead
      <3>2. NewBackend = [k \in BackendKey |-> NewBackend[k]] BY DEF NewBackend
      <3>3. QED BY <2>1, <3>1, <3>2
    <2>7. rows' = [s \in DOMAIN rows' |-> [k \in BackendKey |-> rows'[s][k]]]
      <3>1. rows' = [s \in DOMAIN rows' |-> rows'[s]] BY <2>1
      <3>2. QED BY <2>6, <3>1
    <2>8. QED BY <2>1, <2>5, <2>7 DEF RowsRead
  <1>4. CASE BackendEntry
    <2>1. /\ doc' = doc /\ pos' = pos + 1 /\ pos \in DOMAIN doc /\ doc[pos].line = "entry"
          /\ current # 0 /\ ~inLimits /\ doc[pos].key \in BackendKey
          /\ rows' = [rows EXCEPT ![current] =
                        [@ EXCEPT ![doc[pos].key] = Reads(doc[pos].value, doc[pos].key)]]
      BY <1>4, ReadingStep DEF BackendEntry
    <2>2. current \in DOMAIN rows /\ DOMAIN rows' = DOMAIN rows BY <2>1 DEF TypeOK
    <2>3. ASSUME NEW s \in DOMAIN rows, NEW k \in BackendKey
          PROVE  rows'[s][k] = IF s = current /\ k = doc[pos].key THEN Reads(doc[pos].value, k)
                               ELSE rows[s][k]
      <3>1. DOMAIN rows[s] = BackendKey BY DEF RowsRead
      <3>2. QED BY <2>1, <2>2, <3>1
    <2>4. ASSUME NEW s \in DOMAIN rows', NEW k \in BackendKey
          PROVE  \/ rows'[s][k] = NewBackend[k] /\ \A n \in Entries(doc, s, k) : n >= pos + 1
                 \/ \E n \in Entries(doc, s, k) : rows'[s][k] = Reads(doc[n].value, k)
      <3>1. CASE s = current /\ k = doc[pos].key
        BY <2>1, <2>2, <2>3, <3>1, KeyIsOfCurrent
      <3>2. CASE ~(s = current /\ k = doc[pos].key)
        <4>1. pos \notin Entries(doc, s, k) BY <2>1, <2>2, <3>2, KeyIsOfCurrent
        <4>2. QED BY <1>2, <2>2, <2>3, <3>2, <4>1
      <3>3. QED BY <3>1, <3>2
    <2>5. rows' = [s \in DOMAIN rows' |-> [k \in BackendKey |-> rows'[s][k]]]
      <3>1. \A s \in DOMAIN rows : rows[s] = [k \in BackendKey |-> rows[s][k]] BY DEF RowsRead
      <3>2. \A s \in DOMAIN rows : rows'[s] = [k \in BackendKey |-> rows'[s][k]]
        BY <2>1, <2>2, <3>1
      <3>3. rows' = [s \in DOMAIN rows' |-> rows'[s]] BY <2>1
      <3>4. QED BY <2>2, <3>2, <3>3
    <2>6. QED BY <2>1, <2>4, <2>5 DEF RowsRead
  <1>5. CASE Limits \/ TopLevel \/ LimitEntry
    <2>1. /\ doc' = doc /\ pos' = pos + 1 /\ rows' = rows /\ pos \in DOMAIN doc
          /\ doc[pos].line = "entry" => current = 0 \/ inLimits
      BY <1>5, ReadingStep DEF Limits, TopLevel, LimitEntry
    <2>2. ASSUME NEW s \in DOMAIN rows, NEW k \in BackendKey PROVE pos \notin Entries(doc, s, k)
      <3>1. s # 0 BY Lines
      <3>2. CASE doc[pos].line = "entry" BY <2>1, <3>1, <3>2, KeyIsOfCurrent
      <3>3. CASE doc[pos].line # "entry" BY <3>3 DEF Entries, KeyLines
      <3>4. QED BY <3>2, <3>3
    <2>3. QED BY <1>2, <2>1, <2>2 DEF RowsRead
  <1>6. CASE LineRefused \/ Parsed \/ ClampAll \/ UNCHANGED vars
    BY <1>6 DEF LineRefused, Parsed, ClampAll, vars, reader, RowsRead
  <1>7. QED BY <1>3, <1>4, <1>5, <1>6 DEF Next

LEMMA NextLimitsRead == TypeOK /\ AtLine /\ LimitsRead /\ [Next]_vars => LimitsRead'
  <1>1. SUFFICES ASSUME TypeOK, AtLine, LimitsRead, [Next]_vars PROVE LimitsRead' OBVIOUS
  <1> USE <1>1
  <1>2. ASSUME status = "reading",
               NEW s \in DOMAIN limits, NEW f \in LimitKey, pos \notin LimitEntries(doc, s, f)
        PROVE  \/ limits[s][f] = 0 /\ \A n \in LimitEntries(doc, s, f) : n >= pos + 1
               \/ \E n \in LimitEntries(doc, s, f) : limits[s][f] = doc[n].value.is
    BY <1>2, ToCome DEF LimitsRead, LimitEntries, KeyLines
  <1>3. CASE Limits
    <2>1. /\ doc' = doc /\ pos' = pos + 1 /\ status = "reading" /\ doc[pos].line = "limits"
          /\ pos \in DOMAIN doc /\ current # 0
          /\ limits' = [s \in DOMAIN limits \cup {current} |->
                          IF s \in DOMAIN limits THEN limits[s] ELSE [f \in LimitKey |-> 0]]
      BY <1>3, ReadingStep DEF Limits
    <2>2. \A s, f : pos \notin LimitEntries(doc, s, f) BY <2>1 DEF LimitEntries, KeyLines
    <2>3. ASSUME NEW s \in DOMAIN limits', NEW f \in LimitKey
          PROVE  \/ limits'[s][f] = 0 /\ \A n \in LimitEntries(doc, s, f) : n >= pos + 1
                 \/ \E n \in LimitEntries(doc, s, f) : limits'[s][f] = doc[n].value.is
      <3>1. CASE s \in DOMAIN limits
        <4>1. limits'[s] = limits[s] BY <2>1, <3>1
        <4>2. QED BY <1>2, <2>1, <2>2, <3>1, <4>1
      <3>2. CASE s \notin DOMAIN limits
        <4>1. s = current /\ limits'[s][f] = 0 BY <2>1, <3>2
        <4>2. ~InLimits(doc, s, pos) BY <2>1, <3>2, <4>1 DEF AtLine, TypeOK
        <4>3. \A n \in LimitEntries(doc, s, f) : n >= pos
          BY <4>2, Lines DEF InLimits, LimitEntries, KeyLines, LimitsOf
        <4>4. \A n \in LimitEntries(doc, s, f) : n >= pos + 1
          BY <2>2, <4>3, ToCome DEF LimitEntries, KeyLines
        <4>5. QED BY <4>1, <4>4
      <3>3. QED BY <3>1, <3>2
    <2>4. doc' = doc /\ pos' = pos + 1 BY <2>1
    <2>5. QED BY <2>3, <2>4 DEF LimitsRead
  <1>4. CASE LimitEntry
    <2>1. /\ doc' = doc /\ pos' = pos + 1 /\ pos \in DOMAIN doc /\ doc[pos].line = "entry"
          /\ status = "reading" /\ current # 0 /\ inLimits /\ doc[pos].key \in LimitKey
          /\ limits' = [limits EXCEPT ![current] = [@ EXCEPT ![doc[pos].key] = doc[pos].value.is]]
      BY <1>4, ReadingStep DEF LimitEntry
    <2>2. current \in DOMAIN rows /\ current \in DOMAIN limits /\ DOMAIN limits' = DOMAIN limits
      BY <2>1 DEF TypeOK
    <2>3. ASSUME NEW s \in DOMAIN limits, NEW f \in LimitKey
          PROVE  limits'[s][f] = IF s = current /\ f = doc[pos].key THEN doc[pos].value.is
                                 ELSE limits[s][f]
      <3>1. DOMAIN limits[s] = LimitKey BY DEF TypeOK
      <3>2. QED BY <2>1, <2>2, <3>1
    <2>4. ASSUME NEW s \in DOMAIN limits', NEW f \in LimitKey
          PROVE  \/ limits'[s][f] = 0 /\ \A n \in LimitEntries(doc, s, f) : n >= pos + 1
                 \/ \E n \in LimitEntries(doc, s, f) : limits'[s][f] = doc[n].value.is
      <3>0. s \in DOMAIN rows BY <2>2 DEF TypeOK
      <3>1. CASE s = current /\ f = doc[pos].key
        BY <2>1, <2>2, <2>3, <3>0, <3>1, KeyIsOfCurrent
      <3>2. CASE ~(s = current /\ f = doc[pos].key)
        <4>1. pos \notin LimitEntries(doc, s, f) BY <2>1, <3>0, <3>2, KeyIsOfCurrent
        <4>2. QED BY <1>2, <2>1, <2>2, <2>3, <3>2, <4>1
      <3>3. QED BY <3>1, <3>2
    <2>5. QED BY <2>1, <2>4 DEF LimitsRead
  <1>5. CASE Backend \/ TopLevel \/ BackendEntry
    <2>1. /\ doc' = doc /\ pos' = pos + 1 /\ limits' = limits /\ pos \in DOMAIN doc
          /\ status = "reading"
          /\ doc[pos].line = "entry" => current = 0 \/ ~inLimits
      BY <1>5, ReadingStep DEF Backend, TopLevel, BackendEntry
    <2>2. ASSUME NEW s \in DOMAIN limits, NEW f \in LimitKey PROVE pos \notin LimitEntries(doc, s, f)
      <3>1. s \in DOMAIN rows /\ s # 0 BY Lines DEF TypeOK
      <3>2. CASE doc[pos].line = "entry" BY <2>1, <3>1, <3>2, KeyIsOfCurrent
      <3>3. CASE doc[pos].line # "entry" BY <3>3 DEF LimitEntries, KeyLines
      <3>4. QED BY <3>2, <3>3
    <2>3. QED BY <1>2, <2>1, <2>2 DEF LimitsRead
  <1>6. CASE LineRefused \/ Parsed \/ ClampAll \/ UNCHANGED vars
    <2>1. status' # "loaded" => UNCHANGED <<doc, pos, limits>> /\ status # "loaded"
      <3>1. CASE LineRefused BY <3>1 DEF LineRefused, reader
      <3>2. CASE Parsed BY <3>2 DEF Parsed, reader
      <3>3. CASE ClampAll BY <3>3 DEF ClampAll
      <3>4. CASE UNCHANGED vars BY <3>4 DEF vars, reader
      <3>5. QED BY <1>6, <3>1, <3>2, <3>3, <3>4
    <2>2. QED BY <2>1 DEF LimitsRead
  <1>7. QED BY <1>3, <1>4, <1>5, <1>6 DEF Next

LEMMA NextSchemaRead == TypeOK /\ AtLine /\ SchemaRead /\ [Next]_vars => SchemaRead'
  <1>1. SUFFICES ASSUME TypeOK, AtLine, SchemaRead, [Next]_vars PROVE SchemaRead' OBVIOUS
  <1> USE <1>1
  <1>2. CASE TopLevel
    <2>1. /\ doc' = doc /\ pos' = pos + 1 /\ pos \in DOMAIN doc /\ doc[pos].line = "entry"
          /\ current = 0 /\ doc[pos].key = "schema_version"
          /\ schema' = doc[pos].value.is % Word
      BY <1>2, ReadingStep DEF TopLevel
    <2>2. ~inLimits BY <2>1, Lines DEF TypeOK
    <2>3. pos \in Entries(doc, 0, "schema_version") BY <2>1, <2>2, KeyIsOfCurrent
    <2>4. QED BY <2>1, <2>3 DEF SchemaRead
  <1>3. CASE Backend \/ Limits \/ LimitEntry \/ BackendEntry
    <2>1. /\ doc' = doc /\ pos' = pos + 1 /\ schema' = schema /\ pos \in DOMAIN doc
          /\ doc[pos].line = "entry" => current # 0
      BY <1>3, ReadingStep DEF Backend, Limits, LimitEntry, BackendEntry
    <2>2. pos \notin Entries(doc, 0, "schema_version")
      <3>1. CASE doc[pos].line = "entry" BY <2>1, <3>1, KeyIsOfCurrent
      <3>2. CASE doc[pos].line # "entry" BY <3>2 DEF Entries, KeyLines
      <3>3. QED BY <3>1, <3>2
    <2>3. QED BY <2>1, <2>2, ToCome DEF SchemaRead, Entries, KeyLines
  <1>4. CASE LineRefused \/ Parsed \/ ClampAll \/ UNCHANGED vars
    <2>1. UNCHANGED <<doc, pos, schema>>
      BY <1>4 DEF LineRefused, Parsed, ClampAll, vars, reader
    <2>2. QED BY <2>1 DEF SchemaRead
  <1>5. QED BY <1>2, <1>3, <1>4 DEF Next

LEMMA NextReadToEnd == TypeOK /\ ReadToEnd /\ [Next]_vars => ReadToEnd'
  <1>1. SUFFICES ASSUME TypeOK, ReadToEnd, [Next]_vars PROVE ReadToEnd' OBVIOUS
  <1> USE <1>1
  <1>2. CASE Parsed
    <2>1. /\ pos > Len(doc) /\ UNCHANGED <<doc, pos, rows>>
          /\ status' = "parsed" => \A s \in DOMAIN rows : rows[s]["routing"] # Missing
      BY <1>2 DEF Parsed, reader, Validate
    <2>2. pos = Len(doc) + 1 BY <2>1, Lines DEF TypeOK
    <2>3. QED BY <2>1, <2>2 DEF ReadToEnd
  <1>3. CASE ~Parsed
    <2>1. status' # "parsed" \/ UNCHANGED <<doc, pos, rows, status>>
      BY <1>3 DEF Next, Backend, Limits, TopLevel, LimitEntry, BackendEntry, LineRefused,
                  ClampAll, Reading, GoOn, vars, reader
    <2>2. QED BY <2>1 DEF ReadToEnd
  <1>4. QED BY <1>2, <1>3

LEMMA ReadInvariant == Spec => []ReadInv
  <1>1. Init => ReadInv
    <2>1. SUFFICES ASSUME Init PROVE ReadInv OBVIOUS
    <2>2. TypeOK BY <2>1, InitTypeOK
    <2>3. /\ status = "reading" /\ pos = 1 /\ schema = 0 /\ current = 0 /\ inLimits = FALSE
          /\ DOMAIN rows = {} /\ DOMAIN limits = {} /\ rows = [s \in {} |-> NewBackend]
      BY <2>1 DEF Init
    <2>4. \A s : ~InLimits(doc, s, pos) BY <2>2, <2>3, Lines DEF InLimits
    <2>5. AtLine BY <2>2, <2>3, <2>4, Lines DEF AtLine, Others
    <2>6. \A n \in Entries(doc, 0, "schema_version") : n >= pos
      BY <2>2, <2>3, Lines DEF Entries, KeyLines
    <2>7. RowsRead BY <2>3 DEF RowsRead
    <2>8. QED BY <2>2, <2>3, <2>5, <2>6, <2>7 DEF ReadInv, LimitsRead, SchemaRead, ReadToEnd
  <1>2. ReadInv /\ [Next]_vars => ReadInv'
    BY NextTypeOK, NextAtLine, NextRowsRead, NextLimitsRead, NextSchemaRead, NextReadToEnd
    DEF ReadInv
  <1>3. QED BY <1>1, <1>2, PTL DEF Spec

\* The value of the one line of a set.
LEMMA ValueAtOnly ==
  ASSUME NEW d, NEW S, NEW default, NEW n \in S, AtMostOne(S)
  PROVE  ValueAt(d, S, default) = d[n].value.is
  BY DEF ValueAt, AtMostOne

\* Serde and the dispatcher read a value alike that serde takes.
LEMMA ReadAlike ==
  ASSUME NEW k, NEW v, CoreTakes(k, v)
  PROVE  Reads(v, k) = v.is
  <1>1. k = "danger_allowed" => v.type # "integer" BY DEF CoreTakes
  <1>2. QED BY <1>1 DEF Reads

\* At the end of a file that the floor reads, the dispatcher has read the same
\* backends, if each was given a routing.
LEMMA RowsAsRead ==
  ASSUME TypeOK, AtLine, RowsRead, pos = Len(doc) + 1, CoreReads(doc),
         \A s \in Starts(doc) : rows[s]["routing"] # Missing \/ Entries(doc, s, "routing") # {}
  PROVE  DOMAIN rows = Starts(doc) /\ rows = CoreBackends(doc)
  <1>1. \A n \in DOMAIN doc : ~(n >= pos) BY Lines
  <1>2. DOMAIN rows = Starts(doc) BY Lines DEF AtLine
  <1>3. ASSUME NEW s \in Starts(doc), NEW k
        PROVE  AtMostOne(Entries(doc, s, k)) /\ Entries(doc, s, k) \subseteq DOMAIN doc
    BY DEF CoreReads, IsToml, Entries, KeyLines, AtMostOne
  <1>4. ASSUME NEW s \in Starts(doc), NEW k \in BackendKey
        PROVE  rows[s][k] = CoreBackend(doc, s)[k]
    <2>1. CASE rows[s][k] = NewBackend[k] /\ \A n \in Entries(doc, s, k) : n >= pos
      <3>1. Entries(doc, s, k) = {} BY <1>1, <1>3, <2>1
      <3>2. k # "routing"
        <4>1. SUFFICES ASSUME k = "routing" PROVE FALSE OBVIOUS
        <4>2. NewBackend[k] = Missing BY <4>1 DEF NewBackend, ZeroValue
        <4>3. QED BY <2>1, <3>1, <4>1, <4>2
      <3>3. QED BY <2>1, <3>1, <3>2 DEF CoreBackend, ValueAt
    <2>2. CASE \E n \in Entries(doc, s, k) : rows[s][k] = Reads(doc[n].value, k)
      <3>1. PICK n \in Entries(doc, s, k) : rows[s][k] = Reads(doc[n].value, k) BY <2>2
      <3>2. CoreTakes(k, doc[n].value) BY DEF CoreReads
      <3>3. rows[s][k] = doc[n].value.is BY <3>1, <3>2, ReadAlike
      <3>4. QED BY <1>3, <3>3, ValueAtOnly DEF CoreBackend
    <2>3. QED BY <1>2, <2>1, <2>2 DEF RowsRead
  <1>5. \A s \in Starts(doc) : CoreBackend(doc, s) = [k \in BackendKey |-> CoreBackend(doc, s)[k]]
    BY DEF CoreBackend
  <1>6. QED BY <1>2, <1>4, <1>5 DEF RowsRead, CoreBackends

\* Where the floor takes the file as well, the dispatcher has read from it
\* what the floor reads: the version, every key of every backend and every
\* limit (Parse in manifest.go, the structs of manifest.rs).
THEOREM TheReadersAgree == Spec => []ReadersAgree
  <1>1. ReadInv => ReadersAgree
    <2>1. SUFFICES ASSUME ReadInv, status = "parsed", CoreReads(doc)
                   PROVE  schema = CoreSchema(doc) /\ rows = CoreBackends(doc) /\ limits = CoreLimits(doc)
      BY DEF ReadersAgree
    <2> USE <2>1 DEF ReadInv
    <2>2. pos = Len(doc) + 1 /\ \A n \in DOMAIN doc : ~(n >= pos)
      BY Lines DEF ReadToEnd
    <2>3. ASSUME NEW s \in Starts(doc) \cup {0}, NEW k
          PROVE  /\ AtMostOne(Entries(doc, s, k)) /\ AtMostOne(LimitEntries(doc, s, k))
                 /\ Entries(doc, s, k) \subseteq DOMAIN doc /\ LimitEntries(doc, s, k) \subseteq DOMAIN doc
      BY DEF CoreReads, IsToml, Entries, LimitEntries, KeyLines, AtMostOne
    <2>4. schema = CoreSchema(doc)
      <3>1. CASE schema = 0 /\ \A n \in Entries(doc, 0, "schema_version") : n >= pos
        BY <2>2, <2>3, <3>1 DEF CoreSchema, ValueAt
      <3>2. CASE \E n \in Entries(doc, 0, "schema_version") : schema = doc[n].value.is % Word
        <4>1. PICK n \in Entries(doc, 0, "schema_version") : schema = doc[n].value.is % Word
          BY <3>2
        <4>2. doc[n].value.type = "integer" /\ doc[n].value.is < Word /\ n \in DOMAIN doc
              /\ doc[n].line = "entry"
          BY DEF CoreReads, Entries, KeyLines
        <4>3. doc[n].value.is \in Nat BY <4>2, LineFacts DEF TypeOK
        <4>4. schema = doc[n].value.is BY <4>1, <4>2, <4>3, ManifestAssumption
        <4>5. QED BY <2>3, <4>4, ValueAtOnly DEF CoreSchema
      <3>3. QED BY <3>1, <3>2 DEF SchemaRead
    <2>5. DOMAIN rows = Starts(doc) BY <2>2, Lines DEF AtLine
    <2>6. rows = CoreBackends(doc) BY <2>2, <2>5, RowsAsRead DEF ReadToEnd
    <2>7. DOMAIN limits = {s \in Starts(doc) : LimitsOf(doc, s) # {}}
      BY <2>2, <2>5, Lines DEF AtLine, InLimits
    <2>8. ASSUME NEW s \in DOMAIN limits, NEW f \in LimitKey
          PROVE  limits[s][f] = ValueAt(doc, LimitEntries(doc, s, f), 0)
      <3>1. s \in Starts(doc) BY <2>7
      <3>2. CASE limits[s][f] = 0 /\ \A n \in LimitEntries(doc, s, f) : n >= pos
        <4>1. LimitEntries(doc, s, f) = {} BY <2>2, <2>3, <3>1, <3>2
        <4>2. QED BY <3>2, <4>1 DEF ValueAt
      <3>3. CASE \E n \in LimitEntries(doc, s, f) : limits[s][f] = doc[n].value.is
        BY <2>3, <3>1, <3>3, ValueAtOnly
      <3>4. QED BY <3>2, <3>3 DEF LimitsRead
    <2>9. limits = CoreLimits(doc)
      <3>1. \A s \in DOMAIN limits : limits[s] = [f \in LimitKey |-> limits[s][f]] BY DEF TypeOK
      <3>2. limits = [s \in DOMAIN limits |-> limits[s]] BY DEF TypeOK
      <3>3. limits = [s \in DOMAIN limits |-> [f \in LimitKey |-> ValueAt(doc, LimitEntries(doc, s, f), 0)]]
        BY <2>8, <3>1, <3>2
      <3>4. QED BY <2>7, <3>3 DEF CoreLimits
    <2>10. QED BY <2>4, <2>6, <2>9
  <1>2. QED BY <1>1, ReadInvariant, PTL

-----------------------------------------------------------------------------
(* Which files they take. *)

\* The dispatcher takes line n: it is one it knows, where it knows it.
TakenLine(n) ==
  /\ doc[n].line \notin {"other", "part", "broken"} /\ n \notin LimitsOf(doc, 0)
  /\ n \in Entries(doc, 0, "schema_version") => doc[n].value.type = "integer"
  /\ \A s \in Starts(doc) : \A k :
       /\ n \in Entries(doc, s, k) => Takes(k, doc[n].value)
       /\ n \in LimitEntries(doc, s, k) => doc[n].value.type = "integer"

\* It has taken every line it has read.
LinesTaken == \A n \in DOMAIN doc : n < pos => TakenLine(n)

\* What is asked of the backends at the end of the file.
Complete ==
  /\ \A s \in DOMAIN rows : rows[s]["name"] # Missing /\ rows[s]["kind"] # Missing
  /\ Validate

\* A file is taken at its end if its backends are complete, and refused
\* there if they are not, or before at a line that cannot be read.
Verdict ==
  /\ status \in {"parsed", "loaded"} => pos = Len(doc) + 1 /\ Complete
  /\ status = "refused" =>
       \/ pos \in DOMAIN doc /\ Unreadable(doc[pos])
       \/ pos = Len(doc) + 1 /\ ~Complete

SameInv == ReadInv /\ LinesTaken /\ Verdict

\* A line that can be read is one that is taken.
LEMMA ReadableIsTaken ==
  ASSUME TypeOK, AtLine, pos \in DOMAIN doc, ~Unreadable(doc[pos])
  PROVE  TakenLine(pos)
  <1>1. doc[pos].line \in {"backend", "limits", "other", "part", "broken", "entry"}
    BY DEF TypeOK, Header, Entry
  <1>2. doc[pos].line \notin {"other", "part", "broken"} BY DEF Unreadable
  <1>3. CASE doc[pos].line = "backend"
    BY <1>2, <1>3 DEF TakenLine, LimitsOf, Entries, LimitEntries, KeyLines
  <1>4. CASE doc[pos].line = "limits"
    <2>1. current # 0 BY <1>4 DEF Unreadable
    <2>2. pos \notin LimitsOf(doc, 0) BY <1>4, <2>1, LineIsOfCurrent DEF LimitsOf
    <2>3. QED BY <1>2, <1>4, <2>2 DEF TakenLine, Entries, LimitEntries, KeyLines
  <1>5. CASE doc[pos].line = "entry"
    <2>1. ASSUME NEW s \in Starts(doc), s \notin DOMAIN rows PROVE ~Within(doc, s, pos)
      BY <2>1, Lines DEF AtLine, Within
    <2>2. \A s \in Starts(doc) : s # 0 BY Lines
    <2>3. current = 0 => ~inLimits BY Lines DEF TypeOK
    <2>4. pos \in Entries(doc, 0, "schema_version") => doc[pos].value.type = "integer"
      BY <1>5, KeyIsOfCurrent DEF Unreadable
    <2>5. ASSUME NEW s \in Starts(doc), NEW k
          PROVE  /\ pos \in Entries(doc, s, k) => Takes(k, doc[pos].value)
                 /\ pos \in LimitEntries(doc, s, k) => doc[pos].value.type = "integer"
      <3>1. CASE s \in DOMAIN rows
        <4>1. /\ pos \in Entries(doc, s, k) <=> s = current /\ ~inLimits /\ doc[pos].key = k
              /\ pos \in LimitEntries(doc, s, k) <=> s = current /\ inLimits /\ doc[pos].key = k
          BY <1>5, <3>1, KeyIsOfCurrent
        <4>2. QED BY <1>5, <2>2, <4>1 DEF Unreadable
      <3>2. CASE s \notin DOMAIN rows
        BY <2>1, <3>2 DEF Entries, LimitEntries, KeyLines
      <3>3. QED BY <3>1, <3>2
    <2>6. pos \notin LimitsOf(doc, 0) BY <1>5 DEF LimitsOf
    <2>7. QED BY <1>2, <2>4, <2>5, <2>6 DEF TakenLine
  <1>6. QED BY <1>1, <1>2, <1>3, <1>4, <1>5

LEMMA NextLinesTaken == TypeOK /\ AtLine /\ LinesTaken /\ [Next]_vars => LinesTaken'
  <1>1. SUFFICES ASSUME TypeOK, AtLine, LinesTaken, [Next]_vars PROVE LinesTaken' OBVIOUS
  <1> USE <1>1
  <1>2. CASE Backend \/ Limits \/ TopLevel \/ LimitEntry \/ BackendEntry
    <2>1. /\ doc' = doc /\ pos' = pos + 1 /\ pos \in DOMAIN doc
      BY <1>2, ReadingStep DEF Backend, Limits, TopLevel, LimitEntry, BackendEntry
    <2>2. ~Unreadable(doc[pos])
      <3>1. CASE Backend BY <3>1 DEF Backend, Reading, Unreadable
      <3>2. CASE Limits BY <3>2 DEF Limits, Reading, Unreadable
      <3>3. CASE TopLevel BY <3>3 DEF TopLevel, Reading, Unreadable
      <3>4. CASE LimitEntry BY <3>4 DEF LimitEntry, Reading, Unreadable
      <3>5. CASE BackendEntry BY <3>5 DEF BackendEntry, Reading, Unreadable
      <3>6. QED BY <1>2, <3>1, <3>2, <3>3, <3>4, <3>5
    <2>3. TakenLine(pos) BY <2>1, <2>2, ReadableIsTaken
    <2>4. \A n \in DOMAIN doc : n < pos + 1 => n < pos \/ n = pos BY Lines
    <2>5. \A n \in DOMAIN doc : n < pos + 1 => TakenLine(n) BY <2>3, <2>4 DEF LinesTaken
    <2>6. QED BY <2>1, <2>5 DEF LinesTaken, TakenLine
  <1>3. CASE LineRefused \/ Parsed \/ ClampAll \/ UNCHANGED vars
    <2>1. UNCHANGED <<doc, pos>>
      BY <1>3 DEF LineRefused, Parsed, ClampAll, vars, reader
    <2>2. QED BY <2>1 DEF LinesTaken, TakenLine
  <1>4. QED BY <1>2, <1>3 DEF Next

LEMMA NextVerdict == TypeOK /\ Verdict /\ [Next]_vars => Verdict'
  <1>1. SUFFICES ASSUME TypeOK, Verdict, [Next]_vars PROVE Verdict' OBVIOUS
  <1> USE <1>1
  <1>2. CASE Backend \/ Limits \/ TopLevel \/ LimitEntry \/ BackendEntry
    <2>1. status' = "reading"
      BY <1>2, ReadingStep DEF Backend, Limits, TopLevel, LimitEntry, BackendEntry
    <2>2. QED BY <2>1 DEF Verdict
  <1>3. CASE LineRefused
    <2>1. /\ UNCHANGED <<doc, pos, current, inLimits>> /\ status' = "refused"
          /\ pos \in DOMAIN doc /\ Unreadable(doc[pos])
      BY <1>3, Lines DEF LineRefused, reader
    <2>2. Unreadable(doc[pos])' BY <2>1 DEF Unreadable
    <2>3. QED BY <2>1, <2>2 DEF Verdict
  <1>4. CASE Parsed
    <2>1. /\ UNCHANGED <<doc, pos, rows>> /\ status' = IF Complete THEN "parsed" ELSE "refused"
          /\ pos = Len(doc) + 1
      BY <1>4, Lines DEF Parsed, reader, Complete, TypeOK
    <2>2. Complete' <=> Complete BY <2>1 DEF Complete, Validate
    <2>3. QED BY <2>1, <2>2 DEF Verdict
  <1>5. CASE ClampAll
    <2>1. UNCHANGED <<doc, pos, rows>> /\ status = "parsed" /\ status' = "loaded"
      BY <1>5 DEF ClampAll
    <2>2. Complete' <=> Complete BY <2>1 DEF Complete, Validate
    <2>3. QED BY <2>1, <2>2 DEF Verdict
  <1>6. CASE UNCHANGED vars
    <2>1. UNCHANGED <<doc, status, pos, current, inLimits, rows>> BY <1>6 DEF vars, reader
    <2>2. (Complete' <=> Complete) /\ (Unreadable(doc[pos])' <=> Unreadable(doc[pos]))
      BY <2>1 DEF Complete, Validate, Unreadable
    <2>3. QED BY <2>1, <2>2 DEF Verdict
  <1>7. QED BY <1>2, <1>3, <1>4, <1>5, <1>6 DEF Next

LEMMA SameInvariant == Spec => []SameInv
  <1>1. Init => LinesTaken /\ Verdict
    <2>1. SUFFICES ASSUME Init PROVE LinesTaken /\ Verdict OBVIOUS
    <2>2. pos = 1 /\ status = "reading" BY <2>1 DEF Init
    <2>3. \A n \in DOMAIN doc : ~(n < pos) BY <2>1, <2>2, InitTypeOK, Lines
    <2>4. QED BY <2>2, <2>3 DEF LinesTaken, Verdict
  <1>2. TypeOK /\ AtLine /\ LinesTaken /\ Verdict /\ [Next]_vars => LinesTaken' /\ Verdict'
    BY NextLinesTaken, NextVerdict
  <1>3. QED BY <1>1, <1>2, ReadInvariant, PTL DEF Spec, ReadInv, SameInv

\* What serde takes for a key the dispatcher takes too, but for a list that
\* it manages; and what the dispatcher takes serde takes, but for a number
\* as a boolean.
LEMMA TakesAlike ==
  ASSUME NEW k \in BackendKey, NEW v
  PROVE  /\ Takes(k, v) /\ (k = "danger_allowed" => v.type = "bool") => CoreTakes(k, v)
         /\ CoreTakes(k, v) /\ (k = "env_allowlist" => ~Managed(v.is)) => Takes(k, v)
  BY DEF BackendKey, Takes, CoreTakes, validKind, CoreKind, validRouting, CoreRouting

\* The floor's validation is that no list is managed.
LEMMA ValidAlike ==
  ASSUME NEW b
  PROVE  CoreValid(b) <=> \A s \in DOMAIN b : ~Managed(b[s]["env_allowlist"])
  BY DEF CoreValid, Managed, isRoutingManagedEnv, CoreManagedEnv

\* The floor reads a usual file that the dispatcher has taken to its end.
LEMMA TakenIsRead ==
  ASSUME SameInv, Usual(doc), pos = Len(doc) + 1, Complete
  PROVE  CoreReads(doc)
  <1> USE DEF SameInv, ReadInv
  <1>1. \A n \in DOMAIN doc : TakenLine(n) BY Lines DEF LinesTaken
  <1>2. IsToml(doc)
    <2>1. LimitsOf(doc, 0) = {} BY <1>1 DEF TakenLine, LimitsOf
    <2>2. \A n \in DOMAIN doc : doc[n].line # "broken" BY <1>1 DEF TakenLine
    <2>3. Others(doc) = {} BY DEF Usual
    <2>4. \A s : PartsOf(doc, s) = {} /\ {n \in Others(doc) : doc[n].line = "other"} = {}
      BY <2>3 DEF PartsOf
    <2>5. QED BY <2>1, <2>2, <2>3, <2>4 DEF Usual, IsToml, AtMostOne
  <1>3. ASSUME NEW n \in Entries(doc, 0, "schema_version")
        PROVE  doc[n].value.type = "integer" /\ doc[n].value.is < Word
    <2>1. n \in DOMAIN doc /\ doc[n].line = "entry" BY DEF Entries, KeyLines
    <2>2. doc[n].value.type = "integer" BY <1>1, <2>1 DEF TakenLine
    <2>3. QED BY <2>1, <2>2 DEF Usual
  <1>4. ASSUME NEW s \in Starts(doc), NEW k \in {"name", "kind"} PROVE Entries(doc, s, k) # {}
    <2>1. s \in DOMAIN rows BY Lines DEF AtLine
    <2>2. rows[s][k] # Missing BY <2>1 DEF Complete
    <2>3. k \in BackendKey /\ NewBackend[k] = Missing BY DEF BackendKey, NewBackend, ZeroValue
    <2>4. QED BY <2>1, <2>2, <2>3 DEF RowsRead
  <1>5. ASSUME NEW s \in Starts(doc), NEW k \in BackendKey, NEW n \in Entries(doc, s, k)
        PROVE  CoreTakes(k, doc[n].value)
    <2>1. n \in DOMAIN doc /\ doc[n].line = "entry" /\ doc[n].key = k BY DEF Entries, KeyLines
    <2>2. Takes(k, doc[n].value) BY <1>1, <2>1 DEF TakenLine
    <2>3. k = "danger_allowed" => doc[n].value.type = "bool" BY <2>1 DEF Usual
    <2>4. QED BY <2>2, <2>3, TakesAlike
  <1>6. ASSUME NEW s \in Starts(doc), NEW f \in LimitKey, NEW n \in LimitEntries(doc, s, f)
        PROVE  doc[n].value.type = "integer"
    BY <1>1 DEF TakenLine, LimitEntries, KeyLines
  <1>7. \A s \in Starts(doc) : LimitsOf(doc, s) # {} => \A f \in LimitKey : LimitEntries(doc, s, f) # {}
    BY DEF Usual
  <1>8. QED BY <1>2, <1>3, <1>4, <1>5, <1>6, <1>7 DEF CoreReads

\* In a usual file that the floor reads and validates, the dispatcher can
\* read every line.
LEMMA ReadIsReadable ==
  ASSUME SameInv, Usual(doc), CoreReads(doc), CoreValid(CoreBackends(doc)), pos \in DOMAIN doc
  PROVE  ~Unreadable(doc[pos])
  <1> USE DEF SameInv, ReadInv
  <1>1. doc[pos].line \in {"backend", "limits", "entry"}
    <2>1. doc[pos].line \in {"backend", "limits", "other", "part", "broken", "entry"}
      BY DEF TypeOK, Header, Entry
    <2>2. doc[pos].line \notin {"other", "part"} BY DEF Usual, Others
    <2>3. doc[pos].line # "broken" BY DEF CoreReads, IsToml
    <2>4. QED BY <2>1, <2>2, <2>3
  <1>2. CASE doc[pos].line = "backend" BY <1>2 DEF Unreadable
  <1>3. CASE doc[pos].line = "limits"
    <2>1. current = 0 => pos \in LimitsOf(doc, 0) BY <1>3, LineIsOfCurrent DEF LimitsOf
    <2>2. current # 0 BY <2>1 DEF CoreReads, IsToml
    <2>3. QED BY <1>3, <2>2 DEF Unreadable
  <1>4. CASE doc[pos].line = "entry"
    <2> DEFINE k == doc[pos].key
               v == doc[pos].value
    <2>1. current \in Starts(doc) \cup {0} /\ current \in DOMAIN rows \cup {0} BY DEF TypeOK
    <2>2. /\ ~inLimits => pos \in Entries(doc, current, k)
          /\ inLimits => pos \in LimitEntries(doc, current, k)
      BY <1>4, <2>1, KeyIsOfCurrent
    <2>3. current = 0 => ~inLimits BY Lines DEF TypeOK
    <2>4. CASE current = 0
      <3>1. k = "schema_version" BY <1>4, <2>1, <2>2, <2>3, <2>4 DEF Usual
      <3>2. v.type = "integer" BY <2>2, <2>3, <2>4, <3>1 DEF CoreReads
      <3>3. QED BY <1>4, <2>4, <3>1, <3>2 DEF Unreadable
    <2>5. CASE current # 0 /\ inLimits
      <3>1. k \in LimitKey BY <1>4, <2>1, <2>2, <2>5 DEF Usual
      <3>2. v.type = "integer" BY <2>1, <2>2, <2>5, <3>1 DEF CoreReads
      <3>3. QED BY <1>4, <2>5, <3>1, <3>2 DEF Unreadable
    <2>6. CASE current # 0 /\ ~inLimits
      <3>1. current \in Starts(doc) BY <2>1, <2>6
      <3>2. 0 \notin Starts(doc) BY Lines
      <3>3. k \in BackendKey BY <1>4, <2>2, <2>6, <3>1, <3>2 DEF Usual
      <3>4. CoreTakes(k, v) BY <2>2, <2>6, <3>1, <3>3 DEF CoreReads
      <3>5. k = "env_allowlist" => ~Managed(v.is)
        <4>1. SUFFICES ASSUME k = "env_allowlist" PROVE ~Managed(v.is) OBVIOUS
        <4>2. AtMostOne(Entries(doc, current, k)) BY <1>4, <2>1 DEF Usual
        <4>3. CoreBackend(doc, current)["env_allowlist"] = v.is
          BY <2>2, <2>6, <3>3, <4>1, <4>2, ValueAtOnly DEF CoreBackend
        <4>4. ~Managed(CoreBackend(doc, current)["env_allowlist"])
          BY <3>1, ValidAlike DEF CoreBackends
        <4>5. QED BY <4>3, <4>4
      <3>6. Takes(k, v) BY <3>3, <3>4, <3>5, TakesAlike
      <3>7. QED BY <1>4, <2>6, <3>3, <3>6 DEF Unreadable
    <2>7. QED BY <2>4, <2>5, <2>6
  <1>5. QED BY <1>1, <1>2, <1>3, <1>4

\* At the end of such a file its backends are complete.
LEMMA ReadIsComplete ==
  ASSUME SameInv, Usual(doc), CoreReads(doc), CoreValid(CoreBackends(doc)), pos = Len(doc) + 1
  PROVE  Complete
  <1> USE DEF SameInv, ReadInv
  <1>1. rows = CoreBackends(doc) /\ DOMAIN rows = Starts(doc) BY RowsAsRead DEF Usual
  <1>2. \A s \in Starts(doc) : rows[s] = CoreBackend(doc, s) BY <1>1 DEF CoreBackends
  <1>3. ASSUME NEW s \in Starts(doc) PROVE rows[s]["kind"] # Missing /\ rows[s]["routing"] # Missing
    <2>1. ASSUME NEW k \in {"kind", "routing"} PROVE rows[s][k] # Missing
      <3>1. k \in BackendKey BY DEF BackendKey
      <3>2. PICK n \in Entries(doc, s, k) : TRUE BY DEF CoreReads, Usual
      <3>3. CoreTakes(k, doc[n].value) BY <3>1 DEF CoreReads
      <3>4. doc[n].value.is # Missing BY <3>3 DEF CoreTakes, CoreKind, CoreRouting, Missing
      <3>5. n \in DOMAIN doc /\ doc[n].line = "entry" /\ doc[n].key = k BY DEF Entries, KeyLines
      <3>6. AtMostOne(Entries(doc, s, k)) BY <3>5 DEF Usual
      <3>7. CoreBackend(doc, s)[k] = doc[n].value.is BY <3>1, <3>6, ValueAtOnly DEF CoreBackend
      <3>8. QED BY <1>2, <3>4, <3>7
    <2>2. QED BY <2>1
  <1>4. \A s \in Starts(doc) :
          /\ rows[s]["name"] # Missing
          /\ rows[s]["routing"] = "none" => ~RequiresAccountRouting(rows[s]["kind"])
          /\ \A t \in Starts(doc) : rows[s]["name"] = rows[t]["name"] => s = t
    BY <1>2 DEF Usual
  <1>5. \A s \in Starts(doc) : ~Managed(rows[s]["env_allowlist"])
    BY <1>1, ValidAlike
  <1>6. QED BY <1>1, <1>3, <1>4, <1>5 DEF Complete, Validate

\* The dispatcher loads a usual file exactly when the floor's parse and
\* validate take it (manifest.go, manifest.rs).
THEOREM SameFiles == Spec => []SameFilesAreTaken
  <1>1. SameInv => SameFilesAreTaken
    <2>1. SUFFICES ASSUME SameInv, status \in {"loaded", "refused"}, Usual(doc)
                   PROVE  status = "loaded" <=> CoreReads(doc) /\ CoreValid(CoreBackends(doc))
      BY DEF SameFilesAreTaken
    <2> USE <2>1 DEF SameInv
    <2>2. ASSUME status = "loaded" PROVE CoreReads(doc) /\ CoreValid(CoreBackends(doc))
      <3>1. pos = Len(doc) + 1 /\ Complete BY <2>2 DEF Verdict
      <3>2. CoreReads(doc) BY <3>1, TakenIsRead
      <3>3. rows = CoreBackends(doc) BY <3>1, <3>2, RowsAsRead DEF Usual, ReadInv
      <3>4. QED BY <3>1, <3>2, <3>3, ValidAlike DEF Complete, Validate
    <2>3. ASSUME status = "refused", CoreReads(doc), CoreValid(CoreBackends(doc)) PROVE FALSE
      BY <2>3, ReadIsReadable, ReadIsComplete DEF Verdict
    <2>4. QED BY <2>1, <2>2, <2>3
  <1>2. QED BY <1>1, SameInvariant, PTL
=============================================================================
