--------------------------- MODULE Launch_proofs ---------------------------
(***************************************************************************)
(* Proofs about Launch, for every manifest, environment, cache and set of  *)
(* safe names.                                                             *)
(***************************************************************************)
EXTENDS Launch, TLAPS

\* A row is on its way to a child, or has become one.
Chosen == pc \in {"env", "secrets", "exec"} \/ outcome = "running"

\* Its environment has been built.
Built == pc \in {"secrets", "exec"} \/ outcome = "running"

Secrets == {n \in DOMAIN env : env[n].from = "vault"}

\* The inductive invariant, in two parts.  What every test of the launch has
\* established is still so when the next one is reached.
Tested ==
  /\ file \in Files /\ environ \in Environs
  /\ pc = "resolve" \/ Chosen => Valid(file)
  /\ Chosen \/ asked # {} =>
       /\ \E i \in DOMAIN file : plan.row = file[i]
       /\ Routed(plan.row) => login = plan.row.routing
  /\ Built => EnvIsOf(plan.row)
  /\ pc = "secrets" => plan.row.routing = "private" /\ DOMAIN env \subseteq Safe \cup Managed
  /\ AsksOnlyForCredentials

\* What omf-core has to write is what one of the caches seen holds, all of it is
\* written when it ends well, and nothing of it is in the environment before.
Answering ==
  /\ cache \in Caches \cup {NoCache}
  /\ pc \in {"start", "resolve", "env"} => core = "none"
  /\ core \in {"starts", "writes"} => pc = "secrets"
  /\ IF core = "none" THEN asked = {} ELSE asked = Credentials(plan.row)
  /\ core = "starts" => cache \in seen
  /\ core \in {"writes", "ok"} =>
       \E c \in seen \ {NoCache} : held = [n \in asked \cap DOMAIN c |-> c[n]]
  /\ core \in {"none", "starts"} => written = {}
  /\ core = "ok" => written = DOMAIN held
  /\ pc = "secrets" => Secrets = {}
  /\ Built /\ Secrets # {} =>
       \E c \in seen \ {NoCache} :
         /\ Secrets = Credentials(plan.row) \cap DOMAIN c
         /\ \A n \in Secrets : env[n].value = c[n]

IInv == TypeOK /\ Tested /\ Answering

\* A row of a valid manifest has a route, or none and a kind that needs none.
LEMMA ValidRow ==
  ASSUME NEW rows \in Files, Valid(rows), NEW i \in DOMAIN rows
  PROVE  /\ rows[i] \in Row
         /\ rows[i].routing \in Account \cup {"none"}
         /\ rows[i].account => Routed(rows[i])
         /\ rows[i].allow \cap Managed = {}
<1>1. rows \in Seq(Row)  BY LaunchAssumption
<1>2. rows[i] \in Row  BY <1>1
<1>3. rows[i].routing \in Account \cup {"none", "missing"} /\ rows[i].account \in BOOLEAN
  BY <1>2 DEF Row
<1> QED  BY <1>2, <1>3 DEF Valid, Routed

\* What Sanitized leaves of a value does not mention the sibling's home.
LEMMA SanitizedIsClean ==
  ASSUME NEW b, NEW n \in DOMAIN environ
  PROVE  Sibling(b) \notin Sanitized(b, n) /\ Sanitized(b, n) \subseteq environ[n]
BY DEF Sanitized

\* buildEnv gives a valid row's child an environment of its account.
LEMMA BaseEnvIsOf ==
  ASSUME NEW b \in Row, b.account => Routed(b), b.allow \cap Managed = {},
         Routed(b) => login = b.routing, env' = BaseEnv(b), login' = login
  PROVE  EnvIsOf(b)' /\ Secrets' = {}
<1>1. DOMAIN env' = Inherited(b) \cup (IF Routed(b) THEN Managed ELSE {})
  BY DEF BaseEnv
<1>2. Inherited(b) \subseteq b.allow /\ Inherited(b) \cap Managed = {}
      /\ Inherited(b) \subseteq DOMAIN environ
  BY DEF Inherited
<1>3. Routed(b) => Sibling(b) \notin {b.routing}
  BY DEF Routed, Sibling, Account
<1>4. ASSUME NEW n \in DOMAIN env'
      PROVE  /\ n \in Managed => env'[n] = Given("table", {b.routing})
             /\ Routed(b) => Sibling(b) \notin env'[n].value
             /\ Routed(b) /\ env'[n].from = "caller" => n \in Safe
             /\ env'[n].from # "vault"
  <2>1. env'[n] = IF n \in Managed THEN Given("table", {b.routing})
                  ELSE Given("caller", IF Routed(b) THEN Sanitized(b, n) ELSE environ[n])
    BY <1>4, <1>1 DEF BaseEnv
  <2>2. CASE n \in Managed
    BY <2>1, <2>2, <1>3 DEF Given
  <2>3. CASE n \notin Managed
    <3>1. n \in Inherited(b)  BY <1>1, <1>4, <2>3
    <3>2. Routed(b) => Sibling(b) \notin Sanitized(b, n)
      BY <3>1, <1>2, SanitizedIsClean
    <3>3. Routed(b) => n \in Safe  BY <3>1 DEF Inherited
    <3> QED  BY <2>1, <2>3, <3>2, <3>3 DEF Given
  <2> QED  BY <2>2, <2>3
<1> QED  BY <1>1, <1>2, <1>4 DEF EnvIsOf, Secrets

\* The values buildEnv sets are values.
LEMMA BaseEnvTyped ==
  ASSUME environ \in Environs, NEW b \in Row, b.allow \cap Managed = {}, env' = BaseEnv(b)
  PROVE  \A n \in DOMAIN env' : env'[n].from \in Source /\ env'[n].value \in Value
<1> SUFFICES ASSUME NEW n \in DOMAIN env'
             PROVE  env'[n].from \in Source /\ env'[n].value \in Value
  OBVIOUS
<1>1. DOMAIN env' = Inherited(b) \cup (IF Routed(b) THEN Managed ELSE {})
  BY DEF BaseEnv
<1>2. env'[n] = IF n \in Managed THEN Given("table", {b.routing})
                ELSE Given("caller", IF Routed(b) THEN Sanitized(b, n) ELSE environ[n])
  BY <1>1 DEF BaseEnv
<1>3. CASE n \in Managed
  <2>1. Routed(b)  BY <1>1, <1>3 DEF Inherited
  <2> QED  BY <2>1, <1>2, <1>3 DEF Given, Source, Value, Place, Routed
<1>4. CASE n \notin Managed
  <2>1. n \in Inherited(b)  BY <1>1, <1>4
  <2>2. n \in DOMAIN environ /\ environ[n] \in Value
    BY <2>1, LaunchAssumption DEF Inherited
  <2>3. Routed(b) => Sanitized(b, n) \in Value
    BY <2>1, <2>2, SanitizedIsClean DEF Inherited, Value
  <2> QED  BY <1>2, <1>4, <2>2, <2>3 DEF Given, Source
<1> QED  BY <1>3, <1>4

\* The secrets may be set on top of it: they are none of the names in it.
LEMMA SecretsFit ==
  ASSUME TypeOK, EnvIsOf(plan.row), plan.row.routing = "private", Secrets = {},
         written \subseteq Credentials(plan.row), env' = Injected, plan' = plan, login' = login
  PROVE  /\ EnvIsOf(plan.row)'
         /\ \A n \in DOMAIN env' : env'[n].from \in Source /\ env'[n].value \in Value
         /\ \A n \in DOMAIN env : n \in Safe \cup Managed
              => n \in DOMAIN env' /\ env'[n] = env[n]
         /\ Secrets' = written /\ \A n \in written : env'[n].value = held[n]
<1> DEFINE b == plan.row
<1>1. b.routing = "private" /\ Routed(b) /\ Sibling(b) = "work"
  BY DEF Routed, Sibling, Account
<1>2. /\ written \subseteq b.allow /\ written \cap Safe = {} /\ written \cap Managed = {}
      /\ written \subseteq DOMAIN held
  BY DEF Credentials, TypeOK
<1>3. /\ DOMAIN env' = DOMAIN env \cup written
      /\ \A n \in DOMAIN env' : env'[n] = IF n \in written THEN Given("vault", held[n]) ELSE env[n]
  BY <1>2 DEF Injected
<1>4. ASSUME NEW n \in written
      PROVE  n \in DOMAIN env' /\ env'[n].from = "vault" /\ env'[n].value = held[n]
  <2>1. env'[n] = Given("vault", held[n])  BY <1>3
  <2> QED  BY <2>1, <1>3 DEF Given
<1>5. ASSUME NEW n \in DOMAIN env', n \notin written
      PROVE  n \in DOMAIN env /\ env'[n] = env[n] /\ env[n].from # "vault"
  BY <1>3, <1>5 DEF Secrets
<1>6. EnvIsOf(b)'
  <2>1. DOMAIN env' \subseteq b.allow \cup Managed  BY <1>2, <1>3 DEF EnvIsOf
  <2>2. login = b.routing /\ Managed \subseteq DOMAIN env'
    BY <1>1, <1>3 DEF EnvIsOf
  <2>3. ASSUME NEW n \in DOMAIN env'
        PROVE  /\ n \in Managed => env'[n] = Given("table", {b.routing})
               /\ env'[n].from # "vault" => Sibling(b) \notin env'[n].value
               /\ env'[n].from = "caller" => n \in Safe
               /\ env'[n].from = "vault" => n \notin Safe
    <3>1. CASE n \in written
      BY <3>1, <1>2, <1>4
    <3>2. CASE n \notin written
      <4>1. n \in DOMAIN env /\ env'[n] = env[n] /\ env[n].from # "vault"
        BY <3>2, <1>5
      <4> QED  BY <4>1, <1>1 DEF EnvIsOf
    <3> QED  BY <3>1, <3>2
  <2>4. b' = b /\ login' = login  OBVIOUS
  <2> HIDE DEF b
  <2> QED  BY <2>1, <2>2, <2>3, <2>4, <1>1 DEF EnvIsOf, Routed, Sibling, Given
<1>7. ASSUME NEW n \in DOMAIN env'
      PROVE  env'[n].from \in Source /\ env'[n].value \in Value
  <2>1. CASE n \in written
    BY <2>1, <1>2, <1>4 DEF TypeOK, Source
  <2>2. CASE n \notin written
    BY <2>2, <1>5 DEF TypeOK
  <2> QED  BY <2>1, <2>2
<1>8. \A n \in DOMAIN env : n \in Safe \cup Managed => n \in DOMAIN env' /\ env'[n] = env[n]
  BY <1>2, <1>3
<1>9. Secrets' = written
  <2>1. \A n \in DOMAIN env' : env'[n].from = "vault" <=> n \in written
    BY <1>4, <1>5
  <2>2. written \subseteq DOMAIN env'  BY <1>4
  <2>3. Secrets' = {n \in DOMAIN env' : env'[n].from = "vault"}  BY DEF Secrets
  <2> QED  BY <2>1, <2>2, <2>3
<1> QED  BY <1>4, <1>6, <1>7, <1>8, <1>9

LEMMA InitIInv == Init => IInv
<1> SUFFICES ASSUME Init PROVE IInv  OBVIOUS
<1>1. DOMAIN env = {} /\ DOMAIN held = {}  BY DEF Init
<1>2. ~Chosen /\ ~Built /\ asked = {} /\ pc = "start" /\ core = "none"
  BY DEF Init, Chosen, Built
<1>3. TypeOK  BY <1>1 DEF Init, TypeOK
<1>4. Tested  BY <1>2 DEF Init, Tested, AsksOnlyForCredentials
<1>5. Answering  BY <1>2 DEF Init, Answering
<1> QED  BY <1>3, <1>4, <1>5 DEF IInv

\* What a step that leaves the chosen row and the environment alone has to
\* respect, so that the tests hold on.
LEMMA TestsHold ==
  ASSUME IInv, TypeOK', UNCHANGED <<world, plan, env, asked>>,
         pc' = "resolve" \/ Chosen' => Valid(file),
         Chosen' => Chosen, Built' => Built, pc' # "secrets" \/ pc = "secrets",
         asked # {} => outcome' \notin {"usage", "refused"}
  PROVE  Tested'
<1>1. file' = file /\ environ' = environ /\ login' = login /\ plan' = plan
      /\ env' = env /\ asked' = asked
  BY DEF world
<1>2. EnvIsOf(plan.row) => EnvIsOf(plan.row)'
  BY <1>1 DEF EnvIsOf, Routed, Sibling, Given
<1>3. Valid(file) => Valid(file)'  BY <1>1
<1>4. AsksOnlyForCredentials'  BY <1>1 DEF IInv, Tested, AsksOnlyForCredentials
<1>5. (pc = "resolve" \/ Chosen => Valid(file))'  BY <1>1, <1>3
<1>6. (Chosen \/ asked # {} =>
         /\ \E i \in DOMAIN file : plan.row = file[i]
         /\ Routed(plan.row) => login = plan.row.routing)'
  BY <1>1 DEF IInv, Tested, Routed
<1>7. (Built => EnvIsOf(plan.row))'  BY <1>2 DEF IInv, Tested
<1> QED  BY <1>1, <1>4, <1>5, <1>6, <1>7 DEF IInv, Tested

\* And so that the answer stays right.
LEMMA AnswerStays ==
  ASSUME IInv, UNCHANGED <<cache, plan, env, vault>>, Built' => Built,
         pc' \in {"start", "resolve", "env"} => core = "none",
         core \in {"starts", "writes"} => pc' = "secrets",
         pc' # "secrets" \/ pc = "secrets"
  PROVE  Answering'
<1>1. UNCHANGED <<cache, plan, env, core, held, written, asked, seen>>
  BY DEF vault, omf_core
<1>2. Secrets' = Secrets  BY <1>1 DEF Secrets
<1>3. Credentials(plan.row)' = Credentials(plan.row)  BY <1>1 DEF Credentials
<1> QED  BY <1>1, <1>2, <1>3 DEF IInv, Answering

\* A step of omf-core, or of the cache, leaves the launch where it is.
LEMMA CoreStep ==
  ASSUME IInv, OmfCore \/ CacheRewritten
  PROVE  IInv'
<1>1. /\ UNCHANGED <<world, installed, pc, provider, plan, env, asked, outcome>>
      /\ core \in {"starts", "writes"} \/ CacheRewritten
  BY DEF OmfCore, CoreReads, CoreWrites, CoreDone, CoreFails, CacheRewritten
<1>2. TypeOK /\ Tested /\ Answering  BY DEF IInv
<1>3. Chosen' = Chosen /\ Built' = Built  BY <1>1 DEF Chosen, Built
<1>4. Secrets' = Secrets /\ Credentials(plan.row)' = Credentials(plan.row)
  BY <1>1 DEF Secrets, Credentials
<1>5. TypeOK' => Tested'
  BY <1>1, <1>2, <1>3, TestsHold DEF Tested, AsksOnlyForCredentials
<1>6. CASE CoreReads
  <2>1. CASE cache = NoCache
    <3>1. TypeOK'  BY <1>1, <1>2, <1>6, <2>1 DEF CoreReads, TypeOK, world
    <3>2. Answering'
      BY <1>1, <1>2, <1>3, <1>4, <1>6, <2>1 DEF CoreReads, Answering
    <3> QED  BY <3>1, <3>2, <1>5 DEF IInv
  <2>2. CASE cache # NoCache
    <3>1. /\ core' = "writes" /\ held' = Emitted(asked) /\ seen' = seen /\ cache' = cache
          /\ written' = written /\ asked' = asked /\ core = "starts"
      BY <1>6, <2>2 DEF CoreReads
    <3>2. cache \in Caches /\ cache \in seen  BY <1>2, <2>2, <3>1 DEF Answering
    <3>3. held' = [n \in asked \cap DOMAIN cache |-> cache[n]]  BY <3>1 DEF Emitted
    <3>4. \A n \in DOMAIN held' : held'[n] \in Value
      BY <3>2, <3>3, LaunchAssumption
    <3>5. written = {}  BY <1>2, <3>1 DEF Answering
    <3>6. TypeOK'
      BY <1>1, <1>2, <3>1, <3>4, <3>5 DEF TypeOK, world
    <3>7. Answering'
      BY <1>1, <1>2, <1>3, <1>4, <2>2, <3>1, <3>2, <3>3 DEF Answering
    <3> QED  BY <3>6, <3>7, <1>5 DEF IInv
  <2> QED  BY <2>1, <2>2
<1>7. CASE CoreWrites \/ CoreDone \/ CoreFails
  <2>1. /\ core' \in {"writes", "ok", "failed"} /\ held' = held /\ seen' = seen
        /\ cache' = cache /\ written' \subseteq DOMAIN held /\ asked' = asked
        /\ core' \in {"writes", "ok"} => core = "writes"
        /\ core' = "ok" => written' = DOMAIN held
        /\ core # "none"
    BY <1>2, <1>7 DEF CoreWrites, CoreDone, CoreFails, TypeOK
  <2>2. TypeOK'  BY <1>1, <1>2, <2>1 DEF TypeOK, world
  <2>3. Answering'
    BY <1>1, <1>2, <1>3, <1>4, <1>7, <2>1 DEF Answering
  <2> QED  BY <2>2, <2>3, <1>5 DEF IInv
<1>8. CASE CacheRewritten
  <2>1. /\ UNCHANGED omf_core /\ seen \subseteq seen' /\ cache' \in Caches \cup {NoCache}
        /\ (pc = "secrets" /\ core # "none" => cache' \in seen')
    BY <1>8 DEF CacheRewritten
  <2>2. core' = core /\ held' = held /\ written' = written  BY <2>1 DEF omf_core
  <2>3. TypeOK'  BY <1>1, <1>2, <2>2 DEF TypeOK, world
  <2>4. Answering'
    BY <1>1, <1>2, <1>3, <1>4, <2>1, <2>2 DEF Answering
  <2> QED  BY <2>3, <2>4, <1>5 DEF IInv
<1> QED  BY <1>6, <1>7, <1>8 DEF OmfCore

LEMMA NextIInv == IInv /\ [Next]_vars => IInv'
<1> SUFFICES ASSUME IInv, [Next]_vars PROVE IInv'  OBVIOUS
<1>1. TypeOK /\ Tested /\ Answering  BY DEF IInv
<1> USE DEF Goto, Finish
<1>2. CASE Load
  <2>1. TypeOK'  BY <1>1, <1>2 DEF Load, TypeOK, world, vault, omf_core
  <2>2. Tested'
    BY <1>1, <1>2, <2>1, TestsHold DEF Load, Chosen, Built, Answering, world, vault
  <2>3. Answering'
    BY <1>1, <1>2, AnswerStays DEF Load, Built, Answering
  <2> QED  BY <2>1, <2>2, <2>3 DEF IInv
<1>3. ASSUME NEW name \in Profiles, NEW once \in BOOLEAN, Resolve(name, once)
      PROVE  IInv'
  <2>1. TypeOK'  BY <1>1, <1>3 DEF Resolve, TypeOK, world, vault, omf_core
  <2>2. /\ \E i \in DOMAIN file : plan'.row = file[i]
        /\ Routed(plan'.row) => login = plan'.row.routing
    BY <1>3 DEF Resolve
  <2>3. asked = {} /\ asked' = {} /\ Valid(file) /\ core = "none" /\ core' = "none"
    BY <1>1, <1>3 DEF Resolve, Tested, Answering, vault, omf_core
  <2>4. ~Built' /\ pc' = "env"
    BY <1>1, <1>3 DEF Resolve, Built, TypeOK
  <2>5. Valid(file)'  BY <2>3, <1>3 DEF Resolve, world
  <2>6. Tested'
    BY <1>1, <1>3, <2>2, <2>3, <2>4, <2>5
    DEF Resolve, Tested, Routed, AsksOnlyForCredentials, world
  <2>7. Answering'
    BY <1>1, <1>3, <2>3, <2>4 DEF Resolve, Answering, vault, omf_core
  <2> QED  BY <2>1, <2>6, <2>7 DEF IInv
<1>4. ASSUME NEW name \in Profiles, NEW once \in BOOLEAN, ResolveFails(name, once)
      PROVE  IInv'
  <2>1. pc = "resolve" /\ asked = {} /\ Valid(file) /\ core = "none"
    BY <1>1, <1>4 DEF ResolveFails, Tested, Answering
  <2>2. pc' = "end" /\ outcome' \in {"usage", "refused"}
        /\ UNCHANGED <<world, installed, cache, provider, plan, env, vault>>
    BY <1>4 DEF ResolveFails
  <2>3. asked' = asked /\ core' = core  BY <2>2 DEF vault, omf_core
  <2>4. TypeOK'  BY <1>1, <2>2 DEF TypeOK, world, vault, omf_core
  <2>5. Tested'  BY <2>1, <2>2, <2>3, <2>4, TestsHold DEF Chosen, Built
  <2>6. Answering'  BY <2>1, <2>2, AnswerStays DEF Built
  <2> QED  BY <2>4, <2>5, <2>6 DEF IInv
<1>5. CASE BuildEnv
  <2> DEFINE b == plan.row
  <2>1. PICK i \in DOMAIN file : b = file[i]  BY <1>1, <1>5 DEF BuildEnv, Tested, Chosen
  <2>2. Valid(file) /\ file \in Files /\ asked = {} /\ core = "none" /\ environ \in Environs
    BY <1>1, <1>5 DEF BuildEnv, Tested, Answering, Chosen
  <2>3. b \in Row /\ (b.account => Routed(b)) /\ b.allow \cap Managed = {}
    BY <2>1, <2>2, ValidRow
  <2>4. Routed(b) => login = b.routing  BY <1>1, <1>5 DEF BuildEnv, Tested, Chosen
  <2>5. env' = BaseEnv(b) /\ UNCHANGED <<world, installed, cache, provider, plan, vault, outcome>>
    BY <1>5 DEF BuildEnv
  <2>6. EnvIsOf(b)' /\ Secrets' = {}  BY <2>3, <2>4, <2>5, BaseEnvIsOf DEF world
  <2>7. \A n \in DOMAIN env' : env'[n].from \in Source /\ env'[n].value \in Value
    BY <2>2, <2>3, <2>5, BaseEnvTyped
  <2>8. TypeOK'
    BY <1>1, <1>5, <2>1, <2>5, <2>7 DEF BuildEnv, TypeOK, world, vault, omf_core
  <2>9. pc' = "secrets" => b.routing = "private" /\ DOMAIN env' \subseteq Safe \cup Managed
    BY <1>5, <2>5 DEF BuildEnv, Inject, BaseEnv, Inherited, Routed, Account
  <2>10. Valid(file)' /\ EnvIsOf(plan.row)'
    BY <2>2, <2>5, <2>6 DEF world
  <2>11. asked' = asked /\ UNCHANGED <<core, held, written, seen>>
    BY <2>5 DEF vault, omf_core
  <2>12. Tested'
    BY <1>1, <1>5, <2>1, <2>2, <2>4, <2>5, <2>8, <2>9, <2>10, <2>11
    DEF Tested, AsksOnlyForCredentials, Routed, world
  <2>13. Answering'
    BY <1>1, <1>5, <2>2, <2>5, <2>6, <2>11 DEF BuildEnv, Answering
  <2> QED  BY <2>8, <2>12, <2>13 DEF IInv
<1>6. CASE AskVault
  <2>1. /\ pc = "secrets" /\ pc' = pc /\ asked' = Credentials(plan.row) /\ seen' = {cache}
        /\ core = "none" /\ core' \in {"starts", "failed"}
        /\ UNCHANGED <<world, installed, cache, provider, plan, env, held, written, outcome>>
    BY <1>6 DEF AskVault
  <2>2. /\ plan.row.routing = "private" /\ EnvIsOf(plan.row) /\ Valid(file)
        /\ \E i \in DOMAIN file : plan.row = file[i]
        /\ login = "private"
    BY <1>1, <2>1 DEF Tested, Built, Chosen, Routed, Account
  <2>3. TypeOK'  BY <1>1, <2>1 DEF TypeOK, world
  <2>4. EnvIsOf(plan.row)' /\ Valid(file)' /\ file' = file /\ login' = login /\ environ' = environ
    BY <2>1, <2>2 DEF EnvIsOf, Routed, Sibling, Given, world
  <2>5. AsksOnlyForCredentials'
    BY <1>1, <2>1, <2>2, <2>4 DEF AsksOnlyForCredentials, Credentials, TypeOK
  <2>6. Tested'
    BY <1>1, <2>1, <2>2, <2>4, <2>5 DEF Tested, Routed
  <2>7. Secrets' = Secrets /\ Credentials(plan.row)' = Credentials(plan.row)
    BY <2>1 DEF Secrets, Credentials
  <2>8. Answering'
    BY <1>1, <2>1, <2>7 DEF Answering
  <2> QED  BY <2>3, <2>6, <2>8 DEF IInv
<1>7. CASE Collect
  <2>1. /\ pc = "secrets" /\ pc' = "exec" /\ core \in {"ok", "failed"}
        /\ env' = IF core = "ok" THEN Injected ELSE env
        /\ UNCHANGED <<world, installed, cache, provider, plan, vault, outcome>>
    BY <1>7 DEF Collect
  <2>2. UNCHANGED <<file, environ, login, hosted, core, held, written, asked, seen, plan>>
    BY <2>1 DEF world, vault, omf_core
  <2>3. /\ plan.row.routing = "private" /\ EnvIsOf(plan.row) /\ Valid(file) /\ Valid(file)'
        /\ \E i \in DOMAIN file : plan.row = file[i]
        /\ login = "private" /\ Secrets = {} /\ asked = Credentials(plan.row)
    BY <1>1, <2>1, <2>2 DEF Tested, Answering, Built, Chosen, Routed, Account
  <2>4. /\ EnvIsOf(plan.row)' /\ \A n \in DOMAIN env' : env'[n].from \in Source /\ env'[n].value \in Value
        /\ Secrets' # {} =>
             \E c \in seen \ {NoCache} :
               /\ Secrets' = Credentials(plan.row) \cap DOMAIN c
               /\ \A n \in Secrets' : env'[n].value = c[n]
    <3>1. CASE core = "ok"
      <4>1. PICK c \in seen \ {NoCache} : held = [n \in asked \cap DOMAIN c |-> c[n]]
        BY <1>1, <3>1 DEF Answering
      <4>2. written = Credentials(plan.row) \cap DOMAIN c /\ \A n \in written : held[n] = c[n]
        BY <1>1, <2>3, <3>1, <4>1 DEF Answering
      <4>3. env' = Injected  BY <2>1, <3>1
      <4>4. /\ EnvIsOf(plan.row)' /\ \A n \in DOMAIN env' : env'[n].from \in Source /\ env'[n].value \in Value
            /\ Secrets' = written /\ \A n \in written : env'[n].value = held[n]
        BY <1>1, <2>2, <2>3, <4>2, <4>3, SecretsFit
      <4> QED  BY <4>2, <4>4
    <3>2. CASE core # "ok"
      <4>1. env' = env  BY <2>1, <3>2
      <4>2. EnvIsOf(plan.row)'  BY <4>1, <2>2, <2>3 DEF EnvIsOf, Routed, Sibling, Given
      <4>3. Secrets' = {}  BY <4>1, <2>3 DEF Secrets
      <4> QED  BY <4>1, <4>2, <4>3, <1>1 DEF TypeOK
    <3> QED  BY <3>1, <3>2
  <2>5. TypeOK'  BY <1>1, <2>1, <2>2, <2>3, <2>4 DEF TypeOK, world
  <2>6. AsksOnlyForCredentials'
    BY <1>1, <2>1, <2>2 DEF Tested, AsksOnlyForCredentials
  <2>7. Tested'
    BY <1>1, <2>1, <2>2, <2>3, <2>4, <2>6 DEF Tested, Routed
  <2>8. Credentials(plan.row)' = Credentials(plan.row)  BY <2>2 DEF Credentials
  <2>9. Answering'
    BY <1>1, <2>1, <2>2, <2>3, <2>4, <2>8 DEF Answering
  <2> QED  BY <2>5, <2>7, <2>9 DEF IInv
<1>8. CASE Execute
  <2>1. TypeOK'  BY <1>1, <1>8 DEF Execute, TypeOK, world, vault, omf_core
  <2>2. Tested'
    BY <1>1, <1>8, <2>1, TestsHold DEF Execute, Chosen, Built, Tested, vault
  <2>3. Answering'
    BY <1>1, <1>8, AnswerStays DEF Execute, Built, Answering
  <2> QED  BY <2>1, <2>2, <2>3 DEF IInv
<1>9. ASSUME Reinstalled \/ UNCHANGED vars PROVE IInv'
  <2>1. UNCHANGED <<world, cache, pc, provider, plan, env, vault, outcome>>
        /\ (installed' = installed \/ installed' = ~installed)
    BY <1>9 DEF Reinstalled, vars
  <2>2. TypeOK'  BY <1>1, <2>1 DEF TypeOK, world, vault, omf_core
  <2>3. Chosen' = Chosen /\ Built' = Built  BY <2>1 DEF Chosen, Built
  <2>4. Tested'
    BY <1>1, <2>1, <2>2, <2>3, TestsHold DEF Tested, AsksOnlyForCredentials, vault
  <2>5. Answering'
    BY <1>1, <2>1, <2>3, AnswerStays DEF Answering
  <2> QED  BY <2>2, <2>4, <2>5 DEF IInv
<1> QED
  BY <1>2, <1>3, <1>4, <1>5, <1>6, <1>7, <1>8, <1>9, CoreStep DEF Next, Dispatcher

LEMMA Invariance == Spec => []IInv
<1> QED  BY InitIInv, NextIInv, PTL DEF Spec

\* TypeOK in every reachable state.
THEOREM TypeCorrect == Spec => []TypeOK
<1>1. IInv => TypeOK  BY DEF IInv
<1> QED  BY <1>1, Invariance, PTL

\* A child has the environment of its own account and login, and of no other,
\* whatever the manifest, the caller's environment and the cache hold.
THEOREM ChildIsOnItsRoute == Spec => []ChildEnvIsItsAccounts
<1>1. IInv => ChildEnvIsItsAccounts  BY DEF IInv, Tested, Built, ChildEnvIsItsAccounts
<1> QED  BY <1>1, Invariance, PTL

\* The vault is only asked in the private login, for a launch that goes on.
THEOREM VaultIsPrivate == Spec => []AsksOnlyForCredentials
<1>1. IInv => AsksOnlyForCredentials  BY DEF IInv, Tested
<1> QED  BY <1>1, Invariance, PTL

\* What a child has of the vault is all that one cache held for it, or nothing.
THEOREM SecretsComeWhole == Spec => []SecretsAreWhole
<1>1. IInv => SecretsAreWhole
  <2> SUFFICES ASSUME IInv, outcome = "running", Secrets # {}
               PROVE  \E c \in seen \ {NoCache} :
                        /\ Secrets = Credentials(plan.row) \cap DOMAIN c
                        /\ \A n \in Secrets : env[n].value = c[n]
    BY DEF SecretsAreWhole, Secrets
  <2> QED  BY DEF IInv, Answering, Built
<1> QED  BY <1>1, Invariance, PTL

\* No value of the environment is replaced by the vault's.
THEOREM SecretsOnlyAdd == Spec => InjectionOverridesNothing
<1> DEFINE Keeps == pc # "env" => \A n \in DOMAIN env : n \in DOMAIN env' /\ env'[n] = env[n]
<1>1. IInv /\ [Next]_vars => [Keeps]_vars
  <2> SUFFICES ASSUME IInv, Next PROVE Keeps  OBVIOUS
  <2>1. CASE Collect /\ core = "ok"
    <3>1. /\ EnvIsOf(plan.row) /\ plan.row.routing = "private" /\ TypeOK
          /\ DOMAIN env \subseteq Safe \cup Managed /\ Secrets = {}
          /\ asked = Credentials(plan.row) /\ written = DOMAIN held
          /\ \E c : held = [n \in asked \cap DOMAIN c |-> c[n]]
      BY <2>1 DEF Collect, IInv, Tested, Answering, Built
    <3>2. written \subseteq Credentials(plan.row)  BY <3>1
    <3>3. env' = Injected /\ plan' = plan /\ login' = login  BY <2>1 DEF Collect, world
    <3> QED  BY <3>1, <3>2, <3>3, SecretsFit
  <2>2. CASE BuildEnv  BY <2>2 DEF BuildEnv
  <2>3. CASE ~(Collect /\ core = "ok") /\ ~BuildEnv
    <3>1. env' = env
      BY <2>3 DEF Next, Dispatcher, OmfCore, Load, Resolve, ResolveFails, AskVault, Collect,
                  Execute, CoreReads, CoreWrites, CoreDone, CoreFails, CacheRewritten, Reinstalled
    <3> QED  BY <3>1
  <2> QED  BY <2>1, <2>2, <2>3
<1> QED  BY <1>1, Invariance, PTL DEF Spec, InjectionOverridesNothing
=============================================================================
