------------------------------- MODULE Launch -------------------------------
(***************************************************************************)
(* "omf <profile> [args]": from the manifest to the child process (Run in  *)
(* omf/dispatch/internal/app/app.go, ResolveProfile and buildEnv in        *)
(* internal/router, SecretsEnv in internal/omfcore), with the omf-core     *)
(* subcommand it runs for the secrets (cmd_env in omf/core/src/secrets.rs).*)
(*                                                                         *)
(* A host has two accounts.  A backend of the manifest is routed to one of *)
(* them or to none, and the child's environment is put together from the   *)
(* caller's environment, the compiled account table and the secrets cache  *)
(* of the private account.  omf-core is a process of its own: it reads the *)
(* cache, writes pairs to a pipe one by one, and may fail after any of     *)
(* them, or never end.  Meanwhile the shell may rewrite the cache, and     *)
(* omf-core may be installed or removed.                                   *)
(*                                                                         *)
(* A value is the set of the places its paths are in: the home of an       *)
(* account, or Elsewhere.  (So is the empty value.)  That goes for the     *)
(* caller's values and for those in the cache.  A name has no comma in it, *)
(* as the names of the cache and of a shell's environment have none.       *)
(***************************************************************************)
EXTENDS Naturals, Sequences

CONSTANTS
  Files,      \* manifests: sequences of rows
  Environs,   \* environments of the caller: functions from sets of names
  Caches,     \* what the keychain cache may hold: functions from sets of names
  Profiles,   \* names that rows and callers may use
  Safe,       \* isRoutedSafeEnvName
  Path,       \* "PATH", one of them
  Elsewhere,  \* a path in neither home; an unknown login home
  NoCache,    \* no keychain entry, or one without a body
  NoRow       \* no backend is chosen

Account == {"work", "private"}
Managed == {"HOME", "FORGE_CONFIG"}    \* isRoutingManagedEnv
Place   == Account \cup {Elsewhere}
Value   == (SUBSET Place) \ {{}}

\* A row after parsing: its kind matters only in that some kinds need an
\* account; the routing may be missing.
Row == [name : Profiles, account : BOOLEAN, routing : Account \cup {"none", "missing"},
        allow : SUBSET STRING, oneshot : BOOLEAN, interactive : BOOLEAN]

ASSUME LaunchAssumption ==
  /\ Files \subseteq Seq(Row)
  /\ \A e \in Environs \cup Caches : \A n \in DOMAIN e : e[n] \in Value
  /\ Path \in Safe /\ Safe \cap Managed = {}
  /\ Elsewhere \notin Account
  /\ NoRow \notin Row /\ NoCache \notin Caches

VARIABLES
  file, environ, login, hosted,   \* the caller's: manifest, environment, home
                                  \* and whether the host has either account
  installed, cache,               \* omf-core, and the private keychain cache
  pc,        \* "start", "resolve", "env", "secrets", "exec" or "end"
  provider,  \* whether a secrets provider was wired
  plan,      \* the backend chosen and how it is to be run
  env,       \* the child's environment: what each name is set to, and from where
  core,      \* the omf-core process: "none", "starts", "writes", "ok" or "failed"
  held,      \* what it has to write, by name
  written,   \* the names it has written so far
  asked,     \* history: the names the vault was asked for
  seen,      \* history: what the cache has been since
  outcome    \* "none", "running", "usage", "refused" or "error"

world == <<file, environ, login, hosted>>
omf_core == <<core, held, written>>
vault    == <<omf_core, asked, seen>>
vars == <<world, installed, cache, pc, provider, plan, env, vault, outcome>>

-----------------------------------------------------------------------------
Routed(b)  == b.routing \in Account
Sibling(b) == IF b.routing = "work" THEN "private" ELSE "work"

\* manifest.Validate, and the tests of Parse that come before it.
Valid(rows) ==
  /\ \A i, j \in DOMAIN rows : rows[i].name = rows[j].name => i = j
  /\ \A i \in DOMAIN rows :
       /\ rows[i].routing # "missing"
       /\ rows[i].routing = "none" => ~rows[i].account
       /\ rows[i].allow \cap Managed = {}

\* sanitizeRoutedEnvValue: PATH loses the entries in the sibling's home; any
\* other value that mentions it is not passed at all.
Sanitized(b, n) ==
  IF n = Path THEN environ[n] \ {Sibling(b)}
  ELSE IF Sibling(b) \in environ[n] THEN {} ELSE environ[n]

\* Seeded fault: a routed backend takes over every name it lists.
InheritedUnsafe(b) ==
  {n \in (b.allow \ Managed) \cap DOMAIN environ : Routed(b) => Sanitized(b, n) # {}}

\* The names the child takes over from the caller.
Inherited(b) ==
  {n \in (b.allow \ Managed) \cap DOMAIN environ :
     Routed(b) => n \in Safe /\ Sanitized(b, n) # {}}

\* Seeded fault: the vault is asked for every allowlisted name.
CredentialsAll(b) == b.allow \ Managed

\* credentialAllowlist: the names that only the vault may provide.
Credentials(b) == b.allow \ (Managed \cup Safe)

Given(from, value) == [from |-> from, value |-> value]

\* buildEnv, but for the secrets.
BaseEnv(b) ==
  [n \in Inherited(b) \cup (IF Routed(b) THEN Managed ELSE {}) |->
     IF n \in Managed THEN Given("table", {b.routing})
     ELSE Given("caller", IF Routed(b) THEN Sanitized(b, n) ELSE environ[n])]

-----------------------------------------------------------------------------
Init ==
  /\ file \in Files /\ environ \in Environs
  /\ login \in Place /\ hosted \in BOOLEAN
  /\ installed \in BOOLEAN /\ cache \in Caches \cup {NoCache}
  /\ pc = "start" /\ outcome = "none"
  /\ provider = FALSE
  /\ plan = [row |-> NoRow, once |-> FALSE]
  /\ env = <<>>
  /\ core = "none" /\ held = <<>> /\ written = {}
  /\ asked = {} /\ seen = {}

Goto(where)  == pc' = where /\ UNCHANGED outcome
Finish(what) == pc' = "end" /\ outcome' = what

\* Seeded fault: a manifest that is not valid is reported, and used.
LoadAnyway ==
  /\ pc = "start"
  /\ pc' = "resolve" /\ outcome' = (IF Valid(file) THEN "none" ELSE "error")
  /\ provider' = installed
  /\ UNCHANGED <<world, installed, cache, plan, env, vault>>

\* LoadFile, then the wiring of a secrets provider, if omf-core is there.
Load ==
  /\ pc = "start"
  /\ IF Valid(file)
       THEN Goto("resolve") /\ provider' = installed
       ELSE Finish("error") /\ UNCHANGED provider
  /\ UNCHANGED <<world, installed, cache, plan, env, vault>>

\* assertCompiledAccountTable and findBackend.
Usable(name) ==
  /\ login \in Account \/ hosted
  /\ \E i \in DOMAIN file : file[i].name = name

Supported(b, once) == IF once THEN b.oneshot ELSE b.interactive

\* ResolveProfile, up to the environment, when every test is passed.  What
\* backendAccountRoute tests again has been tested by Valid.
Resolve(name, once) ==
  /\ pc = "resolve" /\ Usable(name)
  /\ \E i \in DOMAIN file :
       /\ file[i].name = name
       /\ Routed(file[i]) => login = file[i].routing
       /\ Supported(file[i], once)
       /\ plan' = [row |-> file[i], once |-> once]
  /\ Goto("env")
  /\ UNCHANGED <<world, installed, cache, provider, env, vault>>

\* The refusals, in the order of the code: a foreign host, an unknown
\* profile, the wrong login, a mode the backend does not have.
ResolveFails(name, once) ==
  /\ pc = "resolve"
  /\ IF ~(login \in Account \/ hosted) THEN Finish("refused")
     ELSE IF ~Usable(name) THEN Finish("usage")
     ELSE \E i \in DOMAIN file :
            /\ file[i].name = name
            /\ IF Routed(file[i]) /\ login # file[i].routing THEN Finish("refused")
               ELSE ~Supported(file[i], once) /\ Finish("usage")
  /\ UNCHANGED <<world, installed, cache, provider, plan, env, vault>>

\* Seeded fault: the vault is asked whatever the route is.
InjectAnyRoute(b) == provider /\ Routed(b) /\ Credentials(b) # {}

\* injectPrivateSecrets: when omf-core is run at all.
Inject(b) == provider /\ b.routing = "private" /\ Credentials(b) # {}

BuildEnv ==
  /\ pc = "env"
  /\ env' = BaseEnv(plan.row)
  /\ IF Inject(plan.row)
       THEN Goto("secrets") ELSE Goto("exec")
  /\ UNCHANGED <<world, installed, cache, provider, plan, vault>>

\* SecretsEnv runs omf-core, which may be gone.
AskVault ==
  /\ pc = "secrets" /\ core = "none"
  /\ asked' = Credentials(plan.row) /\ seen' = {cache}
  /\ core' = IF installed THEN "starts" ELSE "failed"
  /\ UNCHANGED <<world, installed, cache, pc, provider, plan, env, held, written, outcome>>

\* filter_allowlist: of the names it is given, those the cache holds, fresh
\* or stale, with their values.  (The names go out joined by commas and are
\* split again, which changes none: a name has no comma.)
Emitted(names) == [n \in names \cap DOMAIN cache |-> cache[n]]

\* cmd_env, up to its loop: read_cache, all at once; without a cache it refuses.
CoreReads ==
  /\ core = "starts"
  /\ IF cache = NoCache THEN core' = "failed" /\ UNCHANGED held
     ELSE core' = "writes" /\ held' = Emitted(asked)
  /\ UNCHANGED <<world, installed, cache, pc, provider, plan, env, written, asked, seen, outcome>>

\* One turn of its loop.
CoreWrites ==
  /\ core = "writes"
  /\ \E n \in DOMAIN held \ written : written' = written \cup {n}
  /\ UNCHANGED <<world, installed, cache, pc, provider, plan, env, core, held, asked, seen, outcome>>

CoreDone ==
  /\ core = "writes" /\ written = DOMAIN held
  /\ core' = "ok"
  /\ UNCHANGED <<world, installed, cache, pc, provider, plan, env, held, written, asked, seen, outcome>>

\* A write fails, or omf-core is killed.
CoreFails ==
  /\ core \in {"starts", "writes"}
  /\ core' = "failed"
  /\ UNCHANGED <<world, installed, cache, pc, provider, plan, env, held, written, asked, seen, outcome>>

\* parseNulEnv, of all that is on the pipe, and the loop over it: every name in
\* it that is not managed is set, whatever it was before, to the value the vault
\* has, whatever that mentions.
Injected ==
  [n \in DOMAIN env \cup (written \ Managed) |->
     IF n \in written \ Managed THEN Given("vault", held[n]) ELSE env[n]]

\* Seeded faults: what is on the pipe is taken whatever the exit code is; a
\* failure blocks the launch.
CollectAnyway ==
  /\ pc = "secrets" /\ core \in {"ok", "failed"}
  /\ env' = Injected
  /\ Goto("exec")
  /\ UNCHANGED <<world, installed, cache, provider, plan, vault>>
CollectOrFail ==
  /\ pc = "secrets" /\ core \in {"ok", "failed"}
  /\ IF core = "ok" THEN env' = Injected /\ Goto("exec")
     ELSE Finish("error") /\ UNCHANGED env
  /\ UNCHANGED <<world, installed, cache, provider, plan, vault>>

\* omf-core has ended.  Its answer counts if it did so well; otherwise there is a
\* warning, and the launch goes on without secrets.
Collect ==
  /\ pc = "secrets" /\ core \in {"ok", "failed"}
  /\ env' = IF core = "ok" THEN Injected ELSE env
  /\ Goto("exec")
  /\ UNCHANGED <<world, installed, cache, provider, plan, vault>>

\* Execute: the program may not be found.
Execute ==
  /\ pc = "exec"
  /\ Finish("running") \/ Finish("error")
  /\ UNCHANGED <<world, installed, cache, provider, plan, env, vault>>

\* The rest of the host.
CacheRewritten ==
  /\ \E c \in Caches \cup {NoCache} : c # cache /\ cache' = c
  /\ seen' = IF pc = "secrets" /\ core # "none" THEN seen \cup {cache'} ELSE seen
  /\ UNCHANGED <<world, installed, pc, provider, plan, env, omf_core, asked, outcome>>

Reinstalled ==
  /\ installed' = ~installed
  /\ UNCHANGED <<world, cache, pc, provider, plan, env, vault, outcome>>

Dispatcher ==
  \/ Load
  \/ \E name \in Profiles, once \in BOOLEAN : Resolve(name, once) \/ ResolveFails(name, once)
  \/ BuildEnv \/ AskVault \/ Collect \/ Execute

OmfCore == CoreReads \/ CoreWrites \/ CoreDone \/ CoreFails

Next == Dispatcher \/ OmfCore \/ CacheRewritten \/ Reinstalled

\* omf-core, which is given no deadline, need not go on.
Spec == Init /\ [][Next]_vars /\ WF_vars(Dispatcher)

-----------------------------------------------------------------------------
Source == {"table", "caller", "vault"}

TypeOK ==
  /\ login \in Place /\ hosted \in BOOLEAN /\ installed \in BOOLEAN
  /\ provider \in BOOLEAN
  /\ pc \in {"start", "resolve", "env", "secrets", "exec", "end"}
  /\ outcome \in {"none", "running", "usage", "refused", "error"}
  /\ (pc = "end") <=> (outcome # "none")
  /\ pc \in {"env", "secrets", "exec"} => \E i \in DOMAIN file : plan.row = file[i]
  /\ \A n \in DOMAIN env : env[n].from \in Source /\ env[n].value \in Value
  /\ core \in {"none", "starts", "writes", "ok", "failed"} /\ written \subseteq DOMAIN held
  /\ \A n \in DOMAIN held : held[n] \in Value

EnvIsOf(b) ==
  /\ b.account => Routed(b)
  /\ DOMAIN env \subseteq b.allow \cup Managed
  /\ Managed \cap DOMAIN env # {} => Routed(b)
  /\ Routed(b) => login = b.routing /\ Managed \subseteq DOMAIN env
  /\ \A n \in DOMAIN env :
       /\ n \in Managed => env[n] = Given("table", {b.routing})
       /\ Routed(b) /\ env[n].from # "vault" => Sibling(b) \notin env[n].value
       /\ Routed(b) /\ env[n].from = "caller" => n \in Safe
       /\ env[n].from = "vault" => b.routing = "private" /\ n \notin Safe

\* What buildEnv is for: a kind that needs an account runs on a route, and a
\* child that runs on a route runs in the login it is routed to, with that
\* account's HOME and FORGE_CONFIG; nothing the table or the caller gives it
\* mentions the home of the other account; what it takes over from the caller
\* is of the safe kind; and what it has from the vault is not, was listed by
\* its backend, and is only given to the private account.  (The vault's values
\* go in as they are: nothing in the code looks at what they mention.)
ChildEnvIsItsAccounts == outcome = "running" => EnvIsOf(plan.row)

\* The vault is asked only in the private login, for a backend that is launched
\* there, and only for names that the child cannot take over from its caller
\* and its backend lists (credentialAllowlist): a launch that is refused, or
\* one for the work account, never runs omf-core.
AsksOnlyForCredentials ==
  asked # {} =>
    /\ login = "private" /\ plan.row.routing = "private"
    /\ outcome \notin {"usage", "refused"}
    /\ asked \subseteq plan.row.allow
    /\ asked \cap (Safe \cup Managed) = {}

\* Once the environment is built, the answer of omf-core only adds to it,
\* whatever the cache has become in the meantime: no name that the account
\* table or the caller has given a value is given another by the vault.
InjectionOverridesNothing ==
  [][pc # "env" => \A n \in DOMAIN env : n \in DOMAIN env' /\ env'[n] = env[n]]_vars

\* A child has the secrets of one moment or none: every credential its backend
\* lists that the cache held at some time after omf-core was called, with the
\* value of then, however often the cache was rewritten meanwhile; never a part of
\* them, though a failing omf-core leaves some on the pipe ("a partial secret
\* stream is a hard error", secrets.rs).
SecretsAreWhole ==
  outcome = "running" =>
    LET secrets == {n \in DOMAIN env : env[n].from = "vault"}
    IN secrets # {} =>
         \E c \in seen \ {NoCache} :
           /\ secrets = Credentials(plan.row) \cap DOMAIN c
           /\ \A n \in secrets : env[n].value = c[n]

\* injectPrivateSecrets is "non-fatal by design": a launch that has passed
\* ResolveProfile's tests is executed, with or without its secrets, unless it
\* waits for an omf-core that never ends.
SecretsAreNotFatal ==
  (pc = "env") ~> (pc = "exec" \/ [](pc = "secrets" /\ core \in {"starts", "writes"}))
=============================================================================
