SPECIFICATION Spec
CONSTANTS
  Files <- MCFiles
  Environs <- MCEnvirons
  Caches <- MCCaches
  Profiles <- MCProfiles
  Safe <- MCSafe
  Path = "PATH"
  Elsewhere = Elsewhere
  NoCache = NoCache
  NoRow = NoRow
INVARIANTS TypeOK ChildEnvIsItsAccounts AsksOnlyForCredentials SecretsAreWhole
PROPERTIES InjectionOverridesNothing SecretsAreNotFatal
