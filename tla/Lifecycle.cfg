SPECIFICATION ProcessSpec
CONSTANTS
  Servers = {s3, health}
  Envs <- MCEnvs
  Docs <- MCDocs
  BadSize = BadSize
  IdpTimes <- MCIdpTimes
  MaxWait = 5
  RetryDelay = 2
  FetchTimeout = 2
  Grace = 2
  MaxInFlight = 1
INVARIANTS
  TrustAnchorIsConfigured
  JwksWindowBounded
  SlowProviderSurvived
  CutOnlyAfterGrace
PROPERTY
  ShutdownCompletes
CHECK_DEADLOCK TRUE
