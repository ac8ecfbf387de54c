SPECIFICATION Spec
CONSTANT Configs <- AllConfigs
INVARIANTS
  NoCredentialResidue
  ForensicsBeforeShutdown
  BundleInputsFinal
  ServesOnlyGuarded
  FirewallUndone
PROPERTIES
  LayeredRestore
  StopEndsSession
