\* Every command line over every kind of section, and host programs that make
\* up to two builds into one registry; two legal ids and one illegal.
SPECIFICATION StartSpec
CONSTANTS
  LegalIds = {a, b}
  IllegalIds = {x}
  ExtensionIds = {a, b}
  Operations <- MCOperations
  Configs <- MCConfigs
  HostConfigs <- MCHostConfigs
  Arguments <- MCArguments
  Sections <- MCSections
  MaxBuilds = 2
SYMMETRY Symmetry
INVARIANTS StartTypeOK AllOrNothing EveryOperationAccounted UnapprovedWritesAnnounced
INVARIANTS NoFetchWithoutNamespace AuthNeverDropped TimeoutFromTheHighestTier
