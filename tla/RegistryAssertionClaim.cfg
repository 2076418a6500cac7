\* __main__.py:215: assert registry is not None  # guarded above.
SPECIFICATION StartSpec
CONSTANTS
  LegalIds = {a, b}
  IllegalIds = {x}
  ExtensionIds = {a, b}
  Operations <- MCOperations
  Configs <- MCConfigs
  HostConfigs <- MCHostConfigs
  Arguments <- MCArguments
  Sections <- MCSections
  MaxBuilds = 2
SYMMETRY Symmetry
INVARIANT RegistryAssertionHolds
