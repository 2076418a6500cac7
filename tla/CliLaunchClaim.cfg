\* examples/README.md: the CLI serves the modules of --extensions-dir.
SPECIFICATION StartSpec
CONSTANTS
  LegalIds = {a, b}
  IllegalIds = {x}
  ExtensionIds = {a, b}
  Operations <- MCOperations
  Configs <- MCConfigs
  HostConfigs <- MCHostConfigs
  Arguments <- MCArguments
  Sections <- MCSections
  MaxBuilds = 2
SYMMETRY Symmetry
INVARIANT ExtensionsAreLoaded
