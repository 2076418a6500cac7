\* Every message over every kind of schema, every class of error and every
\* kind of output, under both policies.
SPECIFICATION ExchangeSpec
CONSTANT NoError = NoError
INVARIANTS RefusalsAgree FixedStaysFixed SurfacesPartOnlyOnDisclosure OutputFaultsAreOurs AdvertisedModesAccepted
