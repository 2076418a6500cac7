\* One task, every kind of executor: two turns and a cancel, with fair
\* scheduling and timers.
SPECIFICATION FairSpec
CONSTANTS
  Tasks = {t1}
  Cancels = {c1}
  MaxRuns = 2
  NoTask = NoTask
INVARIANTS TypeOK TokenReachable NoTokenLeak NeverStuck ChunksExtendTheirOwnTurn
INVARIANTS AnsweredUnlessAborted MetricsMatchTheWire
PROPERTIES CancelHitsOnlyTheCurrentRun ImplementsProtocol EveryMessageAnswered
