SPECIFICATION MCSpec
CONSTANTS
  main = main
  probe = probe
  c1 = c1
  c2 = c2
  c3 = c3
  w1 = w1
  Main = main
  Lanes <- MCLanes
  ProbeLanes = {probe}
  Entries <- MCEntries
  TimedEntries = {c1}
  Waiters = {w1}
  Priorities <- MCPriorities
  Limits <- MCLimits
  MaxGeneration = 1
INVARIANTS
  TypeOK
  NoCommandLost
  SlotsMatchRuns
  QueueOrdered
  WorkConserving
  WaiterWatchesActive
  DrainedForGood
  AnswerMatchesExecution
PROPERTIES
  StartsInOrder
