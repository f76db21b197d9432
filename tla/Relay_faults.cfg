SPECIFICATION FairSpec
CONSTANTS
  Peers = {alice, bob}
  Nobody = nobody
  MaxRuns = 2
  MaxData = 1
  MaxFaults = 1
INVARIANTS
  NoEcho RunningIsRouted NeverRefused ReaderSurvives
PROPERTIES
  EveryoneConnects PeersHearEachOther
CHECK_DEADLOCK FALSE
