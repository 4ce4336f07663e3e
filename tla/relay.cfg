SPECIFICATION FairSpec
CONSTANTS
  Services <- AllServices
  MaxData = 2
  MaxLines = 3
  MaxGrams = 3
INVARIANTS ToldTruth FreedOnce NothingLost UdpToPeer
PROPERTIES RelayEnds
