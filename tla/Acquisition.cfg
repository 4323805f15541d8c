SPECIFICATION FairSpec
CONSTANTS
  p1 = p1  p2 = p2
  Ports = {p1, p2}
  MaxWorkers = 3
  Setups <- TwoSetups
INVARIANTS NoWriteDuringRestore PollersInOrder
PROPERTIES StopTakesEffect FailureReported
