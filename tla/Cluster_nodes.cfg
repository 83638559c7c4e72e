CONSTANTS
  Node = {1, 2}
  Leader = 1
  Attempts = {1, 2}
  Topic = {1}
  Scenarios <- MCScenarios
  FNode = {1, 2, 3}
  Origin = 1
  FClient = {"a", "b", "c", "g", "h", "k"}
  Home <- MCHome
  Group = {"g", "h", "k"}
  Modes = {"single", "raft", "broadcast"}
  RNode = {1, 2}
  RTopic = {1, 2}
  MaxSets = 2
  BClusters = {{1, 2}, {1, 2, 3}}
  BAttempts = {1, 2, 3}
  BAt <- MCBAt
  SNode = {1, 2, 3}
  LeaderIds = {0, 1}
  Rounds = 2
  MaxUnavailable = 2
  MaxSilent = 1
SPECIFICATION ClusterSpec
INVARIANTS
   OneServing 
  ForwardDelivers  BroadcastTakeover OneClusterOrSeen
CHECK_DEADLOCK FALSE
