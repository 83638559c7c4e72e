CONSTANTS
  Normal = {"a", "b"}
  Metadata = {"$s"}
  Tasks = {t1, t2}
  Clients = {x, y}
  Filters <- TreeFilters
  TopicNames <- ShortNames
  NoLocal <- Own
  Shared <- Group
  MaxIds = 2
  MaxCount = 2
SPECIFICATION Spec
SYMMETRY Symmetric
INVARIANTS MatchesExact SubscribedIsIndexed SubscribersFound NoDeadTopic CountersExact
