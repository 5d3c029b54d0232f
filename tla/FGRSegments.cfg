SPECIFICATION Spec
CONSTANTS
  Nets <- MCNets
  SubNets <- MCSubNets
  NetOf <- MCNetOf
  Edges <- MCEdges
  ViaEdges <- MCViaEdges
  Capacity <- MCCapacity
INVARIANTS
  TypeOK
  EdgeListsMatch
  CountersExact
