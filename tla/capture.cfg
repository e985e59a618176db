SPECIFICATION FairSpec
CONSTANTS
  Captures = {c1, c2}
  Ports = {p1, p2}
  Nobody = Nobody
  NoPort = NoPort
INVARIANTS TypeOK OwnFrame SpawnFailureHeard NoLostWakeup
PROPERTY KeepsContract
