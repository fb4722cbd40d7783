SPECIFICATION Spec
CONSTANTS
    d1 = d1  d2 = d2  k1 = k1  k2 = k2  g1 = g1  g2 = g2
    Domain = {d1, d2}
    Kind = {k1, k2}
    Shard = {0}
    ShardOf <- MCShardOf
    Stamp = {g1, g2}
    Capacities <- MCCapacities
    Requests <- MCRequests
    Word = 4
    IdSpace = 4
    CounterBound = 4
INVARIANTS TypeOK NoOvercommit AuditConsistent ClosedExactlyOnce
PROPERTIES ClosedForever ImplementsLease
CHECK_DEADLOCK FALSE
SYMMETRY Sym
