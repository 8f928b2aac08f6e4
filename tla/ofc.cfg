\* Eight deployments over two windows: see MCOnlineFeatureCache.
CONSTANTS
    u1 = u1
    u2 = u2
    s1 = s1
    k1 = k1
    k2 = k2
    k3 = k3
    r1 = r1
    r2 = r2
    Unset = Unset
    Users = {u1, u2, s1}
    Synthetic = {s1}
    Keys = {k1, k2, k3}
    ObjectKey <- OwnKeys
    MaxWindow = 2
    Readers = {r1, r2}
    Settings <- All
SPECIFICATION FairSpec
INVARIANTS
    TypeOK
    RowsOfTheirUser
PROPERTIES
    NoneMeansAbsent
    CachesConverge
