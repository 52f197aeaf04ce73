\* Two workers of each kind on four telling shapes of four nodes.
SPECIFICATION FairSpec
CONSTANTS
    a = a  b = b  c = c  d = d
    r1 = r1  r2 = r2  v1 = v1  v2 = v2
    Node = {a, b, c, d}
    Start = {a}
    Graphs <- Shapes
    Resolvers = {r1, r2}
    Visitors = {v1, v2}
INVARIANTS CheckInvariants NoLostWakeup DependenciesFirst ResultIsRight
PROPERTIES Contract Termination
