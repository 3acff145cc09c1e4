CONSTANTS
    x1 = x1  x2 = x2  x3 = x3  c1 = c1  c2 = c2  a1 = a1  a2 = a2  s1 = s1  s2 = s2  w1 = w1
    Ssrcs = {x1, x2}
    Cnames = {c1, c2}
    Addrs = {a1}
    Sessions = {s1, s2}
    None = None
    RouteIds = {1, 2, 3}
    MayFail = FALSE
    Writers = {w1}
    EnableRouting = TRUE
    Garbled = FALSE
    MaxQueue = 2
SPECIFICATION ReceiverSpec
SYMMETRY Names
INVARIANTS
    ReceiverConsistent
    RouterOrderDoesNotMatter
    RouterOthersUndisturbed
    
    GroupIdleMeansNothingToDo
