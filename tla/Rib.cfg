SPECIFICATION Spec
CONSTANTS
    Names <- MCNames
    Faces = {f1, f2, f3}
    Origins = {o1}
    Costs = {1, 2}
    None = None
    Offers <- MCOffers
    Lossy = {"add"}
    MAX_NUM_TIMEOUTS = 1
    Tame = TRUE
    MaxRoutes = 3
    MaxPending = 1
    MaxDown = 1
SYMMETRY Alike
INVARIANTS TypeOK FibFollowsRib  RoutesFoundByFace RecordsHaveEntries
CHECK_DEADLOCK FALSE
