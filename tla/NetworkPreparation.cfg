SPECIFICATION Spec
CONSTANTS
    a = a
    b = b
    r = r
    p = p
    q = q
    unknown = unknown
    Null = Null
    Uuids = {a, b, r, p, q, unknown, Null}
    Categories = {"c", "d"}
    Junctions = {a, b}
    Reservoirs = {r}
    Pipes = {p}
    Patterns = {q}
    Whole = 2
    Limit = 7
    Requests <- MCRequests
INVARIANTS
    DemandConserved
    OwnDemandsFirst
    PreparedIsClosed
    OnlyEnabledPartsFail
CHECK_DEADLOCK FALSE
