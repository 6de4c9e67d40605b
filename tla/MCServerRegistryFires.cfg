SPECIFICATION Spec
CONSTANTS
    p = p
    q = q
    e = e
    na = na
    nb = nb
    ua = ua
    ub = ub
    ka = ka
    kb = kb
    s = s
    h1 = h1
    h2 = h2
    None = None
    Ids = {p, q, e}
    Backend <- MCBackend
    Names = {na, nb}
    Urls = {ua, ub}
    Tokens = {ka, kb}
    Machine <- MCMachine
    Schedules = {s}
    Threads = {h1, h2}
    MaxRequests = 4
INVARIANT FiresAtItsServer
CHECK_DEADLOCK FALSE
