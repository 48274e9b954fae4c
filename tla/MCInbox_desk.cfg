SPECIFICATION Spec
CONSTANTS
    u1 = u1
    u2 = u2
    n1 = n1
    n2 = n2
    c1 = c1
    c2 = c2
    c3 = c3
    r1 = r1
    r2 = r2
    Staff = {u1, u2}
    Newcomers = {n1, n2}
    Invites = {i1}
    Customers = {c1, c2, c3}
    Rows = {1, 2, 3}
    Wamids = {w1}
    Exts = {x1}
    Emojis = {e1}
    Phones = {p1, p2}
    Sockets = {s1, s2}
    Requests = {r1, r2}
    PageSize = 1
    MaxClock = 1
    Worlds <- MCWorlds
INVARIANTS
    InviteAdmitsOne
    OneThreadPerCustomer
    ReplyGoesOutOnce
    RegisteredIsSubscribed
    PagesMissNothing
    ScreensAreCurrent
CHECK_DEADLOCK FALSE
