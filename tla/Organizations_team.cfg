SPECIFICATION Spec
CONSTANTS
    u1 = u1
    u2 = u2
    u3 = u3
    i1 = i1
    i2 = i2
    i3 = i3
    t1 = t1
    t2 = t2
    NoInvitation = NoInvitation
    NoCommand = NoCommand
    User = {u1, u2, u3}
    Role = {"owner", "admin", "developer"}
    Invitation = {i1, i2}
    Thread = {t1, t2}
SYMMETRY Symmetric
INVARIANTS OwnerRetained
PROPERTIES PowerComesFromOwners ClosedStaysClosed
