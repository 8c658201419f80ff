SPECIFICATION Spec
CONSTANTS
    Client = {c1, c2}
    Org = Org
    Project = {p1}
    Service = {s1}
    Policy = {y1, y2}
    Permission = {x1}
    Credential = {d1}
    Name = {n1, n2}
    Config = {g1, g2}
    Key = {k1, k2}
    MaxActive = 1
    MaxVersion = 3
    NoRow = NoRow
    NoTarget = NoTarget
    NoCommand = NoCommand
    Idle = Idle
SYMMETRY Symmetry
CONSTRAINT Constraint
INVARIANTS ActiveWithinLimit OneResourcePerKey
PROPERTIES EditsBuildOnSeen NothingNewUnderArchived
