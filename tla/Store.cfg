CONSTANTS
    u1 = u1
    c1 = c1
    c2 = c2
    p1 = p1
    p2 = p2
    t1 = t1
    t2 = t2
    x1 = x1
    x2 = x2
    User = {u1}
    Cred = {c1, c2}
    Policy = {p1, p2}
    Token = {t1, t2}
    Text = {x1, x2}
    Null = Null

SPECIFICATION Spec

SYMMETRY Symmetric

INVARIANTS
    IInv

PROPERTIES
    AccessChangesOnPurpose
    MigrationKeepsAccess
