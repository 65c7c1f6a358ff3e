SPECIFICATION Spec
CONSTANTS
    None = None
    a = a
    b = b
    p = p
    q = q
    Names = {a}
    Reqs = {r1, r2, r3}
    Ports = {p}
    Cids = {c1, c2, c3, c4}
    Canonical <- Same
    Entry = {"run", "rm", "apiStop", "stop", "checkout"}
    Faults = {"hangup", "docker"}
SYMMETRY Symmetry
 
INVARIANT EnqueuedHasRun
