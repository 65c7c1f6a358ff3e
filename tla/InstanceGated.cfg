SPECIFICATION Spec
CONSTANTS
    None = None
    a = a
    b = b
    p = p
    q = q
    Names = {a, b}
    Reqs = {r1, r2}
    Ports = {p, q}
    Cids = {c1, c2, c3}
    Canonical <- Mixed
    Entry = {"run", "apiRm", "stop", "start", "assign", "unassign", "checkout", "release"}
    Faults = {"port"}
SYMMETRY Symmetry
INVARIANT CheckedOutOwnsPorts
INVARIANT OneCheckedOut
INVARIANT NoOrphanContainer
