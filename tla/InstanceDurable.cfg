SPECIFICATION Spec
CONSTANTS
    None = None
    a = a
    b = b
    p = p
    q = q
    Names = {a, b}
    Reqs = {r1, r2}
    Ports = {p, q}
    Cids = {c1, c2, c3}
    Canonical <- Mixed
    Entry = {"run", "assign", "unassign", "checkout", "release"}
    Faults = {"docker", "port", "crash", "contend", "hangup", "force"}
SYMMETRY Symmetry
INVARIANT LiveInstanceRuns
INVARIANT ForwardersAccountedFor
