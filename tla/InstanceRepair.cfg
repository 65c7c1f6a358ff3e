SPECIFICATION BSpec
CONSTANTS
    None = None
    a = a
    p = p
    Names = {a}
    Reqs = {r1, r2}
    Ports = {p}
    Cids = {c1, c2}
    Canonical <- Same
    Entry = {"run", "assign", "checkout"}
    Faults = {"crash", "hangup", "contend", "inside"}
    Worktrees = {w}
    Bystanders = {"doctor", "watcher"}
SYMMETRY Symmetry
INVARIANT LiveOrBeingRestarted
PROPERTY DoctorHeals
