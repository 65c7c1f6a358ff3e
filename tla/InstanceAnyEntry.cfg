SPECIFICATION FairSpec
CONSTANTS
    None = None
    a = a
    b = b
    p = p
    q = q
    Names = {a}
    Reqs = {r1, r2}
    Ports = {p}
    Cids = {c1, c2, c3}
    Canonical <- Same
    Entry = {"run", "rm", "apiRm", "stop", "start", "apiStop", "apiStart", "assign", "unassign", "checkout", "release"}
    Faults = {}
INVARIANT IInv
INVARIANT TransitionalIsOwned
INVARIANT RecordedContainerExists
PROPERTY RequestsEnd
