SPECIFICATION FairSpec
CONSTANTS
    None = None
    Ops = {o1, o2}
    Preps = {u1, u2}
    Insts = {i1}
    Socats = {s1, s2}
    Faults = {"preempt", "timeout", "docker", "linger", "hangup"}
PROPERTY PreparationEnds
