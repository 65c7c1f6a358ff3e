SPECIFICATION Spec
CONSTANTS
    None = None
    Ops = {o1, o2}
    Preps = {u1}
    Insts = {i1, i2}
    Socats = {s1, s2, s3, s4}
    Faults = {"timeout", "docker", "linger", "hangup", "abandon", "crash"}
 
PROPERTY SealsAreKept
