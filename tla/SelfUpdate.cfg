SPECIFICATION SuSpec
CONSTANTS
    None = None
    Ops = {o1}
    Preps = {u1, u2}
    Insts = {i1}
    Socats = {s1, s2}
    Faults = {"preempt", "timeout"}
    Hows = {"cli", "http"}
    OwnPath = "given"
    SuFaults = {"tar", "move", "quit"}
SYMMETRY Symmetry
CHECK_DEADLOCK FALSE
 
INVARIANT SameVersion
 
