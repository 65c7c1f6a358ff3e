SPECIFICATION SidesSpec
CONSTANTS
    inner = inner
    outer = outer
    Branches = {w1, w2}
    Root = Root
    NoTree = NoTree
    LocalDirs = {inner, outer}
    OuterDirs = {}
    DirOrder <- InnerFirst
    Services = {web}
    Strategies = {"hot", "rebuild"}
    Recipes = {0, 1}
    StepFaults = {"check", "git", "copy", "mount", "build", "compose", "health"}
    Neighbours = {n1, n2}
    Dynamic = {d1, d2}
    Canonical = web
    Nowhere = Nowhere
    PortFaults = {"boot", "stop", "crash"}
SYMMETRY Symmetry
 
INVARIANT AssignedImageFresh
INVARIANT MarkedIsFilled
INVARIANT PortsLeadHome
