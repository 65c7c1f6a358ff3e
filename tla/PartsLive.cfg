SPECIFICATION PartsFairSpec
CONSTANTS
    None = None
    Ops = {o1}
    Preps = {u1}
    Insts = {i1}
    Socats = {p1, p2}
    Faults = {"timeout", "docker", "preempt"}
    Hows = {"cli", "http"}
    OwnPath = "given"
    SuFaults = {"tar", "move"}
    NoSvc = NoSvc
    Svcs = {db}
    Tasks = {t1, t2}
    SvcEntry = {"run", "stop", "rm", "ps", "loop"}
    SvcFaults = {"docker", "vanish"}
    NoOne = NoOne
    Names = {n1}
    Sids = {s1, s2}
    MaxRows = 2
    Clients = {c1}
    ShellEntry = {"spawn", "terminal", "activate", "pick", "close", "delete", "list", "stop", "rm", "restart"}
    Default = Default
    CoastNames = {a, b}
    OtherTypes = {dev}
    Keep = 1
    MaxBuilds = 3
    BuildFaults = {"fail", "crash"}
    child = child
    parent = parent
    fragment = fragment
    web = web
    Coastfiles = {child, parent, fragment}
    First = child
    NoFile = NoFile
    Entries = {web}
    Ports = {web}
    NoPort = NoPort
    Drafts <- MCDrafts
    CoastKey = "coast"
    ServiceKeys = {"web"}
    Slots = {x1, x2, x3}
    NoCollector = NoCollector
    Requests = {r1}
    Viewers = {}
    StatsEntry = {"gated"}
    BusSize = 2
    Coasts <- MCCoasts
    Users = {u1}
    VolSlots = {s1}
    NoInstance = NoInstance
    VolEntry = {"run"}
    VolFaults = {}
    Wrappers = {w1}
    Policies = {"no"}
    MaxRetries = 3
    BareEntry = {"gated"}
    Nobody = Nobody
    Parts = {"services", "shells", "update", "stats"}
CHECK_DEADLOCK FALSE
 
PROPERTY SessionsEnd
PROPERTY UpdateEnds
PROPERTY StatsFollow
