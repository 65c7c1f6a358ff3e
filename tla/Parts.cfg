SPECIFICATION PartsSpec
CONSTANTS
    None = None
    Ops = {o1, o2}
    Preps = {u1}
    Insts = {i1, i2, i3}
    Socats = {p1, p2, p3, p4, p5}
    Faults = {"docker", "hangup", "crash"}
    Hows = {"cli", "http"}
    OwnPath = "given"
    SuFaults = {"tar", "move"}
    NoSvc = NoSvc
    Svcs = {db}
    Tasks = {t1, t2}
    SvcEntry = {"run", "stop", "start", "restart", "rm", "archive", "unarchive", "prepare"}
    SvcFaults = {}
    NoOne = NoOne
    Names = {n1, n2}
    Sids = {s1, s2}
    MaxRows = 3
    Clients = {c1, c2}
    ShellEntry = {"spawn", "activate", "close", "rm"}
    Default = Default
    CoastNames = {n1, n2}
    OtherTypes = {dev}
    Keep = 1
    MaxBuilds = 3
    BuildFaults = {"fail", "crash"}
    child = child
    parent = parent
    fragment = fragment
    web = web
    Coastfiles = {child, parent, fragment}
    First = child
    NoFile = NoFile
    Entries = {web}
    Ports = {web}
    NoPort = NoPort
    Drafts <- MCDrafts
    CoastKey = "coast"
    ServiceKeys = {}
    Slots = {s1, s2, s3}
    NoCollector = NoCollector
    Requests = {r1}
    Viewers = {c1, c2}
    StatsEntry = {"archive", "errors", "lag", "reboot"}
    BusSize = 2
    Coasts <- MCCoasts
    Users = {u1}
    VolSlots = {s1, s2}
    NoInstance = NoInstance
    VolEntry = {"run", "rm", "owner"}
    VolFaults = {"copy", "create", "hangup"}
    Wrappers = {w1, w2}
    Policies = {"no", "on-failure", "always"}
    MaxRetries = 3
    BareEntry = {"gated", "reboot"}
    Nobody = Nobody
    Parts = {"services", "shells", "builds", "prepare", "coastfile", "stats", "volumes", "bare"}
SYMMETRY Symmetry
INVARIANT PartsTypeOK
INVARIANT RunningRowHasBox
INVARIANT OneActive
 
PROPERTY ActiveKept
 
INVARIANT ResolvesAsMeant
 
INVARIANT OneCollector
INVARIANT CheckoutHasPort
 
 
INVARIANT OneCommand
