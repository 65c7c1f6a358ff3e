SPECIFICATION VolSpec
CONSTANTS
    Coasts <- Namesakes
    Users = {u1}
    VolSlots = {s1, s2}
    NoInstance = NoInstance
    VolEntry = {"run", "rm"}
    VolFaults = {}
INVARIANT OwnData
