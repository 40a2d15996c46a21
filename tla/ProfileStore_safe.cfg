SPECIFICATION Spec
CONSTANTS
    Profiles = {p, q}
    NoProfile = NoProfile
    Downloads = {d, e}
    GeoFiles = {site, ip}
    MaxVersion = 2
    MaxAccidents = 1
    Faults = {"disk", "api", "late", "exit", "crash", "slow"}
SYMMETRY StoreSymmetry
INVARIANTS RegistryMatchesFiles RuntimeAgrees
PROPERTIES NewestWins AllOrNothing
CHECK_DEADLOCK FALSE
