SPECIFICATION Spec
CONSTANTS
    Profiles = {p, q}
    NoProfile = NoProfile
    Downloads = {d}
    GeoFiles = {site}
    MaxVersion = 2
    MaxAccidents = 1
    Faults = {"slow"}
SYMMETRY StoreSymmetry
PROPERTY RefusedKeeps
CHECK_DEADLOCK FALSE
