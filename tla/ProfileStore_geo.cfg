SPECIFICATION Spec
CONSTANTS
    Profiles = {p}
    NoProfile = NoProfile
    Downloads = {d}
    GeoFiles = {site}
    MaxVersion = 1
    MaxAccidents = 0
    Faults = {}
SYMMETRY StoreSymmetry
PROPERTY GeodataKept
CHECK_DEADLOCK FALSE
