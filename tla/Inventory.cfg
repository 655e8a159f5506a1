CONSTANTS
    s = s  m = m  xl = xl
    w1 = w1  w2 = w2
    Keep = Keep
    Type = {s, m}
    LegacyType = {xl}
    MaxCapacity = 1
    DefaultCapacity <- Defaults
    LegacyStorage = {}
    MaxStays = 1
    Dto <- PartialDtos
    Edit <- Edits
    Worker = {w1, w2}
    Endpoints = {"settings", "storages", "reservations"}
SPECIFICATION Spec
SYMMETRY WorkerSymmetry
INVARIANTS
    TypeOK
    SettingsAreBacked
PROPERTIES
    OccupiedIsSpared
    SaveRetiresExcess
