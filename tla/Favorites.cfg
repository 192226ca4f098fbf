CONSTANTS
    r1 = r1
    r2 = r2
    a = a
    b = b
    c = c
    v1 = v1
    v2 = v2
    None = None
    Stations = {a, b, c}
    Catalogues <- MCCatalogues
    MaxFavorites = 2
    Lifetime = 2
    Stored <- MCStored
    Slots = {r1, r2}
    MaxArrivals = 3
    MaxClock = 2
SYMMETRY MCSymmetry
SPECIFICATION MCSpec
INVARIANTS
    ListIsWhole
    SavedIsKept
PROPERTY
    ImplementsList
