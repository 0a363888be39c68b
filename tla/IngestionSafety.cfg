\* Two ingests that may overlap and be killed, two programs that load.
SPECIFICATION Spec
CONSTANTS
    Ingesters = {i1, i2}
    Loaders = {l1, l2}
    Corpora = {c1, c2}
    Absent = Absent
    Partial = Partial
    CanVanish = TRUE
INVARIANTS
    IInv
PROPERTIES
    UndisturbedIngestsAgree
    LoadsAreOfARegister
