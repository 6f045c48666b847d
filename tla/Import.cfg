\* Two calls import two overlapping lists, beside other writers.
CONSTANTS
    e1 = e1
    e2 = e2
    Endpoints = {e1, e2}
    Files <- SmallFiles
    Keys = {k1}
    Calls = {c1, c2}
    MaxRevision = 2
SPECIFICATION ImportSpec
SYMMETRY CallSymmetry

    
PROPERTIES
    ImportedAsShown
