SPECIFICATION Spec
CONSTANTS
    Runs = {r1, r2}
    Pids = {p1, p2, p3, p4}
    NoPid = NoPid
    MaxForeign = 1
    MaxTouched = 1
    cpu = cpu
    memory = memory
    Hierarchies <- BothHierarchies
    Lists <- SomeLists
SYMMETRY Symmetry
INVARIANTS Confined AimedAtOwnChild NoneLeft CleanFailsOnlyFor
