SPECIFICATION Spec
CONSTANTS
    Gens = {g1, g2}
    Faults = {}
PROPERTIES RestartFindsPolicy
