SPECIFICATION EsHealthSpec
CONSTANTS
    Tasks = {t1, t2}
    Repeat = 2
    MaxClock = 5
    MaxSteps = 1
    Never = Never
SYMMETRY Sym
INVARIANTS EsHealthInv NeverSilenced
PROPERTY RateLimited
