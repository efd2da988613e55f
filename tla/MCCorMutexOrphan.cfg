CONSTANTS
    c1 = c1  c2 = c2  c3 = c3
    NoCo = NoCo
    Co <- MCCo
    N = 2
    Place <- MCPlace
    Builds = {TRUE}
    WaitCap = 8
    TaskCaps = {3}
    Rounds = 2
SPECIFICATION Spec
INVARIANT CallerStaysValid
CHECK_DEADLOCK FALSE
