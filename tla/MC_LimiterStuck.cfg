CONSTANTS
    Callers = {c1, c2}
    Probes = {p1, p2}
    MaxOutages = 1
    Cancels = FALSE
SPECIFICATION FairSpec
PROPERTY SwitchesBack
