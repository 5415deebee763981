\* A SQL and a Prometheus source in use, one that Init skips, two concurrent readiness requests.
CONSTANTS
    d1 = d1
    d2 = d2
    d3 = d3
    Sources = {d1, d2, d3}
    Config <- MCConfig
    Http = {d2}
    Checkers = {h1, h2}
    MaxFaults = 1
SPECIFICATION ProbedSpec
INVARIANTS AvailableIsConnected UnconnectedHasLoop
PROPERTIES RecoversWhenUp LoopsStop
CHECK_DEADLOCK FALSE
