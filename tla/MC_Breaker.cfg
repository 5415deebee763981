\* ClickHouse: reads (which may end unreported), writes and health checks by three
\* goroutines, with fewer probes than the successes needed to close, as in the
\* defaults (one probe for two successes).
CONSTANTS
    Callers = {c1, c2, c3}
    Ops = {"read", "write", "health"}
    HealthFeeds = TRUE
    FailureThreshold = 2
    HalfOpenMaxRequests = 2
    SuccessThreshold = 3
SPECIFICATION FairSpec
INVARIANTS ClosedCountsStreak ProbesBounded
PROPERTIES OpenIsSticky RecoversWhenHealthy
