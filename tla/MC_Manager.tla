----------------------------- MODULE MC_Manager -----------------------------
EXTENDS DataSourceManager, TLC

CONSTANTS d1, d2, d3

\* A SQL and a Prometheus source that are used, and one that Init skips.
MCConfig == d1 :> "enabled" @@ d2 :> "enabled" @@ d3 :> "unregistered"
=============================================================================
