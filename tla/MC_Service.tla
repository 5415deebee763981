---------------------------- MODULE MC_Service ------------------------------
EXTENDS Service, MC_Tables, MC_Metrics, MC_Startup, MC_Rendering

\* The memory cache treats its threads alike, and its keys but for the prefix.
MCSymmetry ==
    Permutations(Threads) \cup Permutations(Prefixed) \cup Permutations(Keys \ Prefixed)
=============================================================================
