--------------------------- MODULE MC_CachedReads ---------------------------
EXTENDS CachedReads, TLC

CONSTANTS k1, k2

\* Two keys of two data sources; or one key.
MCDatasourceOf == (k1 :> "ds1") @@ (k2 :> "ds2")
MCOneDatasource == (k1 :> "ds1")
MCValues == 0 .. MaxVersion
=============================================================================
