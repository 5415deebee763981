---------------------------- MODULE MC_Template ----------------------------
EXTENDS TemplateEngine

CONSTANTS t1

MCKeys == Names \X {"data", "count"}
MCDatasourceOf == [k \in MCKeys |-> k[1]]
MCValues == [own : Versions, shared : Versions, rows : RowCounts]
MCEmptyValues == {v \in MCValues : MarshalledLength(v.rows) = 0}

\* Reloads during two edits, reloads and a query during one edit, and three
\* queries on their own.
MCWorkloads ==
    {[queries |-> {}, reloads |-> Reloaders, edits |-> 2],
     [queries |-> {t1}, reloads |-> Reloaders, edits |-> 1],
     [queries |-> Threads, reloads |-> {}, edits |-> 0]}
=============================================================================
