------------------------------ MODULE Service -------------------------------
(***************************************************************************)
(* Parts of the service without fairness: the start of the process, the    *)
(* resolvers of table, metric and template queries, and the memory cache.  *)
(* They share no state in these models, so a behaviour is one of a single  *)
(* part, the one it is about; the others stand still.                      *)
(***************************************************************************)
EXTENDS Startup, TableQueries, MetricQueries, TemplateRendering, MemoryCache

VARIABLE about    \* the part this behaviour exercises

serviceVars == <<startVars, queryVars, metricVars, renderVars, vars, about>>

\* Where the parts that a behaviour is not about stand still.
AConfig == CHOOSE c \in Configs : TRUE
AKind == CHOOSE k \in Kinds : TRUE
AQuery == CHOOSE a \in QueryArgs : TRUE
ARequest == CHOOSE r \in TemplateRequests : TRUE
ASize == CHOOSE n \in ResultSizes : TRUE

ServiceInit ==
    /\ about \in {"start", "tables", "metrics", "templates", "memory"}
    /\ IF about = "start" THEN StartInit ELSE config = AConfig /\ boot = NewBoot
    /\ IF about = "tables" THEN QueryInit ELSE Before({AKind}, {<<>>}, {AQuery})
    /\ IF about = "templates" THEN RenderInit ELSE BeforeRender({ARequest}, {ASize})
    /\ MetricInit /\ Init

ServiceNext ==
    /\ \/ about = "start" /\ StartNext
          /\ UNCHANGED <<queryVars, metricVars, renderVars, vars>>
       \/ about = "tables" /\ QueryNext
          /\ UNCHANGED <<startVars, metricVars, renderVars, vars>>
       \/ about = "metrics" /\ MetricNext
          /\ UNCHANGED <<startVars, queryVars, renderVars, vars>>
       \/ about = "templates" /\ RenderNext
          /\ UNCHANGED <<startVars, queryVars, metricVars, vars>>
       \/ about = "memory" /\ Next
          /\ UNCHANGED <<startVars, queryVars, metricVars, renderVars>>
    /\ UNCHANGED about

ServiceSpec == ServiceInit /\ [][ServiceNext]_serviceVars
=============================================================================
