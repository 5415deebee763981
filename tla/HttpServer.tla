---------------------------- MODULE HttpServer -----------------------------
(***************************************************************************)
(* What stands before the GraphQL handlers: the request chain with the     *)
(* shutdown, and the limiters the chain asks.  The chain only sees a       *)
(* limiter's yes or no, which Gateway leaves open, and the limiters share  *)
(* no state, so a behaviour is one of a single part, the one it is about;  *)
(* the others stand still.                                                 *)
(***************************************************************************)
EXTENDS Gateway, FallbackLimiter, TokenBuckets, AuthFailures

VARIABLE about    \* the part this behaviour exercises

serverVars == <<gatewayVars, vars, bucketVars, failureVars, about>>

ServerInit ==
    /\ GatewayInit /\ Init /\ BucketInit /\ FailureInit
    /\ about \in {"requests", "fallback", "buckets", "failures"}
    /\ about # "requests" => site = CHOOSE s \in Sites : TRUE
    /\ about # "buckets" => kind = CHOOSE k \in Kinds : TRUE

ChainStands == UNCHANGED gatewayVars
LimitersStand == UNCHANGED <<vars, bucketVars, failureVars>>

ServerNext ==
    /\ \/ about = "requests" /\ GatewayNext /\ LimitersStand
       \/ about = "fallback" /\ Next /\ UNCHANGED <<bucketVars, failureVars>> /\ ChainStands
       \/ about = "buckets" /\ BucketNext /\ UNCHANGED <<vars, failureVars>> /\ ChainStands
       \/ about = "failures" /\ FailureNext /\ UNCHANGED <<vars, bucketVars>> /\ ChainStands
    /\ UNCHANGED about

\* The fairness of the chain and of the fallback limiter; time needs none.
FallbackFair(A) ==
    about = "fallback" /\ A /\ UNCHANGED <<bucketVars, failureVars, about>> /\ ChainStands
ChainFair(A) == about = "requests" /\ A /\ LimitersStand /\ UNCHANGED about

ServerSpec ==
    /\ ServerInit /\ [][ServerNext]_serverVars
    /\ \A c \in Callers : WF_vars(FallbackFair(AllowStep(c)))
    /\ \A p \in Probes : WF_vars(FallbackFair(ProbeStep(p)))
    /\ \A c \in Conns : WF_gatewayVars(ChainFair(phase # "exited" /\ ConnStep(c)))
    /\ WF_gatewayVars(ChainFair(ShutdownStep))
=============================================================================
