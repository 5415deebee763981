---------------------------- MODULE CachedReads ----------------------------
(***************************************************************************)
(* Cached reads of a data source that changes: CacheLayer with a loader    *)
(* that reads the current version of what the key stands for.              *)
(*                                                                         *)
(* Versions are numbers that grow, so "older" can be said.  The history    *)
(* variables newest and floor are not in the code: newest[k] is the newest *)
(* version any call has returned for k, and floor[t] is newest of t's key  *)
(* when t's call began.                                                    *)
(***************************************************************************)
EXTENDS CacheLayer

CONSTANT MaxVersion     \* bound: how often the data of a key changes

Versions == 0 .. MaxVersion

\* The values of CacheLayer are the versions.
ASSUME CachedReadsAssumption == MaxVersion \in Nat /\ Values = Versions

VARIABLES source, newest, floor

vars == <<layer, source, newest, floor>>

TypeOK ==
    /\ LayerTypeOK
    /\ source \in [Keys -> Versions]
    /\ newest \in [Keys -> Versions]
    /\ floor \in [Threads -> Versions]

Init ==
    /\ NewCacheLayer
    /\ source = [k \in Keys |-> 0]
    /\ newest = [k \in Keys |-> 0]
    /\ floor = [t \in Threads |-> 0]

-----------------------------------------------------------------------------
Larger(m, n) == IF m > n THEN m ELSE n

\* The history of a call that returns r for k.
Returned(k, r) ==
    newest' = IF r.ok THEN [newest EXCEPT ![k] = Larger(@, r.v)] ELSE newest

Call(t, k) ==
    /\ GetOrLoad(t, k)
    /\ floor' = [floor EXCEPT ![t] = newest[k]]
    /\ Returned(k, val'[t])
    /\ UNCHANGED source

\* The loader reads the data source.
Load(t) ==
    /\ LoadReturns(t, source[key[t]])
    /\ UNCHANGED <<source, newest, floor>>

Return(t) ==
    /\ Leave(t)
    /\ Returned(key[t], val[t])
    /\ UNCHANGED <<source, floor>>

\* The data of a key changes.
SourceChanges(k) ==
    /\ source[k] < MaxVersion
    /\ source' = [source EXCEPT ![k] = @ + 1]
    /\ UNCHANGED <<layer, newest, floor>>

\* The steps of GetOrLoad after the first.
Proceed(t) ==
    \/ Load(t)
    \/ Return(t)
    \/ /\ DeleteCorrupt(t) \/ Do(t) \/ LoadFails(t) \/ SetEntry(t)
       /\ UNCHANGED <<source, newest, floor>>

Clear ==
    /\ \/ \E d \in {DatasourceOf[k] : k \in Keys} : ClearByDatasource(d)
       \/ \E k \in Keys : ClearRemoves(k)
       \/ ClearAborts
       \/ ClearAll
    /\ UNCHANGED <<source, newest, floor>>

Environment ==
    \/ \E k \in Keys : SourceChanges(k)
    \/ /\ \E k \in Keys : Expires(k) \/ Damaged(k)
       /\ UNCHANGED <<source, newest, floor>>

Next ==
    \/ \E t \in Threads : (\E k \in Keys : Call(t, k)) \/ Proceed(t)
    \/ Clear
    \/ Environment

Spec == Init /\ [][Next]_vars

\* Every goroutine goes on with its call; a loader returns, because it runs
\* under the request's timeout.
FairSpec == Spec /\ \A t \in Threads : WF_vars(Proceed(t))

-----------------------------------------------------------------------------
NotOlder == \A t \in Threads : val[t].ok => val[t].v >= floor[t]

\* Reads do not go back in time: a call returns nothing older than what some
\* earlier call for the key had returned when this one began.  GetOrLoad keeps
\* the promise although it never looks at versions, because the singleflight
\* section contains both the load and the store: two loads of a key cannot
\* store in the wrong order.
\* Claimed for MemoryCache: a Set that Redis refuses can leave an older entry.
MonotonicReads == ~FailingBackend => NotOlder

\* What the cache holds was read from the data source: an entry is never newer
\* than the data, and the empty marker stands for an empty result, never for a
\* load that failed.
CachedIsLoaded ==
    \A k \in Keys :
        /\ cache[k].kind = "data" => cache[k].v <= source[k]
        /\ cache[k].kind = "empty" =>
               cache[k].v <= source[k] /\ cache[k].v \in EmptyValues

\* Every call of GetOrLoad returns: no goroutine waits for a load that nobody
\* runs any more.
CallsReturn ==
    \A t \in Threads : pc[t] # "idle" ~> pc[t] = "idle"

-----------------------------------------------------------------------------
\* What makes MonotonicReads inductive when the backend does not fail: a load
\* that has been read is as new as everything returned or cached so far.
FreshLoads ==
    /\ \A k \in Keys : newest[k] <= source[k]
    /\ \A k \in Keys : cache[k].kind \in {"data", "empty"} =>
           newest[k] <= cache[k].v /\ cache[k].v <= source[k]
    /\ \A t \in Threads : floor[t] <= newest[key[t]]
    /\ \A t \in Threads : pc[t] \in {"delete", "join", "wait", "load"} => ~val[t].ok
    /\ \A t \in Threads : pc[t] \in {"set", "leave"} /\ val[t].ok =>
           /\ newest[key[t]] <= val[t].v /\ val[t].v <= source[key[t]]
           /\ cache[key[t]].kind \in {"data", "empty"} =>
                  cache[key[t]].v <= val[t].v
    /\ \A t \in Threads : pc[t] = "leave" /\ val[t].ok
           /\ cache[key[t]].kind \in {"data", "empty"} =>
                  cache[key[t]].v = val[t].v

Inv ==
    /\ TypeOK
    /\ FlightsAreLoads
    /\ ~FailingBackend => FreshLoads /\ NotOlder
=============================================================================
