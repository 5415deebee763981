----------------------------- MODULE CacheLayer -----------------------------
(***************************************************************************)
(* The cache layer of internal/cache/layer.go: GetOrLoad, which looks a    *)
(* key up in a backend, loads it through a singleflight group on a miss    *)
(* and stores what was loaded, and the two ways of clearing entries.       *)
(*                                                                         *)
(* This module has the steps; what a loader returns is a parameter of      *)
(* LoadReturns, because in the code it is a closure.  CachedReads and      *)
(* TemplateEngine extend this module, each with its own loader.            *)
(*                                                                         *)
(* A step is one call of the backend or one critical section of the        *)
(* singleflight group, so goroutines interleave wherever the code lets     *)
(* them.  A cached value is a value of Values, the ones in EmptyValues     *)
(* being zero bytes long; gob encoding followed by gob decoding gives the  *)
(* value back, unless the entry was damaged in between ("corrupt").        *)
(***************************************************************************)
EXTENDS Naturals

CONSTANTS
    Threads,        \* goroutines that call GetOrLoad
    Keys,           \* cache keys
    DatasourceOf,   \* key |-> the part of the key ClearByDatasource matches
    Values,         \* what a loader can return
    EmptyValues,    \* the values of length zero
    NoValue,        \* placeholder where there is no value
    NoOne,          \* placeholder where there is no goroutine
    Backends        \* the backends the server may be configured with

ASSUME CacheLayerAssumption ==
    /\ EmptyValues \subseteq Values
    /\ NoValue \notin Values
    /\ NoOne \notin Threads
    /\ Backends \subseteq {"memory", "redis"}

VARIABLES
    backend,    \* the one it is configured with
    cache,      \* key |-> entry of the backend
    flight,     \* key |-> the goroutine running the key's load, or NoOne
    pc,         \* goroutine |-> where it is in GetOrLoad
    key,        \* goroutine |-> the key it asked for
    val,        \* goroutine |-> what was loaded, and on return the result
    clearing    \* the keys a running DeleteByPrefix has still to remove

layer == <<backend, cache, flight, pc, key, val, clearing>>

\* Calls of RedisCache can fail; those of MemoryCache return a nil error.
FailingBackend == backend = "redis"

Entries == [kind : {"none", "corrupt"}, v : {NoValue}]
             \cup [kind : {"data"}, v : Values \ EmptyValues]
             \cup [kind : {"empty"}, v : EmptyValues]
Results == [ok : {FALSE}, v : {NoValue}] \cup [ok : {TRUE}, v : Values]

NoEntry == [kind |-> "none", v |-> NoValue]
Corrupt == [kind |-> "corrupt", v |-> NoValue]
Failed == [ok |-> FALSE, v |-> NoValue]
Found(v) == [ok |-> TRUE, v |-> v]

Loading == {"load", "set", "leave"}

LayerTypeOK ==
    /\ backend \in Backends
    /\ cache \in [Keys -> Entries]
    /\ flight \in [Keys -> Threads \cup {NoOne}]
    /\ pc \in [Threads -> {"idle", "delete", "join", "wait"} \cup Loading]
    /\ key \in [Threads -> Keys]
    /\ val \in [Threads -> Results]
    /\ clearing \in SUBSET Keys

NewCacheLayer ==
    /\ backend \in Backends
    /\ cache = [k \in Keys |-> NoEntry]
    /\ flight = [k \in Keys |-> NoOne]
    /\ pc = [t \in Threads |-> "idle"]
    /\ key \in [Threads -> Keys]
    /\ val = [t \in Threads |-> Failed]
    /\ clearing = {}

-----------------------------------------------------------------------------
(* GetOrLoad *)

\* Step 1: the backend's answer for the key.  A hit returns at once, the
\* empty marker as an empty result; an error or a miss goes on to the loader,
\* an entry that does not decode is to be deleted first.
GetOrLoad(t, k) ==
    /\ pc[t] = "idle"
    /\ key' = [key EXCEPT ![t] = k]
    /\ \/ /\ cache[k].kind \in {"data", "empty"}
          /\ val' = [val EXCEPT ![t] = Found(cache[k].v)]
          /\ UNCHANGED pc
       \/ /\ cache[k].kind = "none" \/ FailingBackend
          /\ pc' = [pc EXCEPT ![t] = "join"]
          /\ val' = [val EXCEPT ![t] = Failed]
       \/ /\ cache[k].kind = "corrupt"
          /\ pc' = [pc EXCEPT ![t] = "delete"]
          /\ val' = [val EXCEPT ![t] = Failed]
    /\ UNCHANGED <<backend, cache, flight, clearing>>

\* The entry that did not decode is deleted, whatever it holds by now; the
\* error of the deletion is dropped.
DeleteCorrupt(t) ==
    /\ pc[t] = "delete"
    /\ pc' = [pc EXCEPT ![t] = "join"]
    /\ \/ cache' = [cache EXCEPT ![key[t]] = NoEntry]
       \/ FailingBackend /\ UNCHANGED cache
    /\ UNCHANGED <<backend, flight, key, val, clearing>>

\* Mutant: every caller runs its own load.
Do_NoDedup(t) ==
    /\ pc[t] = "join"
    /\ flight' = [flight EXCEPT ![key[t]] = t]
    /\ pc' = [pc EXCEPT ![t] = "load"]
    /\ UNCHANGED <<backend, cache, key, val, clearing>>

\* Step 2, singleflight.Group.Do: the first caller of a key runs the load,
\* callers that come while it runs wait for it.
Do(t) ==
    /\ pc[t] = "join"
    /\ IF flight[key[t]] = NoOne
         THEN /\ flight' = [flight EXCEPT ![key[t]] = t]
              /\ pc' = [pc EXCEPT ![t] = "load"]
         ELSE /\ pc' = [pc EXCEPT ![t] = "wait"]
              /\ UNCHANGED flight
    /\ UNCHANGED <<backend, cache, key, val, clearing>>

\* The loader returned v.
LoadReturns(t, v) ==
    /\ pc[t] = "load"
    /\ val' = [val EXCEPT ![t] = Found(v)]
    /\ pc' = [pc EXCEPT ![t] = "set"]
    /\ UNCHANGED <<backend, cache, flight, key, clearing>>

\* Mutant: a failed load is stored as an empty result.
LoadFails_CachesEmpty(t) ==
    /\ pc[t] = "load"
    /\ \E v \in EmptyValues : val' = [val EXCEPT ![t] = Found(v)]
    /\ pc' = [pc EXCEPT ![t] = "set"]
    /\ UNCHANGED <<backend, cache, flight, key, clearing>>

\* Mutant: a failed load leaves the call in the singleflight table.
LoadFails_KeepsFlight(t) ==
    /\ pc[t] = "load"
    /\ pc' = [pc EXCEPT ![t] = "idle"]
    /\ UNCHANGED <<backend, cache, flight, key, val, clearing>>

\* The loader failed: nothing is stored.
LoadFails(t) ==
    /\ pc[t] = "load"
    /\ pc' = [pc EXCEPT ![t] = "leave"]
    /\ UNCHANGED <<backend, cache, flight, key, val, clearing>>

\* Steps 3 and 4: an empty result is stored as the empty marker (with the
\* short TTL), any other one encoded (with the jittered TTL); the error of
\* the backend is dropped.
SetEntry(t) ==
    /\ pc[t] = "set"
    /\ \/ LET v == val[t].v
              kind == IF v \in EmptyValues THEN "empty" ELSE "data"
          IN  cache' = [cache EXCEPT ![key[t]] = [kind |-> kind, v |-> v]]
       \/ FailingBackend /\ UNCHANGED cache
    /\ pc' = [pc EXCEPT ![t] = "leave"]
    /\ UNCHANGED <<backend, flight, key, val, clearing>>

\* The goroutines the end of t's load wakes, t included.
Served(t) == {t} \cup {f \in Threads : pc[f] = "wait" /\ key[f] = key[t]}

\* singleflight forgets the call and hands its outcome to everyone who waited;
\* GetOrLoad returns it.
Leave(t) ==
    /\ pc[t] = "leave"
    /\ flight' = [flight EXCEPT ![key[t]] = NoOne]
    /\ pc' = [f \in Threads |-> IF f \in Served(t) THEN "idle" ELSE pc[f]]
    /\ val' = [f \in Threads |-> IF f \in Served(t) THEN val[t] ELSE val[f]]
    /\ UNCHANGED <<backend, cache, key, clearing>>

-----------------------------------------------------------------------------
(* Clearing, and what happens to entries by themselves *)

\* ClearByDatasource lists the keys with the datasource's prefix ...
ClearByDatasource(d) ==
    /\ clearing = {}
    /\ clearing' = {k \in Keys : DatasourceOf[k] = d /\ cache[k].kind # "none"}
    /\ UNCHANGED <<backend, cache, flight, pc, key, val>>

\* ... and removes them one after another,
ClearRemoves(k) ==
    /\ k \in clearing
    /\ clearing' = clearing \ {k}
    /\ cache' = [cache EXCEPT ![k] = NoEntry]
    /\ UNCHANGED <<backend, flight, pc, key, val>>

\* giving up at the first error of the backend.
ClearAborts ==
    /\ FailingBackend /\ clearing # {}
    /\ clearing' = {}
    /\ UNCHANGED <<backend, cache, flight, pc, key, val>>

ClearAll ==
    /\ clearing = {}
    /\ cache' = [k \in Keys |-> NoEntry]
    /\ UNCHANGED <<backend, flight, pc, key, val, clearing>>

\* The TTL ran out, or the backend evicted the entry.
Expires(k) ==
    /\ cache[k].kind # "none"
    /\ cache' = [cache EXCEPT ![k] = NoEntry]
    /\ UNCHANGED <<backend, flight, pc, key, val, clearing>>

\* The stored bytes of an entry no longer decode.
Damaged(k) ==
    /\ FailingBackend /\ cache[k].kind = "data"
    /\ cache' = [cache EXCEPT ![k] = Corrupt]
    /\ UNCHANGED <<backend, flight, pc, key, val, clearing>>

-----------------------------------------------------------------------------
\* While a load of a key runs, no second one of that key does: a hot key that
\* expires sends one query to the data source, not one per waiting request
\* (the singleflight group of GetOrLoad).
SingleLoader ==
    \A t, u \in Threads :
        pc[t] \in Loading /\ pc[u] \in Loading /\ key[t] = key[u] => t = u

\* The flight table and the goroutines agree, and what is stored was loaded.
FlightsAreLoads ==
    /\ \A k \in Keys : flight[k] # NoOne =>
           key[flight[k]] = k /\ pc[flight[k]] \in Loading
    /\ \A t \in Threads : pc[t] \in Loading => flight[key[t]] = t
    /\ \A t \in Threads : pc[t] = "wait" => flight[key[t]] # NoOne
    /\ \A t \in Threads : pc[t] = "set" => val[t].ok
=============================================================================
