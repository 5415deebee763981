-------------------------- MODULE CachedReadsProofs --------------------------
(***************************************************************************)
(* What CacheLayer guarantees for every number of goroutines, keys and     *)
(* versions: one load of a key at a time with either backend, and reads    *)
(* that never go back in time with a backend that does not fail.           *)
(***************************************************************************)
EXTENDS CachedReads, TLAPS

\* The part of the invariant that holds with either backend.
FlightInv == TypeOK /\ FlightsAreLoads

\* The constants of CacheLayer, as the proofs use them.
LEMMA ConstantFacts ==
    /\ NoOne \notin Threads
    /\ Values = Versions
    /\ EmptyValues \subseteq Versions
    /\ NoValue \notin Versions
    /\ Versions \subseteq Nat
  BY CacheLayerAssumption, CachedReadsAssumption DEF Versions

\* An entry with a value holds a version.
LEMMA EntryFacts ==
    ASSUME NEW e \in Entries
    PROVE  /\ e.kind \in {"none", "corrupt", "data", "empty"}
           /\ e.kind \in {"data", "empty"} => e.v \in Versions
  BY ConstantFacts DEF Entries

\* The fields a result has.
LEMMA ResultFacts ==
    ASSUME NEW r \in Results
    PROVE  /\ r.ok \in BOOLEAN
           /\ r.ok => r.v \in Versions
  BY ConstantFacts DEF Results

\* What a call returned moves newest up, and leaves it a version.
LEMMA ReturnedFacts ==
    ASSUME newest \in [Keys -> Versions], NEW k \in Keys, NEW r \in Results,
           Returned(k, r)
    PROVE  /\ newest' \in [Keys -> Versions]
           /\ \A j \in Keys : newest[j] <= newest'[j]
           /\ \A j \in Keys \ {k} : newest'[j] = newest[j]
           /\ r.ok => r.v <= newest'[k]
           /\ ~r.ok => newest'[k] = newest[k]
           /\ newest'[k] = newest[k] \/ (r.ok /\ newest'[k] = r.v)
  <1>0. \A j \in Keys : newest[j] \in Versions /\ newest[j] \in Nat
    BY ConstantFacts
  <1>1. CASE ~r.ok
    <2>1. newest' = newest
      BY <1>1 DEF Returned
    <2> QED BY <1>0, <1>1, <2>1
  <1>2. CASE r.ok
    <2>1. r.v \in Versions /\ r.v \in Nat
      BY <1>2, ResultFacts, ConstantFacts
    <2> DEFINE m == Larger(newest[k], r.v)
    <2>2. newest' = [newest EXCEPT ![k] = m]
      BY <1>2 DEF Returned
    <2>3. m >= newest[k] /\ m >= r.v /\ (m = newest[k] \/ m = r.v)
      BY <1>0, <2>1 DEF Larger
    <2>4. m \in Versions /\ m \in Nat
      BY <1>0, <2>1, <2>3
    <2> HIDE DEF m
    <2> QED BY <1>0, <1>2, <2>1, <2>2, <2>3, <2>4
  <1> QED BY <1>1, <1>2, ResultFacts

\* The initial state satisfies both parts of the invariant.
LEMMA InitInv == Init => FlightInv /\ FreshLoads /\ NotOlder
  <1> SUFFICES ASSUME Init PROVE FlightInv /\ FreshLoads /\ NotOlder
    OBVIOUS
  <1>0. 0 \in Versions
    BY CachedReadsAssumption DEF Versions
  <1>1. TypeOK
    BY <1>0 DEF Init, NewCacheLayer, TypeOK, LayerTypeOK, Entries, Results,
                NoEntry, Failed, Loading
  <1>2. FlightsAreLoads
    BY DEF Init, NewCacheLayer, FlightsAreLoads, Loading
  <1>3. FreshLoads /\ NotOlder
    BY <1>0 DEF Init, NewCacheLayer, FreshLoads, NotOlder, NoEntry, Failed
  <1> QED BY <1>1, <1>2, <1>3 DEF FlightInv

-----------------------------------------------------------------------------
(* Types: one lemma per group of actions *)

\* A call either finds its answer, joins a load or starts one.
LEMMA CallType ==
    ASSUME TypeOK, NEW t \in Threads, NEW k \in Keys, Call(t, k)
    PROVE  TypeOK' /\ val'[t] \in Results
  <1>0. Failed \in Results
    BY DEF Failed, Results
  <1>a. cache[k].kind \in {"data", "empty"} => Found(cache[k].v) \in Results
    BY ConstantFacts, EntryFacts DEF TypeOK, LayerTypeOK, Found, Results
  <1>1. val' \in [Threads -> Results] /\ key' \in [Threads -> Keys]
    BY <1>0, <1>a DEF TypeOK, LayerTypeOK, Call, GetOrLoad
  <1>2. newest' \in [Keys -> Versions]
    BY <1>1, ReturnedFacts DEF Call, TypeOK
  <1>3. pc' \in [Threads -> {"idle", "delete", "join", "wait"} \cup Loading]
    BY DEF TypeOK, LayerTypeOK, Call, GetOrLoad
  <1>4. /\ backend' = backend
        /\ cache' = cache /\ flight' = flight /\ clearing' = clearing
        /\ source' = source
        /\ floor' \in [Threads -> Versions]
    BY DEF TypeOK, LayerTypeOK, Call, GetOrLoad
  <1> QED BY <1>1, <1>2, <1>3, <1>4 DEF TypeOK, LayerTypeOK

\* The later steps of a read stay within the types.
LEMMA ProceedType ==
    ASSUME FlightInv, NEW t \in Threads, Proceed(t)
    PROVE  TypeOK'
  <1> USE DEF FlightInv, TypeOK, LayerTypeOK, Loading
  <1>0. NoEntry \in Entries
    BY DEF NoEntry, Entries
  <1>1. CASE Load(t)
    BY <1>1, ConstantFacts DEF Load, LoadReturns, Found, Results
  <1>2. CASE Return(t)
    <2>1. newest' \in [Keys -> Versions]
      BY <1>2, ReturnedFacts DEF Return, Leave
    <2>2. val' \in [Threads -> Results]
      BY <1>2 DEF Return, Leave
    <2> QED BY <1>2, <2>1, <2>2 DEF Return, Leave
  <1>3. CASE DeleteCorrupt(t) /\ UNCHANGED <<source, newest, floor>>
    BY <1>0, <1>3 DEF DeleteCorrupt
  <1>4. CASE Do(t) /\ UNCHANGED <<source, newest, floor>>
    BY <1>4 DEF Do
  <1>5. CASE LoadFails(t) /\ UNCHANGED <<source, newest, floor>>
    BY <1>5 DEF LoadFails
  <1>6. CASE SetEntry(t) /\ UNCHANGED <<source, newest, floor>>
    <2>1. val[t].v \in Values
      BY <1>6, ResultFacts, ConstantFacts DEF SetEntry, FlightsAreLoads
    <2> DEFINE kind == IF val[t].v \in EmptyValues THEN "empty" ELSE "data"
               entry == [kind |-> kind, v |-> val[t].v]
    <2>2. entry \in Entries
      BY <2>1 DEF Entries
    <2>3. cache' = [cache EXCEPT ![key[t]] = entry] \/ cache' = cache
      BY <1>6 DEF SetEntry
    <2>4. cache' \in [Keys -> Entries]
      BY <2>2, <2>3
    <2> QED BY <1>6, <2>4 DEF SetEntry
  <1> QED BY <1>1, <1>2, <1>3, <1>4, <1>5, <1>6 DEF Proceed

\* Clearing, expiry, damage and changes of the data only touch the cache, the
\* clearing set and the data, and only to take an entry's value away.
OnlyRemoves ==
    /\ backend' = backend
    /\ UNCHANGED <<flight, pc, key, val, newest, floor>>
    /\ cache' \in [Keys -> Entries]
    /\ \A k \in Keys : cache'[k] = cache[k] \/ cache'[k].kind \in {"none", "corrupt"}
    /\ clearing' \in SUBSET Keys
    /\ source' \in [Keys -> Versions]
    /\ \A k \in Keys : source[k] <= source'[k]

\* Expiry, eviction, invalidation and the writes of others store nothing.
LEMMA RemovalFacts ==
    ASSUME TypeOK, Clear \/ Environment
    PROVE  OnlyRemoves
  <1> USE DEF TypeOK, LayerTypeOK
  <1>0. /\ NoEntry \in Entries /\ NoEntry.kind = "none"
        /\ Corrupt \in Entries /\ Corrupt.kind = "corrupt"
    BY DEF NoEntry, Corrupt, Entries
  <1>a. \A k \in Keys : source[k] \in Nat
    BY ConstantFacts
  <1>1. CASE \E k \in Keys : SourceChanges(k)
    <2>1. PICK k \in Keys : SourceChanges(k)
      BY <1>1
    <2>2. source[k] + 1 \in Versions
      BY <2>1, CachedReadsAssumption DEF SourceChanges, Versions
    <2> QED BY <1>a, <2>1, <2>2 DEF SourceChanges, OnlyRemoves, layer
  <1>2. CASE /\ \E k \in Keys : Expires(k) \/ Damaged(k)
             /\ UNCHANGED <<source, newest, floor>>
    BY <1>0, <1>a, <1>2 DEF Expires, Damaged, OnlyRemoves
  <1>3. CASE Clear
    <2>1. CASE \E d \in {DatasourceOf[k] : k \in Keys} : ClearByDatasource(d)
      BY <1>3, <1>a, <2>1 DEF Clear, ClearByDatasource, OnlyRemoves
    <2>2. CASE \E k \in Keys : ClearRemoves(k)
      BY <1>3, <1>0, <1>a, <2>2 DEF Clear, ClearRemoves, OnlyRemoves
    <2>3. CASE ClearAborts
      BY <1>3, <1>a, <2>3 DEF Clear, ClearAborts, OnlyRemoves
    <2>4. CASE ClearAll
      BY <1>3, <1>0, <1>a, <2>4 DEF Clear, ClearAll, OnlyRemoves
    <2> QED BY <1>3, <2>1, <2>2, <2>3, <2>4 DEF Clear
  <1> QED BY <1>1, <1>2, <1>3 DEF Environment

-----------------------------------------------------------------------------
(* One load at a time, with either backend *)

\* Every step keeps one load per key.
LEMMA FlightStep == FlightInv /\ [Next]_vars => FlightInv'
  <1> SUFFICES ASSUME FlightInv, [Next]_vars PROVE FlightInv'
    OBVIOUS
  <1> USE DEF FlightInv
  <1>1. ASSUME NEW t \in Threads, NEW k \in Keys, Call(t, k)
        PROVE  FlightInv'
    <2>1. TypeOK'
      BY <1>1, CallType
    <2>2. pc[t] = "idle" /\ pc'[t] \in {"idle", "join", "delete"} /\ flight' = flight
      BY <1>1 DEF Call, GetOrLoad, TypeOK, LayerTypeOK
    <2>3. \A u \in Threads \ {t} : pc'[u] = pc[u] /\ key'[u] = key[u] /\ val'[u] = val[u]
      BY <1>1 DEF Call, GetOrLoad, TypeOK, LayerTypeOK
    <2>4. \A j \in Keys : flight[j] # t
      BY <2>2, ConstantFacts DEF FlightsAreLoads, Loading
    <2>5. FlightsAreLoads'
      BY <2>2, <2>3, <2>4 DEF FlightsAreLoads, Loading, TypeOK, LayerTypeOK
    <2> QED BY <2>1, <2>5
  <1>2. ASSUME NEW t \in Threads, Proceed(t)
        PROVE  FlightInv'
    <2>0. TypeOK'
      BY <1>2, ProceedType
    <2> USE DEF TypeOK, LayerTypeOK, FlightsAreLoads, Loading
    <2>1. CASE Load(t)
      BY <2>0, <2>1 DEF Load, LoadReturns, Found
    <2>2. CASE Return(t)
      BY <2>0, <2>2, ConstantFacts DEF Return, Leave, Served
    <2>3. CASE DeleteCorrupt(t)
      BY <2>0, <2>3 DEF DeleteCorrupt
    <2>4. CASE Do(t)
      BY <2>0, <2>4, ConstantFacts DEF Do
    <2>5. CASE LoadFails(t)
      BY <2>0, <2>5 DEF LoadFails
    <2>6. CASE SetEntry(t)
      BY <2>0, <2>6 DEF SetEntry
    <2> QED BY <1>2, <2>1, <2>2, <2>3, <2>4, <2>5, <2>6 DEF Proceed
  <1>3. CASE Clear \/ Environment
    <2>1. OnlyRemoves
      BY <1>3, RemovalFacts
    <2>2. TypeOK'
      BY <2>1 DEF OnlyRemoves, TypeOK, LayerTypeOK
    <2> QED BY <2>1, <2>2 DEF OnlyRemoves, FlightsAreLoads
  <1>4. CASE UNCHANGED vars
    BY <1>4 DEF vars, layer, TypeOK, LayerTypeOK, FlightsAreLoads
  <1> QED BY <1>1, <1>2, <1>3, <1>4 DEF Next

\* The singleflight section of GetOrLoad: two loads of one key never overlap,
\* whatever the backend, the number of goroutines and the clearing.
THEOREM ReadsSingleLoader == Spec => []SingleLoader
  <1>1. Init => FlightInv
    BY InitInv
  <1>2. FlightInv => SingleLoader
    BY DEF FlightInv, FlightsAreLoads, SingleLoader
  <1> QED BY <1>1, <1>2, FlightStep, PTL DEF Spec

-----------------------------------------------------------------------------
(* Reads do not go back in time, with a backend that does not fail *)

\* Loads in flight are no older than what was returned before them.
ReadInv == FlightInv /\ FreshLoads /\ NotOlder

\* A load that is being stored or handed out is the only one of its key.
LEMMA OnlyLoader ==
    ASSUME FlightInv, NEW t \in Threads, NEW u \in Threads,
           pc[t] \in Loading, pc[u] \in Loading, key[t] = key[u]
    PROVE  t = u
  BY DEF FlightInv, FlightsAreLoads

\* A call that finds an entry returns nothing older than the last one did, ...
LEMMA CallFresh ==
    ASSUME ReadInv, NEW t \in Threads, NEW k \in Keys, Call(t, k)
    PROVE  FreshLoads' /\ NotOlder'
  <1> USE DEF ReadInv, FlightInv, TypeOK, LayerTypeOK
  <1>1. TypeOK' /\ val'[t] \in Results
    BY CallType
  <1>2. /\ cache' = cache /\ source' = source
        /\ pc[t] = "idle" /\ key' = [key EXCEPT ![t] = k]
        /\ floor' = [floor EXCEPT ![t] = newest[k]]
        /\ Returned(k, val'[t])
    BY DEF Call, GetOrLoad
  <1>3. \A u \in Threads \ {t} : pc'[u] = pc[u] /\ val'[u] = val[u]
    BY DEF Call, GetOrLoad
  <1>4. \/ /\ cache[k].kind \in {"data", "empty"} /\ pc'[t] = "idle"
           /\ val'[t].ok /\ val'[t].v = cache[k].v
        \/ pc'[t] \in {"join", "delete"} /\ ~val'[t].ok
    BY DEF Call, GetOrLoad, Found, Failed
  <1>5. /\ \A j \in Keys : newest[j] <= newest'[j]
        /\ \A j \in Keys \ {k} : newest'[j] = newest[j]
        /\ newest'[k] = newest[k] \/ (val'[t].ok /\ newest'[k] = val'[t].v)
    BY <1>1, <1>2, ReturnedFacts
  <1>6. /\ \A j \in Keys : newest[j] \in Nat /\ newest'[j] \in Nat /\ source[j] \in Nat
        /\ \A u \in Threads : floor[u] \in Nat
        /\ \A u \in Threads : val[u].ok => val[u].v \in Nat
        /\ \A j \in Keys : cache[j].kind \in {"data", "empty"} => cache[j].v \in Nat
    BY <1>1, ConstantFacts, EntryFacts, ResultFacts
  <1>7. newest'[k] <= source[k]
    BY <1>4, <1>5, <1>6 DEF FreshLoads
  <1>8. cache[k].kind \in {"data", "empty"} => newest'[k] <= cache[k].v
    BY <1>4, <1>5, <1>6 DEF FreshLoads
  <1>9. \A u \in Threads : floor'[u] <= newest'[key'[u]]
    BY <1>2, <1>5, <1>6 DEF FreshLoads
  <1>10. \A u \in Threads : pc'[u] \in {"set", "leave"} /\ val'[u].ok =>
             newest'[key'[u]] <= val'[u].v
    BY <1>2, <1>3, <1>4, <1>5, <1>6 DEF FreshLoads
  <1>11. FreshLoads'
    BY <1>2, <1>3, <1>4, <1>5, <1>7, <1>8, <1>9, <1>10 DEF FreshLoads
  <1>12. NotOlder'
    BY <1>2, <1>3, <1>4, <1>6 DEF FreshLoads, NotOlder
  <1> QED BY <1>11, <1>12

\* ... a load reads the source as it is, ...
LEMMA LoadFresh ==
    ASSUME ReadInv, NEW t \in Threads, Load(t)
    PROVE  FreshLoads' /\ NotOlder'
  <1> USE DEF ReadInv, FlightInv, TypeOK, LayerTypeOK
  <1>1. /\ pc[t] = "load" /\ pc' = [pc EXCEPT ![t] = "set"]
        /\ val' = [val EXCEPT ![t] = Found(source[key[t]])]
        /\ UNCHANGED <<cache, key, source, newest, floor>>
    BY DEF Load, LoadReturns
  <1>2. val'[t].ok /\ val'[t].v = source[key[t]]
    BY <1>1 DEF Found
  <1>3. /\ \A j \in Keys : newest[j] \in Nat /\ source[j] \in Nat
        /\ \A u \in Threads : floor[u] \in Nat
    BY ConstantFacts
  <1>4. FreshLoads'
    BY <1>1, <1>2, <1>3 DEF FreshLoads
  <1>5. NotOlder'
    BY <1>1, <1>2, <1>3 DEF FreshLoads, NotOlder
  <1> QED BY <1>4, <1>5

\* ... what is returned moves newest no further than the cache, ...
LEMMA ReturnFresh ==
    ASSUME ReadInv, NEW t \in Threads, Return(t)
    PROVE  FreshLoads' /\ NotOlder'
  <1> USE DEF ReadInv, FlightInv, TypeOK, LayerTypeOK
  <1> DEFINE k == key[t]
  <1>1. /\ pc[t] = "leave" /\ k \in Keys
        /\ UNCHANGED <<cache, key, source, floor>>
        /\ Returned(k, val[t])
    BY DEF Return, Leave
  <1>2. \A u \in Threads :
            \/ /\ key[u] = k /\ pc'[u] = "idle" /\ val'[u] = val[t]
            \/ /\ pc'[u] = pc[u] /\ val'[u] = val[u] /\ u # t
    BY DEF Return, Leave, Served
  <1>3. \A u \in Threads : u # t /\ pc[u] \in {"set", "leave"} => key[u] # k
    BY <1>1, OnlyLoader DEF Loading
  <1>4. /\ \A j \in Keys : newest[j] <= newest'[j]
        /\ \A j \in Keys \ {k} : newest'[j] = newest[j]
        /\ newest'[k] = newest[k] \/ (val[t].ok /\ newest'[k] = val[t].v)
    BY <1>1, ReturnedFacts
  <1>5. newest' \in [Keys -> Versions]
    BY <1>1, ReturnedFacts
  <1>6. /\ \A j \in Keys : newest[j] \in Nat /\ newest'[j] \in Nat /\ source[j] \in Nat
        /\ \A u \in Threads : floor[u] \in Nat
        /\ \A u \in Threads : val[u].ok => val[u].v \in Nat
        /\ \A j \in Keys : cache[j].kind \in {"data", "empty"} => cache[j].v \in Nat
    BY <1>5, ConstantFacts, EntryFacts, ResultFacts
  <1>7. newest'[k] <= source[k]
    BY <1>1, <1>4, <1>6 DEF FreshLoads
  <1>8. cache[k].kind \in {"data", "empty"} => newest'[k] <= cache[k].v
    BY <1>1, <1>4, <1>6 DEF FreshLoads
  <1>9. \A u \in Threads : floor[u] <= newest'[key[u]]
    BY <1>4, <1>6 DEF FreshLoads
  <1> HIDE DEF k
  <1>10. FreshLoads'
    BY <1>1, <1>2, <1>3, <1>4, <1>7, <1>8, <1>9 DEF FreshLoads
  <1>11. \A u \in Threads : key[u] = k /\ val[t].ok => val[t].v >= floor[u]
    BY <1>1, <1>6 DEF FreshLoads, k
  <1>12. NotOlder'
    BY <1>1, <1>2, <1>11 DEF NotOlder
  <1> QED BY <1>10, <1>12

\* ... a store replaces an entry by one that is not older, ...
LEMMA SetFresh ==
    ASSUME ReadInv, ~FailingBackend, NEW t \in Threads, SetEntry(t),
           UNCHANGED <<source, newest, floor>>
    PROVE  FreshLoads' /\ NotOlder'
  <1> USE DEF ReadInv, FlightInv, TypeOK, LayerTypeOK
  <1> DEFINE k == key[t]
  <1>1. /\ pc[t] = "set" /\ pc' = [pc EXCEPT ![t] = "leave"]
        /\ val[t].ok /\ UNCHANGED <<key, val>>
    BY DEF SetEntry, FlightsAreLoads
  <1>2. /\ \A j \in Keys \ {k} : cache'[j] = cache[j]
        /\ cache'[k].v = val[t].v
        /\ cache'[k].kind \in {"data", "empty"}
    BY DEF SetEntry
  <1>3. \A u \in Threads : u # t /\ pc[u] \in {"set", "leave"} => key[u] # k
    BY <1>1, OnlyLoader DEF Loading
  <1>4. val[t].v \in Nat /\ k \in Keys
    BY <1>1, ConstantFacts, ResultFacts
  <1>5. newest[k] <= val[t].v /\ val[t].v <= source[k]
    BY <1>1 DEF FreshLoads
  <1> HIDE DEF k
  <1>6. FreshLoads'
    BY <1>1, <1>2, <1>3, <1>4, <1>5 DEF FreshLoads, k
  <1>7. NotOlder'
    BY <1>1 DEF NotOlder
  <1> QED BY <1>6, <1>7

\* ... and a removal leaves only what was there.
LEMMA RemovalFresh ==
    ASSUME ReadInv, OnlyRemoves
    PROVE  FreshLoads' /\ NotOlder'
  <1> USE DEF ReadInv, FlightInv, TypeOK, LayerTypeOK, OnlyRemoves
  <1>1. /\ \A j \in Keys : newest[j] \in Nat /\ source[j] \in Nat /\ source'[j] \in Nat
        /\ \A u \in Threads : val[u].ok => val[u].v \in Nat
        /\ \A j \in Keys : cache[j].kind \in {"data", "empty"} => cache[j].v \in Nat
    BY ConstantFacts, EntryFacts, ResultFacts
  <1>2. FreshLoads'
    BY <1>1 DEF FreshLoads
  <1> QED BY <1>2 DEF NotOlder

\* Every step keeps the order, with a backend that does not fail.
LEMMA ReadStep ==
    ASSUME ~FailingBackend
    PROVE  ReadInv /\ [Next]_vars => ReadInv'
  <1> SUFFICES ASSUME ReadInv, [Next]_vars PROVE FreshLoads' /\ NotOlder'
    BY FlightStep DEF ReadInv
  <1>1. ASSUME NEW t \in Threads, NEW k \in Keys, Call(t, k)
        PROVE  FreshLoads' /\ NotOlder'
    BY <1>1, CallFresh
  <1>2. ASSUME NEW t \in Threads, Proceed(t)
        PROVE  FreshLoads' /\ NotOlder'
    <2>1. CASE Load(t)
      BY <2>1, LoadFresh
    <2>2. CASE Return(t)
      BY <2>2, ReturnFresh
    <2>3. CASE DeleteCorrupt(t) /\ UNCHANGED <<source, newest, floor>>
      <3>1. \A k \in Keys : cache'[k] = cache[k] \/ cache'[k].kind = "none"
        BY <2>3 DEF DeleteCorrupt, NoEntry, ReadInv, FlightInv, TypeOK, LayerTypeOK
      <3> QED BY <2>3, <3>1 DEF DeleteCorrupt, ReadInv, FlightInv, TypeOK, LayerTypeOK,
                                FreshLoads, NotOlder
    <2>4. CASE Do(t) /\ UNCHANGED <<source, newest, floor>>
      BY <2>4 DEF Do, ReadInv, FlightInv, TypeOK, LayerTypeOK, FreshLoads,
                  NotOlder
    <2>5. CASE LoadFails(t) /\ UNCHANGED <<source, newest, floor>>
      BY <2>5 DEF LoadFails, ReadInv, FlightInv, TypeOK, LayerTypeOK, FreshLoads,
                  NotOlder
    <2>6. CASE SetEntry(t) /\ UNCHANGED <<source, newest, floor>>
      BY <2>6, SetFresh
    <2> QED BY <1>2, <2>1, <2>2, <2>3, <2>4, <2>5, <2>6 DEF Proceed
  <1>3. CASE Clear \/ Environment
    BY <1>3, RemovalFacts, RemovalFresh DEF ReadInv, FlightInv
  <1>4. CASE UNCHANGED vars
    BY <1>4 DEF vars, layer, ReadInv, FreshLoads, NotOlder
  <1> QED BY <1>1, <1>2, <1>3, <1>4 DEF Next

\* The server keeps the backend it was configured with.
LEMMA BackendFixed == [Next]_vars => backend' = backend
  BY DEF Next, vars, layer, Call, Proceed, Clear, Environment, GetOrLoad,
         DeleteCorrupt, Do, Load, LoadReturns, LoadFails, SetEntry, Return,
         Leave, ClearByDatasource, ClearRemoves, ClearAborts, ClearAll,
         SourceChanges, Expires, Damaged

\* The inductive invariant of the readers, with either backend.
THEOREM ReadsInv == Spec => []Inv
  <1> DEFINE I == FlightInv /\ (~FailingBackend => ReadInv)
  <1>1. Init => I
    BY InitInv DEF ReadInv
  <1>2. I /\ [Next]_vars => I'
    <2> SUFFICES ASSUME I, [Next]_vars PROVE I'
      OBVIOUS
    <2>1. FlightInv'
      BY FlightStep
    <2>2. FailingBackend' <=> FailingBackend
      BY BackendFixed DEF FailingBackend
    <2> QED BY <2>1, <2>2, ReadStep
  <1>3. I => Inv
    BY DEF FlightInv, ReadInv, Inv
  <1> QED BY <1>1, <1>2, <1>3, PTL DEF Spec

\* Reads never go back in time when the backend does not fail (MemoryCache):
\* GetOrLoad returns nothing older than what a call that had ended before it
\* began returned for the key, for every number of goroutines, keys and
\* versions, and with entries cleared or expiring at any moment.
THEOREM ReadsMonotonic == Spec => []MonotonicReads
  <1>1. Inv => MonotonicReads
    BY DEF Inv, MonotonicReads
  <1> QED BY <1>1, ReadsInv, PTL

-----------------------------------------------------------------------------
(* Only loaded data is cached, with either backend *)

\* What a call is about to store was read from the data source.
StoresLoaded ==
    \A t \in Threads : pc[t] = "set" => val[t].v <= source[key[t]]

\* What is cached, or about to be, was once loaded.
LoadedInv == FlightInv /\ CachedIsLoaded /\ StoresLoaded

\* The step of one goroutine stores only what it has loaded.
LEMMA ProceedLoaded ==
    ASSUME LoadedInv, NEW t \in Threads, Proceed(t)
    PROVE  CachedIsLoaded' /\ StoresLoaded'
  <1> USE DEF LoadedInv, FlightInv, TypeOK, LayerTypeOK
  <1>0. /\ \A k \in Keys : source[k] \in Nat
        /\ NoEntry.kind = "none" /\ source' = source
    BY ConstantFacts DEF NoEntry, Proceed, Load, Return
  <1>1. CASE Load(t)
    <2>1. /\ cache' = cache /\ key' = key /\ val'[t].v = source[key[t]]
          /\ \A u \in Threads \ {t} : pc'[u] = pc[u] /\ val'[u] = val[u]
      BY <1>1 DEF Load, LoadReturns, Found
    <2> QED BY <1>0, <2>1 DEF CachedIsLoaded, StoresLoaded
  <1>2. CASE Return(t)
    <2>1. /\ cache' = cache /\ key' = key
          /\ \A u \in Threads : pc'[u] = "set" => pc[u] = "set" /\ val'[u] = val[u]
      BY <1>2 DEF Return, Leave
    <2> QED BY <1>0, <2>1 DEF CachedIsLoaded, StoresLoaded
  <1>3. CASE DeleteCorrupt(t) \/ Do(t) \/ LoadFails(t)
    <2>1. /\ key' = key /\ val' = val
          /\ \A u \in Threads : pc'[u] = "set" => pc[u] = "set"
          /\ \A k \in Keys : cache'[k] = cache[k] \/ cache'[k].kind = "none"
      BY <1>0, <1>3 DEF DeleteCorrupt, Do, LoadFails
    <2> QED BY <1>0, <2>1 DEF CachedIsLoaded, StoresLoaded
  <1>4. CASE SetEntry(t)
    <2> DEFINE kind == IF val[t].v \in EmptyValues THEN "empty" ELSE "data"
               entry == [kind |-> kind, v |-> val[t].v]
    <2>1. /\ pc[t] = "set" /\ key' = key /\ val' = val
          /\ \A u \in Threads : pc'[u] = "set" => pc[u] = "set"
          /\ cache' = [cache EXCEPT ![key[t]] = entry] \/ cache' = cache
      BY <1>4 DEF SetEntry
    <2>2. /\ entry.v = val[t].v /\ entry.v <= source[key[t]]
          /\ entry.kind = "empty" => entry.v \in EmptyValues
      BY <2>1 DEF StoresLoaded
    <2> HIDE DEF entry
    <2>3. \A k \in Keys : cache'[k] = cache[k] \/ (k = key[t] /\ cache'[k] = entry)
      BY <2>1
    <2> QED BY <1>0, <2>1, <2>2, <2>3 DEF CachedIsLoaded, StoresLoaded
  <1> QED BY <1>1, <1>2, <1>3, <1>4 DEF Proceed

\* Every step keeps cached what was loaded.
LEMMA LoadedStep == LoadedInv /\ [Next]_vars => LoadedInv'
  <1> SUFFICES ASSUME LoadedInv, [Next]_vars PROVE CachedIsLoaded' /\ StoresLoaded'
    BY FlightStep DEF LoadedInv
  <1>1. ASSUME NEW t \in Threads, NEW k \in Keys, Call(t, k)
        PROVE  CachedIsLoaded' /\ StoresLoaded'
    <2>1. /\ cache' = cache /\ source' = source
          /\ \A u \in Threads : pc'[u] = "set" =>
                 pc[u] = "set" /\ key'[u] = key[u] /\ val'[u] = val[u]
      BY <1>1 DEF Call, GetOrLoad, LoadedInv, FlightInv, TypeOK, LayerTypeOK
    <2> QED BY <2>1 DEF LoadedInv, CachedIsLoaded, StoresLoaded
  <1>2. ASSUME NEW t \in Threads, Proceed(t)
        PROVE  CachedIsLoaded' /\ StoresLoaded'
    BY <1>2, ProceedLoaded
  <1>3. CASE Clear \/ Environment
    <2>1. OnlyRemoves
      BY <1>3, RemovalFacts DEF LoadedInv, FlightInv
    <2>2. /\ \A k \in Keys : source[k] \in Nat /\ source'[k] \in Nat
          /\ \A k \in Keys : cache[k].kind \in {"data", "empty"} => cache[k].v \in Nat
          /\ \A t \in Threads : pc[t] = "set" => val[t].v \in Nat
      BY <2>1, ConstantFacts, EntryFacts, ResultFacts
         DEF LoadedInv, FlightInv, FlightsAreLoads, TypeOK, LayerTypeOK, OnlyRemoves
    <2>3. CachedIsLoaded'
      BY <2>1, <2>2 DEF OnlyRemoves, LoadedInv, CachedIsLoaded
    <2>4. StoresLoaded'
      BY <2>1, <2>2 DEF OnlyRemoves, LoadedInv, FlightInv, TypeOK, LayerTypeOK,
                        StoresLoaded
    <2> QED BY <2>3, <2>4
  <1>4. CASE UNCHANGED vars
    BY <1>4 DEF vars, layer, LoadedInv, CachedIsLoaded, StoresLoaded
  <1> QED BY <1>1, <1>2, <1>3, <1>4 DEF Next

\* The cache holds only what a loader read, and the empty marker only stands
\* for an empty result, also with a backend whose calls fail and whose entries
\* are damaged (GetOrLoad, ClearByDatasource).
THEOREM ReadsCachedIsLoaded == Spec => []CachedIsLoaded
  <1>1. Init => LoadedInv
    BY InitInv DEF Init, NewCacheLayer, NoEntry, LoadedInv, CachedIsLoaded, StoresLoaded
  <1>2. LoadedInv => CachedIsLoaded
    BY DEF LoadedInv
  <1> QED BY <1>1, <1>2, LoadedStep, PTL DEF Spec
=============================================================================
