--------------------------- MODULE TemplateEngine ---------------------------
(***************************************************************************)
(* The SQL template engine of internal/template: queries (Execute, with    *)
(* the engine's semaphore and the cache layer), and hot reload by the file *)
(* watcher and by the reloadTemplates mutation, both running while queries *)
(* run.                                                                    *)
(*                                                                         *)
(* The text of a template is its version: an edit gives it the next one.   *)
(* A template compiled by loadAll is made of its own file's version and of *)
(* the version of the shared fragments; the hash kept beside it is the     *)
(* own file's alone.  The fragments count as one file; when it cannot be   *)
(* loaded, templates are compiled without it ("whole" is FALSE), and a     *)
(* template that uses it fails to render.  The rows a query returns are    *)
(* remembered as the versions its SQL was rendered from and a number of    *)
(* rows.  Cache keys name the template and its parameters and not the SQL, *)
(* so one data key and one count key per template are enough.              *)
(***************************************************************************)
EXTENDS CacheLayer, FiniteSets

CONSTANTS
    Names,          \* configured templates
    Reloaders,      \* goroutines that run Reload
    Mutation,       \* the reloader started by the reloadTemplates mutation
    MaxVersion,     \* bound: edits of one file
    Workloads,      \* bounds: who runs during how many edits
    RowCounts,      \* numbers of rows a query may return
    MaxConcurrentQueries,
    NoTemplate      \* a name without a template in the registry

Versions == 0 .. MaxVersion
Templates == [own : Versions, shared : Versions, whole : BOOLEAN]

\* Keys are <<name, "data">> and <<name, "count">>, and the prefix of a key is
\* its template's name.
DataKey(n) == <<n, "data">>
CountKey(n) == <<n, "count">>

\* The length of what json.Marshal gives for a result of r rows: "[]" or
\* "null" for none, never nothing.
MarshalledLength(r) == 2 + r

ASSUME TemplateEngineAssumption ==
    /\ Mutation \in Reloaders
    /\ MaxVersion \in Nat /\ NoTemplate \notin Templates
    /\ MaxConcurrentQueries \in Nat \ {0}
    /\ Workloads \subseteq [queries : SUBSET Threads, reloads : SUBSET Reloaders, edits : Nat]
    /\ Keys = Names \X {"data", "count"}
    /\ DatasourceOf = [k \in Keys |-> k[1]]
    /\ Values = [own : Versions, shared : Versions, rows : RowCounts]
    /\ EmptyValues = {v \in Values : MarshalledLength(v.rows) = 0}

VARIABLES
    disk,       \* name |-> version of the file and whether it can be loaded
    fragments,  \* the same for the shared fragments
    edits,      \* number of edits so far
    workload,   \* the bounds of this behaviour
    armed,      \* the watcher's debounce timer is running
    registry,   \* name |-> compiled template or NoTemplate
    step,       \* reloader |-> where it is in Reload
    loaded,     \* reloader |-> what its Reload has loaded and merged
    toClear,    \* reloader |-> names whose cache it has still to clear
    recent,     \* the last reload is less than 10s old
    stage,      \* query |-> where it is in Execute
    name,       \* query |-> the template it asked for
    tmpl        \* query |-> the template it looked up

files == <<disk, fragments, edits, workload, armed>>
reload == <<registry, step, loaded, toClear, recent>>
query == <<stage, name, tmpl>>
vars == <<layer, files, reload, query>>

MaybeTemplates == Templates \cup {NoTemplate}

ReloadTypeOK ==
    /\ disk \in [Names -> [ver : Versions, ok : BOOLEAN]]
    /\ fragments \in [ver : Versions, ok : BOOLEAN]
    /\ registry \in [Names -> MaybeTemplates]
    /\ step \in [Reloaders -> {"idle", "lock", "shared", "files", "clear"}]
    /\ loaded \in [Reloaders -> [Names -> MaybeTemplates]]

TypeOK ==
    /\ LayerTypeOK /\ ReloadTypeOK
    /\ workload \in Workloads
    /\ edits \in 0 .. workload.edits
    /\ armed \in BOOLEAN
    /\ toClear \in [Reloaders -> SUBSET Names]
    /\ recent \in BOOLEAN
    /\ stage \in [Threads -> {"idle", "semaphore", "query", "data", "count", "done"}]
    /\ name \in [Threads -> Names]
    /\ tmpl \in [Threads -> MaybeTemplates]

\* NewTemplateEngine loads what is on disk; a file may be broken from the start.
Init ==
    /\ NewCacheLayer
    /\ disk \in [Names -> [ver : {0}, ok : BOOLEAN]]
    /\ fragments \in [ver : {0}, ok : BOOLEAN] /\ edits = 0 /\ armed = FALSE
    /\ workload \in Workloads
    /\ registry = [n \in Names |->
                     IF disk[n].ok
                     THEN [own |-> 0, shared |-> 0, whole |-> fragments.ok]
                     ELSE NoTemplate]
    /\ step = [r \in Reloaders |-> "idle"]
    /\ loaded = [r \in Reloaders |-> [n \in Names |-> NoTemplate]]
    /\ toClear = [r \in Reloaders |-> {}]
    /\ recent = FALSE
    /\ stage = [t \in Threads |-> "idle"]
    /\ name \in [Threads -> Names]
    /\ tmpl = [t \in Threads |-> NoTemplate]
    /\ key = [t \in Threads |-> DataKey(name[t])]

-----------------------------------------------------------------------------
(* Files and the watcher *)

\* Somebody saves a template file, possibly one that does not parse; the
\* watcher starts its debounce timer, or starts it again.
EditTemplate(n) ==
    /\ edits < workload.edits /\ disk[n].ver < MaxVersion
    /\ \E ok \in BOOLEAN :
           disk' = [disk EXCEPT ![n] = [ver |-> @.ver + 1, ok |-> ok]]
    /\ edits' = edits + 1
    /\ armed' = TRUE
    /\ UNCHANGED <<layer, fragments, workload, reload, query>>

\* So do the shared fragments, which may not parse, be too large or be no
\* UTF-8.
EditFragments ==
    /\ edits < workload.edits /\ fragments.ver < MaxVersion
    /\ \E ok \in BOOLEAN :
           fragments' = [ver |-> fragments.ver + 1, ok |-> ok]
    /\ edits' = edits + 1
    /\ armed' = TRUE
    /\ UNCHANGED <<layer, disk, workload, reload, query>>

\* The timer fires in a goroutine of its own, which calls Reload.
TimerFires(r) ==
    /\ armed /\ r \in workload.reloads \ {Mutation} /\ step[r] = "idle"
    /\ armed' = FALSE
    /\ step' = [step EXCEPT ![r] = "lock"]
    /\ UNCHANGED <<layer, disk, fragments, edits, workload, registry, loaded,
                   toClear, recent, query>>

ReloadTemplates ==
    /\ step[Mutation] = "idle" /\ Mutation \in workload.reloads
    /\ step' = [step EXCEPT ![Mutation] = "lock"]
    /\ UNCHANGED <<layer, files, registry, loaded, toClear, recent, query>>

-----------------------------------------------------------------------------
(* Reload *)

Holding == {r \in Reloaders : step[r] \in {"shared", "files", "clear"}}

\* Mutant: the cooldown applies to the watcher's reloads too.
ReloadStarts_CooldownForAll(r) ==
    /\ step[r] = "lock" /\ Holding = {}
    /\ step' = [step EXCEPT ![r] = IF recent THEN "idle" ELSE "shared"]
    /\ UNCHANGED <<layer, files, registry, loaded, toClear, recent, query>>

\* Mutant: Reload does not take reloadMu.
ReloadStarts_NoLock(r) ==
    /\ step[r] = "lock"
    /\ step' = [step EXCEPT ![r] = IF r = Mutation /\ recent
                                     THEN "idle" ELSE "shared"]
    /\ UNCHANGED <<layer, files, registry, loaded, toClear, recent, query>>

\* Reload takes reloadMu; the mutation returns the last result if it is recent.
ReloadStarts(r) ==
    /\ step[r] = "lock" /\ Holding = {}
    /\ step' = [step EXCEPT ![r] = IF r = Mutation /\ recent
                                     THEN "idle" ELSE "shared"]
    /\ UNCHANGED <<layer, files, registry, loaded, toClear, recent, query>>

\* loadAll reads the shared fragments first, skipping what is broken ...
LoadSharedFragments(r) ==
    /\ step[r] = "shared"
    /\ loaded' = [loaded EXCEPT ![r] =
                      [n \in Names |-> [own |-> 0, shared |-> fragments.ver,
                                        whole |-> fragments.ok]]]
    /\ step' = [step EXCEPT ![r] = "files"]
    /\ UNCHANGED <<layer, files, registry, toClear, recent, query>>

\* ... then the files.  A template that cannot be loaded keeps the registry's
\* version, if there is one; the templates whose hash differs from the
\* registry's are to be cleared from the cache.
LoadAll(r) ==
    LET merged == [n \in Names |->
                     IF disk[n].ok
                       THEN [loaded[r][n] EXCEPT !.own = disk[n].ver]
                       ELSE registry[n]] IN
    /\ step[r] = "files"
    /\ loaded' = [loaded EXCEPT ![r] = merged]
    /\ toClear' = [toClear EXCEPT ![r] =
                     {n \in Names :
                        /\ merged[n] # NoTemplate
                        /\ registry[n] # NoTemplate => registry[n].own # merged[n].own}]
    /\ step' = [step EXCEPT ![r] = "clear"]
    /\ UNCHANGED <<layer, files, registry, recent, query>>

\* The entries of a changed template are cleared (CacheLayer: listed, then
\* removed one after another) ...
ReloadClears(r, n) ==
    /\ step[r] = "clear" /\ n \in toClear[r]
    /\ ClearByDatasource(n)
    /\ toClear' = [toClear EXCEPT ![r] = @ \ {n}]
    /\ UNCHANGED <<files, registry, step, loaded, recent, query>>

\* ... and when all are gone the registry is replaced and reloadMu released.
ReloadUpdates(r) ==
    /\ step[r] = "clear" /\ toClear[r] = {} /\ clearing = {}
    /\ registry' = loaded[r]
    /\ loaded' = [loaded EXCEPT ![r] = [n \in Names |-> NoTemplate]]
    /\ recent' = TRUE
    /\ step' = [step EXCEPT ![r] = "idle"]
    /\ UNCHANGED <<layer, files, toClear, query>>

CooldownPasses ==
    /\ recent
    /\ recent' = FALSE
    /\ UNCHANGED <<layer, files, registry, step, loaded, toClear, query>>

-----------------------------------------------------------------------------
(* Execute *)

\* The queries that hold a slot of the semaphore.
InQuery == {t \in Threads : stage[t] \in {"query", "data", "count", "done"}}

\* The template is looked up and rendered.  (One that needs the fragments it
\* was compiled without ends here with an error, and nothing has changed.)
Execute(t, n) ==
    /\ stage[t] = "idle" /\ t \in workload.queries
    /\ registry[n] # NoTemplate
    /\ name' = [name EXCEPT ![t] = n]
    /\ tmpl' = [tmpl EXCEPT ![t] = registry[n]]
    /\ stage' = [stage EXCEPT ![t] = "semaphore"]
    /\ UNCHANGED <<layer, files, reload>>

AcquireSemaphore(t) ==
    /\ stage[t] = "semaphore" /\ Cardinality(InQuery) < MaxConcurrentQueries
    /\ stage' = [stage EXCEPT ![t] = "query"]
    /\ UNCHANGED <<layer, files, reload, name, tmpl>>

\* The request's context ended first.
SemaphoreTimeout(t) ==
    /\ stage[t] = "semaphore"
    /\ stage' = [stage EXCEPT ![t] = "idle"]
    /\ tmpl' = [tmpl EXCEPT ![t] = NoTemplate]
    /\ UNCHANGED <<layer, files, reload, name>>

QueryData(t) ==
    /\ stage[t] = "query"
    /\ GetOrLoad(t, DataKey(name[t]))
    /\ stage' = [stage EXCEPT ![t] = "data"]
    /\ UNCHANGED <<files, reload, name, tmpl>>

\* A query that does not use the cache goes to the data source itself, for the
\* data and for the count.
QueryDirectly(t) ==
    /\ stage[t] = "query"
    /\ stage' = [stage EXCEPT ![t] = "done"]
    /\ UNCHANGED <<layer, files, reload, name, tmpl>>

\* With the data there, the count is asked for.
QueryCount(t) ==
    /\ stage[t] = "data" /\ pc[t] = "idle" /\ val[t].ok
    /\ GetOrLoad(t, CountKey(name[t]))
    /\ stage' = [stage EXCEPT ![t] = "count"]
    /\ UNCHANGED <<files, reload, name, tmpl>>

\* Mutant: the error return does not give the slot back.
QueryEnds_KeepsSlotOnError(t) ==
    /\ pc[t] = "idle"
    /\ stage[t] \in {"data", "count"} /\ val[t].ok
    /\ stage' = [stage EXCEPT ![t] = "done"]
    /\ UNCHANGED <<layer, files, reload, name, tmpl>>

\* No count was asked for, or it is there too, or something failed.
QueryEnds(t) ==
    /\ pc[t] = "idle"
    /\ stage[t] \in {"data", "count"}
    /\ stage' = [stage EXCEPT ![t] = "done"]
    /\ UNCHANGED <<layer, files, reload, name, tmpl>>

\* Execute returns, the deferred function gives the slot back, and the
\* variables of the call are gone.
ExecuteReturns(t) ==
    /\ stage[t] = "done"
    /\ stage' = [stage EXCEPT ![t] = "idle"]
    /\ tmpl' = [tmpl EXCEPT ![t] = NoTemplate]
    /\ val' = [val EXCEPT ![t] = Failed]
    /\ key' = [key EXCEPT ![t] = DataKey(name[t])]
    /\ UNCHANGED <<backend, cache, flight, pc, clearing, files, reload, name>>

\* The closure t gave to GetOrLoad runs t's SQL.
LoaderRuns(t) ==
    /\ \E r \in RowCounts :
           LoadReturns(t, [own |-> tmpl[t].own, shared |-> tmpl[t].shared,
                           rows |-> r])
    /\ UNCHANGED <<files, reload, query>>

-----------------------------------------------------------------------------
CacheSteps(t) ==
    \/ LoaderRuns(t)
    \/ /\ DeleteCorrupt(t) \/ Do(t) \/ LoadFails(t) \/ SetEntry(t) \/ Leave(t)
       /\ UNCHANGED <<files, reload, query>>

QuerySteps(t) ==
    \/ AcquireSemaphore(t) \/ SemaphoreTimeout(t)
    \/ QueryData(t) \/ QueryDirectly(t) \/ QueryCount(t)
    \/ QueryEnds(t) \/ ExecuteReturns(t)
    \/ CacheSteps(t)

ReloadRemoves ==
    /\ \E k \in Keys : ClearRemoves(k)
    /\ UNCHANGED <<files, reload, query>>

ReloadSteps(r) ==
    \/ ReloadStarts(r) \/ LoadSharedFragments(r) \/ LoadAll(r)
    \/ (\E n \in Names : ReloadClears(r, n)) \/ ReloadUpdates(r)

Next ==
    \/ \E n \in Names : EditTemplate(n)
    \/ EditFragments
    \/ \E r \in Reloaders : TimerFires(r) \/ ReloadSteps(r)
    \/ ReloadTemplates
    \/ ReloadRemoves
    \/ CooldownPasses
    \/ \E t \in Threads : (\E n \in Names : Execute(t, n)) \/ QuerySteps(t)
    \/ /\ \E k \in Keys : Expires(k)
       /\ UNCHANGED <<files, reload, query>>

Spec == Init /\ [][Next]_vars

\* The timer fires, Reload goes on once it has the lock and waits its turn
\* for it (sync.Mutex hands the lock to a waiter that has starved for 1ms),
\* and a query goes on, if need be by its timeout.
FairSpec ==
    /\ Spec
    /\ WF_vars(\E r \in Reloaders : TimerFires(r))
    /\ WF_vars(ReloadRemoves)
    /\ \A r \in Reloaders : SF_vars(ReloadSteps(r))
    /\ \A t \in Threads : WF_vars(QuerySteps(t))

-----------------------------------------------------------------------------
(* Properties.                                                             *)

\* The fragments of b are at least as new as those of a, and from the same
\* text it has what a has.
SharedFollows(b, a) ==
    b.shared >= a.shared /\ (b.shared = a.shared => b.whole = a.whole)

\* A template stays, with a text of its own and of the fragments that is at
\* least as new.
Follows(b, a) ==
    a # NoTemplate => b # NoTemplate /\ b.own >= a.own /\ SharedFollows(b, a)

\* Error isolation and no lost update: a reload never takes a template away,
\* never puts back an older text of a template or of the fragments, whatever
\* is broken on disk and whoever else reloads, and takes the fragments from a
\* template only when they were saved anew.  (Broken fragments it does take
\* away: only a template's own file keeps its old version.)
RegistryAdvances == [][\A n \in Names : Follows(registry'[n], registry[n])]_vars

\* The registry catches up with the files: when editing stops, the registry
\* comes to hold the current text of every file that can be loaded, with the
\* fragments if they can.
UpToDate(n) ==
    disk[n].ok => registry[n] = [own |-> disk[n].ver, shared |-> fragments.ver,
                                 whole |-> fragments.ok]

CatchesUp == \A n \in Names : <>[](UpToDate(n))

\* Every query ends and gives its slot back.
QueriesEnd == \A t \in Threads : stage[t] # "idle" ~> stage[t] = "idle"

-----------------------------------------------------------------------------
(* Inductive invariant                                                     *)

\* The fragments of a template are no newer than the file f, and what is in
\* it if they are as new.
FragmentsOf(f, a) == a.shared <= f.ver /\ (a.shared = f.ver => a.whole = f.ok)

\* A template is no newer than its file d and that of the fragments, f.
FromFiles(d, f, a) == a # NoTemplate => a.own <= d.ver /\ FragmentsOf(f, a)

\* reloadMu has one holder.
OneReload == \A r, s \in Holding : r = s

\* What a reload has read so far follows the registry, which nobody else
\* changes meanwhile, and does not run ahead of the files.
ReloadFollows ==
    \A r \in Reloaders, n \in Names :
        /\ step[r] = "files" =>
              /\ loaded[r][n] # NoTemplate
              /\ FragmentsOf(fragments, loaded[r][n])
              /\ registry[n] # NoTemplate => SharedFollows(loaded[r][n], registry[n])
        /\ step[r] = "clear" =>
              /\ Follows(loaded[r][n], registry[n])
              /\ FromFiles(disk[n], fragments, loaded[r][n])

ReloadInv ==
    /\ ReloadTypeOK /\ OneReload /\ ReloadFollows
    /\ \A n \in Names : FromFiles(disk[n], fragments, registry[n])
=============================================================================
