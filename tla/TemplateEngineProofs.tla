------------------------ MODULE TemplateEngineProofs ------------------------
(***************************************************************************)
(* Hot reload never loses a template nor brings an older text back, for    *)
(* any templates, reloaders, queries and edits of the files.               *)
(***************************************************************************)
EXTENDS TemplateEngine, TLAPS

FileStates == [ver : Versions, ok : BOOLEAN]

\* Texts are ordered by their version.
LEMMA TemplateFacts ==
    /\ Versions \subseteq Nat
    /\ \A f \in FileStates : f.ver \in Nat /\ f.ok \in BOOLEAN
    /\ \A a \in MaybeTemplates :
          a # NoTemplate => a \in Templates /\ a.own \in Nat /\ a.shared \in Nat
    /\ \A x, y \in Versions, w \in BOOLEAN :
          LET a == [own |-> x, shared |-> y, whole |-> w] IN
          /\ a \in Templates /\ a # NoTemplate
          /\ a.own = x /\ a.shared = y /\ a.whole = w
BY TemplateEngineAssumption DEF Versions, MaybeTemplates, Templates, FileStates

\* A template follows itself.
LEMMA FollowsItself ==
    ASSUME NEW a \in MaybeTemplates
    PROVE  Follows(a, a)
BY TemplateFacts DEF Follows, SharedFollows

\* A file is saved with a new version, or left alone.
Later(f, g) == g = f \/ g.ver > f.ver

\* What is no newer than a file is no newer than the file saved anew.
LEMMA FilesGrow ==
    ASSUME NEW d \in FileStates, NEW e \in FileStates, Later(d, e),
           NEW f \in FileStates, NEW g \in FileStates, Later(f, g),
           NEW a \in MaybeTemplates
    PROVE  /\ a # NoTemplate /\ FragmentsOf(f, a) => FragmentsOf(g, a)
           /\ FromFiles(d, f, a) => FromFiles(e, g, a)
BY TemplateFacts DEF Later, FragmentsOf, FromFiles

\* The engine starts with what is on disk.
LEMMA ReloadInitInv == Init => ReloadInv
<1> SUFFICES ASSUME Init PROVE ReloadInv
  OBVIOUS
<1>0. 0 \in Versions
  BY TemplateEngineAssumption DEF Versions
<1> DEFINE zero == [own |-> 0, shared |-> 0, whole |-> fragments.ok]
<1>1. /\ disk \in [Names -> [ver : {0}, ok : BOOLEAN]]
      /\ fragments \in [ver : {0}, ok : BOOLEAN]
      /\ registry = [n \in Names |-> IF disk[n].ok THEN zero ELSE NoTemplate]
      /\ step = [r \in Reloaders |-> "idle"]
      /\ loaded = [r \in Reloaders |-> [n \in Names |-> NoTemplate]]
  BY DEF Init
<1>2. fragments.ver = 0 /\ fragments.ok \in BOOLEAN /\ \A n \in Names : disk[n].ver = 0
  BY <1>1
<1>3. /\ zero \in Templates /\ zero # NoTemplate
      /\ zero.own = 0 /\ zero.shared = 0 /\ zero.whole = fragments.ok
  BY <1>0, <1>2, TemplateFacts
<1> HIDE DEF zero
<1>4. ReloadTypeOK
  BY <1>0, <1>1, <1>3 DEF ReloadTypeOK, MaybeTemplates
<1>5. FromFiles([ver |-> 0, ok |-> TRUE], fragments, zero)
  BY <1>2, <1>3 DEF FromFiles, FragmentsOf
<1>6. \A n \in Names : FromFiles(disk[n], fragments, registry[n])
  BY <1>1, <1>2, <1>5 DEF FromFiles
<1> QED
  BY <1>1, <1>4, <1>6 DEF ReloadInv, OneReload, ReloadFollows, Holding

\* A step that leaves the registry and the reloads alone; the files may become
\* newer.
LEMMA FilesInv ==
    ASSUME ReloadInv, ReloadTypeOK',
           UNCHANGED <<registry, step, loaded>>,
           \A n \in Names : Later(disk[n], disk'[n]),
           Later(fragments, fragments')
    PROVE  ReloadInv'
<1>1. /\ registry \in [Names -> MaybeTemplates]
      /\ loaded \in [Reloaders -> [Names -> MaybeTemplates]]
      /\ fragments \in FileStates /\ fragments' \in FileStates
      /\ \A n \in Names : disk[n] \in FileStates /\ disk'[n] \in FileStates
  BY DEF ReloadInv, ReloadTypeOK, FileStates
<1>2. \A n \in Names, a \in MaybeTemplates :
         /\ a # NoTemplate /\ FragmentsOf(fragments, a) => FragmentsOf(fragments', a)
         /\ FromFiles(disk[n], fragments, a) => FromFiles(disk'[n], fragments', a)
  BY <1>1, FilesGrow
<1>3. \A n \in Names : FromFiles(disk'[n], fragments', registry'[n])
  BY <1>1, <1>2 DEF ReloadInv
<1>4. OneReload'
  BY DEF ReloadInv, OneReload, Holding
<1>5. ASSUME NEW r \in Reloaders, NEW n \in Names
      PROVE  /\ step[r] = "files" =>
                   /\ loaded[r][n] # NoTemplate
                   /\ FragmentsOf(fragments', loaded[r][n])
                   /\ registry[n] # NoTemplate =>
                         SharedFollows(loaded[r][n], registry[n])
             /\ step[r] = "clear" =>
                   /\ Follows(loaded[r][n], registry[n])
                   /\ FromFiles(disk'[n], fragments', loaded[r][n])
  <2>1. loaded[r][n] \in MaybeTemplates
    BY <1>1
  <2> QED
    BY <1>2, <2>1 DEF ReloadInv, ReloadFollows
<1>6. ReloadFollows'
  BY <1>5 DEF ReloadFollows, FromFiles, FragmentsOf, Follows, SharedFollows
<1> QED
  BY <1>3, <1>4, <1>6 DEF ReloadInv, FromFiles, FragmentsOf

\* A reload takes one step with what it has loaded.
LEMMA ReloaderInv ==
    ASSUME ReloadInv, NEW r \in Reloaders, NEW s,
           s \in {"shared", "files", "clear"}, NEW l \in [Names -> MaybeTemplates],
           step' = [step EXCEPT ![r] = s], loaded' = [loaded EXCEPT ![r] = l],
           UNCHANGED <<disk, fragments, registry>>,
           step[r] \in {"shared", "files", "clear"} \/ Holding = {},
           s = "files" => \A n \in Names :
              /\ l[n] # NoTemplate /\ FragmentsOf(fragments, l[n])
              /\ registry[n] # NoTemplate => SharedFollows(l[n], registry[n]),
           s = "clear" => \A n \in Names :
              Follows(l[n], registry[n]) /\ FromFiles(disk[n], fragments, l[n])
    PROVE  ReloadInv'
<1>1. ReloadTypeOK'
  BY DEF ReloadInv, ReloadTypeOK
<1>2. /\ step'[r] = s /\ loaded'[r] = l
      /\ \A q \in Reloaders \ {r} : step'[q] = step[q] /\ loaded'[q] = loaded[q]
  BY DEF ReloadInv, ReloadTypeOK
<1>3. OneReload'
  BY <1>2 DEF ReloadInv, OneReload, Holding
<1>4. ASSUME NEW q \in Reloaders, NEW n \in Names
      PROVE  /\ step'[q] = "files" =>
                   /\ loaded'[q][n] # NoTemplate
                   /\ FragmentsOf(fragments, loaded'[q][n])
                   /\ registry[n] # NoTemplate =>
                         SharedFollows(loaded'[q][n], registry[n])
             /\ step'[q] = "clear" =>
                   /\ Follows(loaded'[q][n], registry[n])
                   /\ FromFiles(disk[n], fragments, loaded'[q][n])
  <2>1. CASE q = r
    BY <1>2, <2>1
  <2>2. CASE q # r
    BY <1>2, <2>2 DEF ReloadInv, ReloadFollows
  <2> QED
    BY <2>1, <2>2
<1>5. ReloadFollows'
  BY <1>4 DEF ReloadFollows, FromFiles, FragmentsOf, Follows, SharedFollows
<1>6. \A n \in Names : FromFiles(disk[n], fragments, registry[n])
  BY DEF ReloadInv
<1> QED
  BY <1>1, <1>3, <1>5, <1>6 DEF ReloadInv, FromFiles, FragmentsOf

\* A reloader that waits for reloadMu, gives up, or is done.
LEMMA OutsideInv ==
    ASSUME ReloadInv, NEW r \in Reloaders, NEW s \in {"idle", "lock"},
           step' = [step EXCEPT ![r] = s],
           UNCHANGED <<disk, fragments, registry, loaded>>
    PROVE  ReloadInv'
<1>1. ReloadTypeOK'
  BY DEF ReloadInv, ReloadTypeOK
<1>2. step'[r] = s /\ \A q \in Reloaders \ {r} : step'[q] = step[q]
  BY DEF ReloadInv, ReloadTypeOK
<1>3. OneReload'
  BY <1>2 DEF ReloadInv, OneReload, Holding
<1>4. ASSUME NEW q \in Reloaders, NEW n \in Names
      PROVE  /\ step'[q] = "files" =>
                   /\ loaded[q][n] # NoTemplate
                   /\ FragmentsOf(fragments, loaded[q][n])
                   /\ registry[n] # NoTemplate =>
                         SharedFollows(loaded[q][n], registry[n])
             /\ step'[q] = "clear" =>
                   /\ Follows(loaded[q][n], registry[n])
                   /\ FromFiles(disk[n], fragments, loaded[q][n])
  BY <1>2 DEF ReloadInv, ReloadFollows
<1>5. ReloadFollows'
  BY <1>4 DEF ReloadFollows, FromFiles, FragmentsOf, Follows, SharedFollows
<1>6. \A n \in Names : FromFiles(disk[n], fragments, registry[n])
  BY DEF ReloadInv
<1> QED
  BY <1>1, <1>3, <1>5, <1>6 DEF ReloadInv, FromFiles, FragmentsOf

\* The registry is replaced by what the only reload at work has loaded.
LEMMA ReloadUpdatesInv ==
    ASSUME ReloadInv, NEW r \in Reloaders, ReloadUpdates(r)
    PROVE  ReloadInv' /\ \A n \in Names : Follows(registry'[n], registry[n])
<1>1. /\ step[r] = "clear" /\ registry' = loaded[r] /\ disk' = disk
      /\ fragments' = fragments /\ step' = [step EXCEPT ![r] = "idle"]
      /\ loaded' = [loaded EXCEPT ![r] = [n \in Names |-> NoTemplate]]
  BY DEF ReloadUpdates, files
<1>2. \A n \in Names : /\ Follows(loaded[r][n], registry[n])
                       /\ FromFiles(disk[n], fragments, loaded[r][n])
  BY <1>1 DEF ReloadInv, ReloadFollows
<1>3. ReloadTypeOK'
  BY <1>1 DEF ReloadInv, ReloadTypeOK, MaybeTemplates
<1>4. step'[r] = "idle" /\ \A q \in Reloaders \ {r} : step'[q] = step[q]
  BY <1>1 DEF ReloadInv, ReloadTypeOK
<1>5. \A q \in Reloaders : step'[q] \notin {"shared", "files", "clear"}
  BY <1>1, <1>4 DEF ReloadInv, OneReload, Holding
<1>6. (\A n \in Names : FromFiles(disk[n], fragments, registry[n]))'
  BY <1>1, <1>2 DEF FromFiles, FragmentsOf
<1> QED
  BY <1>1, <1>2, <1>3, <1>5, <1>6 DEF ReloadInv, OneReload, Holding, ReloadFollows

\* loadAll reads the fragments, then the files.
LEMMA LoadInv ==
    ASSUME ReloadInv, NEW r \in Reloaders, LoadSharedFragments(r) \/ LoadAll(r)
    PROVE  ReloadInv'
<1>0. /\ registry \in [Names -> MaybeTemplates] /\ fragments \in FileStates
      /\ disk \in [Names -> FileStates]
      /\ loaded \in [Reloaders -> [Names -> MaybeTemplates]]
      /\ \A n \in Names : FromFiles(disk[n], fragments, registry[n])
  BY DEF ReloadInv, ReloadTypeOK, FileStates
<1>1. CASE LoadSharedFragments(r)
  <2> DEFINE l == [n \in Names |-> [own |-> 0, shared |-> fragments.ver,
                                    whole |-> fragments.ok]]
  <2>1. /\ step[r] = "shared" /\ step' = [step EXCEPT ![r] = "files"]
        /\ loaded' = [loaded EXCEPT ![r] = l] /\ UNCHANGED <<disk, fragments, registry>>
    BY <1>1 DEF LoadSharedFragments, files
  <2>2. /\ 0 \in Versions /\ fragments.ver \in Versions /\ fragments.ver \in Nat
        /\ fragments.ok \in BOOLEAN
    BY <1>0, TemplateFacts, TemplateEngineAssumption DEF Versions, FileStates
  <2>3. \A n \in Names : /\ l[n] \in Templates /\ l[n] # NoTemplate
                         /\ l[n].shared = fragments.ver /\ l[n].whole = fragments.ok
    BY <2>2, TemplateFacts
  <2>4. l \in [Names -> MaybeTemplates]
    BY <2>3 DEF MaybeTemplates
  <2> HIDE DEF l
  <2>5. ASSUME NEW n \in Names
        PROVE  /\ l[n] # NoTemplate /\ FragmentsOf(fragments, l[n])
               /\ registry[n] # NoTemplate => SharedFollows(l[n], registry[n])
    <3>1. FragmentsOf(fragments, l[n])
      BY <2>2, <2>3 DEF FragmentsOf
    <3>2. registry[n] # NoTemplate => SharedFollows(l[n], registry[n])
      BY <1>0, <2>2, <2>3, TemplateFacts DEF FromFiles, FragmentsOf, SharedFollows
    <3> QED
      BY <2>3, <3>1, <3>2
  <2> QED
    BY <2>1, <2>4, <2>5, ReloaderInv
<1>2. CASE LoadAll(r)
  <2> DEFINE l == [n \in Names |->
                     IF disk[n].ok
                       THEN [loaded[r][n] EXCEPT !.own = disk[n].ver]
                       ELSE registry[n]]
  <2>1. /\ step[r] = "files" /\ step' = [step EXCEPT ![r] = "clear"]
        /\ loaded' = [loaded EXCEPT ![r] = l] /\ UNCHANGED <<disk, fragments, registry>>
    BY <1>2 DEF LoadAll, files
  <2>2. \A n \in Names :
           /\ loaded[r][n] # NoTemplate /\ FragmentsOf(fragments, loaded[r][n])
           /\ registry[n] # NoTemplate => SharedFollows(loaded[r][n], registry[n])
    BY <2>1 DEF ReloadInv, ReloadFollows
  <2>3. ASSUME NEW n \in Names
        PROVE  /\ l[n] \in MaybeTemplates
               /\ Follows(l[n], registry[n]) /\ FromFiles(disk[n], fragments, l[n])
    <3>1. loaded[r][n] \in Templates /\ disk[n].ver \in Versions
      BY <1>0, <2>2, TemplateFacts DEF FileStates
    <3>2. CASE disk[n].ok
      <4>1. l[n] = [loaded[r][n] EXCEPT !.own = disk[n].ver]
        BY <3>2
      <4>2. /\ l[n] \in Templates /\ l[n].own = disk[n].ver
            /\ l[n].shared = loaded[r][n].shared /\ l[n].whole = loaded[r][n].whole
        BY <3>1, <4>1 DEF Templates
      <4> HIDE DEF l
      <4>3. l[n] # NoTemplate /\ l[n] \in MaybeTemplates /\ disk[n].ver \in Nat
        BY <3>1, <4>2, TemplateFacts, TemplateEngineAssumption DEF MaybeTemplates
      <4>4. FromFiles(disk[n], fragments, l[n])
        BY <2>2, <4>2, <4>3 DEF FromFiles, FragmentsOf
      <4>5. Follows(l[n], registry[n])
        BY <1>0, <2>2, <4>2, <4>3, TemplateFacts
           DEF Follows, SharedFollows, FromFiles
      <4> QED
        BY <4>3, <4>4, <4>5
    <3>3. CASE ~disk[n].ok
      <4>1. l[n] = registry[n] /\ registry[n] \in MaybeTemplates
        BY <1>0, <3>3
      <4> HIDE DEF l
      <4> QED
        BY <1>0, <4>1, FollowsItself
    <3> QED
      BY <3>2, <3>3
  <2>4. l \in [Names -> MaybeTemplates]
    BY <2>3
  <2> HIDE DEF l
  <2> QED
    BY <2>1, <2>3, <2>4, ReloaderInv
<1> QED
  BY <1>1, <1>2

\* An edit makes a file newer.
LEMMA EditInv ==
    ASSUME ReloadInv, EditFragments \/ \E n \in Names : EditTemplate(n)
    PROVE  ReloadInv'
<1>0. /\ fragments \in FileStates /\ disk \in [Names -> FileStates]
      /\ MaxVersion \in Nat
  BY TemplateEngineAssumption DEF ReloadInv, ReloadTypeOK, FileStates
<1>a. ASSUME NEW f \in FileStates, f.ver < MaxVersion, NEW b \in BOOLEAN
      PROVE  /\ [ver |-> f.ver + 1, ok |-> b] \in FileStates
             /\ Later(f, [ver |-> f.ver + 1, ok |-> b])
  <2>1. f.ver \in Nat /\ f.ver + 1 \in Versions
    BY <1>0, <1>a, TemplateFacts DEF Versions
  <2> QED
    BY <2>1 DEF FileStates, Later
<1>1. CASE EditFragments
  <2>1. PICK b \in BOOLEAN : fragments' = [ver |-> fragments.ver + 1, ok |-> b]
    BY <1>1 DEF EditFragments
  <2>2. /\ fragments.ver < MaxVersion /\ disk' = disk
        /\ UNCHANGED <<registry, step, loaded>>
    BY <1>1 DEF EditFragments, reload
  <2>3. fragments' \in FileStates /\ Later(fragments, fragments')
    BY <1>0, <1>a, <2>1, <2>2
  <2>4. ReloadTypeOK' /\ \A n \in Names : Later(disk[n], disk'[n])
    BY <2>2, <2>3 DEF ReloadInv, ReloadTypeOK, FileStates, Later
  <2> QED
    BY <2>2, <2>3, <2>4, FilesInv
<1>2. ASSUME NEW n \in Names, EditTemplate(n) PROVE ReloadInv'
  <2>1. PICK b \in BOOLEAN :
           disk' = [disk EXCEPT ![n] = [ver |-> disk[n].ver + 1, ok |-> b]]
    BY <1>2 DEF EditTemplate
  <2>2. /\ disk[n].ver < MaxVersion /\ fragments' = fragments
        /\ UNCHANGED <<registry, step, loaded>>
    BY <1>2 DEF EditTemplate, reload
  <2> DEFINE e == [ver |-> disk[n].ver + 1, ok |-> b]
  <2>3. e \in FileStates /\ Later(disk[n], e)
    BY <1>0, <1>a, <2>2
  <2>4. disk' = [disk EXCEPT ![n] = e]
    BY <2>1
  <2> HIDE DEF e
  <2>5. disk' \in [Names -> FileStates] /\ \A m \in Names : Later(disk[m], disk'[m])
    BY <1>0, <2>3, <2>4 DEF Later
  <2>6. ReloadTypeOK' /\ Later(fragments, fragments')
    BY <1>0, <2>2, <2>5 DEF ReloadInv, ReloadTypeOK, FileStates, Later
  <2> QED
    BY <2>2, <2>5, <2>6, FilesInv
<1> QED
  BY <1>1, <1>2

\* Everything else leaves the files, the registry and the reloads as they are.
LEMMA ElsewhereInv ==
    ASSUME ReloadInv, UNCHANGED <<disk, fragments, registry, step, loaded>>
    PROVE  ReloadInv' /\ \A n \in Names : Follows(registry'[n], registry[n])
<1>1. ReloadTypeOK' /\ registry \in [Names -> MaybeTemplates]
  BY DEF ReloadInv, ReloadTypeOK
<1>2. Later(fragments, fragments') /\ \A n \in Names : Later(disk[n], disk'[n])
  BY DEF Later
<1>3. ReloadInv'
  BY <1>1, <1>2, FilesInv
<1> QED
  BY <1>1, <1>3, FollowsItself

\* Every step keeps the invariant, and the registry follows itself.
LEMMA ReloadNextInv ==
    ReloadInv /\ [Next]_vars =>
        ReloadInv' /\ \A n \in Names : Follows(registry'[n], registry[n])
<1> SUFFICES ASSUME ReloadInv, [Next]_vars
             PROVE  ReloadInv' /\ \A n \in Names : Follows(registry'[n], registry[n])
  OBVIOUS
<1>0. registry' = registry => \A n \in Names : Follows(registry'[n], registry[n])
  BY FollowsItself DEF ReloadInv, ReloadTypeOK
<1>1. CASE EditFragments \/ \E n \in Names : EditTemplate(n)
  <2>1. registry' = registry
    BY <1>1 DEF EditFragments, EditTemplate, reload
  <2> QED
    BY <1>0, <1>1, <2>1, EditInv
<1>2. ASSUME NEW r \in Reloaders, TimerFires(r) \/ ReloadStarts(r)
      PROVE  ReloadInv' /\ registry' = registry
  <2>1. registry' = registry /\ UNCHANGED <<disk, fragments, registry, loaded>>
    BY <1>2 DEF TimerFires, ReloadStarts, files
  <2>2. CASE \E s \in {"idle", "lock"} : step' = [step EXCEPT ![r] = s]
    BY <2>1, <2>2, OutsideInv
  <2>3. CASE step' = [step EXCEPT ![r] = "shared"] /\ Holding = {}
    <3>1. loaded[r] \in [Names -> MaybeTemplates] /\ loaded' = [loaded EXCEPT ![r] = loaded[r]]
      BY <2>1 DEF ReloadInv, ReloadTypeOK
    <3> QED
      BY <2>1, <2>3, <3>1, ReloaderInv
  <2> QED
    BY <1>2, <2>1, <2>2, <2>3 DEF TimerFires, ReloadStarts
<1>3. CASE ReloadTemplates
  <2>1. /\ step' = [step EXCEPT ![Mutation] = "lock"] /\ Mutation \in Reloaders
        /\ UNCHANGED <<disk, fragments, registry, loaded>>
    BY <1>3, TemplateEngineAssumption DEF ReloadTemplates, files
  <2> QED
    BY <1>0, <2>1, OutsideInv
<1>4. ASSUME NEW r \in Reloaders, LoadSharedFragments(r) \/ LoadAll(r)
      PROVE  ReloadInv' /\ registry' = registry
  BY <1>4, LoadInv DEF LoadSharedFragments, LoadAll
<1>5. ASSUME NEW r \in Reloaders, NEW n \in Names, ReloadClears(r, n)
      PROVE  UNCHANGED <<disk, fragments, registry, step, loaded>>
  BY <1>5 DEF ReloadClears, files
<1>6. CASE CooldownPasses
  BY <1>6, ElsewhereInv DEF CooldownPasses, files
<1>7. ASSUME NEW t \in Threads, QuerySteps(t) \/ \E n \in Names : Execute(t, n)
      PROVE  UNCHANGED <<disk, fragments, registry, step, loaded>>
  BY <1>7 DEF QuerySteps, CacheSteps, LoaderRuns, AcquireSemaphore, SemaphoreTimeout,
              QueryData, QueryDirectly, QueryCount, QueryEnds, ExecuteReturns, Execute,
              files, reload
<1>8. CASE \/ ReloadRemoves
           \/ (\E k \in Keys : Expires(k)) /\ UNCHANGED <<files, reload, query>>
           \/ UNCHANGED vars
  BY <1>8, ElsewhereInv DEF ReloadRemoves, files, reload, vars
<1> QED
  BY <1>0, <1>1, <1>2, <1>3, <1>4, <1>5, <1>6, <1>7, <1>8, ReloadUpdatesInv, ElsewhereInv
     DEF Next, ReloadSteps

\* The inductive invariant of hot reload.
THEOREM ReloadInvariance == Spec => []ReloadInv
BY ReloadInitInv, ReloadNextInv, PTL DEF Spec

\* A reload never takes a template away, never puts back an older text of it
\* or of the fragments, whatever is broken on disk and whoever else reloads,
\* and takes the fragments from a template only when they were saved anew
\* (Reload, loadAll, loadSharedFragments).
THEOREM ReloadRegistryAdvances == Spec => RegistryAdvances
<1>1. ReloadInv /\ [Next]_vars =>
        [\A n \in Names : Follows(registry'[n], registry[n])]_vars
  BY ReloadNextInv
<1> QED
  BY <1>1, ReloadInvariance, PTL DEF Spec, RegistryAdvances
=============================================================================
