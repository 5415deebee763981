----------------------------- MODULE DataAccess -----------------------------
(***************************************************************************)
(* What calls go through on their way to a data source: the batching       *)
(* loader, the retry and reconnect loops, and the write path.  They share  *)
(* no state, so a behaviour is one of a single part, the one it is about;  *)
(* the others stand still.                                                 *)
(***************************************************************************)
EXTENDS BackoffLoops, DataLoader, Mutations

VARIABLE about    \* the part this behaviour exercises

writeVars == <<reloadVars, mutationVars>>
accessVars == <<loopVars, loaderVars, writeVars, about>>

AccessInit ==
    /\ LoopInit /\ New /\ MutationInit
    /\ about \in {"loop", "loader", "mutation"}
    /\ about # "loop" => loop = CHOOSE l \in Loops : TRUE
    /\ about # "mutation" => /\ clients = {} /\ edits = 0
                           /\ file = "on" /\ override = "none" /\ watching

\* A step of the part this behaviour is about.
LoopPart(A) == about = "loop" /\ A /\ UNCHANGED <<loaderVars, writeVars, about>>
LoaderPart(A) == about = "loader" /\ A /\ UNCHANGED <<loopVars, writeVars, about>>
MutationPart(A) == about = "mutation" /\ A /\ UNCHANGED <<loopVars, loaderVars, about>>

AccessNext ==
    LoopPart(LoopNext) \/ LoaderPart(LoaderNext) \/ MutationPart(MutationNext)

\* The fairness of the parts.
AccessSpec ==
    /\ AccessInit /\ [][AccessNext]_accessVars
    /\ WF_loaderVars(LoaderPart(Progress))
    /\ WF_reloadVars(MutationPart(WatchEvent))
    /\ \A r \in Reloads : /\ WF_reloadVars(MutationPart(DebounceOver(r)))
                          /\ WF_reloadVars(MutationPart(ReloadStep(r)))
    /\ \A t \in Threads : WF_call(MutationPart(ThreadStep(t)))
=============================================================================
