----------------------------- MODULE HotReload ------------------------------
(***************************************************************************)
(* The reload of the configuration file at run time, and its one callback: *)
(* the switch mutations.enabled.  The watch loop arms a debounce timer on  *)
(* every event of the file; the timer starts a reload in a goroutine of    *)
(* its own.  Stopping the timer does not wait for a reload it has already  *)
(* started, so two reloads can overlap; they share the viper instance and  *)
(* the snapshot, both without a lock that would exclude the other.         *)
(*                                                                         *)
(* The file is edited in place, or is a link into the volume of a          *)
(* Kubernetes ConfigMap, whose update swaps a link of another name in the  *)
(* same directory: the watcher sees that name only.                        *)
(*                                                                         *)
(* The content of the file is what it says of mutations.enabled: "on",     *)
(* "off", "missing" (the key, or the whole text while an editor rewrites   *)
(* the file) or "broken" (no YAML).                                        *)
(***************************************************************************)
EXTENDS Naturals

CONSTANTS
    Reloads,   \* goroutines that may run reload at once
    MaxEdits   \* bound: edits of the file

ASSUME ReloadConstants == Reloads # {} /\ MaxEdits \in Nat

VARIABLES
    override,    \* GRAPHQL_MUTATIONS_ENABLED in the environment
    file,        \* content of the configuration file
    edits,       \* edits that may still come
    named,       \* history: the last change raised an event of the file's name
    event,       \* names of the events that wait in the watcher's channel
    timer,       \* the debounce timer is armed
    watching,    \* the watch loop runs
    viper,       \* what the reloader's viper instance has read last
    snapshot,    \* HotReloader.snapshot
    reload,      \* the goroutines
    enabled,     \* Enabled of the MutationsConfig in use
    overlapped   \* history: two reloads have run at once

reloadVars == <<override, file, edits, named, event, timer, watching, viper, snapshot,
                reload, enabled, overlapped>>

Readable == {"on", "off", "missing"}
Contents == Readable \cup {"broken"}
Resting == [step |-> "idle", new |-> "missing"]

\* The switch of the loaded configuration: the environment goes before the
\* file, and false is the default.
LoadedSwitch == IF override = "none" THEN file = "on" ELSE override = "on"

\* main stores the loaded configuration and starts the reloader, which takes
\* its first snapshot from a viper instance of its own, without environment
\* and defaults.  If Start fails the service runs without reloads.
HotInit ==
    /\ override \in {"none", "on", "off"}
    /\ file \in Readable /\ viper = file /\ snapshot = file
    /\ enabled = LoadedSwitch
    /\ watching \in BOOLEAN
    /\ named = TRUE /\ event = {} /\ timer = FALSE /\ overlapped = FALSE
    /\ reload = [r \in Reloads |-> Resting]

ChangeFile(name) ==
    /\ edits > 0 /\ edits' = edits - 1
    /\ file' \in Contents \ {file}
    /\ event' = event \cup {name} /\ named' = (name = "file")
    /\ UNCHANGED <<override, timer, watching, viper, snapshot, reload, enabled,
                   overlapped>>

EditFile == ChangeFile("file")
SwapConfigMap == ChangeFile("link")

\* An event of another name is passed over; at one of the file's own name the
\* old timer is stopped and a new one armed.
WatchEvent ==
    /\ watching
    /\ \E name \in event :
          event' = event \ {name} /\ timer' = (timer \/ name = "file")
    /\ UNCHANGED <<override, file, edits, named, watching, viper, snapshot, reload, enabled,
                   overlapped>>

DebounceOver(r) ==
    /\ timer /\ reload[r].step = "idle"
    /\ timer' = FALSE
    /\ reload' = [reload EXCEPT ![r].step = "read"]
    /\ overlapped' = (overlapped \/ \E q \in Reloads : reload[q].step # "idle")
    /\ UNCHANGED <<override, file, edits, named, event, watching, viper, snapshot, enabled>>

\* ReadInConfig; a file that cannot be read or parsed ends the reload.
ReadInConfig(r) ==
    /\ reload[r].step = "read"
    /\ IF file = "broken"
       THEN /\ reload' = [reload EXCEPT ![r] = Resting]
            /\ UNCHANGED viper
       ELSE /\ reload' = [reload EXCEPT ![r].step = "capture"]
            /\ viper' = file
    /\ UNCHANGED <<override, file, edits, named, event, timer, watching, snapshot, enabled,
                   overlapped>>

captureSnapshot(r) ==
    /\ reload[r].step = "capture"
    /\ reload' = [reload EXCEPT ![r] = [step |-> "notify", new |-> viper]]
    /\ UNCHANGED <<override, file, edits, named, event, timer, watching, viper, snapshot,
                   enabled, overlapped>>

\* Mutant: a value that is no Boolean leaves the switch alone.
SwitchValue_KeepsOld(new, old) ==
    IF new = "missing" THEN old ELSE new = "on"

\* The callback of main: a value that is no Boolean counts as false.
SwitchValue(new, old) == new = "on"

\* A value that differs from the snapshot goes to the callback, which
\* stores a copy of the configuration with the new switch.
Notify(r) ==
    /\ reload[r].step = "notify"
    /\ enabled' = IF reload[r].new # snapshot
                  THEN SwitchValue(reload[r].new, enabled) ELSE enabled
    /\ reload' = [reload EXCEPT ![r].step = "save"]
    /\ UNCHANGED <<override, file, edits, named, event, timer, watching, viper, snapshot,
                   overlapped>>

SaveSnapshot(r) ==
    /\ reload[r].step = "save"
    /\ snapshot' = reload[r].new
    /\ reload' = [reload EXCEPT ![r] = Resting]
    /\ UNCHANGED <<override, file, edits, named, event, timer, watching, viper, enabled,
                   overlapped>>

\* Stop, at shutdown: the loop ends and stops its timer; a reload under way
\* goes on.
StopWatching ==
    /\ watching
    /\ watching' = FALSE /\ timer' = FALSE
    /\ UNCHANGED <<override, file, edits, named, event, viper, snapshot, reload, enabled,
                   overlapped>>

ReloadStep(r) ==
    ReadInConfig(r) \/ captureSnapshot(r) \/ Notify(r) \/ SaveSnapshot(r)

HotNext ==
    \/ EditFile \/ SwapConfigMap \/ WatchEvent \/ StopWatching
    \/ \E r \in Reloads : DebounceOver(r) \/ ReloadStep(r)

HotTypeOK ==
    /\ file \in Contents /\ viper \in Readable /\ snapshot \in Readable
    /\ edits \in 0..MaxEdits
    /\ override \in {"none", "on", "off"} /\ event \subseteq {"file", "link"}
    /\ {named, timer, watching, enabled, overlapped} \subseteq BOOLEAN
    /\ reload \in [Reloads -> [step : {"idle", "read", "capture", "notify",
                                       "save"},
                               new : Readable]]
=============================================================================
