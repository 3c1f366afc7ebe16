------------------------------- MODULE Config -------------------------------
(***************************************************************************)
(* The life of ptygrid.yml (config.rs, ConfigManager), with the window     *)
(* that offers to reload it (stores.svelte.ts, App.svelte), ptygrid init   *)
(* (init.rs, write) and the hub that every load reconfigures.              *)
(*                                                                         *)
(* A load holds the manager's lock from end to end, but the file is        *)
(* anybody's: it is read, then watched, then the new watcher replaces the  *)
(* old.  A watcher's event passes through its thread, which waits for the  *)
(* burst to end, and an event to the window, which may be busy with a load *)
(* or take the event for the echo of its own write.                        *)
(*                                                                         *)
(* One load is under way at a time.  A file never disappears.              *)
(***************************************************************************)
EXTENDS Declarations, Hub

CONSTANTS
    Place,      \* where a configuration is looked for, in order, the working folder first
    Legacy,     \* the place whose presence stops init from writing the first one
    InitPlace,  \* the places init may write to
    Text,       \* the contents a file is given
    Generated,  \* the one init writes
    Corpus,     \* contents that are only loaded once, at startup
    DefaultText,
    MaxEdits,   \* bound: writes to the files
    MaxLoads    \* bound: loads after the first

Nowhere == "nowhere"
Places == ToSet(Place)
NoFile == [text |-> DefaultText, n |-> 0]   \* n tells writes apart; 0 is no file

\* A port is the effective one: port 0 stands for the default.
ASSUME ConfigAssumption ==
    /\ Place \in Seq(STRING) /\ Place # <<>>
    /\ Nowhere \notin Places /\ InitPlace \subseteq Places
    /\ Generated \in Text /\ {MaxEdits, MaxLoads} \subseteq Nat
    /\ \A text \in Text \cup Corpus \cup {DefaultText} :
           /\ {"enabled", "port"} \subseteq DOMAIN text
           /\ text.enabled \in BOOLEAN /\ text.port \in Nat \ {0}
           /\ {"flows", "presets"} \subseteq DOMAIN text
           /\ text.flows \subseteq WorkflowDecl /\ text.presets \subseteq PresetDecl
    /\ DefaultText.flows = {} /\ DefaultText.presets = {}

VARIABLES
    disk,       \* the file at each place
    edits,      \* writes so far
    loads,      \* loads so far
    loaded,     \* the configuration in force and the write it came from
    watch,      \* the place of the watcher in force
    raw,        \* "kept", "fresh": the watcher, in force or new, with an undelivered event
    stirring,   \* places whose watcher thread has something to emit
    events,     \* config-changed events on their way
    toast,      \* configChangedPath
    own,        \* selfWrite: the path, and whether it is still recent
    load,       \* the load, or the init, under way
    known,      \* history: the last write to the file in force that the operator heard of
    since       \* history: the same for the load, from where its watcher began

fileVars == <<disk, edits>>
watchVars == <<watch, raw, stirring, events>>
windowVars == <<toast, own>>
heardVars == <<known, since>>
configVars == <<disk, edits, loads, loaded, watch, raw, stirring, events, toast, own, load, known, since>>
vars == <<configVars, hubVars>>

NoLoad == [phase |-> "idle", by |-> "nobody", place |-> Nowhere, file |-> NoFile]
NotLoaded == [place |-> Nowhere, file |-> NoFile]
NotOwn == [path |-> Nowhere, recent |-> FALSE]

ParseOk(text) == (\A d \in text.flows : WorkflowOk(d)) /\ (\A p \in text.presets : PresetOk(p))
Parsed(text) == [text EXCEPT !.flows = {WithScheduleDefaults(d) : d \in text.flows}]

\* resolve_config_source: the first file there is, or the built-in default, which is
\* watched for where it would be.
Existing == {i \in DOMAIN Place : disk[Place[i]].n > 0}
Resolved(allowDefault) ==
    IF Existing # {} THEN Place[Min(Existing)]
    ELSE IF allowDefault THEN Place[1] ELSE Nowhere

\* The watchers that see a write to p.
Seen(p) ==
    (IF watch = p THEN {"kept"} ELSE {})
    \cup (IF load.phase = "watching" /\ load.place = p THEN {"fresh"} ELSE {})

Put(p, text) ==
    /\ edits < MaxEdits
    /\ edits' = edits + 1
    /\ disk' = [disk EXCEPT ![p] = [text |-> text, n |-> edits + 1]]
    /\ raw' = raw \cup Seen(p)

-----------------------------------------------------------------------------
(* The file.                                                               *)

\* Somebody saves the file.
Edit(p) ==
    /\ \E text \in Text : Put(p, text)
    /\ UNCHANGED <<loads, loaded, watch, stirring, events, windowVars, load, heardVars, hubVars>>

\* The OS tells a watcher, which has a thread of its own from the start.
Deliver(w) ==
    /\ w \in raw
    /\ raw' = raw \ {w}
    /\ stirring' = stirring \cup {IF w = "kept" THEN watch ELSE load.place}
    /\ UNCHANGED <<fileVars, loads, loaded, watch, events, windowVars, load, heardVars, hubVars>>

\* The watcher's thread has waited for the burst to end.
Emit(p) ==
    /\ p \in stirring
    /\ stirring' = stirring \ {p}
    /\ events' = events \cup {p}
    /\ UNCHANGED <<fileVars, loads, loaded, watch, raw, windowVars, load, heardVars, hubVars>>

-----------------------------------------------------------------------------
(* The window.                                                             *)

\* Mutant: any file changed within the window is taken for the one just written.
IsEchoOfAny(p) == own # NotOwn /\ own.recent

IsEcho(p) == own.path = p /\ own.recent

\* The operator is told of the file, or it is the one the window itself has written.
Settled(p) == ~IsEcho(p) \/ own.path = p

\* The config-changed listener.
Hear(p) ==
    /\ p \in events
    /\ events' = events \ {p}
    /\ toast' = IF IsEcho(p) THEN toast ELSE p
    /\ own' = IF own.path = p THEN NotOwn ELSE own
    /\ known' = IF loaded.place = p /\ Settled(p) THEN disk[p].n ELSE known
    /\ since' = IF load.phase = "watching" /\ load.place = p /\ Settled(p) THEN disk[p].n ELSE since
    /\ UNCHANGED <<fileVars, loads, loaded, watch, raw, stirring, load, hubVars>>

\* SELF_WRITE_ECHO_MS have passed.
EchoExpires ==
    /\ own.recent
    /\ own' = [own EXCEPT !.recent = FALSE]
    /\ UNCHANGED <<fileVars, loads, loaded, watchVars, toast, load, heardVars, hubVars>>

Dismiss ==
    /\ toast # Nowhere
    /\ toast' = Nowhere
    /\ UNCHANGED <<fileVars, loads, loaded, watchVars, own, load, heardVars, hubVars>>

\* The load button, or the toast's.
Ask(by) ==
    /\ load.phase = "idle"
    /\ loads < MaxLoads
    /\ by = "reload" => toast # Nowhere
    /\ loads' = loads + 1
    /\ load' = [NoLoad EXCEPT !.phase = "asked", !.by = by]
    /\ UNCHANGED <<fileVars, loaded, watchVars, windowVars, heardVars, hubVars>>

\* init_write looks where to write; beside an existing file it writes a sidecar that
\* nobody reads, and beside a legacy one nothing.
InitCheck(p) ==
    /\ load.phase = "idle"
    /\ loads < MaxLoads
    /\ p \in InitPlace /\ disk[p].n = 0
    /\ p = Place[1] /\ Legacy \in Places => disk[Legacy].n = 0
    /\ loads' = loads + 1
    /\ load' = [NoLoad EXCEPT !.phase = "writing", !.by = "init", !.place = p]
    /\ UNCHANGED <<fileVars, loaded, watchVars, windowVars, heardVars, hubVars>>

InitPut ==
    /\ load.phase = "writing"
    /\ Put(load.place, Generated)
    /\ load' = [load EXCEPT !.phase = "wrote"]
    /\ UNCHANGED <<loads, loaded, watch, stirring, events, windowVars, heardVars, hubVars>>

\* onInitWritten: the window marks the write as its own, and loads.
InitWritten ==
    /\ load.phase = "wrote"
    /\ own' = [path |-> load.place, recent |-> TRUE]
    /\ load' = [load EXCEPT !.phase = "asked", !.place = Nowhere]
    /\ UNCHANGED <<fileVars, loads, loaded, watchVars, toast, heardVars, hubVars>>

\* loadConfig comes back; only a failed reload takes its toast away.
Return ==
    /\ load.phase \in {"done", "failed"}
    /\ load' = NoLoad
    /\ toast' = IF load.phase = "done" \/ load.by = "reload" THEN Nowhere ELSE toast
    /\ UNCHANGED <<fileVars, loads, loaded, watchVars, own, heardVars, hubVars>>

-----------------------------------------------------------------------------
(* ConfigManager::load and load_config.                                    *)

LoadRead ==
    /\ load.phase = "asked"
    /\ LET p == Resolved(load.by = "manual")
           ok == p # Nowhere /\ ParseOk(disk[p].text)
       IN  load' = [load EXCEPT !.phase = IF ok THEN "read" ELSE "failed",
                                !.place = p,
                                !.file = IF ok THEN disk[p] ELSE NoFile]
    /\ UNCHANGED <<fileVars, loads, loaded, watchVars, windowVars, heardVars, hubVars>>

\* start_watcher, on the file that was read before.
LoadWatch ==
    /\ load.phase = "read"
    /\ \/ load' = [load EXCEPT !.phase = "watching"] /\ since' = disk[load.place].n
       \/ load' = [load EXCEPT !.phase = "failed"] /\ UNCHANGED since
    /\ UNCHANGED <<fileVars, loads, loaded, watchVars, windowVars, known, hubVars>>

\* The new watcher replaces the old, whose undelivered event goes with it; its
\* thread still emits what it has been told.
LoadStore ==
    /\ load.phase = "watching"
    /\ loaded' = [place |-> load.place,
                  file |-> [load.file EXCEPT !.text = Parsed(load.file.text)]]
    /\ watch' = load.place
    /\ raw' = IF "fresh" \in raw THEN {"kept"} ELSE {}
    /\ load' = [load EXCEPT !.phase = "stored"]
    /\ known' = since
    /\ UNCHANGED <<fileVars, loads, stirring, events, windowVars, since, hubVars>>

LoadApply ==
    /\ load.phase = "stored"
    /\ Apply(loaded.file.text.enabled, loaded.file.text.port)
    /\ load' = [load EXCEPT !.phase = "done"]
    /\ UNCHANGED <<fileVars, loads, loaded, watchVars, windowVars, heardVars>>

-----------------------------------------------------------------------------
StartsWith(texts) ==
    \E p \in Places, text \in texts :
        disk = [q \in Places |-> IF q = p THEN [text |-> text, n |-> 1] ELSE NoFile]

\* The startup load, of whatever file there is.
Init ==
    /\ \/ /\ HubInit
          /\ loads = 0
          /\ edits = 1
          /\ disk = [p \in Places |-> NoFile] \/ StartsWith({Generated})
       \/ /\ HubServed
          /\ loads = MaxLoads /\ edits = MaxEdits /\ StartsWith(Corpus)
    /\ loaded = NotLoaded
    /\ watch = Nowhere /\ raw = {} /\ stirring = {} /\ events = {}
    /\ toast = Nowhere /\ own = NotOwn
    /\ load = [NoLoad EXCEPT !.phase = "asked", !.by = "startup"]
    /\ known = 0 /\ since = 0

Window ==
    \/ \E p \in Places : Hear(p) \/ InitCheck(p)
    \/ EchoExpires \/ Dismiss \/ InitPut \/ InitWritten \/ Return
    \/ \E by \in {"manual", "reload"} : Ask(by)

Manager == LoadRead \/ LoadWatch \/ LoadStore \/ LoadApply

Next ==
    \/ \E p \in Places : Edit(p) \/ Emit(p)
    \/ \E w \in {"kept", "fresh"} : Deliver(w)
    \/ Window
    \/ Manager
    \/ TaskStep /\ UNCHANGED configVars

Spec == Init /\ [][Next]_vars

-----------------------------------------------------------------------------
(* Properties.                                                             *)

\* "So edits to the loaded file are detected": as long as the file in force is not as
\* the operator last heard of it, word of it is on its way, whatever loads are under way,
\* fail or replace the watcher, and whatever files the window has just written.  A load
\* that succeeds counts as word of the file as it is when its watcher begins, and an
\* event taken for the echo of an own write of that file as word of the file.
ChangeIsOnItsWay ==
    loaded.place # Nowhere /\ disk[loaded.place].n # known =>
        \/ watch = loaded.place /\ "kept" \in raw
        \/ loaded.place \in stirring \cup events

\* The same of what was read: a load puts in force the file as it is, or word of the
\* change is on its way.
NoEditLost ==
    load.phase = "stored" /\ disk[loaded.place].n # loaded.file.n =>
        \/ watch = loaded.place /\ "kept" \in raw
        \/ loaded.place \in stirring \cup events

\* Word of a change that a load did not take in is still there after it.
ToastOutlivesLoad ==
    [][Return /\ load.phase = "done" /\ toast = loaded.place /\ disk[toast].n # loaded.file.n =>
        toast' = toast]_vars

\* The window that swallows the echo of an own write ends "without masking a real edit
\* made moments later": what it takes for the echo has been loaded.
NothingMasked ==
    [][\A p \in Places :
        Hear(p) /\ IsEcho(p) /\ load.phase = "idle" /\ loaded.place = p =>
            loaded.file.n = disk[p].n]_vars

\* init "never overwrites": a file that was there is not replaced by the generated one.
InitOverwritesNothing == [][InitPut => disk[load.place].n = 0]_vars

\* What is loaded can be run: every workflow of the configuration in force is one the
\* driver's model assumes (its graph has no cycle, its joins can be met, its replies and
\* streams have a thread and a reader, what it hands over is carried forwards), and every
\* preset has a lead to kick off.
LoadedIsRunnable ==
    /\ \A d \in loaded.file.text.flows : Runnable(d)
    /\ \A p \in loaded.file.text.presets : Startable(p)

\* "neither it nor that dependency is fan-out", so the reply of the dependency is
\* unambiguous.
ConditionsUnambiguous == \A d \in loaded.file.text.flows : OneReplyToMatch(d)
=============================================================================
