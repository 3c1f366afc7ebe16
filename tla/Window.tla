------------------------------- MODULE Window -------------------------------
(***************************************************************************)
(* The window (App.svelte, stores.svelte.ts, terminals.ts): which panes it *)
(* shows, in which state, with which terminals, and what it saves of them. *)
(*                                                                         *)
(* It runs on one thread that gives way at every await.  It learns of a    *)
(* pane in two ways that are not ordered with each other: the events of    *)
(* the session manager, and the replies to its own commands.  The commands *)
(* are run one at a time, in the order they were invoked, by the main      *)
(* thread of the backend; the panes live meanwhile as PaneTable says.      *)
(* A thread that changed a pane tells of it once the map is unlocked.  One *)
(* thread follows another, each after it has told, unless a restart by     *)
(* hand overtakes the one at work: that one tells whenever it gets to it.  *)
(***************************************************************************)
EXTENDS FiniteSets, Sequences, Naturals

CONSTANTS
    Tile,       \* session ids
    MaxPanes,   \* MAX_PANES
    Ephemeral,  \* sessions of teammates, which are not saved
    CloseMode,  \* autoCloseModeFor, of each session
    Saved,      \* bound: sessions saved by the last run of the app
    MaxAsked,   \* bound: launches asked for and not answered
    MaxTurns,   \* bound: ends, restarts and removals of panes
    MaxUnseen,  \* bound: events of a pane on their way
    MaxSaves    \* bound: saves on their way

ASSUME WindowAssumption ==
    /\ MaxPanes \in Nat /\ Saved \in Nat /\ MaxAsked \in Nat /\ MaxTurns \in Nat
    /\ MaxUnseen \in Nat /\ MaxSaves \in Nat
    /\ Ephemeral \subseteq Tile
    /\ CloseMode \in [Tile -> {"never", "success", "always"}]

VARIABLES
    tile,       \* the session manager's status of each pane
    turns,      \* how often a pane ended, restarted or was removed
    silent,     \* history: panes it removed without an event
    unsent,     \* what the thread at work on each pane is still to tell
    late,       \* what a thread is still to tell that a restart overtook
    mute,       \* panes whose creator is still to tell that they run
    raced,      \* history: panes restarted while something was unsent
    events,     \* session-state and pty-exit on their way, of each pane
    commands,   \* commands invoked and not returned, the first one running
    replies,    \* ids returned and not seen yet, by the kind of the command
    shown,      \* ui.sessions
    panes,      \* ui.panes
    tombs,      \* closedTombstones that have not expired
    closers,    \* autoCloseTimers
    terminals,  \* handles
    creating,   \* pending: terminals being created
    making,     \* how many creations are in flight, registered or not
    canceled,   \* canceledPending
    launching,  \* launchingTeam, launchingWorkflow, and the restoration
    restoring,  \* saved sessions still to be resumed
    ready,      \* persistenceReady
    configured, \* ui.configInfo is not null
    draft,      \* the snapshot that stateSaveTimer holds, if any
    saved,      \* the project state on disk
    saveFailed, \* history: the last save failed
    shut,       \* history: panes closed in the window
    revived     \* history: panes added again after they were closed

diskVars == <<saved, saveFailed>>
tellVars == <<unsent, late, mute, raced>>
backendVars == <<tile, turns, silent, tellVars, diskVars>>
terminalVars == <<terminals, creating, making, canceled>>
startVars == <<restoring, ready, configured>>
windowVars == <<backendVars, events, commands, replies, shown, panes, tombs, closers,
                terminalVars, launching, startVars, draft, shut, revived>>

Grid == INSTANCE PaneTable WITH Pane <- Tile, status <- tile

Ended == {"succeeded", "failed"}
SessionShown == {"unknown", "starting", "running", "restarting"} \cup Ended
Launch == {"agent", "team", "restore"}
Most(kind) == IF kind = "team" THEN 2 ELSE 1   \* bound: members of a team, steps of a workflow

Kill(p) == [do |-> "kill", what |-> {p}]
Save(layout) == [do |-> "save", what |-> layout]
Start(kind) == [do |-> kind, what |-> {}]

-----------------------------------------------------------------------------
(* What a step of the window does besides.                                 *)

\* persistablePanes
Persistable(open) == open \ Ephemeral

\* Mutant: a snapshot that waits is not replaced.
RedraftsNothing(again) ==
    draft' = IF (again \/ panes' # panes) /\ ready' /\ configured' /\ draft = {}
             THEN {Persistable(panes')} ELSE draft

\* The effect of the snapshots runs again when something it read was set: it restarts
\* the timer with what is open now.  Without a configuration there is no state to save.
Redraft(again) ==
    draft' = IF (again \/ panes' # panes) /\ ready' /\ configured'
             THEN {Persistable(panes')} ELSE draft

\* The effect of autoCloseTimers runs again when a pane or a session changed.
Closes(p, state) ==
    \/ CloseMode[p] = "always" /\ state \in Ended
    \/ CloseMode[p] = "success" /\ state = "succeeded"

ArmClosers(open, now, armed) ==
    closers' = IF open = panes /\ now = shown THEN armed
               ELSE armed \cup {p \in open : Closes(p, now[p])}

\* addPane of some panes: each mounts a Terminal, which asks for its handle.
Add(new) ==
    LET mounts == (new \ panes) \ (terminals \cup creating) IN
    /\ panes' = panes \cup new
    /\ creating' = creating \cup mounts
    /\ making' = [p \in Tile |-> making[p] + IF p \in mounts THEN 1 ELSE 0]
    /\ revived' = revived \cup ((new \ panes) \cap shut)
    /\ UNCHANGED <<terminals, canceled>>

\* Mutant: a terminal that is being created is not canceled.
DisposeForgets(p) ==
    /\ terminals' = terminals \ {p}
    /\ creating' = creating \ {p}
    /\ UNCHANGED <<canceled, making>>

\* disposeTermHandle
Dispose(p) ==
    /\ terminals' = terminals \ {p}
    /\ canceled' = IF p \in creating /\ p \notin terminals THEN canceled \cup {p} ELSE canceled
    /\ creating' = creating \ {p}
    /\ UNCHANGED making

\* ensureTermHandle, when the creation is done.  Disposing of a handle takes whatever
\* is registered under the id.
CreateTermHandle(p) ==
    /\ making[p] > 0
    /\ making' = [making EXCEPT ![p] = @ - 1]
    /\ creating' = creating \ {p}
    /\ canceled' = canceled \ {p}
    /\ terminals' = IF p \in canceled THEN terminals \ {p} ELSE terminals \cup {p}
    /\ UNCHANGED <<backendVars, events, commands, replies, shown, panes, tombs, closers,
                   launching, startVars, draft, shut, revived>>

-----------------------------------------------------------------------------
(* What the window is told.                                                *)

\* session-state of a session it knows, or of one that lives without its doing.
SessionState(p) ==
    /\ events[p] # <<>> /\ Head(events[p]).event = "session-state"
    /\ UNCHANGED startVars
    /\ LET state == Head(events[p]).state
           known == shown[p] # "unknown" \/ p \in panes
           ignored == ~known /\ (state \in Ended \/ p \in tombs)
           now == IF ignored THEN shown ELSE [shown EXCEPT ![p] = state]
           added == IF known \/ ignored \/ Cardinality(panes) >= MaxPanes THEN {} ELSE {p}
       IN  /\ shown' = now
           /\ Add(added)
           /\ Redraft(p \in panes)
           /\ ArmClosers(panes \cup added, now, closers)
    /\ events' = [events EXCEPT ![p] = Tail(@)]
    /\ UNCHANGED <<backendVars, commands, replies, tombs, launching, shut>>

\* pty-exit, which the state follows.
PtyExit(p) ==
    /\ events[p] # <<>> /\ Head(events[p]).event = "pty-exit"
    /\ LET now == IF shown[p] \in {"unknown", "restarting"} THEN shown
                  ELSE [shown EXCEPT ![p] = Head(events[p]).state]
       IN  shown' = now /\ ArmClosers(panes, now, closers)
    /\ events' = [events EXCEPT ![p] = Tail(@)]
    /\ UNCHANGED <<backendVars, commands, replies, panes, tombs, terminalVars, launching,
                   startVars, draft, shut, revived>>

\* Mutant: the reply says starting, whatever the events said.
TrackedAnew(ids) == [p \in Tile |-> IF p \in ids THEN "starting" ELSE shown[p]]

\* A reply is the first to tell of a session, or tells nothing new.
TrackedBy(ids) == [p \in Tile |-> IF p \in ids /\ shown[p] = "unknown" THEN "starting" ELSE shown[p]]

\* newShell, spawnAgent, spawnTeam, launchWorkflow and restoreProjectState after the await.
Launched(reply) ==
    /\ reply \in replies
    /\ replies' = replies \ {reply}
    /\ restoring' = IF reply.kind = "restore" THEN restoring - 1 ELSE restoring
    /\ UNCHANGED <<ready, configured>>
    /\ shown' = TrackedBy(reply.ids)
    /\ Add(reply.ids)
    /\ Redraft(FALSE)
    /\ ArmClosers(panes \cup reply.ids, shown', closers)
    /\ launching' = launching \ {reply.kind}
    /\ UNCHANGED <<backendVars, events, commands, tombs, shut>>

-----------------------------------------------------------------------------
(* What the operator does.                                                 *)

Invoke(command) == commands' = Append(commands, command)
Asked == {i \in 1 .. Len(commands) : commands[i].do \in Launch}
Saves == {i \in 1 .. Len(commands) : commands[i].do = "save"}
Room == Cardinality(Asked) + Cardinality(replies) < MaxAsked

\* One agent or shell may be asked for while another one is; the limit is looked at
\* now.  A team or a workflow is launched once at a time, and asks nothing.
AskAgent ==
    /\ Room /\ Cardinality(panes) < MaxPanes
    /\ Invoke(Start("agent"))
    /\ UNCHANGED <<backendVars, events, replies, shown, panes, tombs, closers, terminalVars,
                   launching, startVars, draft, shut, revived>>

AskTeam ==
    /\ Room /\ "team" \notin launching
    /\ launching' = launching \cup {"team"}
    /\ Invoke(Start("team"))
    /\ UNCHANGED <<backendVars, events, replies, shown, panes, tombs, closers, terminalVars,
                   startVars, draft, shut, revived>>

\* The panes of startup, one after the other and up to the limit: the saved sessions
\* (restoreProjectState), those that start by themselves, or one shell where there is
\* no configuration.  Then the snapshots may begin.
RestoreNext ==
    /\ ~ready /\ restoring > 0 /\ "restore" \notin launching
    /\ IF Cardinality(panes) >= MaxPanes
       THEN restoring' = 0 /\ UNCHANGED <<launching, commands>>
       ELSE /\ launching' = launching \cup {"restore"}
            /\ Invoke(Start("restore"))
            /\ UNCHANGED restoring
    /\ UNCHANGED <<backendVars, events, replies, shown, panes, tombs, closers, terminalVars,
                   ready, configured, draft, shut, revived>>

Restored ==
    /\ ~ready /\ restoring = 0
    /\ ready' = TRUE
    /\ UNCHANGED <<backendVars, events, commands, replies, shown, panes, tombs, closers,
                   terminalVars, launching, restoring, configured, shut, revived>>
    /\ Redraft(TRUE)

\* loadConfig, for the first time or again.
LoadConfig ==
    /\ configured' = TRUE
    /\ UNCHANGED <<backendVars, events, commands, replies, shown, panes, tombs, closers,
                   terminalVars, launching, restoring, ready, shut, revived>>
    /\ Redraft(TRUE)

\* closePane, by hand or by the timer that is left in armed.
ClosePane(p, armed) ==
    LET now == [shown EXCEPT ![p] = "unknown"] IN
    /\ p \in panes
    /\ tombs' = tombs \cup {p} /\ shut' = shut \cup {p}
    /\ Invoke(Kill(p))
    /\ UNCHANGED startVars
    /\ panes' = panes \ {p}
    /\ shown' = now
    /\ Dispose(p)
    /\ Redraft(TRUE)
    /\ ArmClosers(panes \ {p}, now, armed)
    /\ UNCHANGED <<backendVars, events, replies, launching, revived>>

\* The timer of autoCloseTimers.  A maximized pane is left alone.
AutoClose(p) ==
    /\ p \in closers
    /\ \/ shown[p] \in Ended /\ ClosePane(p, closers \ {p})
       \/ /\ closers' = closers \ {p}
          /\ UNCHANGED <<backendVars, events, commands, replies, shown, panes, tombs, terminalVars,
                         launching, startVars, draft, shut, revived>>

\* A tombstone is dropped after TOMBSTONE_TTL_MS, whatever is still on its way.
TombExpires(p) ==
    /\ p \in tombs
    /\ tombs' = tombs \ {p}
    /\ UNCHANGED <<backendVars, events, commands, replies, shown, panes, closers, terminalVars,
                   launching, startVars, draft, shut, revived>>

\* stateSaveTimer
SaveState ==
    /\ Cardinality(Saves) < MaxSaves
    /\ \E layout \in draft : Invoke(Save(layout))
    /\ draft' = {}
    /\ UNCHANGED <<backendVars, events, replies, shown, panes, tombs, closers, terminalVars,
                   launching, startVars, shut, revived>>

-----------------------------------------------------------------------------
(* The backend.                                                            *)

Doing(command) == commands # <<>> /\ Head(commands) = command
Idle == UNCHANGED <<replies, shown, panes, tombs, closers, terminalVars, launching, startVars,
                    draft, shut, revived>>

State(state) == [event |-> "session-state", state |-> state]
Exit(code) == [event |-> "pty-exit", state |-> code]

\* What a thread is to tell of a change it made.
Told(old, new) ==
    CASE new = "running" -> {<<State("running")>>}
      [] new = "restarting" -> {<<Exit(code), State("restarting")>> : code \in Ended}
      [] new = "exited" /\ old = "restarting" -> {<<State("failed")>>}
      [] OTHER -> {<<Exit(code), State(code)>> : code \in Ended}

\* The thread at work on a pane takes its next step when it has told of the last.
Advance(p) ==
    /\ unsent[p] = <<>>
    /\ \/ Grid!Start(p) /\ UNCHANGED turns
       \/ /\ turns < MaxTurns /\ turns' = turns + 1
          /\ \/ Grid!GiveUp(p) \/ Grid!End(p)
             \/ tile[p] = "closing" /\ Grid!Closed(p)
    /\ \E told \in Told(tile[p], tile'[p]) : unsent' = [unsent EXCEPT ![p] = told]
    /\ mute' = IF tile[p] = "starting" THEN mute \cup {p} ELSE mute
    /\ UNCHANGED <<silent, late, raced, events, diskVars, commands>>
    /\ Idle

\* restart_session, by the operator or the driver: its thread is at work from now on.
\* A pane that is being created is left to its creator.
RestartSession(p) ==
    /\ turns < MaxTurns /\ turns' = turns + 1
    /\ \/ tile[p] # "starting" /\ Grid!Restart(p)
       \/ tile[p] = "restarting" /\ UNCHANGED tile
    /\ unsent' = [unsent EXCEPT ![p] = <<State("restarting")>>]
    /\ IF unsent[p] = <<>> THEN UNCHANGED <<late, raced>>
       ELSE /\ late[p] = <<>>   \* bound: one thread overtaken at a time
            /\ late' = [late EXCEPT ![p] = unsent[p]]
            /\ raced' = raced \cup {p}
    /\ UNCHANGED <<silent, mute, events, diskVars, commands>>
    /\ Idle

\* kill_pty.  A process is told to end; where there is none, or its reader has taken
\* it already, the pane is gone and nobody tells.
Killed(p) ==
    /\ \/ Grid!Close(p) /\ UNCHANGED silent
       \/ Grid!Closed(p) /\ silent' = silent \cup {p}
    /\ UNCHANGED <<tellVars, events>>

\* Whoever else opens panes and closes them: Queen, the driver.
Opened(p) ==
    /\ Grid!Open(p)
    /\ UNCHANGED <<turns, silent, tellVars, events, diskVars, commands>>
    /\ Idle

KilledByOthers(p) ==
    /\ turns < MaxTurns /\ turns' = turns + 1
    /\ tile[p] # "starting" /\ Killed(p)
    /\ UNCHANGED <<diskVars, commands>>
    /\ Idle

\* A thread that has unlocked the map tells.
Emit(p) ==
    /\ unsent[p] # <<>> /\ Len(events[p]) < MaxUnseen
    /\ events' = [events EXCEPT ![p] = Append(@, Head(unsent[p]))]
    /\ unsent' = [unsent EXCEPT ![p] = Tail(@)]
    /\ mute' = IF late[p] = <<>> THEN mute \ {p} ELSE mute
    /\ UNCHANGED <<tile, turns, silent, late, raced, diskVars, commands>>
    /\ Idle

EmitLate(p) ==
    /\ late[p] # <<>> /\ Len(events[p]) < MaxUnseen
    /\ events' = [events EXCEPT ![p] = Append(@, Head(late[p]))]
    /\ late' = [late EXCEPT ![p] = Tail(@)]
    /\ mute' = mute \ {p}
    /\ UNCHANGED <<tile, turns, silent, unsent, raced, diskVars, commands>>
    /\ Idle

\* A launch creates its panes one after the other, each until its creator has told.
\* One that fails is left out.
Created(ids) == \A q \in ids : tile[q] # "starting" /\ q \notin mute

LaunchOne(p) ==
    /\ commands # <<>>
    /\ LET launch == Head(commands) IN
       /\ launch.do \in Launch /\ Cardinality(launch.what) < Most(launch.do)
       /\ Created(launch.what)
       /\ Grid!Open(p)
       /\ commands' = [commands EXCEPT ![1].what = @ \cup {p}]
    /\ UNCHANGED <<turns, silent, tellVars, diskVars, events>>
    /\ Idle

LaunchReturns ==
    /\ commands # <<>> /\ Head(commands).do \in Launch
    /\ Created(Head(commands).what)
    /\ replies' = replies \cup {[kind |-> Head(commands).do, ids |-> Head(commands).what]}
    /\ commands' = Tail(commands)
    /\ UNCHANGED <<backendVars, events, shown, panes, tombs, closers, terminalVars, launching,
                   startVars, draft, shut, revived>>

\* The window's own kill_pty.  One that does not find the pane is an error it ignores,
\* and one that finds it closing signals it again.
KillPty(p) ==
    /\ Doing(Kill(p))
    /\ commands' = Tail(commands)
    /\ \/ Killed(p)
       \/ tile[p] \in {"unopened", "closing", "closed"}
          /\ UNCHANGED <<tile, silent, tellVars, events>>
    /\ UNCHANGED <<turns, diskVars>>
    /\ Idle

\* A save that fails is an error in a banner; nobody tries again.
SaveProjectState ==
    /\ commands # <<>> /\ Head(commands).do = "save"
    /\ \/ saved' = Head(commands).what /\ saveFailed' = FALSE
       \/ UNCHANGED saved /\ saveFailed' = TRUE
    /\ commands' = Tail(commands)
    /\ UNCHANGED <<tile, turns, silent, tellVars, events>>
    /\ Idle

-----------------------------------------------------------------------------
\* Ids may have been spent, and some of what MaxTurns allows, before the window listens.
WindowInit ==
    /\ tile \in [Tile -> {"unopened", "closed"}]
    /\ turns \in 0 .. MaxTurns
    /\ silent = {} /\ replies = {} /\ panes = {} /\ tombs = {} /\ closers = {}
    /\ terminals = {} /\ creating = {} /\ canceled = {} /\ launching = {}
    /\ shut = {} /\ revived = {} /\ mute = {} /\ raced = {}
    /\ events = [p \in Tile |-> <<>>]
    /\ unsent = [p \in Tile |-> <<>>] /\ late = [p \in Tile |-> <<>>]
    /\ commands = <<>>
    /\ shown = [p \in Tile |-> "unknown"]
    /\ making = [p \in Tile |-> 0]
    /\ restoring \in 0 .. Saved
    /\ configured \in BOOLEAN /\ (~configured => restoring <= 1)
    /\ ready = FALSE
    /\ draft = {}
    /\ saved = {} /\ saveFailed = FALSE

Backend(p) ==
    \/ Advance(p) \/ RestartSession(p) \/ Opened(p) \/ KilledByOthers(p)
    \/ Emit(p) \/ EmitLate(p)
    \/ LaunchOne(p) \/ KillPty(p)

WindowNext ==
    \/ AskAgent \/ AskTeam \/ RestoreNext \/ Restored \/ LoadConfig \/ SaveState
    \/ LaunchReturns \/ SaveProjectState
    \/ \E reply \in replies : Launched(reply)
    \/ \E p \in Tile :
        \/ SessionState(p) \/ PtyExit(p) \/ CreateTermHandle(p)
        \/ ClosePane(p, closers) \/ AutoClose(p) \/ TombExpires(p)
        \/ Backend(p)

WindowSpec == WindowInit /\ [][WindowNext]_windowVars

-----------------------------------------------------------------------------
(* Properties.                                                             *)

Agrees(p) ==
    CASE tile[p] = "starting" -> shown[p] = "starting"
      [] tile[p] \in {"running", "closing"} -> shown[p] = "running"
      [] tile[p] = "restarting" -> shown[p] = "restarting"
      [] tile[p] = "exited" -> shown[p] \in Ended
      [] tile[p] = "closed" -> shown[p] \in Ended \/ p \in silent
      [] OTHER -> FALSE

\* Nothing about a pane is on its way, and nobody is about to tell anything.
Quiet(p) == events[p] = <<>> /\ unsent[p] = <<>> /\ late[p] = <<>>

\* However events and replies cross, once all is told of a pane and has arrived, the
\* window shows it in the state it is in (the reply "tracks" a session only if no event
\* did, and each thread tells before the next one works).  Excepted are panes that were
\* opened again after they were closed, and panes that were restarted by hand while
\* another thread was still to tell.
ShownTruth == \A p \in panes \ (revived \cup raced) : Quiet(p) => Agrees(p)

\* "otherwise a closed pane's xterm + pty-output listener leak": a terminal belongs to
\* an open pane, whenever its creation ends (canceledPending), but for a pane that was
\* opened again while the terminal of its first life was being made.
NoListenerLeak == terminals \subseteq panes \cup revived

\* When no snapshot waits and none is on its way, the project state on disk is that of
\* the panes that are open, whatever opens and closes while the timer runs and saves are
\* queued.  Excepted are a window without a configuration and a last save that failed.
SavedIsCurrent ==
    ready /\ configured /\ ~saveFailed /\ draft = {}
        /\ (\A i \in 1 .. Len(commands) : commands[i].do # "save")
        => saved = Persistable(panes)

\* "Debounced snapshots keep pane/layout changes durable": so without the exceptions.
LayoutDurable ==
    ready /\ draft = {} /\ (\A i \in 1 .. Len(commands) : commands[i].do # "save")
        => saved = Persistable(panes)

\* "The old reader thread is staled via the generation bump and emits nothing": so the
\* window shows a restarted pane, too, in the state it has come to rest in.
ShownInTheEnd ==
    \A p \in panes \ revived : tile[p] \in {"running", "exited"} /\ Quiet(p) => Agrees(p)

\* "Ordered list of session ids that have an open pane (max 9)."
MaxHolds == Cardinality(panes) <= MaxPanes

\* A closed pane "must NOT" be resurrected "as a zombie pane (BUG-2)".
ClosedStaysClosed == [][\A p \in panes' \ panes : p \notin tombs]_windowVars

\* kill_pty "emits `pty-exit` + `session-state`(exited) and removes the slot": the window
\* shows no pane as live that is gone.
GoneIsShown ==
    \A p \in panes : Quiet(p) /\ tile[p] = "closed" /\ p \notin revived => shown[p] \in Ended

\* Of panes that close on success, one that failed stays.
FailedStays ==
    [][\A p \in Tile :
        CloseMode[p] = "success" /\ p \in closers \ closers' /\ p \in panes \ panes'
            => shown[p] = "succeeded"]_windowVars
=============================================================================
