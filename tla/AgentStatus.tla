---------------------------- MODULE AgentStatus ----------------------------
(***************************************************************************)
(* The detector of what an agent is doing (agent_status.rs): the reader of *)
(* a pane appends what it prints and marks it dirty, and one task, ticking *)
(* by itself, drains the marks, looks at each pane, and tells the window   *)
(* and the workflow driver of every change.                                *)
(*                                                                         *)
(* Panes live as the session manager promises (PaneTable).  Text is        *)
(* abstracted to what the tail of the screen is classified as; whatever is *)
(* printed may leave older lines in the tail, the old process's included.  *)
(* Settings are read, and written, in one step.                            *)
(***************************************************************************)
EXTENDS Naturals

CONSTANTS
    Session,
    MaxReloads  \* bound: reloads of the configuration

ASSUME StatusAssumption == MaxReloads \in Nat

VARIABLES
    pane,       \* the status of each pane
    owing,      \* panes with a session-state event, not running, on its way
    reading,    \* what the tail of a pane's screen is classified as
    marking,    \* panes whose reader has appended and is about to mark
    queue,      \* the dirty channel
    settings,   \* AgentStatusManager: the flag, and whether done lingers
    reloads,
    detector,   \* the task: where it is, and the settings it read
    tracker,    \* Tracker, of the panes that have one
    badge,      \* ui.agentStatus: what the window was last told
    unseen,     \* history: panes with output of their process nobody looked at
    missed      \* history: those whose mark was refused or thrown away

statusVars == <<pane, owing, reading, marking, queue, settings, reloads, detector,
                tracker, badge, unseen, missed>>

StatusTable == INSTANCE PaneTable WITH Pane <- Session, status <- pane

Category == {"blocked", "working", "done"}
Reading == Category \cup {"idle", "unknown"}

\* classify: the first category one of whose patterns matches the tail.
Classify(matching) ==
    CASE "blocked" \in matching -> "blocked"
      [] "working" \in matching -> "working"
      [] "done" \in matching -> "done"
      [] OTHER -> "idle"

\* select_ruleset, then classify: an agent without rules is unknown.
Judgements(ruled) == IF ruled THEN {Classify(m) : m \in SUBSET Category} ELSE {"unknown"}

Untold == "untold"
NoTracker == [current |-> "none", lapsed |-> FALSE]
Nothing == [of |-> 0, reading |-> "none"]
Settings == [enabled : BOOLEAN, lingers : BOOLEAN]

\* SessionState is Running until the process has ended, asked to close or not.
Live(s) == pane[s] \in {"running", "closing"}
Tracked == {s \in Session : tracker[s] # NoTracker}

-----------------------------------------------------------------------------
(* The panes.                                                              *)

PaneStep ==
    /\ StatusTable!Next
    /\ LET ended == {s \in Session : pane'[s] # pane[s] /\ ~Live(s)'}
       IN  owing' = owing \cup ended /\ unseen' = unseen \ ended
    /\ UNCHANGED <<reading, marking, queue, settings, reloads, detector, tracker, badge, missed>>

\* session-state, emitted after the unlock: the window drops the badge of a pane that
\* does not run.
ClearBadge(s) ==
    /\ s \in owing
    /\ owing' = owing \ {s}
    /\ badge' = [badge EXCEPT ![s] = Untold]
    /\ UNCHANGED <<pane, reading, marking, queue, settings, reloads, detector, tracker, unseen, missed>>

\* The reader appends a chunk under the lock, and marks the pane after it.
Prints(s) ==
    /\ Live(s) /\ s \notin marking
    /\ \E r \in UNION {Judgements(ruled) : ruled \in BOOLEAN} : reading' = [reading EXCEPT ![s] = r]
    /\ marking' = marking \cup {s}
    /\ unseen' = unseen \cup {s}
    /\ UNCHANGED <<pane, owing, queue, settings, reloads, detector, tracker, badge, missed>>

MarkDirty(s) ==
    /\ s \in marking
    /\ marking' = marking \ {s}
    /\ queue' = IF settings.enabled THEN queue \cup {s} ELSE queue
    /\ missed' = IF settings.enabled THEN missed ELSE missed \cup {s}
    /\ UNCHANGED <<pane, owing, reading, settings, reloads, detector, tracker, badge, unseen>>

\* apply, of every load of the configuration.
Reconfigure ==
    /\ reloads < MaxReloads
    /\ reloads' = reloads + 1
    /\ settings' \in Settings
    /\ UNCHANGED <<pane, owing, reading, marking, queue, detector, tracker, badge, unseen, missed>>

-----------------------------------------------------------------------------
(* Tracker.                                                                *)

\* Mutant: a re-match measures the linger anew.
BecomesAnew(t, next) == [current |-> next, lapsed |-> FALSE]

\* A status that held before, or begins now.
Becomes(t, next) == [current |-> next, lapsed |-> t.lapsed /\ t.current = "done" /\ next = "done"]

Observe(t, raw, lingers) ==
    LET next == CASE raw = "done" -> IF t.current = "idle" THEN "idle" ELSE "done"
                  [] raw = "idle" -> IF t.current \in {"working", "done"} THEN "done" ELSE "idle"
                  [] OTHER -> raw
    IN  Becomes(t, IF next = "done" /\ ~lingers THEN "idle" ELSE next)

\* done_linger passes.
Lapse(s) ==
    /\ tracker[s].current = "done" /\ ~tracker[s].lapsed
    /\ tracker' = [tracker EXCEPT ![s].lapsed = TRUE]
    /\ UNCHANGED <<pane, owing, reading, marking, queue, settings, reloads, detector, badge, unseen, missed>>

-----------------------------------------------------------------------------
(* The task.                                                               *)

\* The settings are read before the debounce, and used after it.
Begin ==
    /\ detector.phase = "begin"
    /\ detector' = [detector EXCEPT !.phase = "asleep", !.using = settings]
    /\ UNCHANGED <<pane, owing, reading, marking, queue, settings, reloads, tracker, badge, unseen, missed>>

\* The burst is drained, by a task whose detection is off for nothing.
Wake ==
    /\ detector.phase = "asleep"
    /\ queue' = {}
    /\ IF detector.using.enabled
       THEN detector' = [detector EXCEPT !.phase = "judging", !.todo = queue] /\ UNCHANGED missed
       ELSE detector' = [detector EXCEPT !.phase = "begin"] /\ missed' = missed \cup queue
    /\ UNCHANGED <<pane, owing, reading, marking, settings, reloads, tracker, badge, unseen>>

\* agent_status_snapshot, under the lock of the session manager.
Look(s) ==
    /\ detector.phase = "judging" /\ s \in detector.todo /\ detector.seen = Nothing
    /\ detector' = [detector EXCEPT !.todo = @ \ {s},
                                    !.seen = IF Live(s) THEN [of |-> s, reading |-> reading[s]]
                                             ELSE Nothing]
    /\ unseen' = unseen \ {s}
    /\ missed' = missed \ {s}
    /\ UNCHANGED <<pane, owing, reading, marking, queue, settings, reloads, tracker, badge>>

\* The classification of what was seen, after the unlock.
Tell(s) ==
    /\ detector.seen.of = s
    /\ detector' = [detector EXCEPT !.seen = Nothing]
    /\ LET new == Observe(tracker[s], detector.seen.reading, detector.using.lingers) IN
       /\ tracker' = [tracker EXCEPT ![s] = new]
       /\ badge' = IF new.current # tracker[s].current THEN [badge EXCEPT ![s] = new.current] ELSE badge
    /\ UNCHANGED <<pane, owing, reading, marking, queue, settings, reloads, unseen, missed>>

Judged ==
    /\ detector.phase = "judging" /\ detector.todo = {} /\ detector.seen = Nothing
    /\ detector' = [detector EXCEPT !.phase = "decaying", !.todo = Tracked]
    /\ UNCHANGED <<pane, owing, reading, marking, queue, settings, reloads, tracker, badge, unseen, missed>>

\* tick_linger of a pane that runs; one that does not loses its tracker, untold.
Decay(s) ==
    /\ detector.phase = "decaying" /\ s \in detector.todo
    /\ detector' = [detector EXCEPT !.todo = @ \ {s}]
    /\ IF ~Live(s)
       THEN tracker' = [tracker EXCEPT ![s] = NoTracker] /\ UNCHANGED badge
       ELSE IF tracker[s].current = "done" /\ (tracker[s].lapsed \/ ~detector.using.lingers)
       THEN /\ tracker' = [tracker EXCEPT ![s] = [current |-> "idle", lapsed |-> FALSE]]
            /\ badge' = [badge EXCEPT ![s] = "idle"]
       ELSE UNCHANGED <<tracker, badge>>
    /\ UNCHANGED <<pane, owing, reading, marking, queue, settings, reloads, unseen, missed>>

\* Mutant: the channel is emptied when the tick is over.
TickEndsEmptying ==
    /\ detector.phase = "decaying" /\ detector.todo = {}
    /\ detector' = [detector EXCEPT !.phase = "begin"]
    /\ queue' = {}
    /\ UNCHANGED <<pane, owing, reading, marking, settings, reloads, tracker, badge, unseen, missed>>

TickEnds ==
    /\ detector.phase = "decaying" /\ detector.todo = {}
    /\ detector' = [detector EXCEPT !.phase = "begin"]
    /\ UNCHANGED <<pane, owing, reading, marking, queue, settings, reloads, tracker, badge, unseen, missed>>

-----------------------------------------------------------------------------
StatusInit ==
    /\ StatusTable!Init
    /\ owing = {} /\ marking = {} /\ queue = {} /\ unseen = {} /\ missed = {}
    /\ reading = [s \in Session |-> "idle"]
    /\ settings = [enabled |-> TRUE, lingers |-> TRUE]
    /\ reloads = 0
    /\ detector = [phase |-> "begin", using |-> [enabled |-> TRUE, lingers |-> TRUE],
                   todo |-> {}, seen |-> Nothing]
    /\ tracker = [s \in Session |-> NoTracker]
    /\ badge = [s \in Session |-> Untold]

Detector(s) == Look(s) \/ Tell(s) \/ Decay(s)
DetectorTick == Begin \/ Wake \/ Judged \/ TickEnds

StatusNext ==
    \/ PaneStep \/ Reconfigure \/ DetectorTick
    \/ \E s \in Session : ClearBadge(s) \/ Prints(s) \/ MarkDirty(s) \/ Lapse(s) \/ Detector(s)

\* The task ticks, time passes, and a thread that holds an event or a mark delivers it.
StatusFairness ==
    /\ WF_statusVars(DetectorTick)
    /\ \A s \in Session :
        /\ WF_statusVars(Detector(s))
        /\ WF_statusVars(Lapse(s))
        /\ WF_statusVars(ClearBadge(s))
        /\ WF_statusVars(MarkDirty(s))

StatusSpec == StatusInit /\ [][StatusNext]_statusVars /\ StatusFairness

-----------------------------------------------------------------------------
(* Properties.                                                             *)

OnItsWay(s) ==
    \/ s \in marking \cup queue
    \/ s \in detector.todo /\ detector.phase = "judging"

\* Nothing a running agent prints goes unjudged: until the detector has looked, the
\* pane is marked, about to be, or drained and waiting, except when its mark met a
\* detection that was off (mark_dirty, and the drain before the evaluation).
UnseenIsMarked == \A s \in unseen : OnItsWay(s) \/ s \in missed

\* "done reliably decays to idle", while the agent runs and is watched, however often
\* what it printed matches again and however its pane is restarted (tick_linger).
DoneDecays ==
    \A s \in Session :
        tracker[s].current = "done" /\ Live(s) ~> badge[s] # "done" \/ ~Live(s) \/ ~settings.enabled

\* A reload takes effect at once: output printed while detection is on is judged.
OnMeansWatched ==
    [][\A s \in missed' \ missed : ~settings.enabled]_statusVars

\* "so stale badges never linger": no badge on a pane that does not run, once all
\* its events are out.
NoStaleBadge == \A s \in Session : ~Live(s) /\ owing = {} => badge[s] = Untold

\* The badge is what the detector thinks: it is not lost when a pane restarts.
BadgeIsKnown ==
    \A s \in Session :
        Live(s) /\ owing = {} /\ detector.phase = "asleep" => badge[s] # Untold \/ tracker[s] = NoTracker
=============================================================================
