--------------------------------- MODULE Teams ---------------------------------
(***************************************************************************)
(* The Agent Teams host (teams_host.rs, teams_hooks.rs) for one lead with  *)
(* teams.mode: host.  A teammate is shown in one of two ways: the lead's   *)
(* tmux shim asks for a pane (split-window) and the teammate runs in it,   *)
(* or a read-only transcript of it is tailed.  Which one is guessed: the   *)
(* SubagentStart hook leaves a mark, and a watcher looks, one window       *)
(* later, whether any split-window has come since.                         *)
(*                                                                         *)
(* Each hook request is handled on a thread of its own, each watcher and   *)
(* tail is a thread, each split-window request a task of the socket        *)
(* server, and a monitor polls the panes.                                  *)
(***************************************************************************)
EXTENDS Integers, FiniteSets

CONSTANTS
    Agent,          \* subagents, each starting once
    MaxPanes,       \* teams.max_panes of the lead
    GlobalMaxPanes, \* teammates.global_max_panes
    GridMaxPanes,   \* GRID_MAX_PANES
    Ordinary,       \* the panes that are not teammates, the lead's included
    Window,         \* FALLBACK_WINDOW
    MaxId,          \* bound: teammate panes ever made
    MaxClock,       \* bound: the last instant
    MaxText,        \* bound: chunks written to each transcript
    MaxLeadExits    \* bound: times the lead exits

ASSUME TeamsAssumption ==
    /\ {MaxPanes, GlobalMaxPanes, GridMaxPanes, Ordinary, MaxId, MaxText, MaxLeadExits} \subseteq Nat
    /\ {Window, MaxClock} \subseteq Nat \ {0}

Id == 1 .. MaxId

VARIABLES
    clock,      \* now_ms
    lead,       \* the state of the lead's own session
    exitsLeft,  \* how often the lead may still exit
    registered, \* the lead's entry in TeamsHostManager, with its server
    slot,       \* the sessions of teammates, by id
    nextId,     \* PtyManager.next_id
    asking,     \* split-window requests in progress, by the id they reserved
    lastSpawn,  \* LeadShared.last_spawn_ms, 0 before the first
    pending,    \* LeadShared.pending: when the hook of each agent came, 0 for none
    hook,       \* how far the hooks of each agent are
    watcher,    \* the fallback watcher of each agent
    tail,       \* the tail thread of each transcript
    monitor,    \* the exit monitor: polling, about to tear down, over
    prev,       \* the panes its last poll saw
    reported,   \* the panes it has reported
    text,       \* chunks appended to each transcript
    told,       \* context_exited events, by pane
    up,         \* the panes whose PTY really started for their request
    born        \* when the last request that started one was answered, 0 before the first

vars == <<clock, lead, exitsLeft, registered, slot, nextId, asking, lastSpawn, pending, hook,
          watcher, tail, monitor, prev, reported, text, told, up, born>>

NoSlot == [kind |-> "none", state |-> "none", agent |-> "none", killed |-> FALSE, gen |-> 0]

Init ==
    /\ clock = 1
    /\ lead = "running" /\ exitsLeft = MaxLeadExits
    /\ registered = TRUE
    /\ slot = [i \in Id |-> NoSlot] /\ nextId = 1
    /\ asking = [i \in Id |-> "idle"]
    /\ lastSpawn = 0 /\ up = {} /\ born = 0
    /\ pending = [a \in Agent |-> 0]
    /\ hook = [a \in Agent |-> "none"]
    /\ watcher = [a \in Agent |-> "none"]
    /\ tail = [i \in Id |-> "none"]
    /\ monitor = "polling" /\ prev = {} /\ reported = {}
    /\ text = [i \in Id |-> 0] /\ told = [i \in Id |-> 0]

leadVars == <<lead, exitsLeft, registered, monitor, prev, reported, told>>
hookVars == <<pending, hook, watcher>>

Present == {i \in Id : slot[i].kind # "none"}
Transcripts == {i \in Present : slot[i].kind = "transcript"}
Hosts == {i \in Present : slot[i].kind = "host"}

-------------------------------------------------------------------------------
(* Split-window: PtygridPaneHost::spawn_agent.                             *)

\* spawn_teammate reserves the id and inserts the slot.  A limit that is reached is
\* only a banner.
SplitWindow ==
    /\ registered /\ lead = "running" /\ nextId \in Id
    /\ nextId' = nextId + 1
    /\ slot' = [slot EXCEPT ![nextId] = [kind |-> "host", state |-> "starting",
                                         agent |-> "none", killed |-> FALSE, gen |-> 0]]
    /\ asking' = [asking EXCEPT ![nextId] = "forking"]
    /\ UNCHANGED <<clock, leadVars, hookVars, lastSpawn, tail, text, up, born>>

\* Mutant: the spawn is recorded whether or not there is a PTY.
SpawnRecordedFirst(i) ==
    /\ asking[i] = "forking"
    /\ \/ /\ slot[i].kind = "host"
          /\ slot' = [slot EXCEPT ![i].state = "running"]
          /\ up' = up \cup {i}
       \/ /\ slot' = [slot EXCEPT ![i] = NoSlot]
          /\ UNCHANGED up
    /\ asking' = [asking EXCEPT ![i] = "record"]
    /\ UNCHANGED <<clock, leadVars, hookVars, nextId, lastSpawn, tail, text, born>>

\* spawn_into_slot: it fails by itself, or because the slot was closed or restarted
\* meanwhile; spawn_teammate then removes the slot, whoever has it now.
Spawn(i) ==
    /\ asking[i] = "forking"
    /\ \/ /\ slot[i].kind = "host" /\ slot[i].state = "starting"
          /\ slot' = [slot EXCEPT ![i].state = "running"]
          /\ up' = up \cup {i}
          /\ asking' = [asking EXCEPT ![i] = "record"]
       \/ /\ slot' = [slot EXCEPT ![i] = NoSlot]
          /\ asking' = [asking EXCEPT ![i] = "idle"]
          /\ UNCHANGED up
    /\ UNCHANGED <<clock, leadVars, hookVars, nextId, lastSpawn, tail, text, born>>

\* "Only now that the PTY actually exists do we record the spawn."
Record(i) ==
    /\ asking[i] = "record"
    /\ lastSpawn' = clock
    /\ born' = IF i \in up THEN clock ELSE born
    /\ asking' = [asking EXCEPT ![i] = "idle"]
    /\ UNCHANGED <<clock, leadVars, hookVars, slot, nextId, tail, text, up>>

-------------------------------------------------------------------------------
(* Transcripts.                                                            *)

\* create_transcript_session, with a tail of the file.
Transcript(a) ==
    /\ nextId \in Id
    /\ nextId' = nextId + 1
    /\ slot' = [slot EXCEPT ![nextId] = [kind |-> "transcript", state |-> "running",
                                         agent |-> a, killed |-> FALSE, gen |-> 0]]
    /\ tail' = [tail EXCEPT ![nextId] = "tailing"]

\* transcript_append: the slot is still the one the tail was started for.
Current(i) == slot[i].kind = "transcript" /\ slot[i].gen = 0

\* spawn_tail: a chunk, or the end of the thread.
Tail(i) ==
    /\ tail[i] = "tailing"
    /\ \/ /\ Current(i) /\ text[i] < MaxText
          /\ text' = [text EXCEPT ![i] = @ + 1]
          /\ UNCHANGED tail
       \/ /\ ~Current(i)
          /\ tail' = [tail EXCEPT ![i] = "over"]
          /\ UNCHANGED text
    /\ UNCHANGED <<clock, leadVars, hookVars, slot, nextId, asking, lastSpawn, up, born>>

-------------------------------------------------------------------------------
(* Hooks.                                                                  *)

\* decide_transcript_pane: no limit is reached.
MayCreate ==
    /\ Cardinality(Transcripts) < MaxPanes
    /\ Cardinality(Transcripts) < GlobalMaxPanes
    /\ Ordinary + Cardinality(Present) < GridMaxPanes

\* handle_subagent_start: attributed to the lead only while that runs.  A host lead
\* waits for the split-window; any other gets the transcript, once the limits allow it.
SubagentStart(a) ==
    /\ hook[a] = "none"
    /\ IF lead = "running" /\ registered
       THEN /\ pending' = [pending EXCEPT ![a] = clock]
            /\ watcher' = [watcher EXCEPT ![a] = "waiting"]
            /\ hook' = [hook EXCEPT ![a] = "started"]
       ELSE /\ hook' = [hook EXCEPT ![a] =
                   IF lead = "running" /\ MayCreate THEN "create" ELSE "started"]
            /\ UNCHANGED <<pending, watcher>>
    /\ UNCHANGED <<clock, leadVars, slot, nextId, asking, lastSpawn, tail, text, up, born>>

CreateTranscript(a) ==
    /\ hook[a] = "create"
    /\ Transcript(a)
    /\ hook' = [hook EXCEPT ![a] = "started"]
    /\ UNCHANGED <<clock, leadVars, pending, watcher, asking, lastSpawn, text, up, born>>

\* Mutant: stop_transcript_session keeps the generation.
StopKeepsTail(a) ==
    /\ hook[a] = "started"
    /\ hook' = [hook EXCEPT ![a] = "stopped"]
    /\ slot' = [i \in Id |-> IF i \in Transcripts /\ slot[i].agent = a
                             THEN [slot[i] EXCEPT !.state = "exited"] ELSE slot[i]]
    /\ UNCHANGED <<clock, leadVars, pending, watcher, nextId, asking, lastSpawn, tail, text, up, born>>

\* handle_subagent_stop: the transcript of the agent, if there is one by now, becomes
\* exited, and its tail stale.
SubagentStop(a) ==
    /\ hook[a] = "started"
    /\ hook' = [hook EXCEPT ![a] = "stopped"]
    /\ slot' = [i \in Id |-> IF i \in Transcripts /\ slot[i].agent = a
                             THEN [slot[i] EXCEPT !.state = "exited", !.gen = 1] ELSE slot[i]]
    /\ UNCHANGED <<clock, leadVars, pending, watcher, nextId, asking, lastSpawn, tail, text, up, born>>

-------------------------------------------------------------------------------
(* The fallback watcher: watch_for_fallback.                               *)

\* correlate_fallback.
Hosted(a) == lastSpawn # 0 /\ lastSpawn >= pending[a]
Fallback(a) == ~Hosted(a) /\ clock - pending[a] >= Window

\* The window has passed (for a lead that was torn down meanwhile the watcher finds
\* nothing); the entry is cleared whatever the outcome.
Correlate(a) ==
    /\ watcher[a] = "waiting" /\ (pending[a] = 0 \/ clock - pending[a] >= Window)
    /\ pending' = [pending EXCEPT ![a] = 0]
    /\ watcher' = [watcher EXCEPT ![a] =
           IF pending[a] # 0 /\ Fallback(a) THEN "fallback" ELSE "over"]
    /\ UNCHANGED <<clock, leadVars, hook, slot, nextId, asking, lastSpawn, tail, text, up, born>>

\* fallback_to_observe: the transcript, whatever the limits.
FallBack(a) ==
    /\ watcher[a] = "fallback"
    /\ Transcript(a)
    /\ watcher' = [watcher EXCEPT ![a] = "observed"]
    /\ UNCHANGED <<clock, leadVars, pending, hook, asking, lastSpawn, text, up, born>>

-------------------------------------------------------------------------------
(* The monitor of the lead: start_server.                                  *)

\* Mutant: only what is found exited is reported.
EndedExited(seen) == {i \in Hosts : slot[i].state = "exited"}

Ended(seen) ==
    {i \in Hosts : slot[i].state = "exited"} \cup (seen \ Hosts)

Poll ==
    /\ monitor = "polling"
    /\ told' = [i \in Id |-> IF i \in Ended(prev) \ reported THEN told[i] + 1 ELSE told[i]]
    /\ reported' = reported \cup Ended(prev)
    /\ prev' = Hosts
    /\ monitor' = IF lead = "running" THEN "polling" ELSE "tearing down"
    /\ UNCHANGED <<clock, lead, exitsLeft, registered, hookVars, slot, nextId, asking, lastSpawn,
                   tail, text, up, born>>

\* The entry goes with its pending marks, and the server with it; requests that were
\* accepted finish on their own.
TearDown ==
    /\ monitor = "tearing down"
    /\ monitor' = "over" /\ registered' = FALSE
    /\ pending' = [a \in Agent |-> 0]
    /\ UNCHANGED <<clock, lead, exitsLeft, prev, reported, told, hook, watcher, slot, nextId,
                   asking, lastSpawn, tail, text, up, born>>

-------------------------------------------------------------------------------
(* The panes, as far as the host sees them (Sessions).                     *)

LeadExits ==
    /\ lead = "running" /\ exitsLeft > 0
    /\ lead' = "exited" /\ exitsLeft' = exitsLeft - 1
    /\ UNCHANGED <<clock, registered, monitor, prev, reported, told, hookVars, slot, nextId,
                   asking, lastSpawn, tail, text, up, born>>

\* restart_session does not set the host up again.
LeadRestarts ==
    /\ lead = "exited" /\ lead' = "running"
    /\ UNCHANGED <<clock, exitsLeft, registered, monitor, prev, reported, told, hookVars, slot,
                   nextId, asking, lastSpawn, tail, text, up, born>>

\* kill_pty: a live child is signalled, anything else is dropped at once.
ClosePane(i) ==
    /\ i \in Present
    /\ slot' = [slot EXCEPT ![i] = IF slot[i].kind = "host" /\ slot[i].state = "running"
                                   THEN [@ EXCEPT !.killed = TRUE] ELSE NoSlot]
    /\ UNCHANGED <<clock, leadVars, hookVars, nextId, asking, lastSpawn, tail, text, up, born>>

\* The child ends; the reader drops a killed slot and keeps another as exited.
Exit(i) ==
    /\ i \in Hosts /\ slot[i].state = "running"
    /\ slot' = [slot EXCEPT ![i] = IF slot[i].killed THEN NoSlot ELSE [@ EXCEPT !.state = "exited"]]
    /\ UNCHANGED <<clock, leadVars, hookVars, nextId, asking, lastSpawn, tail, text, up, born>>

\* restart_session of the teammate's own pane, from any state: the old reader goes
\* silent, and a kill that was under way is forgotten.
RestartPane(i) ==
    /\ i \in Hosts
    /\ slot' = [slot EXCEPT ![i].state = "restarting", ![i].killed = FALSE]
    /\ UNCHANGED <<clock, leadVars, hookVars, nextId, asking, lastSpawn, tail, text, up, born>>

\* The spawn of the restart that is still current comes up, or leaves the pane exited.
Respawn(i) ==
    /\ i \in Hosts /\ slot[i].state = "restarting"
    /\ \E state \in {"running", "exited"} : slot' = [slot EXCEPT ![i].state = state]
    /\ UNCHANGED <<clock, leadVars, hookVars, nextId, asking, lastSpawn, tail, text, up, born>>

TimePasses ==
    /\ clock < MaxClock /\ clock' = clock + 1
    /\ UNCHANGED <<leadVars, hookVars, slot, nextId, asking, lastSpawn, tail, text, up, born>>

-------------------------------------------------------------------------------
Watchers == \E a \in Agent : Correlate(a) \/ FallBack(a)

Next ==
    \/ SplitWindow
    \/ \E i \in Id : Spawn(i) \/ Record(i) \/ Tail(i) \/ ClosePane(i) \/ Exit(i)
                    \/ RestartPane(i) \/ Respawn(i)
    \/ \E a \in Agent : SubagentStart(a) \/ CreateTranscript(a) \/ SubagentStop(a)
    \/ Watchers
    \/ Poll \/ TearDown
    \/ LeadExits \/ LeadRestarts
    \/ TimePasses

Spec == Init /\ [][Next]_vars

\* The monitor's timer ticks; nothing else has to happen.
FairSpec == Spec /\ WF_vars(Poll \/ TearDown)

-------------------------------------------------------------------------------
(* Properties.                                                             *)

Slot == [kind : {"none", "host", "transcript"},
         state : {"none", "starting", "running", "restarting", "exited"},
         agent : Agent \cup {"none"}, killed : BOOLEAN, gen : {0, 1}]

TypeOK ==
    /\ clock \in 1 .. MaxClock
    /\ lead \in {"running", "exited"} /\ exitsLeft \in 0 .. MaxLeadExits /\ registered \in BOOLEAN
    /\ slot \in [Id -> Slot] /\ nextId \in 1 .. MaxId + 1
    /\ asking \in [Id -> {"idle", "forking", "record"}]
    /\ lastSpawn \in 0 .. MaxClock /\ born \in 0 .. MaxClock /\ up \subseteq Id
    /\ pending \in [Agent -> 0 .. MaxClock]
    /\ hook \in [Agent -> {"none", "create", "started", "stopped"}]
    /\ watcher \in [Agent -> {"none", "waiting", "fallback", "observed", "over"}]
    /\ tail \in [Id -> {"none", "tailing", "over"}]
    /\ monitor \in {"polling", "tearing down", "over"}
    /\ prev \subseteq Id /\ reported \subseteq Id
    /\ text \in [Id -> 0 .. MaxText] /\ told \in [Id -> Nat]

\* A watcher that gives its teammate up as hosted is right that a pane has come: no
\* request that failed leaves "the teammate with neither a host nor an observe pane".
NotGivenUpForNothing ==
    [][\A a \in Agent :
        watcher[a] = "waiting" /\ watcher'[a] = "over" /\ registered => born >= pending[a]]_vars

\* After SubagentStop nothing more is appended to the pane, though its tail may not
\* have noticed yet.
StoppedIsQuiet ==
    [][\A i \in Id : text'[i] # text[i] => slot[i].state = "running"]_vars

Down(i) == i \notin Hosts \/ slot[i].state = "exited"

\* A teammate a poll has seen and that is gone, or stays exited, is reported: unless
\* the lead is over first, or a restart brings the teammate back before the next poll.
ExitTold ==
    \A i \in Id : i \in prev /\ Down(i) ~> i \in reported \/ monitor = "over" \/ ~Down(i)

\* "broadcast teammate exits": whatever becomes of the pane afterwards.
RestartedExitTold ==
    \A i \in Id : i \in prev /\ Down(i) ~> i \in reported \/ monitor = "over"

\* "leaving the teammate with neither a host nor an observe pane": there is a pane for
\* each teammate that was given up as hosted.
PaneForEach ==
    registered => Cardinality({a \in Agent : watcher[a] = "over"}) <= Cardinality(up)

\* A transcript is active until SubagentStop: none is once its agent has stopped.
ActiveUntilStop ==
    \A i \in Transcripts : slot[i].state = "running" => hook[slot[i].agent] # "stopped"

\* "A transcript pane is never created past" the grid.
TranscriptsInGrid ==
    [][\A i \in Id : slot[i].kind = "none" /\ slot'[i].kind = "transcript" =>
        Ordinary + Cardinality(Present) < GridMaxPanes]_vars

\* "context_exited for teammates that exit or are removed": one whose PTY was up and
\* that is gone is reported in the end, unless the lead is over first.
EveryExitTold ==
    \A i \in Id : i \in up /\ i \notin Hosts ~> i \in reported \/ monitor = "over"
=============================================================================
