------------------------------ MODULE Presets ------------------------------
(***************************************************************************)
(* The launch of a team preset (team_presets.rs), by the window and by the *)
(* spawn_team tool at once, on the grid the session manager promises       *)
(* (PaneTable).                                                            *)
(*                                                                         *)
(* start_team takes the members in the order of the declaration.  It looks *)
(* for a live pane of the member's name, counts the grid and opens a pane, *)
(* each under a lock of its own.  Only a call that has started somebody    *)
(* then writes to the durable inbox.                                       *)
(***************************************************************************)
EXTENDS Naturals, FiniteSets

CONSTANTS
    Cell,       \* session ids
    Members,    \* the length of the preset
    Standby,    \* the members that are declared only
    Cap,        \* TEAM_SESSION_CAP
    Call        \* the calls of start_team

ASSUME PresetsAssumption ==
    /\ Cell \subseteq Nat
    /\ Members \in Nat /\ Cap \in Nat \ {0}
    /\ IsFiniteSet(Call)
    /\ Standby \subseteq 1 .. Members

Member == 1 .. Members

VARIABLES
    grid,       \* the status of each pane
    agentOf,    \* the member each pane was opened for
    call,       \* each call: its phase, its member, its pane, its report
    letters     \* the calls that have written to each member, and to the lead

presetVars == <<grid, agentOf, call, letters>>

GridTable == INSTANCE PaneTable WITH Pane <- Cell, status <- grid

Nobody == 0
Kickoff == 0    \* the letter to the lead
MemberStatus == {"unseen", "started", "skipped", "standby", "failed"}
NewCall == [phase |-> "idle", at |-> 1, cells |-> {}, report |-> [m \in Member |-> "unseen"]]

\* Mutant: the cells of panes that have exited count as free.
OccupiedAlive == {c \in Cell : grid[c] \notin {"unopened", "closed", "exited"}}

\* occupied_pane_count: an exited pane keeps its cell.
OccupiedCells == {c \in Cell : grid[c] \notin {"unopened", "closed"}}

\* live_session_id: a pane of that name that has not exited, the closing ones too.
LiveOf(m) == {c \in OccupiedCells : grid[c] # "exited" /\ agentOf[c] = m}

-----------------------------------------------------------------------------
(* A call.                                                                 *)

In(k, phase) == call[k].phase = phase /\ (phase \in {"look", "count"} => call[k].at \in Member)

Goes(k, phase) == call' = [call EXCEPT ![k].phase = phase]

\* The outcome of the member at hand; the next one is looked at.
Reports(k, status) ==
    call' = [call EXCEPT ![k].phase = "look", ![k].at = @ + 1,
                         ![k].report[call[k].at] = status]

StartTeam(k) ==
    /\ In(k, "idle")
    /\ Goes(k, "look")
    /\ UNCHANGED <<grid, agentOf, letters>>

LookFor(k) ==
    /\ In(k, "look")
    /\ LET m == call[k].at IN
       IF m \in Standby THEN Reports(k, "standby")
       ELSE IF LiveOf(m) # {} THEN Reports(k, "skipped")
       ELSE Goes(k, "count")
    /\ UNCHANGED <<grid, agentOf, letters>>

CountGrid(k) ==
    /\ In(k, "count")
    /\ IF Cardinality(OccupiedCells) >= Cap THEN Reports(k, "failed") ELSE Goes(k, "spawn")
    /\ UNCHANGED <<grid, agentOf, letters>>

\* resolve_def refuses a member the configuration no longer defines.
Unresolved(k) ==
    /\ In(k, "spawn")
    /\ Reports(k, "failed")
    /\ UNCHANGED <<grid, agentOf, letters>>

\* spawn_agent up to its slot, and to its end.
Spawn(k) ==
    /\ In(k, "spawn")
    /\ \E c \in Cell :
        /\ \A d \in Cell : grid[d] = "unopened" => c <= d
        /\ GridTable!Open(c)
        /\ agentOf' = [agentOf EXCEPT ![c] = call[k].at]
        /\ call' = [call EXCEPT ![k].phase = "launch", ![k].cells = {c}]
    /\ UNCHANGED letters

Spawned(k) ==
    /\ In(k, "launch")
    /\ \E c \in call[k].cells :
        /\ grid[c] = "starting"
        /\ GridTable!Start(c)
    /\ Reports(k, "started")
    /\ UNCHANGED <<agentOf, letters>>

\* No process, or the slot was killed or restarted meanwhile: it is removed.
NotSpawned(k) ==
    /\ In(k, "launch")
    /\ \E c \in call[k].cells : IF grid[c] = "closed" THEN UNCHANGED grid ELSE GridTable!Closed(c)
    /\ Reports(k, "failed")
    /\ UNCHANGED <<agentOf, letters>>

\* Who is written to, by a call that started anybody.
Addressed(k) ==
    LET report == call[k].report IN
    IF \E m \in Member : report[m] = "started"
    THEN {Kickoff} \cup {m \in Member : report[m] \in {"started", "standby"}} ELSE {}

\* send_inbox, letter by letter; one that is refused is reported and stops nothing.
Deliver(k) ==
    /\ call[k].phase = "look" /\ call[k].at \notin Member
    /\ Goes(k, "done")
    /\ \E sent \in SUBSET Addressed(k) :
        letters' = [m \in DOMAIN letters |-> IF m \in sent THEN letters[m] \cup {k} ELSE letters[m]]
    /\ UNCHANGED <<grid, agentOf>>

-----------------------------------------------------------------------------
\* Processes end and panes are closed and restarted; only a call starts a new one.
GridStep ==
    /\ \E c \in OccupiedCells :
        \/ GridTable!GiveUp(c) \/ GridTable!End(c) \/ GridTable!Close(c) \/ GridTable!Closed(c)
        \/ GridTable!Restart(c)
        \/ grid[c] = "restarting" /\ GridTable!Start(c)
    /\ UNCHANGED <<agentOf, call, letters>>

PresetInit ==
    /\ GridTable!Init
    /\ agentOf = [c \in Cell |-> Nobody]
    /\ call = [k \in Call |-> NewCall]
    /\ letters = [m \in Member \cup {Kickoff} |-> {}]

CallStep(k) ==
    \/ StartTeam(k) \/ LookFor(k) \/ CountGrid(k) \/ Unresolved(k) \/ Spawn(k) \/ Spawned(k)
    \/ NotSpawned(k) \/ Deliver(k)

PresetNext == GridStep \/ \E k \in Call : CallStep(k)

PresetSpec == PresetInit /\ [][PresetNext]_presetVars

-----------------------------------------------------------------------------
(* Properties.                                                             *)

\* The count and the opening are two steps, yet each call oversteps the grid by one
\* pane at most: there are never more panes, the exited ones included (A-7), than the
\* cap and one for every other call.
OvershootBounded ==
    Cardinality({c \in Cell : grid[c] \notin {"unopened", "closed"}}) <= Cap + Cardinality(Call) - 1

\* "a member already alive is skipped instead of duplicated, so clicking repeatedly is
\* safe": no two live panes of one member.
NoDuplicates == \A m \in Member : Cardinality(LiveOf(m)) <= 1
=============================================================================
