------------------------------- MODULE Workflow -------------------------------
(***************************************************************************)
(* The DAG driver of orchestrator.rs and the threads it runs against.      *)
(*                                                                         *)
(* The driver thread advances one run at a time.  A tick clones the run    *)
(* out of the registry, takes its passes over the clone in a fixed order,  *)
(* and puts the clone back at the end: no lock is held in between, so      *)
(* every pass is an action of its own and everything else may happen       *)
(* between two of them.  The command thread launches a run                 *)
(* (spawn_workflow) and cancels one (cancel_workflow) the same way.  Panes *)
(* belong to the session manager, the Done marks to StatusView, replies to *)
(* the inbox store: they change under the driver's feet.                   *)
(***************************************************************************)
EXTENDS WorkflowDef, Sequences

CONSTANTS
    Run,            \* run ids, 1 .. n
    Cap,            \* WORKFLOW_SESSION_CAP
    MaxForeign,     \* bound: panes opened by somebody else than a run
    SpawnFails,     \* the steps whose agent may fail to start
    KickoffFails,   \* the steps whose kickoff the store may refuse
    SemanticDone,   \* whether agents announce Done
    Operator,       \* what the operator does: "tidy" exited panes, "close" any,
                    \* "restart" one
    Cancels         \* whether the operator cancels runs

ASSUME RunAssumption == Run \subseteq Nat \ {0} /\ Cap \in Nat
ASSUME EnvironmentAssumption ==
    /\ MaxForeign \in Nat
    /\ SpawnFails \subseteq Step
    /\ KickoffFails \subseteq Step
    /\ {SemanticDone, Cancels} \subseteq BOOLEAN
    /\ Operator \subseteq {"tidy", "close", "restart"}

VARIABLES
    reg,        \* WorkflowRegistry
    pane,       \* every pane ever opened, its id is its position
    done,       \* the panes whose last status in StatusView is Done
    mail,       \* the kickoff thread of each copy in the inbox store
    notified,   \* how often the notification layer was told of each step or run
    pc, cur, loc, changed, due, over, todo, budget, claimed,  \* the driver's tick
    launch,     \* spawn_workflow in progress
    snap        \* cancel_workflow in progress

driver == <<pc, cur, loc, changed, due, over, todo, budget, claimed>>
vars == <<reg, pane, done, mail, notified, driver, launch, snap>>

NoRun == 0
NoRows == [c \in Copy |-> NoRow]
RunItself == <<0, 0>>           \* a notification about the run, not a step
AgentName == {Agent[s] : s \in Step}
Pass == {"idle", "reply", "detect", "timeout", "straggle", "budget", "retry",
         "decide", "spawn", "finish"}

Init ==
    /\ reg = [r \in Run |-> [state |-> "absent", rows |-> NoRows]]
    /\ pane = << >>
    /\ done = {}
    /\ mail = [r \in Run |-> [c \in Copy |-> "closed"]]
    /\ notified = [r \in Run |-> [x \in Copy \cup {RunItself} |-> 0]]
    /\ pc = "idle" /\ cur = NoRun /\ loc = NoRows /\ changed = FALSE
    /\ due = {} /\ over = {} /\ todo = {} /\ budget = 0 /\ claimed = {}
    /\ launch = [run |-> NoRun, rows |-> NoRows, todo |-> {},
                 budget |-> 0, claimed |-> {}]
    /\ snap = [run |-> NoRun, rows |-> NoRows]

-----------------------------------------------------------------------------
(* The grid.                                                               *)

Live == {"live", "dying"}           \* a process is attached; dying: signalled
Panes == DOMAIN pane
Occupied == Cardinality({p \in Panes : pane[p].st # "gone"})

\* pane_budget: the cells that are free.
PaneBudget == IF Occupied < Cap THEN Cap - Occupied ELSE 0

NewPane(agent, foreign) == [st |-> "live", agent |-> agent, foreign |-> foreign]

\* kill_pty: a live child is signalled and reaped later, a dead slot goes now.
Kill(panes) ==
    [p \in Panes |->
        IF p \notin panes THEN pane[p]
        ELSE [pane[p] EXCEPT !.st = IF @ \in Live THEN "dying" ELSE "gone"]]

SetPane(p, st) == [pane EXCEPT ![p].st = st]

\* adoptable_session_id: a pane of that name that has not exited.
Adoptable(agent, taken) ==
    {p \in Panes : /\ pane[p].st \in Live
                   /\ pane[p].agent = agent
                   /\ p \notin taken}

AgentClaimedByOtherStep(rows, s) ==
    \E c \in Copy : /\ HoldsPane(rows[c])
                    /\ c[1] # s
                    /\ Agent[c[1]] = Agent[s]

\* adoptable_session: the pane step s takes over, 0 when it opens its own.
Reusable(rows, s, taken) ==
    LET found == Adoptable(Agent[s], taken)
    IN  IF Fan[s] # 1 \/ AgentClaimedByOtherStep(rows, s) \/ found = {}
        THEN 0
        ELSE CHOOSE p \in found : \A q \in found : p <= q

SlotsNeeded(rows, s, taken) ==
    IF Reusable(rows, s, taken) # 0 THEN 0 ELSE Fan[s]

PanesClaimedByOtherRuns(r) ==
    {p \in Panes : \E q \in Run \ {r}, c \in Copy :
        /\ reg[q].state = "running"
        /\ HoldsPane(reg[q].rows[c])
        /\ reg[q].rows[c].session = p}

-----------------------------------------------------------------------------
(* Spawning one step's copies, for the driver and for spawn_workflow.      *)

First(copies) ==
    CHOOSE c \in copies : \A d \in copies :
        c[1] < d[1] \/ (c[1] = d[1] /\ c[2] <= d[2])

\* The copies of a batch for which something that may fail succeeded.
Successes(copies, unreliable) == IF unreliable THEN SUBSET copies ELSE {copies}

\* The pane a copy runs in: the adopted one, or the next free id.
PaneFor(c, reused, up) ==
    IF reused # 0 THEN reused
    ELSE IF c \in up
         THEN Len(pane) + Cardinality({d \in up : d[2] <= c[2]})
         ELSE 0

SpawnStep(rows, s, reused, up, sent) ==
    [c \in Copy |->
        IF c[1] = s
        THEN AttemptRow(s, PaneFor(c, reused, up), s \in Kickoff /\ c \in sent, 1)
        ELSE rows[c]]

OpenedPanes(s, reused, up) ==
    IF reused # 0 THEN pane
    ELSE pane \o [i \in 1 .. Cardinality(up) |-> NewPane(Agent[s], FALSE)]

\* deliver_kickoff: the copies' threads, fresh ones replacing older ones.
Delivered(r, copies, rows) ==
    [mail EXCEPT ![r] =
        [c \in Copy |-> IF c \notin copies THEN mail[r][c]
                        ELSE IF rows[c].thread THEN "open" ELSE "closed"]]

-----------------------------------------------------------------------------
(* The driver: advance_run, one action per pass.                           *)

\* The rows with a timeout or a retry backoff running.
Timed(r) ==
    {c \in Copy : \/ reg[r].rows[c].state = "running" /\ c[1] \in Timeout
                  \/ reg[r].rows[c].state = "failed" /\ reg[r].rows[c].armed}
\* Mutant: the wait of a retry for a pane has no limit.
QueuedPending(r) ==
    {c \in Copy : reg[r].rows[c].waiting /\ reg[r].rows[c].state = "pending"}

\* The rows that wait for a pane.
Queued(r) == {c \in Copy : reg[r].rows[c].waiting}

\* Load the run and sample the clock: d is the set of rows whose timeout or
\* retry backoff has elapsed by now, o of those that waited too long for a pane.
TickBegin(r, d, o) ==
    /\ pc = "idle"
    /\ reg[r].state = "running"
    /\ pc' = "reply" /\ cur' = r /\ loc' = reg[r].rows /\ changed' = FALSE
    /\ due' = d /\ over' = o
    /\ UNCHANGED <<reg, pane, done, mail, notified, todo, budget, claimed,
                   launch, snap>>

Tick(r) == \E d \in SUBSET Timed(r), o \in SUBSET Queued(r) : TickBegin(r, d, o)

\* detect_reply_completions: an answered kickoff is recorded on its row, and
\* completes a joinOn: reply step.
DetectReplyCompletions ==
    /\ pc = "reply"
    /\ LET answered == {c \in Copy : /\ loc[c].state = "running"
                                     /\ loc[c].thread
                                     /\ mail[cur][c] \in {"match", "other"}}
           finished == {c \in answered : c[1] \in ReplyJoin}
       IN  /\ loc' = [c \in Copy |->
                 IF c \in finished
                 THEN [loc[c] EXCEPT !.state = "succeeded",
                                     !.reply = mail[cur][c], !.armed = FALSE]
                 ELSE IF c \in answered
                 THEN [loc[c] EXCEPT !.reply = mail[cur][c]]
                 ELSE loc[c]]
           /\ mail' = [mail EXCEPT ![cur] = [c \in Copy |->
                 IF c \in finished THEN "closed"
                 ELSE IF c \in answered THEN "open" ELSE mail[cur][c]]]
           /\ done' = done \ {loc[c].session : c \in finished}
           /\ changed' = (changed \/ answered # {})
    /\ pc' = "detect"
    /\ UNCHANGED <<reg, pane, notified, cur, due, over, todo, budget, claimed,
                   launch, snap>>

\* detect_completions: a Done mark first, the exit of the process second.
DetectCompletions ==
    /\ pc = "detect"
    /\ LET watched == {c \in Copy : loc[c].state = "running" /\ loc[c].session # 0}
           \* The first row to see a Done mark forgets it.
           announced == {c \in watched :
               /\ loc[c].session \in done
               /\ c = First({d \in watched : loc[d].session = loc[c].session})}
           ended(c) == pane[loc[c].session].st
           won == announced \cup {c \in watched : ended(c) = "ok"}
           lost == {c \in watched \ won : ended(c) \in {"bad", "gone"}}
       IN  /\ loc' = [c \in Copy |->
                 IF c \in won THEN [loc[c] EXCEPT !.state = "succeeded"]
                 ELSE IF c \in lost THEN [loc[c] EXCEPT !.state = "failed"]
                 ELSE loc[c]]
           /\ done' = done \ {loc[c].session : c \in won \cup lost}
           /\ changed' = (changed \/ won \cup lost # {})
    /\ pc' = "timeout"
    /\ UNCHANGED <<reg, pane, mail, notified, cur, due, over, todo, budget,
                   claimed, launch, snap>>

CheckTimeouts ==
    /\ pc = "timeout"
    /\ LET late == {c \in due : loc[c].state = "running" /\ c[1] \in Timeout}
           panes == {loc[c].session : c \in late} \ {0}
       IN  /\ loc' = [c \in Copy |->
                 IF c \in late
                 THEN [loc[c] EXCEPT !.state = "failed", !.session = 0]
                 ELSE loc[c]]
           /\ pane' = Kill(panes)
           /\ done' = done \ panes
           /\ changed' = (changed \/ late # {})
    /\ pc' = "straggle"
    /\ UNCHANGED <<reg, mail, notified, cur, due, over, todo, budget, claimed,
                   launch, snap>>

CancelStragglers ==
    /\ pc = "straggle"
    /\ LET losers == {c \in Copy : /\ Quota[c[1]] > 0
                                   /\ DepSatisfied(loc, c[1])
                                   /\ loc[c].state \in {"running", "failed"}}
           panes == {loc[c].session :
                        c \in {d \in losers : loc[d].state = "running"}} \ {0}
       IN  /\ loc' = [c \in Copy |->
                 IF c \notin losers THEN loc[c]
                 ELSE [loc[c] EXCEPT !.state = "cancelled", !.armed = FALSE,
                          !.waiting = FALSE,
                          !.session = IF loc[c].state = "running" THEN 0 ELSE @]]
           /\ pane' = Kill(panes)
           /\ done' = done \ panes
           /\ changed' = (changed \/ losers # {})
    /\ pc' = "budget"
    /\ UNCHANGED <<reg, mail, notified, cur, due, over, todo, budget, claimed,
                   launch, snap>>

\* fire_due_retries reads the grid once, then takes the due rows in order.
FireDueRetries ==
    /\ pc = "budget"
    /\ budget' = PaneBudget
    /\ todo' = {c \in due : loc[c].state = "failed" /\ loc[c].armed}
    /\ pc' = "retry"
    /\ UNCHANGED <<reg, pane, done, mail, notified, cur, loc, changed, due, over,
                   claimed, launch, snap>>

\* restart_session succeeded: the same pane, a new attempt, a new thread.
RestartInPlace ==
    /\ pc = "retry" /\ todo # {}
    /\ LET c == First(todo)
           p == loc[c].session
       IN  /\ p \in Panes
           /\ pane[p].st # "gone"
           /\ \E sent \in Successes({c}, c[1] \in KickoffFails) :
                 loc' = [loc EXCEPT ![c] =
                     [AttemptRow(c[1], p, c[1] \in Kickoff /\ c \in sent,
                                 loc[c].attempts + 1)
                      EXCEPT !.escalated = loc[c].escalated]]
           /\ pane' = SetPane(p, "live")
           /\ mail' = Delivered(cur, {c}, loc')
           /\ done' = done \ {p}
           /\ todo' = todo \ {c}
    /\ changed' = TRUE
    /\ UNCHANGED <<reg, notified, pc, cur, due, over, budget, claimed, launch, snap>>

\* The panes after copy c could not be restarted in place: it had no slot to
\* restart, or the restart failed and left its slot exited.
AfterNoRestart(c) ==
    LET p == loc[c].session
    IN  IF p \notin Panes THEN {pane}
        ELSE IF pane[p].st = "gone" THEN {pane}
        ELSE IF c[1] \in SpawnFails THEN {SetPane(p, "bad")} ELSE {}

\* respawn_fresh: a new pane, never an adopted one.
RespawnFresh ==
    /\ pc = "retry" /\ todo # {}
    /\ budget > 0
    /\ LET c == First(todo)
       IN  /\ \E panes \in AfterNoRestart(c),
                 up \in Successes({c}, c[1] \in SpawnFails),
                 sent \in Successes({c}, c[1] \in KickoffFails) :
                 /\ loc' = [loc EXCEPT ![c] =
                        AttemptRow(c[1], PaneFor(c, 0, up),
                                   c[1] \in Kickoff /\ c \in sent,
                                   loc[c].attempts + 1)]
                 /\ pane' = IF up = {} THEN panes
                            ELSE Append(panes, NewPane(Agent[c[1]], FALSE))
           /\ mail' = Delivered(cur, {c}, loc')
           /\ done' = done \ {loc[c].session}
           /\ todo' = todo \ {c}
    /\ budget' = budget - 1
    /\ changed' = TRUE
    /\ UNCHANGED <<reg, notified, pc, cur, due, over, claimed, launch, snap>>

\* postpone_retry: no slot.  The wait is not an attempt, giving it up is one.
PostponeRetry ==
    /\ pc = "retry" /\ todo # {}
    /\ budget = 0
    /\ LET c == First(todo)
       IN  /\ pane' \in AfterNoRestart(c)
           /\ loc' = [loc EXCEPT ![c] =
                  IF c \in over
                  THEN [loc[c] EXCEPT !.armed = FALSE, !.waiting = FALSE,
                                      !.attempts = @ + 1]
                  ELSE [loc[c] EXCEPT !.waiting = TRUE]]
           /\ changed' = (changed \/ c \in over \/ ~loc[c].waiting)
           /\ done' = done \ {loc[c].session}
           /\ todo' = todo \ {c}
    /\ UNCHANGED <<reg, mail, notified, pc, cur, due, over, budget, claimed,
                   launch, snap>>

\* The passes over the rows alone, then what spawn_ready reads before its loop.
DecidePasses ==
    /\ pc = "retry" /\ todo = {}
    /\ loc' = Decide(loc)
    /\ changed' = (changed \/ loc' # loc)
    /\ claimed' = PanesClaimedByOtherRuns(cur)
    /\ budget' = PaneBudget
    /\ todo' = {Placeholder(s) : s \in ReadySteps(loc')}
    /\ pc' = "spawn"
    /\ UNCHANGED <<reg, pane, done, mail, notified, cur, due, over, launch, snap>>

\* spawn_ready on a step that fits: every copy of it, or the pane it adopts.
SpawnReady ==
    /\ pc = "spawn" /\ todo # {}
    /\ LET s == First(todo)[1]
           reused == Reusable(loc, s, claimed)
       IN  /\ SlotsNeeded(loc, s, claimed) <= budget
           /\ \E up \in Successes(Copies(s), s \in SpawnFails),
                 sent \in Successes(Copies(s), s \in KickoffFails) :
                 /\ loc' = SpawnStep(loc, s, reused, up, sent)
                 /\ pane' = OpenedPanes(s, reused, up)
           /\ mail' = Delivered(cur, Copies(s), loc')
           /\ budget' = budget - SlotsNeeded(loc, s, claimed)
           /\ todo' = todo \ Copies(s)
    /\ changed' = TRUE
    /\ UNCHANGED <<reg, done, notified, pc, cur, due, over, claimed, launch, snap>>

\* defer_step on a step that does not: it waits, and in the end is given up.
DeferStep ==
    /\ pc = "spawn" /\ todo # {}
    /\ LET s == First(todo)[1]
           c == Placeholder(s)
       IN  /\ SlotsNeeded(loc, s, claimed) > budget
           /\ loc' = [loc EXCEPT ![c] =
                 IF c \in over
                 THEN [loc[c] EXCEPT !.state = "failed", !.waiting = FALSE,
                                     !.attempts = 1]
                 ELSE [loc[c] EXCEPT !.waiting = TRUE]]
           \* A wait already on record is news again when its text changes,
           \* that is when the occupancy it quotes does.
           /\ changed' \in {changed \/ c \in over \/ ~loc[c].waiting, TRUE}
           /\ todo' = todo \ {c}
    /\ UNCHANGED <<reg, pane, done, mail, notified, pc, cur, due, over, budget,
                   claimed, launch, snap>>

\* What run r's end, or a step of it, hands to the notification layer.
Notify(r, what) ==
    [notified EXCEPT ![r] = [x \in DOMAIN @ |->
        IF x \in what THEN notified[r][x] + 1 ELSE notified[r][x]]]

\* The second arming pass, the escalations, the verdict and the write-back.
Finish ==
    /\ pc = "spawn" /\ todo = {}
    /\ LET armed == ArmRetryBackoff(loc)
           exhausted == Exhausted(armed)
           rows == MarkEscalated(armed, exhausted)
           state == FinalizeState(rows)
           silent == \A c \in Copy : ~rows[c].escalated
       IN  /\ reg' = IF changed \/ rows # loc \/ state # "running"
                     THEN [reg EXCEPT ![cur] = [state |-> state, rows |-> rows]]
                     ELSE reg
           /\ notified' = Notify(cur, exhausted \cup
                 IF state = "failed" /\ silent THEN {RunItself} ELSE {})
           \* retire_run_kickoffs
           /\ mail' = IF state = "running" THEN mail
                      ELSE [mail EXCEPT ![cur] = [c \in Copy |-> "closed"]]
    /\ pc' = "idle" /\ cur' = NoRun /\ loc' = NoRows /\ changed' = FALSE
    /\ due' = {} /\ over' = {} /\ budget' = 0 /\ claimed' = {}
    /\ UNCHANGED <<pane, done, todo, launch, snap>>

DriverStep ==
    \/ DetectReplyCompletions \/ DetectCompletions \/ CheckTimeouts
    \/ CancelStragglers \/ FireDueRetries \/ RestartInPlace \/ RespawnFresh
    \/ PostponeRetry \/ DecidePasses \/ SpawnReady \/ DeferStep \/ Finish

-----------------------------------------------------------------------------
(* The command thread: spawn_workflow and cancel_workflow.                 *)

RootSteps == {s \in Step : Deps[s] = {}}

LaunchBegin(r) ==
    /\ launch.run = NoRun
    /\ reg[r].state = "absent"
    /\ launch' = [run |-> r,
                  rows |-> [c \in Copy |->
                      IF c = Placeholder(c[1]) /\ c[1] \notin RootSteps
                      THEN PendingRow ELSE NoRow],
                  todo |-> {Placeholder(s) : s \in RootSteps},
                  budget |-> PaneBudget,
                  claimed |-> PanesClaimedByOtherRuns(r)]
    /\ UNCHANGED <<reg, pane, done, mail, notified, driver, snap>>

LaunchRoot ==
    /\ launch.todo # {}
    /\ LET s == First(launch.todo)[1]
           reused == Reusable(launch.rows, s, launch.claimed)
           needed == SlotsNeeded(launch.rows, s, launch.claimed)
       IN  /\ needed <= launch.budget
           /\ \E up \in Successes(Copies(s), s \in SpawnFails),
                 sent \in Successes(Copies(s), s \in KickoffFails) :
                 /\ launch' = [launch EXCEPT
                        !.rows = SpawnStep(launch.rows, s, reused, up, sent),
                        !.todo = @ \ Copies(s), !.budget = @ - needed]
                 /\ pane' = OpenedPanes(s, reused, up)
           /\ mail' = Delivered(launch.run, Copies(s), launch'.rows)
    /\ UNCHANGED <<reg, done, notified, driver, snap>>

LaunchDeferred ==
    /\ launch.todo # {}
    /\ LET s == First(launch.todo)[1]
       IN  /\ SlotsNeeded(launch.rows, s, launch.claimed) > launch.budget
           /\ launch' = [launch EXCEPT
                  !.rows[Placeholder(s)] = [PendingRow EXCEPT !.waiting = TRUE],
                  !.todo = @ \ {Placeholder(s)}]
    /\ UNCHANGED <<reg, pane, done, mail, notified, driver, snap>>

LaunchEnd ==
    /\ launch.run # NoRun /\ launch.todo = {}
    /\ LET state == IF \E c \in Copy :
                          launch.rows[c].state \in {"running", "pending"}
                    THEN "running" ELSE "failed"
       IN  /\ reg' = [reg EXCEPT ![launch.run] =
                         [state |-> state, rows |-> launch.rows]]
           /\ notified' = Notify(launch.run, IF state = "failed"
                                             THEN {RunItself} ELSE {})
    /\ launch' = [run |-> NoRun, rows |-> NoRows, todo |-> {},
                  budget |-> 0, claimed |-> {}]
    /\ UNCHANGED <<pane, done, mail, driver, snap>>

CancelRead(r) ==
    /\ Cancels
    /\ snap.run = NoRun
    /\ reg[r].state = "running"
    /\ snap' = [run |-> r, rows |-> reg[r].rows]
    /\ UNCHANGED <<reg, pane, done, mail, notified, driver, launch>>

CancelWrite ==
    /\ snap.run # NoRun
    /\ LET running == {c \in Copy : snap.rows[c].state = "running"}
           pending == {c \in Copy : snap.rows[c].state = "pending"}
       IN  /\ reg' = [reg EXCEPT ![snap.run] =
                 [state |-> "cancelled",
                  rows |-> [c \in Copy |->
                      IF c \in running \cup pending
                      THEN [snap.rows[c] EXCEPT !.state = "cancelled",
                                                !.waiting = FALSE]
                      ELSE snap.rows[c]]]]
           /\ pane' = Kill({snap.rows[c].session : c \in running} \ {0})
    /\ mail' = [mail EXCEPT ![snap.run] = [c \in Copy |-> "closed"]]
    /\ snap' = [run |-> NoRun, rows |-> NoRows]
    /\ UNCHANGED <<done, notified, driver, launch>>

-----------------------------------------------------------------------------
(* The environment: agents, the operator, the session manager's threads.   *)

\* The process of a live pane ends (no autorestart takes over, or it gave up).
Exit(p, st) ==
    /\ pane[p].st = "live"
    /\ pane' = SetPane(p, st)
    /\ UNCHANGED <<reg, done, mail, notified, driver, launch, snap>>

\* The reader thread reaps a killed child and drops the slot.
Reap(p) ==
    /\ pane[p].st = "dying"
    /\ pane' = SetPane(p, "gone")
    /\ UNCHANGED <<reg, done, mail, notified, driver, launch, snap>>

\* An agent-status event reaches the listener: Done, or anything else.
AgentStatus(p, isDone) ==
    /\ SemanticDone
    /\ pane[p].st \in Live
    /\ done' = IF isDone THEN done \cup {p} ELSE done \ {p}
    /\ UNCHANGED <<reg, pane, mail, notified, driver, launch, snap>>

\* reply_inbox on a kickoff thread.
Reply(r, c, body) ==
    /\ mail[r][c] = "open"
    /\ mail' = [mail EXCEPT ![r][c] = body]
    /\ UNCHANGED <<reg, pane, done, notified, driver, launch, snap>>

ClosePane(p) ==
    /\ \/ "close" \in Operator /\ pane[p].st = "live"
       \/ Operator \cap {"tidy", "close"} # {} /\ pane[p].st \in {"ok", "bad"}
    /\ pane' = Kill({p})
    /\ UNCHANGED <<reg, done, mail, notified, driver, launch, snap>>

RestartPane(p) ==
    /\ "restart" \in Operator
    /\ pane[p].st \notin {"gone", "live"}
    /\ pane' = SetPane(p, "live")
    /\ UNCHANGED <<reg, done, mail, notified, driver, launch, snap>>

OpenPane(agent) ==
    /\ Cardinality({p \in Panes : pane[p].foreign}) < MaxForeign
    /\ pane' = Append(pane, NewPane(agent, TRUE))
    /\ UNCHANGED <<reg, done, mail, notified, driver, launch, snap>>

Environment ==
    \/ \E p \in Panes :
          \/ \E st \in {"ok", "bad"} : Exit(p, st)
          \/ Reap(p)
          \/ \E isDone \in BOOLEAN : AgentStatus(p, isDone)
          \/ ClosePane(p)
          \/ RestartPane(p)
    \/ \E r \in Run, c \in Copy, body \in {"match", "other"} : Reply(r, c, body)
    \/ \E agent \in AgentName : OpenPane(agent)

Next ==
    \/ \E r \in Run : Tick(r) \/ LaunchBegin(r) \/ CancelRead(r)
    \/ DriverStep
    \/ LaunchRoot \/ LaunchDeferred \/ LaunchEnd
    \/ CancelWrite
    \/ Environment

Spec == Init /\ [][Next]_vars

\* A tick of run r by which every clock running for copy c has elapsed.
TickPast(r, c) ==
    \E d \in SUBSET Timed(r), o \in SUBSET Queued(r) :
        /\ {c} \cap Timed(r) \subseteq d
        /\ {c} \cap Queued(r) \subseteq o
        /\ TickBegin(r, d, o)

\* The driver loops for the life of the app over every active run, and a tick
\* comes when a deadline or a wait that is not reset has passed; spawn_workflow
\* runs to its end.  Nothing is assumed of the agents, the operator or the reaper.
FairSpec ==
    /\ Spec
    /\ WF_vars(DriverStep)
    /\ WF_vars(LaunchRoot \/ LaunchDeferred \/ LaunchEnd)
    /\ \A r \in Run, c \in Copy : SF_vars(TickPast(r, c))

-----------------------------------------------------------------------------
(* Properties.                                                             *)

Rows == [Copy -> Row]
RunState == {"absent", "running", "succeeded", "failed", "cancelled"}
Ended == {"succeeded", "failed", "cancelled"}

TypeOK ==
    /\ reg \in [Run -> [state : RunState, rows : Rows]]
    /\ pane \in Seq([st : {"live", "dying", "ok", "bad", "gone"},
                     agent : AgentName, foreign : BOOLEAN])
    /\ done \subseteq Nat
    /\ mail \in [Run -> [Copy -> {"closed", "open", "match", "other"}]]
    /\ notified \in [Run -> [Copy \cup {RunItself} -> Nat]]
    /\ pc \in Pass
    /\ cur \in Run \cup {NoRun}
    /\ pc # "idle" => cur \in Run
    /\ loc \in Rows
    /\ changed \in BOOLEAN
    /\ due \subseteq Copy /\ over \subseteq Copy /\ todo \subseteq Copy
    /\ budget \in Nat
    /\ claimed \subseteq Nat
    /\ launch \in [run : Run \cup {NoRun}, rows : Rows, todo : SUBSET Copy,
                   budget : Nat, claimed : SUBSET Nat]
    /\ launch.run = NoRun => launch.todo = {}
    /\ snap \in [run : Run \cup {NoRun}, rows : Rows]

\* Every copy of a run's rows that is somewhere in memory.
Clones == {reg[r].rows : r \in Run} \cup {loc, launch.rows, snap.rows}

\* No step is ever attempted before every dependency's join is satisfied and,
\* for a condition step, before the upstream reply matched: whatever the order
\* of replies, exits, timeouts, retries and cancels, and in every stale clone.
NoEarlyStart ==
    \A rows \in Clones : \A c \in Copy :
        rows[c].attempts > 0 =>
            /\ DepsSatisfied(rows, c[1])
            /\ c[1] \in Condition =>
                  \A d \in Deps[c[1]] : rows[Placeholder(d)].reply = "match"

\* A step is attempted at most retry.max + 1 times, through restarts in place,
\* fresh respawns, given-up waits and stale clones, and a backoff is armed only
\* on a failed attempt with budget left.
RowWithinBudget(s, row) ==
    /\ row.attempts <= RetryMax[s] + 1
    /\ row.armed => /\ row.state = "failed"
                    /\ 0 < row.attempts
                    /\ row.attempts <= RetryMax[s]
RetryBudget ==
    \A rows \in Clones : \A c \in Copy : RowWithinBudget(c[1], rows[c])

\* A fan-out takes its panes all or nothing: once a copy has been in a pane,
\* every copy of the step has its row (spawn_ready, invariant 1).
FanAllOrNothing ==
    \A rows \in Clones : \A s \in Step :
        (\E c \in Copies(s) : rows[c].thread \/ rows[c].session # 0)
            => Present(rows, s) = Copies(s)

\* Two steps of a run that are running, or will restart in place, never hold
\* the same pane (agent_claimed_by_other_step, holds_a_pane).
OneOwner ==
    \A rows \in Clones : \A c, d \in Copy :
        /\ c # d
        /\ HoldsPane(rows[c]) /\ HoldsPane(rows[d])
        /\ rows[c].session # 0
        => rows[c].session # rows[d].session

\* A step is skipped only because its own condition declined it or because an
\* upstream join can no longer be satisfied, and that verdict never turns:
\* failfast_targets never gives up on a step that could still have run.
DeclinedByCondition(rows) ==
    {s \in Condition : /\ rows[Placeholder(s)].state = "skipped"
                       /\ DepsSatisfied(rows, s)}
SkipJustified ==
    \A rows \in Clones : \A c \in Copy :
        rows[c].state = "skipped" =>
            \/ c[1] \in DeclinedByCondition(rows)
            \/ \E d \in Upstream[c[1]] : DepUnsatisfiable(rows, d)

\* The colour of a finished run: green exactly when every step's join is
\* satisfied, except for the steps a condition declined and what hangs on them
\* (finalize_state and mod verdict, against a definition without their recursion).
VerdictExact ==
    \A r \in Run : LET rows == reg[r].rows
                        declined == DeclinedByCondition(rows)
                    IN  reg[r].state \in {"succeeded", "failed"} =>
        (reg[r].state = "succeeded" <=>
            \A s \in Step : \/ DepSatisfied(rows, s)
                             \/ ({s} \cup Upstream[s]) \cap declined # {})

\* A run that failed spent every retry its failed steps declared.
RetriesSpent ==
    \A r \in Run : reg[r].state = "failed" =>
        \A c \in Copy : reg[r].rows[c].state = "failed" =>
            ~RetryAllowed(c[1], reg[r].rows[c].attempts) \/ reg[r].rows[c].attempts = 0

\* A failed run is announced, nothing is announced twice, and a run is not
\* announced on top of one of its steps (take_escalations, run_failure_escalation).
ToldOnce ==
    \A r \in Run :
        /\ \A x \in DOMAIN notified[r] : notified[r][x] <= 1
        /\ notified[r][RunItself] > 0 => \A c \in Copy : notified[r][c] = 0
        /\ reg[r].state = "failed" => \E x \in DOMAIN notified[r] : notified[r][x] > 0

\* As the registry shows it, a step that has ended otherwise than by failing
\* stays as it is, attempts are never forgotten, and an armed retry is lost only
\* to the attempt it stands for or to a join decided without it.
RowsAdvance ==
    [][\A r \in Run, c \in Copy :
          LET old == reg[r].rows[c]
              new == reg'[r].rows[c]
          IN  /\ new.attempts >= old.attempts
              /\ old.state \in {"succeeded", "skipped", "cancelled"}
                    => new.state = old.state
              /\ old.armed /\ ~new.armed
                    => new.attempts > old.attempts \/ new.state = "cancelled"]_vars

\* A run reaches an end once: what persist_run's callers and the schedule
\* counters rely on.
TerminalOnce ==
    [][\A r \in Run : reg[r].state \in Ended => reg'[r].state = reg[r].state]_vars

\* A step takes over a pane only while the pane is alive (pane_budget).
AdoptsLivePane ==
    [][\A c \in Copy :
          (loc'[c].state = "running" /\ loc[c].state = "pending"
              /\ loc'[c].session \in Panes)
          => pane[loc'[c].session].st = "live"]_vars

\* A step that takes over a pane does not inherit the Done mark of the step
\* that used it before (StatusView::forget).
NoInheritedDone ==
    [][\A c \in Copy :
          (loc'[c].state = "running" /\ loc[c].state = "pending")
          => loc'[c].session \notin done]_vars

\* Two live runs never hold the same pane (panes_claimed_by_other_runs).
RunsApart ==
    \A q, r \in Run : \A c, d \in Copy :
        /\ q # r /\ reg[q].state = "running" /\ reg[r].state = "running"
        /\ HoldsPane(reg[q].rows[c]) /\ HoldsPane(reg[r].rows[d])
        /\ reg[q].rows[c].session # 0
        => reg[q].rows[c].session # reg[r].rows[d].session

\* Every run ends, provided its steps declare a timeout: however long the
\* grid stays full, whatever fails to start and whoever never answers.
Termination == \A r \in Run : reg[r].state = "running" ~> reg[r].state \in Ended
=============================================================================
