------------------------------- MODULE Recovery -------------------------------
(***************************************************************************)
(* The workflow driver with the workflow_runs table behind it: every       *)
(* registry.put is followed by a persist_run of the same snapshot, in the  *)
(* same thread but with nothing held in between; the application may stop  *)
(* anywhere; load_config offers the rows the table calls running; and the  *)
(* operator resumes or discards them (resume_workflow, abandon_workflow).  *)
(*                                                                         *)
(* Panes, Done marks and the registry die with the application, and so do  *)
(* the fields of a row that are not serialized.  The inbox and the table   *)
(* survive.  Pane ids start again at one.                                  *)
(***************************************************************************)
EXTENDS Workflow

CONSTANTS
    Handoff,    \* handoffTo of each step, 0 for none
    Discards,   \* whether the operator discards offered runs
    MaxCrash    \* bound: restarts of the application

\* Modelled are workflows in which the target of a handoff declares a kickoff of
\* its own; config.rs rejects a fan-out source.
ASSUME RecoveryAssumption ==
    /\ Handoff \in [Step -> Step \cup {0}]
    /\ \A s \in Step : Handoff[s] # 0 => Fan[s] = 1 /\ Handoff[s] \in Kickoff
    /\ Discards \in BOOLEAN
    /\ MaxCrash \in Nat

VARIABLES
    db,         \* workflow_runs: the last snapshot written of each run
    writing,    \* the snapshot a thread has put and is about to persist
    offered,    \* workflowResumePrompts: the runs the operator is asked about
    crashes,    \* restarts so far
    minted,     \* the run ids given out
    spoke       \* history: <<run, step>> whose success was recorded with a reply

durable == <<db, writing, offered, crashes, minted, spoke>>
recoveryVars == <<vars, durable>>

Thread == {"driver", "launch", "cancel", "resume"}
NoRecord == [state |-> "absent", rows |-> NoRows]
Nothing == [run |-> NoRun, record |-> NoRecord]

RecoveryInit ==
    /\ Init
    /\ db = [r \in Run |-> NoRecord]
    /\ writing = [t \in Thread |-> Nothing]
    /\ offered = {}
    /\ crashes = 0
    /\ minted = {} /\ spoke = {}

-----------------------------------------------------------------------------
(* Write-through.                                                          *)

\* Mutant: the whole row is serialized.
SerializedWhole(rows) == rows

\* The fields of a row that are serialized; the others come back empty.
Serialized(rows) ==
    [c \in Copy |-> [rows[c] EXCEPT !.armed = FALSE, !.waiting = FALSE,
                        !.thread = FALSE, !.reply = "none", !.escalated = FALSE]]

\* persist_run: upsert_workflow_run.
PersistRun(t) ==
    /\ writing[t].run # NoRun
    /\ LET w == writing[t] IN
       db' = [db EXCEPT ![w.run] =
                 [state |-> w.record.state, rows |-> Serialized(w.record.rows)]]
    /\ writing' = [writing EXCEPT ![t] = Nothing]
    /\ UNCHANGED <<vars, offered, crashes, minted, spoke>>

\* What a thread of Workflow does when it puts run r: it goes on to persist it.
Puts(t, r) ==
    /\ writing[t] = Nothing
    /\ writing' = [writing EXCEPT ![t] = [run |-> r, record |-> reg'[r]]]

Spoke(r) ==
    spoke' = spoke \cup
        {<<r, s>> : s \in {x \in Step :
            /\ reg'[r].rows[Placeholder(x)].state = "succeeded"
            /\ reg'[r].rows[Placeholder(x)].reply # "none"}}

\* A tick that changed nothing puts nothing.
FinishAndPut ==
    /\ Finish
    /\ IF changed \/ reg' # reg THEN Puts("driver", cur) ELSE UNCHANGED writing
    /\ Spoke(cur)
    /\ UNCHANGED <<db, offered, crashes, minted>>

\* new_run_id never gives an id twice.
LaunchNew(r) ==
    /\ writing["launch"] = Nothing
    /\ r \notin minted
    /\ LaunchBegin(r)
    /\ minted' = minted \cup {r}
    /\ UNCHANGED <<db, writing, offered, crashes, spoke>>

\* Mutant: a new run is first persisted by its first tick.
LaunchUnpersisted ==
    /\ LaunchEnd
    /\ UNCHANGED <<db, writing, offered, crashes, minted, spoke>>

LaunchAndPut ==
    /\ LaunchEnd
    /\ Puts("launch", launch.run)
    /\ UNCHANGED <<db, offered, crashes, minted, spoke>>

CancelAndPut ==
    /\ CancelWrite
    /\ Puts("cancel", snap.run)
    /\ UNCHANGED <<db, offered, crashes, minted, spoke>>

\* A thread that is persisting does not start anything else.
Others ==
    /\ \/ /\ writing["driver"] = Nothing
          /\ \/ \E r \in Run : Tick(r)
             \/ DetectReplyCompletions \/ DetectCompletions \/ CheckTimeouts
             \/ CancelStragglers \/ FireDueRetries \/ RestartInPlace
             \/ RespawnFresh \/ PostponeRetry \/ DecidePasses \/ SpawnReady
             \/ DeferStep
       \/ /\ writing["launch"] = Nothing
          /\ LaunchRoot \/ LaunchDeferred
       \/ /\ writing["cancel"] = Nothing
          \* Bound: cancels in the last life only, and after a stop only while
          \* there is nothing left to persist.
          /\ crashes = MaxCrash
          /\ crashes > 0 => \A t \in Thread : writing[t] = Nothing
          /\ \E r \in Run : CancelRead(r)
       \/ Environment
    /\ UNCHANGED durable

-----------------------------------------------------------------------------
(* The application stops and comes back.                                   *)

Crash ==
    /\ crashes < MaxCrash
    /\ crashes' = crashes + 1
    /\ reg' = [r \in Run |-> NoRecord]
    /\ pane' = << >> /\ done' = {}
    /\ pc' = "idle" /\ cur' = NoRun /\ loc' = NoRows /\ changed' = FALSE
    /\ due' = {} /\ over' = {} /\ todo' = {} /\ budget' = 0 /\ claimed' = {}
    /\ launch' = [run |-> NoRun, rows |-> NoRows, todo |-> {},
                  budget |-> 0, claimed |-> {}]
    /\ snap' = [run |-> NoRun, rows |-> NoRows]
    /\ writing' = [t \in Thread |-> Nothing]
    /\ offered' = {}
    /\ UNCHANGED <<mail, notified, db, minted, spoke>>

\* load_config, at startup and on every reload: it asks the table alone.
LoadConfig ==
    /\ \E r \in Run : db[r].state = "running"
    /\ offered' = {r \in Run : db[r].state = "running"}
    /\ UNCHANGED <<vars, db, writing, crashes, minted, spoke>>

-----------------------------------------------------------------------------
(* resume_workflow and abandon_workflow.                                   *)

\* Mutant: a copy that was running starts over by itself.
CollapseCopies(rows) ==
    [c \in Copy |-> IF rows[c].state = "running" THEN PendingRow ELSE rows[c]]

\* Every step with a copy that was running goes back to its placeholder.
Collapse(rows) ==
    [c \in Copy |->
        IF InState(rows, c[1], {"running"}) = {} THEN rows[c]
        ELSE IF c = Placeholder(c[1]) THEN PendingRow ELSE NoRow]

HasThread(s) == s \in Kickoff \/ \E t \in Step : Handoff[t] = s

ProducedBeforeRestart(rows, s) ==
    HasThread(s) /\ InState(rows, s, {"succeeded"}) # {}

\* Mutant: only what a condition reads is lost.
LostVerdict(rows) ==
    \E s \in Condition : /\ IsPending(rows, s)
                         /\ \E d \in Deps[s] : ProducedBeforeRestart(rows, d)

\* lost_carry_blocker: a reply that a step still waits for did not survive.
LostCarry(rows) ==
    \/ \E s \in Condition : /\ IsPending(rows, s)
                            /\ \E d \in Deps[s] : ProducedBeforeRestart(rows, d)
    \/ \E s \in Step : /\ Handoff[s] # 0
                       /\ IsPending(rows, Handoff[s])
                       /\ ProducedBeforeRestart(rows, s)

\* A run the registry already has is returned as it is.
ResumeWorkflow(r) ==
    /\ r \in offered
    /\ writing["resume"] = Nothing
    /\ offered' = offered \ {r}
    /\ LET rows == Collapse(db[r].rows) IN
       IF /\ reg[r].state = "absent"
          /\ db[r].state = "running"
          /\ ~LostCarry(rows)
       THEN /\ reg' = [reg EXCEPT ![r] = [state |-> "running", rows |-> rows]]
            /\ Puts("resume", r)
            /\ spoke' = {x \in spoke : x[1] = r =>
                            rows[Placeholder(x[2])].state = "succeeded"}
       ELSE UNCHANGED <<reg, writing, spoke>>
    /\ UNCHANGED <<pane, done, mail, notified, driver, launch, snap,
                   db, crashes, minted>>

\* mark_workflow_abandoned looks at nothing but the id.  "abandoned" is a
\* cancelled row with the error text that says so; the next upsert clears it.
AbandonWorkflow(r) ==
    /\ Discards
    /\ r \in offered
    /\ offered' = offered \ {r}
    /\ db' = [db EXCEPT ![r].state = "abandoned"]
    /\ mail' = IF db[r].state = "running"
               THEN [mail EXCEPT ![r] = [c \in Copy |-> "closed"]] ELSE mail
    /\ UNCHANGED <<reg, pane, done, notified, driver, launch, snap,
                   writing, crashes, minted, spoke>>

RecoveryNext ==
    \/ Others
    \/ FinishAndPut \/ LaunchAndPut \/ CancelAndPut
    \/ \E t \in Thread : PersistRun(t)
    \/ Crash
    \/ LoadConfig
    \/ \E r \in Run : LaunchNew(r) \/ ResumeWorkflow(r) \/ AbandonWorkflow(r)

RecoverySpec == RecoveryInit /\ [][RecoveryNext]_recoveryVars

-----------------------------------------------------------------------------
(* Properties.                                                             *)

Record == [state : RunState, rows : Rows]

RecoveryTypeOK ==
    /\ db \in [Run -> [state : RunState \cup {"abandoned"}, rows : Rows]]
    /\ writing \in [Thread -> [run : Run \cup {NoRun}, record : Record]]
    /\ offered \subseteq Run /\ minted \subseteq Run
    /\ crashes \in 0 .. MaxCrash
    /\ spoke \subseteq Run \X Step

\* Wherever the application stops, a run that is under way and whose threads are
\* through with their writes is one the next start will offer, unless the operator
\* has called it off (persist_run after every put, by the driver, the launch and
\* the resume alike).
Recoverable ==
    \A r \in Run :
        /\ reg[r].state = "running"
        /\ \A t \in Thread : writing[t].run # r
        => db[r].state \in {"running", "cancelled", "abandoned"}

\* Every attempt and every verdict rests on the replies it needs, across stops and
\* resumes: no attempt starts without what its upstream handed over, a step behind
\* a condition starts on a matching reply only, and no condition is given up for
\* want of a reply that was there (lost_carry_blocker).
Starts(c) == loc'[c].attempts > loc[c].attempts /\ loc'[c].session # 0

CarryKept ==
    [][pc # "idle" => \A c \in Copy :
          /\ Starts(c) => \A s \in Step :
                Handoff[s] = c[1] /\ <<cur, s>> \in spoke
                => loc[Placeholder(s)].reply # "none"
          /\ c[1] \in Condition => \A d \in Deps[c[1]] :
                /\ Starts(c) => loc[Placeholder(d)].reply = "match"
                /\ /\ loc[c].state = "pending"
                   /\ loc'[c].state = "failed" /\ loc'[c].attempts = 0
                   => <<cur, d>> \notin spoke]_recoveryVars

\* fire_due_retries: "the in-place `restart_session` branch reuses a slot this run
\* already holds".  So the pane it restarts at least runs the step's agent.
RestartsOwnPane ==
    [][\A c \in Copy :
          pc = "retry" /\ c \in todo \ todo' /\ loc[c].session \in Panes
          => pane[loc[c].session].agent = Agent[c[1]]]_recoveryVars

\* cancel_workflow: "write-through so a manual cancel is never mistaken for a
\* crash-interrupted run and re-offered as "resume?" after a restart".
CancelStays ==
    \A r \in Run :
        reg[r].state = "cancelled" /\ (\A t \in Thread : writing[t].run # r)
        => db[r].state # "running"

\* abandon_workflow: "nothing was ever re-registered in memory, so there is no
\* live PTY to kill and no registry entry to touch".
DiscardsTheDead ==
    [][\A r \in Run :
          db'[r].state = "abandoned" /\ db[r].state # "abandoned"
          => reg[r].state = "absent"]_recoveryVars
=============================================================================
