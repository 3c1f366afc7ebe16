------------------------------- MODULE QueenStore -------------------------------
(***************************************************************************)
(* The history of workflow runs, in memory and in the store: the registry  *)
(* keeps every live run and the newest of the finished ones of all         *)
(* projects; workflow_runs keeps every row that is not finished, and the   *)
(* newest finished ones of each project.  A snapshot is put first and      *)
(* persisted by a later step of the same thread.  Pins and notes lie       *)
(* beside it in the same database (Records).                               *)
(***************************************************************************)
EXTENDS Records

CONSTANTS
    Run,            \* run ids, numbers in the order in which they are made
    ProjectOf,      \* the project of each run
    ShownCap,       \* REGISTRY_TERMINAL_CAP
    KeptCap,        \* MAX_TERMINAL_WORKFLOW_RUNS_PER_PROJECT
    MaxLive,        \* bound: runs that are live at once
    MaxClock,       \* bound: the last instant
    MaxCrash        \* bound: restarts of the application

\* "The DB window is strictly the wider of the two", by more than what is ever live.
ASSUME QueenStoreAssumption ==
    /\ Run \subseteq Nat /\ IsFiniteSet(Run) /\ DOMAIN ProjectOf = Run
    /\ {ShownCap, KeptCap, MaxLive, MaxClock, MaxCrash} \subseteq Nat
    /\ KeptCap >= ShownCap + MaxLive

VARIABLES
    clock,      \* milliseconds
    reg,        \* WorkflowRegistry
    row,        \* workflow_runs
    unsaved,    \* the snapshot that was put and not persisted yet
    crashes     \* restarts so far

runs == <<clock, reg, row, unsaved, crashes>>
storeVars == <<vars, runs>>

\* ended is 0 while it is None: a run that is born failed never gets one.
Absent == [state |-> "absent", started |-> 0, ended |-> 0]

StoreInit ==
    /\ Init
    /\ clock = 1
    /\ reg = [r \in Run |-> Absent] /\ row = [r \in Run |-> Absent]
    /\ unsaved = [r \in Run |-> Absent]
    /\ crashes = 0

-------------------------------------------------------------------------------
(* The two windows.                                                        *)

Kept(table) == {r \in Run : table[r].state # "absent"}
Over(table) == {r \in Run : table[r].state \in {"succeeded", "failed", "cancelled"}}

\* ended_at_ms, or started_at_ms.
EndedAt(x) == IF x.ended = 0 THEN x.started ELSE x.ended

\* Newest first, ties by id.
Later(table, q, r) ==
    \/ EndedAt(table[q]) > EndedAt(table[r])
    \/ EndedAt(table[q]) = EndedAt(table[r]) /\ q > r

Newest(table, some, cap) ==
    {r \in some : Cardinality({q \in some : Later(table, q, r)}) < cap}

Without(table, gone) == [r \in Run |-> IF r \in gone THEN Absent ELSE table[r]]

\* evict_terminal.
EvictTerminal(table) == Without(table, Over(table) \ Newest(table, Over(table), ShownCap))

OfProject(p) == {r \in Run : ProjectOf[r] = p}

\* Mutant: the rows are kept by id, as runs were started.
PruneById(table, p) ==
    LET finished == Over(table) \cap OfProject(p)
    IN  Without(table, {r \in finished : Cardinality({q \in finished : q > r}) >= KeptCap})

\* prune_terminal_workflow_runs.
Prune(table, p) ==
    LET finished == Over(table) \cap OfProject(p)
    IN  Without(table, finished \ Newest(table, finished, KeptCap))

-------------------------------------------------------------------------------
(* Runs.                                                                   *)

Live == Kept(reg) \ Over(reg)

\* WorkflowRegistry::put, to be persisted by the caller.
Put(r, snapshot) ==
    /\ unsaved[r] = Absent
    /\ reg' = EvictTerminal([reg EXCEPT ![r] = snapshot])
    /\ unsaved' = [unsaved EXCEPT ![r] = snapshot]
    /\ UNCHANGED <<clock, row, crashes>>

\* spawn_workflow; with every root refused the run is born failed.  (bound: MaxLive)
Start(r) ==
    /\ r \notin Kept(reg) \cup Kept(row) \cup {q \in Run : unsaved[q] # Absent}
    /\ \A q \in Run : q > r => q \notin Kept(reg) \cup Kept(row)
    /\ Cardinality(Live) < MaxLive
    /\ \E state \in {"running", "failed"} :
        Put(r, [state |-> state, started |-> clock, ended |-> 0])

End(r) ==
    /\ r \in Live
    /\ \E state \in {"succeeded", "failed", "cancelled"} :
        Put(r, [reg[r] EXCEPT !.state = state, !.ended = clock])

\* resume_workflow: a row that says running, of a run that is not in the registry.
Resume(r) ==
    /\ row[r].state = "running" /\ reg[r] = Absent
    /\ Cardinality(Live) < MaxLive
    /\ Put(r, [row[r] EXCEPT !.ended = 0])

\* upsert_workflow_run: a finished snapshot makes its project prune.
Upsert(r) ==
    /\ unsaved[r] # Absent
    /\ LET written == [row EXCEPT ![r] = unsaved[r]] IN
       row' = IF r \in Over(written) THEN Prune(written, ProjectOf[r]) ELSE written
    /\ unsaved' = [unsaved EXCEPT ![r] = Absent]
    /\ UNCHANGED <<clock, reg, crashes>>

\* mark_workflow_abandoned: offered are the rows that say running.
Abandon(r) ==
    /\ row[r].state = "running"
    /\ row' = Prune([row EXCEPT ![r].state = "cancelled"], ProjectOf[r])
    /\ UNCHANGED <<clock, reg, unsaved, crashes>>

\* The application stops, for a while; QueenStore::open prunes every project.
Restart ==
    /\ crashes < MaxCrash /\ crashes' = crashes + 1
    /\ clock < MaxClock /\ clock' = clock + 1
    /\ reg' = [r \in Run |-> Absent] /\ unsaved' = [r \in Run |-> Absent]
    /\ row' = [r \in Run |-> Prune(row, ProjectOf[r])[r]]

TimePasses == clock < MaxClock /\ clock' = clock + 1 /\ UNCHANGED <<reg, row, unsaved, crashes>>

RunsNext ==
    \/ \E r \in Run : Start(r) \/ End(r) \/ Resume(r) \/ Upsert(r) \/ Abandon(r)
    \/ Restart
    \/ TimePasses

StoreNext == (Next /\ UNCHANGED runs) \/ (RunsNext /\ UNCHANGED vars)

StoreSpec == StoreInit /\ [][StoreNext]_storeVars

-------------------------------------------------------------------------------
(* Properties.                                                             *)

\* "The DB must be able to hold at least everything the running app is still willing
\* to show": a finished run in the registry that was persisted has a row.
ShownIsStored ==
    \A r \in Over(reg) : unsaved[r] = Absent => row[r].state # "absent"
=============================================================================
