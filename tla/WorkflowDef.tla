----------------------------- MODULE WorkflowDef -----------------------------
(***************************************************************************)
(* A declared workflow (config.rs, WorkflowDef) and the pure half of       *)
(* orchestrator.rs: every decision the driver takes by looking at nothing  *)
(* but the declaration and the outcome rows of one run.                    *)
(*                                                                         *)
(* A step is its position in the declaration.  A row of a run is indexed   *)
(* by a copy <<s, k>>: the source's "s#k", or the bare "s" when k = 1 is   *)
(* the only one or stands for a step that has not been expanded yet.  The  *)
(* rows of a run are a total function on copies; a copy that has not been  *)
(* minted is "absent".                                                     *)
(***************************************************************************)
EXTENDS Integers, FiniteSets

CONSTANTS
    N,          \* number of declared steps
    Deps,       \* dependsOn of each step
    Fan,        \* copies_for: 1, or the fanOut of a fan-out step
    Quota,      \* joinOn: 0 for all and reply, 1 for any, n for a count
    ReplyJoin,  \* the steps declaring joinOn: reply
    RetryMax,   \* retry.max, 0 when no retry is declared
    Timeout,    \* the steps declaring timeoutMs
    Kickoff,    \* the steps declaring a kickoff
    Condition,  \* the steps declaring a condition
    Agent       \* the agent definition each step runs

Step == 1 .. N
Copies(s) == {s} \X (1 .. Fan[s])
Copy == UNION {Copies(s) : s \in Step}
Placeholder(s) == <<s, 1>>

\* What validate_workflows guarantees of a loaded workflow.
ValidWorkflow ==
    /\ N \in Nat \ {0}
    /\ Deps \in [Step -> SUBSET Step]
    /\ \E rank \in [Step -> Step] :
           \A s \in Step : \A d \in Deps[s] : rank[d] < rank[s]
    /\ Fan \in [Step -> Nat \ {0}]
    /\ Quota \in [Step -> Nat]
    /\ \A s \in Step : Quota[s] <= Fan[s]
    /\ Kickoff \subseteq Step
    /\ ReplyJoin \subseteq Kickoff
    /\ \A s \in ReplyJoin : Quota[s] = 0
    /\ RetryMax \in [Step -> Nat]
    /\ Timeout \subseteq Step
    /\ Condition \subseteq Step
    /\ \A s \in Condition :
           Fan[s] = 1 /\ \E d \in Step : Deps[s] = {d} /\ Fan[d] = 1
    /\ DOMAIN Agent = Step

ASSUME WorkflowAssumption == ValidWorkflow

\* Every step s depends on, directly or transitively.
Upstream[s \in Step] == Deps[s] \cup UNION {Upstream[d] : d \in Deps[s]}

-----------------------------------------------------------------------------
(* Outcome rows.                                                           *)

StepState == {"absent", "pending", "running", "succeeded", "failed",
              "skipped", "cancelled"}
Body == {"none", "match", "other"}   \* no reply; one a condition accepts; another

Row == [state : StepState,
        session : Nat,          \* session_id, 0 for none
        attempts : Nat,
        armed : BOOLEAN,        \* next_retry_at_ms is set
        waiting : BOOLEAN,      \* deferred_since_ms is set
        thread : BOOLEAN,       \* kickoff_root_msg_id is set
        reply : Body,           \* reply_body
        escalated : BOOLEAN]

NoRow == [state |-> "absent", session |-> 0, attempts |-> 0, armed |-> FALSE,
          waiting |-> FALSE, thread |-> FALSE, reply |-> "none",
          escalated |-> FALSE]

PendingRow == [NoRow EXCEPT !.state = "pending"]

\* Mutant: an attempt that forgets how many came before it.
AttemptRowUncounted(s, p, thread, n) ==
    IF p = 0
    THEN [NoRow EXCEPT !.state = "failed", !.attempts = 1]
    ELSE [NoRow EXCEPT !.state = IF s \in ReplyJoin /\ ~thread
                                 THEN "failed" ELSE "running",
                       !.session = p, !.attempts = 1, !.thread = thread]

\* spawn_step followed by attach_kickoff_result: the row of an attempt in pane
\* p, or with no pane (p = 0) of one that could not be spawned.  A joinOn: reply
\* step without a thread could never complete, and fails on the spot.
AttemptRow(s, p, thread, n) ==
    IF p = 0
    THEN [NoRow EXCEPT !.state = "failed", !.attempts = n]
    ELSE [NoRow EXCEPT !.state = IF s \in ReplyJoin /\ ~thread
                                 THEN "failed" ELSE "running",
                       !.session = p, !.attempts = n, !.thread = thread]

IsTerminal(row) ==
    \/ row.state \in {"succeeded", "skipped", "cancelled"}
    \/ row.state = "failed" /\ ~row.armed

\* Mutant: a row whose retry is armed gives its pane away.
HoldsPaneRunning(row) == row.state = "running"

HoldsPane(row) ==
    \/ row.state = "running"
    \/ row.state = "failed" /\ row.armed /\ row.session # 0

\* Mutant: the first attempt is not one of the attempts.
RetryAllowedPlusOne(s, attempts) == RetryMax[s] > 0 /\ attempts <= RetryMax[s] + 1

RetryAllowed(s, attempts) == RetryMax[s] > 0 /\ attempts <= RetryMax[s]

-----------------------------------------------------------------------------
(* Joins.                                                                  *)

Present(rows, s) == {c \in Copies(s) : rows[c].state # "absent"}
InState(rows, s, states) == {c \in Copies(s) : rows[c].state \in states}
IsPending(rows, s) == InState(rows, s, {"pending"}) # {}

DepSatisfied(rows, s) ==
    IF Quota[s] = 0
    THEN /\ Present(rows, s) # {}
         /\ \A c \in Present(rows, s) : rows[c].state = "succeeded"
    ELSE Cardinality(InState(rows, s, {"succeeded"})) >= Quota[s]

\* Mutant: the placeholder of a fan-out is counted as its only copy.
DepUnsatisfiablePlaceholder(rows, s) ==
    /\ Present(rows, s) # {}
    /\ ~DepSatisfied(rows, s)
    /\ LET required == IF Quota[s] = 0 THEN Cardinality(Present(rows, s))
                                       ELSE Quota[s]
           banked == Cardinality(InState(rows, s, {"succeeded"}))
           inPlay == Cardinality({c \in Present(rows, s) : ~IsTerminal(rows[c])})
       IN  banked + inPlay < required

DepUnsatisfiable(rows, s) ==
    /\ Present(rows, s) # {}
    /\ ~DepSatisfied(rows, s)
    /\ ~IsPending(rows, s)
    /\ LET required == IF Quota[s] = 0 THEN Cardinality(Present(rows, s))
                                       ELSE Quota[s]
           banked == Cardinality(InState(rows, s, {"succeeded"}))
           inPlay == Cardinality({c \in Present(rows, s) : ~IsTerminal(rows[c])})
       IN  banked + inPlay < required

DepsSatisfied(rows, s) == \A d \in Deps[s] : DepSatisfied(rows, d)

\* Mutant: a dependency none of whose copies runs or waits is satisfied.
ReadyStepsOver(rows) ==
    {s \in Step :
        /\ IsPending(rows, s)
        /\ \A d \in Deps[s] : InState(rows, d, {"pending", "running"}) = {}}

ReadySteps(rows) == {s \in Step : IsPending(rows, s) /\ DepsSatisfied(rows, s)}

-----------------------------------------------------------------------------
(* The passes of a tick that touch nothing but the rows.                   *)

ArmRetryBackoff(rows) ==
    [c \in Copy |->
        IF /\ rows[c].state = "failed"
           /\ ~rows[c].armed
           /\ rows[c].attempts > 0
           /\ RetryAllowed(c[1], rows[c].attempts)
        THEN [rows[c] EXCEPT !.armed = TRUE]
        ELSE rows[c]]

\* set_step_state over a set of still-Pending steps.
SetStepState(rows, steps, state) ==
    [c \in Copy |->
        IF c[1] \in steps /\ c = Placeholder(c[1])
        THEN [rows[c] EXCEPT !.state = state, !.waiting = FALSE]
        ELSE rows[c]]

\* Mutant: a reply is judged before its step is through.
ConditionTargetsEarly(rows, body) ==
    {s \in Condition : /\ IsPending(rows, s)
                       /\ \E d \in Deps[s] : rows[Placeholder(d)].reply = body}

\* The condition steps decided this tick whose upstream left the given body.
ConditionTargets(rows, body) ==
    {s \in Condition :
        /\ IsPending(rows, s)
        /\ DepsSatisfied(rows, s)
        /\ \E d \in Deps[s] : rows[Placeholder(d)].reply = body}

\* Mutant: a reply that does not match lets the step through.
ApplyConditionsSilent(rows) ==
    SetStepState(rows, ConditionTargets(rows, "none"), "failed")

ApplyConditions(rows) ==
    SetStepState(SetStepState(rows, ConditionTargets(rows, "other"), "skipped"),
                 ConditionTargets(rows, "none"), "failed")

FailfastTargets(rows) ==
    {s \in Step : /\ IsPending(rows, s)
                  /\ \E d \in Upstream[s] : DepUnsatisfiable(rows, d)}

Failfast(rows) == SetStepState(rows, FailfastTargets(rows), "skipped")

\* arm_retry_backoff, condition_targets and failfast_targets, in that order.
Decide(rows) == Failfast(ApplyConditions(ArmRetryBackoff(rows)))

\* Mutant: the level of a failure, not its edge.
ExhaustedLevel(rows) ==
    {c \in Copy : /\ rows[c].state = "failed"
                  /\ ~rows[c].armed
                  /\ rows[c].attempts > 0
                  /\ RetryMax[c[1]] > 0
                  /\ ~RetryAllowed(c[1], rows[c].attempts)}

\* take_escalations: the rows out of retries that nobody has been told of.
Exhausted(rows) ==
    {c \in Copy :
        /\ rows[c].state = "failed"
        /\ ~rows[c].armed
        /\ ~rows[c].escalated
        /\ rows[c].attempts > 0
        /\ RetryMax[c[1]] > 0
        /\ ~RetryAllowed(c[1], rows[c].attempts)}

\* Mutant: an escalation leaves no trace on its row.
MarkEscalatedNot(rows, copies) == rows

MarkEscalated(rows, copies) ==
    [c \in Copy |-> IF c \in copies THEN [rows[c] EXCEPT !.escalated = TRUE]
                                    ELSE rows[c]]

-----------------------------------------------------------------------------
(* The verdict on a run (mod verdict and finalize_state).                  *)

AllTerminal(rows) ==
    \A s \in Step : /\ Present(rows, s) # {}
                    /\ \A c \in Present(rows, s) : IsTerminal(rows[c])

\* The steps whose join fell short for benign reasons only.
Declined(rows) ==
    LET declined[s \in Step] ==
            LET dropped == InState(rows, s, {"skipped", "cancelled"})
            IN  /\ \A c \in Present(rows, s) : IsTerminal(rows[c])
                /\ ~DepSatisfied(rows, s)
                /\ dropped # {}
                /\ \A c \in dropped : rows[c].state = "skipped"
                /\ \A d \in Deps[s] : DepSatisfied(rows, d) \/ declined[d]
    IN  {s \in Step : declined[s]}

\* Mutant: only the declined step itself is excused, not what hangs on it.
BenignCopyItself(rows, c) ==
    DepSatisfied(rows, c[1]) \/ (rows[c].state = "skipped" /\ c[1] \in Condition)

BenignCopy(rows, c) ==
    \/ DepSatisfied(rows, c[1])
    \/ /\ rows[c].state = "skipped"
       /\ \A d \in Deps[c[1]] : DepSatisfied(rows, d) \/ d \in Declined(rows)

FinalizeState(rows) ==
    IF ~AllTerminal(rows) THEN "running"
    ELSE IF \E c \in Copy : rows[c].state = "failed" THEN "failed"
    ELSE IF \A c \in Copy : rows[c].state \in {"skipped", "cancelled"}
                                => BenignCopy(rows, c)
         THEN "succeeded" ELSE "failed"
=============================================================================
