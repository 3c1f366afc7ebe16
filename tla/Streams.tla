-------------------------------- MODULE Streams --------------------------------
(***************************************************************************)
(* Streaming fan-out of orchestrator.rs: one step whose agent stays alive  *)
(* and answers its kickoff many times (joinOn: stream), the steps that get *)
(* one copy per answer (onEach: reply), and one step that waits for all of *)
(* the first one's copies.                                                 *)
(*                                                                         *)
(* The passes of a driver tick are actions of their own, in the order of   *)
(* advance_run, because agents write replies and end between any two of    *)
(* them.  A message is known by its position in the store; a kickoff only  *)
(* by how many messages were there before it.                              *)
(***************************************************************************)
EXTENDS Integers, Sequences, FiniteSets

CONSTANTS
    Target,         \* the onEach steps, 1 .. n; the summary waits for step 1
    MaxUnits,       \* STREAM_MAX_UNITS
    Window,         \* INBOX_REPLY_SCAN_LIMIT
    Cells,          \* cells of the grid that the run can have
    Attempts,       \* attempts of each step, 0 is the stream step
    Limited,        \* the steps with a timeoutMs
    FailFast,       \* onFailure
    MaxMail,        \* bound: replies of the stream's agent
    MaxNoise        \* bound: messages nobody will ever acknowledge

ASSUME StreamsAssumption ==
    /\ Target \subseteq Nat \ {0} /\ 1 \in Target
    /\ {MaxUnits, Window, Cells} \subseteq Nat \ {0}
    /\ Attempts \in [Target \cup {0} -> Nat \ {0}]
    /\ Limited \subseteq Target \cup {0}
    /\ FailFast \in BOOLEAN /\ MaxMail \in Nat /\ MaxNoise \in Nat

Stream == <<0, 0>>
CopiesOf(t) == {<<t, k>> : k \in 0 .. MaxUnits - 1}     \* "<id>#<k>"
Row == {Stream} \cup UNION {CopiesOf(t) : t \in Target}
Placeholders == [Target -> {"pending", "failed", "skipped", "replaced"}]

RowState == {"absent", "pending", "running", "succeeded", "failed"}
Wait == {"none", "waiting", "overdue"}   \* deferred_since_ms against DEFER_MAX_MS
NoRow == [state |-> "absent", tries |-> 0, retry |-> "none", pane |-> FALSE,
          agent |-> "none", wait |-> "none", unit |-> 0]
Backoff == {"none", "armed", "due"}      \* next_retry_at_ms against the clock
Kind == {"unit", "end", "noise"}

VARIABLES
    row,            \* the outcome of the stream step and of each copy
    holder,         \* the placeholder that holds the place of each target
    summary,        \* the step that waits for target 1
    noted,          \* the stream's row says that a reply or a unit was dropped
    verdict,        \* state of the run
    mail,           \* the run's mailbox
    root,           \* length of the mailbox when the live kickoff was sent
    pc, units, cut  \* the tick: pass, units to cut, units already cut

rows == <<row, holder, summary, noted, verdict>>
store == <<mail, root>>
tick == <<pc, units, cut>>
vars == <<rows, store, tick>>

Launched == [NoRow EXCEPT !.state = "running", !.tries = 1, !.pane = TRUE, !.agent = "busy"]

Unlaunched == [NoRow EXCEPT !.state = "failed", !.tries = 1]

Init ==
    /\ row = [r \in Row |-> IF r = Stream THEN Launched ELSE NoRow]
    /\ holder = [t \in Target |-> "pending"]
    /\ summary = "pending" /\ noted = FALSE /\ verdict = "running"
    /\ mail = << >> /\ root = 0
    /\ pc = "scan" /\ units = << >> /\ cut = {}

-------------------------------------------------------------------------------
(* Reading the rows.                                                       *)

IsTerminal(o) == o.state = "succeeded" \/ (o.state = "failed" /\ o.retry = "none")
Minted(t) == {r \in CopiesOf(t) : row[r].state # "absent"}

\* stream_closed_for.
Closed == IsTerminal(row[Stream])

\* dep_satisfied on a target: closed, and every copy (or the placeholder) succeeded.
SatisfiedSoFar(t) ==
    /\ holder[t] = "replaced"
    /\ \A r \in Minted(t) : row[r].state = "succeeded"

TargetSatisfied(t) == Closed /\ SatisfiedSoFar(t)

\* dep_unsatisfiable on a target whose stream has closed.
TargetDoomed(t) ==
    /\ Closed /\ ~TargetSatisfied(t)
    /\ holder[t] # "pending"
    /\ \A r \in Minted(t) : row[r].state # "pending"
    /\ holder[t] # "replaced" \/ \E r \in Minted(t) : row[r].state = "failed" /\ IsTerminal(row[r])

StreamDoomed == row[Stream].state = "failed" /\ Closed

Budget ==
    LET used == Cardinality({r \in Row : row[r].pane})
    IN  IF used < Cells THEN Cells - used ELSE 0

Before(r, q) == r[1] < q[1] \/ (r[1] = q[1] /\ r[2] < q[2])

\* The first n of a set of rows, in the order of run.steps.
FirstRows(n, set) == {r \in set : Cardinality({q \in set : Before(q, r)}) < n}

-------------------------------------------------------------------------------
(* The passes of a tick.                                                   *)

Pass(from, to) == pc = from /\ pc' = to

\* Mutant: acknowledged messages are listed again.
UnreadAny == {i \in DOMAIN mail : i > root}

\* list_inbox: the oldest unacknowledged messages after the kickoff, whatever they
\* are, up to the limit.
Unread == {i \in DOMAIN mail : i > root /\ ~mail[i].acked}
Page == {i \in Unread : Cardinality({j \in Unread : j < i}) < Window}

\* The replies of the agent on the live thread, oldest first.
Matched == {i \in Page : mail[i].kind # "noise" /\ mail[i].thread = root}
Ends == {i \in Matched : mail[i].kind = "end"}

Ack(set) == mail' = [i \in DOMAIN mail |-> [mail[i] EXCEPT !.acked = @ \/ i \in set]]

InOrder(set) ==
    [n \in 1 .. Cardinality(set) |->
        CHOOSE i \in set : Cardinality({j \in set : j < i}) = n - 1]

\* Mutant: the first reply is the answer, as it is to a step that joins on a reply.
BeforeEndFirst(set) ==
    {i \in set : mail[i].kind = "unit" /\ \A j \in set : i <= j}

\* The units of a page end at the first sentinel.
BeforeEnd(set) ==
    {i \in set : mail[i].kind = "unit" /\ \A e \in set : mail[e].kind = "end" => i < e}

\* detect_reply_completions on the stream step.
Scan ==
    /\ verdict = "running"
    /\ pc = "scan"
    /\ IF row[Stream].state # "running" \/ Matched = {}
       THEN UNCHANGED <<row, noted, mail, units>>
       ELSE /\ units' = InOrder(BeforeEnd(Matched))
            /\ Ack(Matched \ BeforeEnd(Matched))
            /\ noted' = (noted \/ Cardinality(Matched \ BeforeEnd(Matched)) > 1)
            /\ row' = IF Ends = {} THEN row
                      ELSE [row EXCEPT ![Stream].state = "succeeded"]
    /\ pc' = IF units' = << >> THEN "detect" ELSE "mint"
    /\ UNCHANGED <<holder, summary, verdict, root, cut>>

Stopped(t) == FailFast /\ \E r \in Minted(t) : row[r].state = "failed" /\ IsTerminal(row[r])
Full(t) == Cardinality(Minted(t)) >= MaxUnits

\* The copy a target's next unit becomes: its number is the count of its copies.
NextCopy(t) == <<t, Cardinality(Minted(t))>>

\* mint_stream_copies, one unit; the acknowledgements follow the last one.
Mint ==
    /\ pc = "mint"
    /\ LET cutFor == {t \in Target : ~Stopped(t) /\ ~Full(t)}
           tooMany == \E t \in Target : ~Stopped(t) /\ Full(t)
           minted == [r \in Row |->
               IF r \in {NextCopy(t) : t \in cutFor}
               THEN [NoRow EXCEPT !.state = "pending", !.unit = Head(units)]
               ELSE row[r]]
       IN  /\ row' = IF tooMany /\ ~Closed
                     THEN [minted EXCEPT ![Stream].state = "failed", ![Stream].retry = "none"]
                     ELSE minted
           /\ holder' = [t \in Target |->
                IF t \in cutFor /\ holder[t] = "pending" THEN "replaced" ELSE holder[t]]
           /\ noted' = (noted \/ \E t \in Target : Stopped(t))
    /\ units' = Tail(units)
    /\ IF units' = << >>
       THEN Ack(cut \cup {Head(units)}) /\ cut' = {} /\ pc' = "detect"
       ELSE UNCHANGED <<mail, pc>> /\ cut' = cut \cup {Head(units)}
    /\ UNCHANGED <<summary, verdict, root>>

\* detect_completions and check_timeouts.
Detect ==
    /\ Pass("detect", "retry")
    /\ \E late \in SUBSET {r \in Row : /\ row[r].state = "running"
                                       /\ row[r].agent = "busy"
                                       /\ r[1] \in Limited} :
        row' = [r \in Row |->
            IF r \in late
            THEN [row[r] EXCEPT !.state = "failed", !.pane = FALSE, !.agent = "none"]
            ELSE IF row[r].state = "running" /\ row[r].agent \in {"ok", "bad"}
            THEN [row[r] EXCEPT !.agent = "none", !.state =
                    IF row[r].agent = "ok" THEN "succeeded" ELSE "failed"]
            ELSE row[r]]
    /\ UNCHANGED <<holder, summary, noted, verdict, store, units, cut>>

\* Mutant: the attempt that exhausts the policy is armed again.
ArmOnceMore(f) ==
    [r \in Row |->
        IF /\ f[r].state = "failed" /\ f[r].retry = "none"
           /\ f[r].tries \in 1 .. Attempts[r[1]]
        THEN [f[r] EXCEPT !.retry = "armed"] ELSE f[r]]

\* arm_retry_backoff.
Arm(f) ==
    [r \in Row |->
        IF /\ f[r].state = "failed" /\ f[r].retry = "none"
           /\ f[r].tries \in 1 .. Attempts[r[1]] - 1
        THEN [f[r] EXCEPT !.retry = "armed"] ELSE f[r]]

\* fire_due_retries and the first arming pass.  A retry in the old pane is free, one
\* without a pane takes a cell, or waits for one until the wait costs it an attempt.
Retry ==
    LET due == {r \in Row : row[r].retry = "due"}
        homeless == {r \in due : ~row[r].pane}
        fresh == FirstRows(Budget, homeless)
    IN
    /\ Pass("retry", "spawn")
    /\ \E unborn \in SUBSET fresh :
        row' = Arm([r \in Row |->
            CASE r \in unborn ->
                    [Unlaunched EXCEPT !.tries = row[r].tries + 1, !.unit = row[r].unit]
              [] r \in due \ (homeless \ (fresh \ unborn)) ->
                    [Launched EXCEPT !.tries = row[r].tries + 1, !.unit = row[r].unit]
              [] r \in homeless \ fresh ->
                    IF row[r].wait = "overdue"
                    THEN [row[r] EXCEPT !.retry = "none", !.tries = @ + 1, !.wait = "none"]
                    ELSE [row[r] EXCEPT !.wait = "waiting"]
              [] OTHER -> row[r]])
    /\ root' = IF row'[Stream].state = "running" /\ row[Stream].state # "running"
               THEN Len(mail) ELSE root
    /\ UNCHANGED <<holder, summary, noted, verdict, mail, units, cut>>

\* Mutant: a stream without a unit skips its consumer.
EmptyTargetSkipped(t) == "skipped"

\* close_stream_targets fails the placeholder of a stream without a unit.
EmptyTarget(t) == "failed"

\* failfast_targets, then close_stream_targets: a dependent of a failed step is
\* skipped, one whose stream closed without a unit has failed.
Decided(t) ==
    IF holder[t] # "pending" \/ ~Closed THEN holder[t]
    ELSE IF StreamDoomed THEN "skipped" ELSE EmptyTarget(t)

DecidedSummary ==
    IF summary # "pending" THEN summary
    ELSE IF StreamDoomed \/ TargetDoomed(1) THEN "skipped"
    ELSE IF TargetSatisfied(1) THEN "started"
    ELSE "pending"

\* spawn_ready: the copies go out one cell at a time, in order, and what does not fit
\* waits.  A wait that is overdue ends the copy, but not while a sibling runs.
Waiting(t) == {r \in CopiesOf(t) : row[r].state = "pending"}

\* Mutant: a wait is never overdue.
GivesUpNever(t) == FALSE

\* defer_step's exception: not while a sibling runs.
GivesUp(t) == ~ \E r \in CopiesOf(t) : row[r].state = "running"

AllTerminal(f, held, last) ==
    /\ \A r \in Row : f[r].state # "absent" => IsTerminal(f[r])
    /\ "pending" \notin {held[t] : t \in Target} \cup {last}

\* finalize_state.
Finalized(f, held, last) ==
    IF ~AllTerminal(f, held, last) THEN "running"
    ELSE IF "failed" \in {f[r].state : r \in Row} \cup {held[t] : t \in Target}
    THEN "failed" ELSE "succeeded"

\* The rest of the tick: the skips, the copies, the second arming pass, the verdict.
DecideAndSpawn ==
    LET all == UNION {Waiting(t) : t \in Target}
        out == FirstRows(Budget, all)
    IN
    /\ Pass("spawn", "scan")
    /\ holder' = [t \in Target |-> Decided(t)]
    /\ summary' = DecidedSummary
    /\ \E up \in SUBSET out :
        LET lost == {r \in all \ out : /\ row[r].wait = "overdue"
                                       /\ GivesUp(r[1]) /\ CopiesOf(r[1]) \cap up = {}}
        IN row' = Arm([r \in Row |->
                CASE r \in up -> [Launched EXCEPT !.unit = row[r].unit]
                  [] r \in lost \cup (out \ up) -> [Unlaunched EXCEPT !.unit = row[r].unit]
                  [] r \in all \ (out \cup lost) ->
                        [row[r] EXCEPT !.wait = IF @ = "none" THEN "waiting" ELSE @]
                  [] OTHER -> row[r]])
    /\ verdict' = Finalized(row', holder', summary')
    /\ UNCHANGED <<noted, store, units, cut>>

Driver == Scan \/ Mint \/ Detect \/ Retry \/ DecideAndSpawn

-------------------------------------------------------------------------------
(* Agents, the clock and the operator.                                     *)

Count(kinds) == Cardinality({i \in DOMAIN mail : mail[i].kind \in kinds})
Message(kind) == [kind |-> kind, thread |-> root, acked |-> FALSE]

\* The stream's agent answers its kickoff.  What is sent once the step is over is not
\* read by anybody and left out.
Reply(kind) ==
    /\ row[Stream].state = "running" /\ row[Stream].agent = "busy" /\ kind \in {"unit", "end"}
    /\ Count({"unit", "end"}) < MaxMail
    /\ mail' = Append(mail, Message(kind))
    /\ UNCHANGED <<rows, root, tick>>

\* A message to the mailbox that is no reply of the agent to its live thread.
Noise ==
    /\ row[Stream].state = "running"
    /\ Count({"noise"}) < MaxNoise
    /\ mail' = Append(mail, Message("noise"))
    /\ UNCHANGED <<rows, root, tick>>

\* A process ends, or its agent announces that it is done.
AgentEnds(r) ==
    /\ row[r].agent = "busy"
    /\ \E how \in {"ok", "bad"} : row' = [row EXCEPT ![r].agent = how]
    /\ UNCHANGED <<holder, summary, noted, verdict, store, tick>>

\* The operator closes a pane that ended; the driver may not have seen the end.
ClosePane(r) ==
    /\ row[r].pane /\ row[r].agent # "busy"
    /\ row' = [row EXCEPT ![r].pane = FALSE,
                          ![r].agent = IF row[r].state = "running" THEN "bad" ELSE @]
    /\ UNCHANGED <<holder, summary, noted, verdict, store, tick>>

\* WORKFLOW_DEFER_MAX_MS pass.
WaitEnds(r) ==
    /\ row[r].wait = "waiting"
    /\ row' = [row EXCEPT ![r].wait = "overdue"]
    /\ UNCHANGED <<holder, summary, noted, verdict, store, tick>>

BackoffEnds(r) ==
    /\ row[r].retry = "armed"
    /\ row' = [row EXCEPT ![r].retry = "due"]
    /\ UNCHANGED <<holder, summary, noted, verdict, store, tick>>

World ==
    \/ \E kind \in Kind : Reply(kind)
    \/ Noise
    \/ \E r \in Row : AgentEnds(r) \/ ClosePane(r) \/ WaitEnds(r) \/ BackoffEnds(r)

Next == Driver \/ (verdict = "running" /\ World)

Spec == Init /\ [][Next]_vars

\* The driver ticks on, agents come to an end, and time passes.
Fairness ==
    /\ WF_vars(Driver)
    /\ WF_vars(verdict = "running" /\ \E r \in Row : AgentEnds(r))
    /\ WF_vars(verdict = "running" /\ \E r \in Row : WaitEnds(r) \/ BackoffEnds(r))

FairSpec == Spec /\ Fairness

-------------------------------------------------------------------------------
(* Properties.                                                             *)

TypeOK ==
    /\ row \in [Row -> [state : RowState, tries : Nat, retry : Backoff,
                        pane : BOOLEAN, agent : {"none", "busy", "ok", "bad"},
                        wait : Wait, unit : 0 .. Len(mail)]]
    /\ \A r \in Row : row[r].tries <= Attempts[r[1]]
    /\ holder \in Placeholders
    /\ summary \in {"pending", "started", "skipped"}
    /\ noted \in BOOLEAN /\ verdict \in {"running", "succeeded", "failed"}
    /\ \A i \in DOMAIN mail : mail[i].kind \in Kind
    /\ root \in 0 .. Len(mail)
    /\ pc \in {"scan", "mint", "detect", "retry", "spawn"}

\* The copies of a step are numbered without a gap in the order in which their units
\* were sent, and no reply is cut twice (mint_stream_copies: "monotonic, gapless,
\* never reused").
InArrivalOrder ==
    \A t \in Target : \A r \in Minted(t) :
        /\ mail[row[r].unit].kind = "unit"
        /\ \A k \in 0 .. r[2] - 1 : row[<<t, k>>].unit \in 1 .. row[r].unit - 1

\* No reply is swallowed: one that was acknowledged has become a copy of every
\* target, or the row of the stream says that it was dropped, or the target is at its
\* limit.
NothingSwallowed ==
    \A i \in DOMAIN mail : \A t \in Target :
        mail[i].kind = "unit" /\ mail[i].acked
            => (\E r \in Minted(t) : row[r].unit = i) \/ noted \/ Full(t)

\* A green run did the work of its stream: every target had a unit and the summary ran.
GreenRan ==
    verdict = "succeeded" => summary = "started" /\ \A t \in Target : Minted(t) # {}

\* Whatever the agents send, drop or leave unsaid, the run ends: a stream that never
\* sends its sentinel is closed by the end of its step.
RunEnds == <>(verdict # "running")

\* The driver does not go deaf: while the messages nobody acknowledges leave room in
\* the window, the oldest waiting reply of the live thread is on the page it reads.
NeverDeaf ==
    LET waiting == {i \in DOMAIN mail : /\ i > root /\ ~mail[i].acked
                                        /\ mail[i].thread = root /\ mail[i].kind # "noise"}
        stuck == {i \in DOMAIN mail : i > root /\ mail[i].kind = "noise"}
    IN  waiting # {} /\ Cardinality(stuck) < Window => waiting \cap Page # {}

\* STREAM_MAX_UNITS: "Past it the stream step is FAILED and the stream closes."
PastLimitFails ==
    row[Stream].state = "succeeded" =>
        \A t \in Target :
            Cardinality({i \in DOMAIN mail :
                mail[i].kind = "unit" /\ mail[i].acked /\ mail[i].thread = root}) <= MaxUnits

\* JoinOnName::Stream "hands each one to the downstream onEach: reply step as a unit".
EveryReplyCut ==
    verdict = "succeeded" =>
        \A i \in DOMAIN mail : mail[i].kind = "unit" /\ i > root => mail[i].acked

\* defer_step: the bound applies "when the grid really is held by someone else".
GivenUpToOthers ==
    [][\A r \in Row : row[r].state = "pending" /\ row'[r].state = "failed" /\ row[r].wait = "overdue"
        => \E q \in Row : row[q].pane /\ q[1] # r[1]]_vars
=============================================================================
