-------------------------------- MODULE Hub --------------------------------
(***************************************************************************)
(* The life of the Queen server (queen.rs): apply starts, moves and stops  *)
(* it, and every start is a task of its own, which binds a port, serves    *)
(* until its token is cancelled, and reports to a status that the next     *)
(* apply may have changed meanwhile.  A task writes only while its epoch   *)
(* is the current one.                                                     *)
(*                                                                         *)
(* Binding is asynchronous, so an apply may come before it, between the    *)
(* bind and the report, and before a cancelled task has let its port go.   *)
(***************************************************************************)
EXTENDS Integers

CONSTANTS
    DefaultPort,
    PortTries,      \* PORT_TRIES
    Taken,          \* the ports other programs may hold, some of them
    MaxEpoch        \* bound: servers started

ASSUME HubAssumption ==
    /\ DefaultPort \in Nat \ {0} /\ PortTries \in Nat \ {0}
    /\ Taken \subseteq Nat /\ MaxEpoch \in Nat \ {0}

VARIABLES
    hub,        \* QueenStatusInner
    task,       \* run_server: the task of each epoch
    held,       \* the ports other programs hold
    overtaken   \* history: a task was stopped before it had reported

hubVars == <<hub, task, held, overtaken>>

NoPort == 0
Epoch == 1 .. MaxEpoch
NoTask == [phase |-> "none", base |-> NoPort, port |-> NoPort, cancelled |-> FALSE]

TaskOf(base) == [NoTask EXCEPT !.phase = "binding", !.base = base]
Listening == {"bound", "serving"}
InUse == {task[e].port : e \in {f \in Epoch : task[f].phase \in Listening}} \cup held

\* Mutant: an apply that finds a server starts another beside it.
WithoutHalt(tasks, st) == tasks

\* QueenStatusInner.cancel is some token exactly when the current task may be cancelled.
Halted(tasks, st) ==
    IF st.token THEN [tasks EXCEPT ![st.epoch].cancelled = TRUE] ELSE tasks

-----------------------------------------------------------------------------
\* apply with enabled = false.
ApplyStop ==
    /\ task' = Halted(task, hub)
    /\ hub' = [hub EXCEPT !.enabled = FALSE, !.running = FALSE, !.port = NoPort,
                          !.error = FALSE, !.token = FALSE]
    /\ overtaken' = (overtaken \/ task[hub.epoch].phase \in {"binding", "bound"})
    /\ UNCHANGED held

\* apply on a server that runs where it should.
ApplyKeep(port) ==
    /\ hub.running /\ hub.desired = port
    /\ hub' = [hub EXCEPT !.enabled = TRUE]
    /\ UNCHANGED <<task, held, overtaken>>

\* apply on a stopped server, or to another port.
ApplyStart(port) ==
    /\ ~(hub.running /\ hub.desired = port)
    /\ hub.epoch < MaxEpoch
    /\ task' = [Halted(task, hub) EXCEPT ![hub.epoch + 1] = TaskOf(port)]
    /\ hub' = [enabled |-> TRUE, running |-> FALSE, port |-> NoPort, error |-> FALSE,
               desired |-> port, epoch |-> hub.epoch + 1, token |-> TRUE]
    /\ UNCHANGED <<held, overtaken>>

Apply(enabled, port) ==
    IF enabled THEN ApplyKeep(port) \/ ApplyStart(port) ELSE ApplyStop

\* Mutant: a task that reports whatever its epoch.
ReportAlways(e, st) == hub' = st

\* status_update: only the current instance reports.
Report(e, st) == hub' = IF hub.epoch = e THEN st ELSE hub

-----------------------------------------------------------------------------
Tries(base) == base .. base + PortTries - 1

\* bind_with_fallback: the first port that is free.
Bind(e) ==
    /\ task[e].phase = "binding"
    /\ \E port \in Tries(task[e].base) \ InUse :
        /\ task[e].base .. port - 1 \subseteq InUse
        /\ task' = [task EXCEPT ![e].phase = "bound", ![e].port = port]
    /\ UNCHANGED <<hub, held, overtaken>>

NoFreePort(e) ==
    /\ task[e].phase = "binding"
    /\ Tries(task[e].base) \subseteq InUse
    /\ task' = [task EXCEPT ![e].phase = "over"]
    /\ Report(e, [hub EXCEPT !.running = FALSE, !.error = TRUE])
    /\ UNCHANGED <<held, overtaken>>

Serve(e) ==
    /\ task[e].phase = "bound"
    /\ task' = [task EXCEPT ![e].phase = "serving"]
    /\ Report(e, [hub EXCEPT !.running = TRUE, !.port = task[e].port, !.error = FALSE])
    /\ UNCHANGED <<held, overtaken>>

\* The graceful shutdown: the listener goes at once, open calls are waited for.
Drain(e) ==
    /\ task[e].phase = "serving" /\ task[e].cancelled
    /\ task' = [task EXCEPT ![e].phase = "draining"]
    /\ UNCHANGED <<hub, held, overtaken>>

\* axum::serve has returned.
ServeEnds(e) ==
    /\ task[e].phase = "draining"
    /\ task' = [task EXCEPT ![e].phase = "over"]
    /\ Report(e, [hub EXCEPT !.running = FALSE])
    /\ UNCHANGED <<held, overtaken>>

\* start_default, at setup.
HubInit ==
    /\ hub = [enabled |-> TRUE, running |-> FALSE, port |-> NoPort, error |-> FALSE,
              desired |-> DefaultPort, epoch |-> 1, token |-> TRUE]
    /\ task = [e \in Epoch |-> IF e = 1 THEN TaskOf(DefaultPort) ELSE NoTask]
    /\ held \in SUBSET Taken
    /\ overtaken = FALSE

\* The same once the server is up, with no other program about.
HubServed ==
    /\ hub = [enabled |-> TRUE, running |-> TRUE, port |-> DefaultPort, error |-> FALSE,
              desired |-> DefaultPort, epoch |-> 1, token |-> TRUE]
    /\ task = [e \in Epoch |-> IF e = 1 THEN [TaskOf(DefaultPort) EXCEPT !.phase = "serving",
                                                                       !.port = DefaultPort]
                               ELSE NoTask]
    /\ held = {}
    /\ overtaken = FALSE

TaskStep == \E e \in Epoch : Bind(e) \/ NoFreePort(e) \/ Serve(e) \/ Drain(e) \/ ServeEnds(e)

\* The hub by itself, under whoever applies what.
HubNext == TaskStep \/ \E enabled \in BOOLEAN, port \in Nat \ {0} : Apply(enabled, port)
HubSpec == (HubInit \/ HubServed) /\ [][HubNext]_hubVars

-----------------------------------------------------------------------------
(* Properties.                                                             *)

HubTypeOK ==
    /\ hub \in [enabled : BOOLEAN, running : BOOLEAN, port : Nat, error : BOOLEAN,
                desired : Nat \ {0}, epoch : Epoch, token : BOOLEAN]
    /\ task \in [Epoch -> [phase : {"none", "binding", "bound", "serving", "draining", "over"},
                           base : Nat, port : Nat, cancelled : BOOLEAN]]
    /\ held \subseteq Taken /\ overtaken \in BOOLEAN

\* A server nobody has cancelled is the one the status speaks of: no apply leaves an
\* older one listening for ever, and a disabled hub has none (QueenStatusInner.epoch:
\* "a task only updates status if it is still the current instance").
NoStrayServer ==
    \A e \in Epoch :
        task[e].phase \in {"binding", "bound", "serving"} /\ ~task[e].cancelled =>
            e = hub.epoch /\ hub.enabled

\* An enabled hub that has nothing more to come is served, at the port it names, or
\* says why not ("a changed port (or a stopped server) restarts it").
EnabledIsServed ==
    hub.enabled =>
        \/ hub.error
        \/ task[hub.epoch].phase \in {"binding", "bound"}
        \/ /\ hub.running /\ task[hub.epoch].phase = "serving"
           /\ hub.port = task[hub.epoch].port /\ ~task[hub.epoch].cancelled

\* The same of a hub that was never stopped while its server was coming up.
ServedUnlessOvertaken == overtaken \/ EnabledIsServed
=============================================================================
