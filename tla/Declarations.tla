--------------------------- MODULE Declarations ---------------------------
(***************************************************************************)
(* What config.rs accepts: validate_workflows, detect_cycle and            *)
(* validate_team_presets, one operator per rule, over the declarations of  *)
(* one workflow and one team preset.                                       *)
(*                                                                         *)
(* Text is abstracted to what a rule reads of it: a name or an id keeps    *)
(* its length in bytes (0 is blank), a schedule's "at" whether it parses,  *)
(* a condition whether it is a regular expression.  An optional field left *)
(* out is 0, "unset" or the empty sequence; retry.max is -1.               *)
(***************************************************************************)
EXTENDS Integers, Sequences, FiniteSets, SequencesExt

CONSTANT AgentDefs   \* the names under agents:

Pattern == {"pipeline", "fan-out", "supervisor", "handoff"}
JoinOn == {"unset", "all", "any", "reply", "stream", "count"}

\* What the YAML reader yields before any rule is applied.
StepDecl == [id : Nat \ {0}, bytes : Nat, agent : STRING, deps : Seq(Nat \ {0}), fan : Nat,
             join : JoinOn, count : Nat, kickoff : BOOLEAN,
             condition : {"unset", "regex", "broken"}, handoff : Nat, onEach : BOOLEAN,
             retry : Nat \cup {-1}, backoff : Nat, timeout : Nat]
WorkflowDecl == [name : Nat, pattern : Pattern, steps : Seq(StepDecl),
                 schedule : [every : STRING, parses : BOOLEAN, max : Nat],
                 autoClose : {"unset", "never", "success", "always"}]
PresetDecl == [name : Nat, members : Seq([agent : STRING, standby : BOOLEAN]), lead : STRING]

IndexOf(d, id) == SelectInSeq(d.steps, LAMBDA t : t.id = id)   \* 0 for no such step
Declares(d, id) == IndexOf(d, id) # 0
StepOf(d, id) == d.steps[IndexOf(d, id)]
Declared(d) == ToSet(d.steps)
OnlyDep(s) == s.deps[1]
Within(x, lo, hi) == lo <= x /\ x <= hi

-----------------------------------------------------------------------------
(* The rules on one step.                                                  *)

CopiesFor(pattern, s) == IF pattern = "fan-out" /\ s.fan >= 2 THEN s.fan ELSE 1

\* The bound of joinOn: n is the raw fanOut here, and the effective copies only
\* because fanOut < 2 is refused later.
CountLimit(pattern, s) == IF pattern = "fan-out" /\ s.fan # 0 THEN s.fan ELSE 1

NumbersOk(pattern, s) ==
    /\ s.retry # -1 => Within(s.retry, 1, 10) /\ s.backoff <= 60000
    /\ s.timeout # 0 => Within(s.timeout, 100, 86400000)
    /\ s.join = "count" => Within(s.count, 1, CountLimit(pattern, s))

ConditionOk(d, s) ==
    s.condition # "unset" =>
        /\ s.condition = "regex"
        /\ Len(s.deps) = 1
        /\ s.fan = 0
        /\ Declares(d, OnlyDep(s)) =>
               /\ StepOf(d, OnlyDep(s)).fan = 0
               /\ StepOf(d, OnlyDep(s)).join # "stream"

ReplyOk(s) == s.join = "reply" => s.kickoff

HandoffOk(d, s) ==
    s.handoff # 0 =>
        /\ s.handoff # s.id
        /\ Declares(d, s.handoff)
        /\ s.fan = 0
        /\ s.id \in ToSet(StepOf(d, s.handoff).deps)
        /\ ~StepOf(d, s.handoff).onEach

StreamOk(s) ==
    s.join = "stream" => s.kickoff /\ s.fan = 0 /\ s.handoff = 0 /\ s.condition = "unset"

OnEachOk(d, s) ==
    s.onEach =>
        /\ Len(s.deps) = 1
        /\ s.fan = 0 /\ s.condition = "unset" /\ s.handoff = 0
        /\ s.join \in {"unset", "all", "reply"}
        /\ s.bytes <= 64
        /\ Declares(d, OnlyDep(s)) /\ StepOf(d, OnlyDep(s)).join = "stream"

StepOk(d, s) ==
    /\ s.bytes > 0
    /\ s.agent \in AgentDefs
    /\ NumbersOk(d.pattern, s)
    /\ ConditionOk(d, s)
    /\ ReplyOk(s)
    /\ HandoffOk(d, s)
    /\ StreamOk(s)
    /\ OnEachOk(d, s)

HeaderOk(d) ==
    /\ Within(d.name, 1, 84)
    /\ d.steps # <<>>
    /\ d.schedule.every # "unset" => d.schedule.parses /\ Within(d.schedule.max, 1, 10)

UniqueIds(d) == Cardinality({s.id : s \in Declared(d)}) = Len(d.steps)

\* V10: a stream somebody reads.
StreamsRead(d) ==
    \A s \in Declared(d) : s.join = "stream" =>
        \E t \in Declared(d) : t.onEach /\ s.id \in ToSet(t.deps)

RefsOk(d) ==
    \A s \in Declared(d) : \A id \in ToSet(s.deps) : Declares(d, id) /\ id # s.id

-----------------------------------------------------------------------------
(* detect_cycle: the coloured depth-first search, from every step.         *)

Colouring(d) == [color : [{s.id : s \in Declared(d)} -> {"white", "gray", "black"}], cycle : BOOLEAN]

\* The search from each step of a sequence in turn; it ends at the first gray step.
Visit(d) ==
    LET From[at \in Seq({s.id : s \in Declared(d)}) \X Colouring(d)] ==
            LET ids == at[1]
                st == at[2]
                id == Head(ids)
                under == From[<<StepOf(d, id).deps, [st EXCEPT !.color[id] = "gray"]>>]
            IN  IF ids = <<>> \/ st.cycle THEN st
                ELSE From[<<Tail(ids),
                            CASE st.color[id] = "gray" -> [st EXCEPT !.cycle = TRUE]
                              [] st.color[id] = "black" -> st
                              [] OTHER -> IF under.cycle THEN under
                                          ELSE [under EXCEPT !.color[id] = "black"]>>]
    IN  From

Unvisited(d) == [color |-> [id \in {s.id : s \in Declared(d)} |-> "white"], cycle |-> FALSE]

\* Mutant: the search starts at the first step only.
DetectCycleOnce(d) == Visit(d)[<< <<d.steps[1].id>>, Unvisited(d) >>].cycle

DetectCycle(d) == Visit(d)[<<[i \in DOMAIN d.steps |-> d.steps[i].id], Unvisited(d)>>].cycle

-----------------------------------------------------------------------------
(* The rules of each pattern.                                              *)

Roots(d) == {s \in Declared(d) : s.deps = <<>>}
NoFanOut(d) == \A s \in Declared(d) : s.fan = 0
Linear(d) == \A s \in Declared(d) : Len(s.deps) <= 1

\* The ids the walk from a root along handoffTo visits: the fewest that hold the root
\* and go on to every step one of them hands over to.
Chain(d, root) ==
    LET Id == {s.id : s \in Declared(d)}
        Walked(ids) == root.id \in ids /\ \A id \in ids : StepOf(d, id).handoff \in ids \cup {0}
    IN  {id \in Id : \A ids \in SUBSET Id : Walked(ids) => id \in ids}

ChainCovers(d) ==
    \E root \in Roots(d) :
        LET chain == Chain(d, root)
        IN  /\ chain = {s.id : s \in Declared(d)}
            /\ \E id \in chain : StepOf(d, id).handoff = 0     \* it did not come round

PatternOk(d) ==
    CASE d.pattern = "pipeline" -> Linear(d) /\ NoFanOut(d)
      [] d.pattern = "fan-out" ->
            /\ ~NoFanOut(d)
            /\ \A s \in Declared(d) : s.fan # 1
      [] d.pattern = "supervisor" ->
            /\ NoFanOut(d)
            /\ Cardinality(Roots(d)) = 1
            /\ \A root \in Roots(d), s \in Declared(d) : s # root => root.id \in ToSet(s.deps)
      [] d.pattern = "handoff" ->
            /\ Linear(d) /\ NoFanOut(d)
            /\ \A s \in Declared(d) : ~s.onEach /\ s.join # "stream"
            /\ \A s \in Declared(d) : s.handoff # 0 => StepOf(d, s.handoff).deps = <<s.id>>
            /\ Cardinality(Roots(d)) = 1
            /\ ChainCovers(d)

WorkflowOk(d) ==
    /\ HeaderOk(d)
    /\ UniqueIds(d)
    /\ \A s \in Declared(d) : StepOk(d, s)
    /\ StreamsRead(d)
    /\ RefsOk(d)
    /\ ~DetectCycle(d)
    /\ PatternOk(d)

-----------------------------------------------------------------------------
(* Team presets.                                                           *)

NonStandby(p) == {i \in DOMAIN p.members : ~p.members[i].standby}
EffectiveLead(p) == IF p.lead # "unset" THEN p.lead ELSE p.members[Min(NonStandby(p))].agent

PresetOk(p) ==
    /\ p.name > 0
    /\ p.members # <<>>
    /\ \A i, j \in DOMAIN p.members : p.members[i].agent = p.members[j].agent => i = j
    /\ \A m \in ToSet(p.members) : m.agent \in AgentDefs
    /\ NonStandby(p) # {}
    /\ p.lead # "unset" => \E i \in NonStandby(p) : p.members[i].agent = p.lead

-----------------------------------------------------------------------------
\* A schedule closes the panes of its runs unless the author says otherwise.
WithScheduleDefaults(d) ==
    IF d.schedule.every # "unset" /\ d.autoClose = "unset"
    THEN [d EXCEPT !.autoClose = "success"] ELSE d

-----------------------------------------------------------------------------
(* What an accepted declaration promises the driver.                       *)

Where(d, Pred(_)) == {i \in DOMAIN d.steps : Pred(d.steps[i])}

\* The declaration as the driver's model is given it.
Driven(d) == INSTANCE WorkflowDef WITH
    N <- Len(d.steps),
    Deps <- [i \in DOMAIN d.steps |-> {IndexOf(d, id) : id \in ToSet(d.steps[i].deps)}],
    Fan <- [i \in DOMAIN d.steps |-> CopiesFor(d.pattern, d.steps[i])],
    Quota <- [i \in DOMAIN d.steps |-> CASE d.steps[i].join = "any" -> 1
                                         [] d.steps[i].join = "count" -> d.steps[i].count
                                         [] OTHER -> 0],
    ReplyJoin <- Where(d, LAMBDA s : s.join = "reply"),
    RetryMax <- [i \in DOMAIN d.steps |-> IF d.steps[i].retry = -1 THEN 0 ELSE d.steps[i].retry],
    Timeout <- Where(d, LAMBDA s : s.timeout # 0),
    Kickoff <- Where(d, LAMBDA s : s.kickoff),
    Condition <- Where(d, LAMBDA s : s.condition # "unset"),
    Agent <- [i \in DOMAIN d.steps |-> d.steps[i].agent]

\* A reply is carried to a step that comes later, from a step of one copy.
CarriesForward(d) ==
    \A i \in DOMAIN d.steps : d.steps[i].handoff # 0 =>
        /\ i \in Driven(d)!Upstream[IndexOf(d, d.steps[i].handoff)]
        /\ CopiesFor(d.pattern, d.steps[i]) = 1

\* A stream has an agent to answer on its thread and somebody who takes the units, each
\* of them on his own; nothing else is waited for unit by unit.
StreamsPaired(d) ==
    /\ \A i \in DOMAIN d.steps : d.steps[i].join = "stream" =>
           /\ d.steps[i].kickoff
           /\ \E j \in DOMAIN d.steps :
                  d.steps[j].onEach /\ i \in Driven(d)!Upstream[j]
    /\ \A j \in DOMAIN d.steps : d.steps[j].onEach =>
           \E i \in DOMAIN d.steps : d.steps[j].deps = <<d.steps[i].id>> /\ d.steps[i].join = "stream"

\* A handoff is one line: of two steps one waits for the other.
ChainIsALine(d) ==
    d.pattern = "handoff" =>
        \A i, j \in DOMAIN d.steps :
            i # j => i \in Driven(d)!Upstream[j] \/ j \in Driven(d)!Upstream[i]

Runnable(d) ==
    Driven(d)!ValidWorkflow /\ CarriesForward(d) /\ StreamsPaired(d) /\ ChainIsALine(d)

\* The kickoff of a preset goes to a member that is launched.
Startable(p) == EffectiveLead(p) \in {p.members[i].agent : i \in NonStandby(p)}

\* A condition is matched against the one reply of its dependency: a step of one copy.
OneReplyToMatch(d) ==
    \A s \in Declared(d) : s.condition # "unset" =>
        LET dep == StepOf(d, OnlyDep(s))
        IN  CopiesFor(d.pattern, dep) = 1 /\ dep.join # "stream" /\ ~dep.onEach
=============================================================================
