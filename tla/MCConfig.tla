------------------------------ MODULE MCConfig ------------------------------
(***************************************************************************)
(* Files to load: a few texts that differ in what they make of the hub,    *)
(* and a corpus of small workflows and presets, most of them refused.      *)
(***************************************************************************)
EXTENDS Config

TwoPlaces == <<"project", "global">>

Plain == [id |-> 1, bytes |-> 1, agent |-> "worker", deps |-> <<>>, fan |-> 0,
          join |-> "unset", count |-> 0, kickoff |-> FALSE, condition |-> "unset",
          handoff |-> 0, onEach |-> FALSE, retry |-> -1, backoff |-> 0, timeout |-> 0]
Unscheduled == [every |-> "unset", parses |-> TRUE, max |-> 3]
Flow(pattern, steps) == [name |-> 1, pattern |-> pattern, schedule |-> Unscheduled,
                         autoClose |-> "unset", steps |-> steps]

TextOf(flows, presets, enabled, port) ==
    [flows |-> flows, presets |-> presets, enabled |-> enabled, port |-> port]

BuiltIn == TextOf({}, {}, TRUE, DefaultPort)
Broken == TextOf({Flow("pipeline", <<>>)}, {}, TRUE, DefaultPort)
Texts == {BuiltIn, Broken, TextOf({}, {}, FALSE, DefaultPort), TextOf({}, {}, TRUE, DefaultPort + 1)}

\* Sequences without repetition over a set of ids, in increasing order.
Listed(ids) == SetToSortSeq(ids, <)

\* Graphs: three steps that wait for each other, or for a step nobody declares.
Graphs ==
    {Flow(pattern, [i \in 1 .. 3 |-> [Plain EXCEPT !.id = i, !.deps = Listed(deps[i])]]) :
        pattern \in {"pipeline", "supervisor"},
        deps \in [1 .. 3 -> SUBSET (1 .. 3) \cup {{9}}]}

\* Chains: the same with handoffs.
Chains ==
    {Flow(pattern, [i \in 1 .. 3 |-> [Plain EXCEPT !.id = i, !.deps = Listed(deps[i]), !.handoff = to[i]]]) :
        pattern \in {"handoff"},
        deps \in [1 .. 3 -> {{}, {1}, {2}, {3}}], to \in [1 .. 3 -> 0 .. 3]}

\* Joins: two steps, everything that decides when the first is over and what the
\* second waits for.
Joins ==
    {Flow(pattern, <<[Plain EXCEPT !.fan = fan, !.join = join[1], !.count = join[2],
                                   !.kickoff = kickoff, !.handoff = to],
                     [Plain EXCEPT !.id = 2, !.deps = deps, !.fan = fan2, !.join = join2[1],
                                   !.count = join2[2], !.kickoff = kickoff, !.onEach = each]>>) :
        pattern \in {"fan-out", "handoff"}, fan \in {0, 1, 2}, fan2 \in {0, 2},
        join \in {<<"unset", 0>>, <<"any", 0>>, <<"count", 0>>, <<"count", 1>>, <<"count", 2>>,
                  <<"count", 3>>, <<"reply", 0>>, <<"stream", 0>>},
        join2 \in {<<"all", 0>>, <<"any", 0>>, <<"count", 2>>, <<"reply", 0>>, <<"stream", 0>>},
        kickoff \in BOOLEAN, to \in {0, 2}, deps \in {<<>>, <<1>>},
        each \in BOOLEAN}

\* Gates: a condition on each kind of step, and on a consumer of a stream.
Gates ==
    {Flow(pattern, <<[Plain EXCEPT !.fan = fan, !.join = join, !.kickoff = TRUE],
                     [Plain EXCEPT !.id = 2, !.deps = <<1>>, !.fan = fan2, !.condition = condition],
                     [Plain EXCEPT !.id = 3, !.deps = <<1>>, !.onEach = each]>>) :
        pattern \in {"supervisor", "fan-out"}, fan \in {0, 2}, join \in {"unset", "reply", "stream"},
        fan2 \in {0, 2}, condition \in {"regex", "broken"}, each \in BOOLEAN}

Behind ==
    {Flow("pipeline", <<[Plain EXCEPT !.join = "stream", !.kickoff = TRUE],
                        [Plain EXCEPT !.id = 2, !.deps = <<1>>, !.onEach = TRUE],
                        [Plain EXCEPT !.id = 3, !.deps = <<2>>, !.condition = condition]>>) :
        condition \in {"unset", "regex", "broken"}}

\* Fields out of bounds, one at a time, and a schedule.
Fields ==
    {Flow("pipeline", <<s>>) : s \in
        {[Plain EXCEPT !.bytes = 0], [Plain EXCEPT !.agent = "stranger"],
         [Plain EXCEPT !.timeout = 99], [Plain EXCEPT !.timeout = 100],
         [Plain EXCEPT !.backoff = 60001]}
        \cup {[Plain EXCEPT !.retry = r, !.backoff = b] : r \in {-1, 0, 1, 10, 11}, b \in {0, 60001}}}
    \cup {[Flow("pipeline", <<Plain>>) EXCEPT !.name = bytes] : bytes \in {0, 84, 85}}
    \cup {Flow("pipeline", <<Plain, Plain>>)}
    \cup {[Flow("pipeline", <<Plain>>) EXCEPT
              !.schedule = [every |-> "day", parses |-> parses, max |-> max], !.autoClose = close] :
          parses \in BOOLEAN, max \in {0, 1, 10, 11}, close \in {"unset", "never"}}

Members == UNION {[1 .. n -> [agent : {"worker", "lead", "stranger"}, standby : BOOLEAN]] : n \in 0 .. 2}
Presets == [name : {0, 1}, members : Members, lead : {"unset", "worker", "lead"}]

FlowCorpus == {TextOf({d}, {}, TRUE, DefaultPort) : d \in Graphs \cup Chains \cup Joins \cup Gates \cup Behind \cup Fields}
PresetCorpus == {TextOf({}, {p}, TRUE, DefaultPort) : p \in Presets}
AllCorpus == FlowCorpus \cup PresetCorpus
=============================================================================
