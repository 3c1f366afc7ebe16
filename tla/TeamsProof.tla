------------------------------ MODULE TeamsProof ------------------------------
(***************************************************************************)
(* The Agent Teams host, for any number of subagents, panes and instants:  *)
(* what a fallback watcher concludes from the time of the last spawn, and  *)
(* what a tail may still write.                                            *)
(***************************************************************************)
EXTENDS Teams, TLAPS

-------------------------------------------------------------------------------
(* Types.                                                                  *)

LEMMA Sizes ==
    /\ MaxPanes \in Nat /\ GlobalMaxPanes \in Nat /\ GridMaxPanes \in Nat /\ Ordinary \in Nat
    /\ MaxId \in Nat /\ MaxText \in Nat /\ MaxLeadExits \in Nat
    /\ Window \in Nat \ {0} /\ MaxClock \in Nat \ {0}
  BY TeamsAssumption

Clocks == /\ clock \in 1 .. MaxClock /\ lastSpawn \in 0 .. MaxClock /\ born \in 0 .. MaxClock
          /\ pending \in [Agent -> 0 .. MaxClock]

Panes == /\ slot \in [Id -> Slot] /\ nextId \in 1 .. MaxId + 1
         /\ asking \in [Id -> {"idle", "forking", "record"}] /\ up \subseteq Id

Lead == /\ lead \in {"running", "exited"} /\ exitsLeft \in 0 .. MaxLeadExits
        /\ registered \in BOOLEAN /\ monitor \in {"polling", "tearing down", "over"}
        /\ prev \subseteq Id /\ reported \subseteq Id /\ told \in [Id -> Nat]

Threads == /\ hook \in [Agent -> {"none", "create", "started", "stopped"}]
           /\ watcher \in [Agent -> {"none", "waiting", "fallback", "observed", "over"}]
           /\ tail \in [Id -> {"none", "tailing", "over"}]
           /\ text \in [Id -> 0 .. MaxText]

LEMMA TypeParts == TypeOK <=> Clocks /\ Panes /\ Lead /\ Threads
  BY DEF TypeOK, Clocks, Panes, Lead, Threads

\* What the operator and the child do to a pane that is there.
Closes(i) == ClosePane(i) \/ Exit(i) \/ RestartPane(i) \/ Respawn(i)

LEMMA ClocksStep == Clocks /\ [Next]_vars => Clocks'
<1> SUFFICES ASSUME Clocks, [Next]_vars PROVE Clocks'
  OBVIOUS
<1> USE Sizes
<1>1. SplitWindow => UNCHANGED <<clock, lastSpawn, born, pending>>
  BY DEF SplitWindow, hookVars
<1>2. ASSUME NEW i \in Id, Spawn(i) \/ Tail(i) \/ Closes(i)
      PROVE  UNCHANGED <<clock, lastSpawn, born, pending>>
  BY <1>2 DEF Spawn, Tail, Closes, ClosePane, Exit, RestartPane, Respawn, hookVars
<1>3. ASSUME NEW i \in Id, Record(i) PROVE Clocks'
  BY <1>3 DEF Record, Clocks, hookVars
<1>4. ASSUME NEW a \in Agent, CreateTranscript(a) \/ SubagentStop(a) \/ FallBack(a)
      PROVE  UNCHANGED <<clock, lastSpawn, born, pending>>
  BY <1>4 DEF CreateTranscript, SubagentStop, FallBack
<1>5. ASSUME NEW a \in Agent, SubagentStart(a) PROVE Clocks'
  BY <1>5 DEF SubagentStart, Clocks
<1>6. ASSUME NEW a \in Agent, Correlate(a) PROVE Clocks'
  BY <1>6 DEF Correlate, Clocks
<1>7. Poll \/ LeadExits \/ LeadRestarts \/ UNCHANGED vars
         => UNCHANGED <<clock, lastSpawn, born, pending>>
  BY DEF Poll, LeadExits, LeadRestarts, vars, hookVars
<1>8. CASE TearDown
  <2>1. pending' = [a \in Agent |-> 0] /\ UNCHANGED <<clock, lastSpawn, born>>
    BY <1>8 DEF TearDown
  <2>2. QED BY <2>1 DEF Clocks
<1>9. CASE TimePasses
  BY <1>9 DEF TimePasses, Clocks, hookVars
<1>10. UNCHANGED <<clock, lastSpawn, born, pending>> => Clocks'
  BY DEF Clocks
<1>11. QED
  BY <1>1, <1>2, <1>3, <1>4, <1>5, <1>6, <1>7, <1>8, <1>9, <1>10 DEF Next, Watchers, Closes

LEMMA SlotIs ==
    /\ NoSlot \in Slot
    /\ \A a \in Agent \cup {"none"}, k \in {"host", "transcript"}, s \in {"starting", "running"} :
           [kind |-> k, state |-> s, agent |-> a, killed |-> FALSE, gen |-> 0] \in Slot
    /\ \A s \in Slot : /\ \A st \in {"running", "restarting", "exited"} : [s EXCEPT !.state = st] \in Slot
                       /\ [s EXCEPT !.killed = TRUE] \in Slot
                       /\ [s EXCEPT !.gen = 1] \in Slot
BY DEF NoSlot, Slot

\* stop_transcript_session writes the state and the generation.
LEMMA Stopped ==
    ASSUME NEW s \in Slot
    PROVE  /\ [s EXCEPT !.state = "exited", !.gen = 1] \in Slot
           /\ [s EXCEPT !.state = "exited", !.gen = 1].gen = 1
<1> DEFINE mid == [s EXCEPT !.state = "exited"]
<1>1. mid \in Slot
  BY SlotIs
<1>2. [s EXCEPT !.state = "exited", !.gen = 1] = [mid EXCEPT !.gen = 1]
  OBVIOUS
<1> HIDE DEF mid
<1>3. [mid EXCEPT !.gen = 1].gen = 1
  BY <1>1 DEF Slot
<1>4. QED BY <1>1, <1>2, <1>3, SlotIs

LEMMA PanesStep == Panes /\ [Next]_vars => Panes'
<1> SUFFICES ASSUME Panes, [Next]_vars PROVE Panes'
  OBVIOUS
<1> USE Sizes
<1> DEFINE new(k, s, a) == [kind |-> k, state |-> s, agent |-> a, killed |-> FALSE, gen |-> 0]
<1>1. CASE SplitWindow
  <2>1. new("host", "starting", "none") \in Slot
    BY SlotIs
  <2> HIDE DEF new
  <2>2. /\ nextId \in Id /\ nextId' = nextId + 1 /\ up' = up
        /\ slot' = [slot EXCEPT ![nextId] = new("host", "starting", "none")]
        /\ asking' = [asking EXCEPT ![nextId] = "forking"]
    BY <1>1 DEF SplitWindow, new
  <2>3. QED BY <2>1, <2>2 DEF Panes, Id
<1>2. ASSUME NEW i \in Id, Spawn(i) PROVE Panes'
  <2>1. /\ nextId' = nextId /\ up' \in {up, up \cup {i}}
        /\ \/ asking' = [asking EXCEPT ![i] = "record"]
           \/ asking' = [asking EXCEPT ![i] = "idle"]
        /\ \/ slot' = [slot EXCEPT ![i].state = "running"]
           \/ slot' = [slot EXCEPT ![i] = NoSlot]
    BY <1>2 DEF Spawn
  <2>2. slot[i] \in Slot /\ [slot[i] EXCEPT !.state = "running"] \in Slot
    BY SlotIs DEF Panes
  <2>3. QED BY <2>1, <2>2, SlotIs DEF Panes
<1>3. ASSUME NEW i \in Id, Record(i) PROVE Panes'
  BY <1>3 DEF Record, Panes
<1>4. ASSUME NEW i \in Id, ClosePane(i) PROVE Panes'
  <2>1. /\ slot' = [slot EXCEPT ![i] = [slot[i] EXCEPT !.killed = TRUE]]
           \/ slot' = [slot EXCEPT ![i] = NoSlot]
        /\ UNCHANGED <<nextId, asking, up>>
    BY <1>4 DEF ClosePane
  <2>2. slot[i] \in Slot /\ [slot[i] EXCEPT !.killed = TRUE] \in Slot
    BY SlotIs DEF Panes
  <2>3. QED BY <2>1, <2>2, SlotIs DEF Panes
<1>5. ASSUME NEW i \in Id, Exit(i) PROVE Panes'
  <2>1. /\ slot' = [slot EXCEPT ![i] = [slot[i] EXCEPT !.state = "exited"]]
           \/ slot' = [slot EXCEPT ![i] = NoSlot]
        /\ UNCHANGED <<nextId, asking, up>>
    BY <1>5 DEF Exit
  <2>2. slot[i] \in Slot /\ [slot[i] EXCEPT !.state = "exited"] \in Slot
    BY SlotIs DEF Panes
  <2>3. QED BY <2>1, <2>2, SlotIs DEF Panes
<1>6. ASSUME NEW a \in Agent, CreateTranscript(a) \/ FallBack(a) PROVE Panes'
  <2>1. new("transcript", "running", a) \in Slot
    BY SlotIs
  <2> HIDE DEF new
  <2>2. /\ nextId \in Id /\ nextId' = nextId + 1 /\ UNCHANGED <<asking, up>>
        /\ slot' = [slot EXCEPT ![nextId] = new("transcript", "running", a)]
    BY <1>6 DEF CreateTranscript, FallBack, Transcript, new
  <2>3. QED BY <2>1, <2>2 DEF Panes, Id
<1>7. ASSUME NEW a \in Agent, SubagentStop(a) PROVE Panes'
  <2>1. /\ slot' = [i \in Id |-> IF i \in Transcripts /\ slot[i].agent = a
                                 THEN [slot[i] EXCEPT !.state = "exited", !.gen = 1] ELSE slot[i]]
        /\ UNCHANGED <<nextId, asking, up>>
    BY <1>7 DEF SubagentStop
  <2>2. \A i \in Id : slot[i] \in Slot /\ [slot[i] EXCEPT !.state = "exited", !.gen = 1] \in Slot
    BY Stopped DEF Panes
  <2>3. QED BY <2>1, <2>2 DEF Panes
<1>8. ASSUME NEW i \in Id, Tail(i) PROVE UNCHANGED <<slot, nextId, asking, up>>
  BY <1>8 DEF Tail
<1>9. ASSUME NEW a \in Agent, SubagentStart(a) \/ Correlate(a)
      PROVE  UNCHANGED <<slot, nextId, asking, up>>
  BY <1>9 DEF SubagentStart, Correlate
<1>10. Poll \/ TearDown \/ LeadExits \/ LeadRestarts \/ TimePasses \/ UNCHANGED vars
          => UNCHANGED <<slot, nextId, asking, up>>
  BY DEF Poll, TearDown, LeadExits, LeadRestarts, TimePasses, vars
<1>11. UNCHANGED <<slot, nextId, asking, up>> => Panes'
  BY DEF Panes
<1>12. ASSUME NEW i \in Id, RestartPane(i) PROVE Panes'
  <2> DEFINE mid == [slot[i] EXCEPT !.state = "restarting"]
  <2>1. slot[i] \in Slot /\ mid \in Slot
    BY SlotIs DEF Panes
  <2>2. [mid EXCEPT !.killed = FALSE] \in Slot
    BY <2>1 DEF Slot
  <2>3. [slot EXCEPT ![i].state = "restarting", ![i].killed = FALSE]
            = [slot EXCEPT ![i] = [mid EXCEPT !.killed = FALSE]]
    BY <2>1 DEF Panes, Slot
  <2>4. /\ slot' = [slot EXCEPT ![i] = [mid EXCEPT !.killed = FALSE]]
        /\ UNCHANGED <<nextId, asking, up>>
    BY <1>12, <2>3 DEF RestartPane
  <2> HIDE DEF mid
  <2>5. QED BY <2>2, <2>4 DEF Panes
<1>13. ASSUME NEW i \in Id, Respawn(i) PROVE Panes'
  <2>1. PICK st \in {"running", "exited"} : slot' = [slot EXCEPT ![i].state = st]
    BY <1>13 DEF Respawn
  <2>2. [slot[i] EXCEPT !.state = st] \in Slot /\ UNCHANGED <<nextId, asking, up>>
    BY <1>13, SlotIs DEF Respawn, Panes
  <2>3. QED BY <2>1, <2>2 DEF Panes
<1>14. QED
  BY <1>1, <1>2, <1>3, <1>4, <1>5, <1>6, <1>7, <1>8, <1>9, <1>10, <1>11, <1>12,
     <1>13 DEF Next, Watchers

LEMMA LeadStep == Lead /\ [Next]_vars => Lead'
<1> SUFFICES ASSUME Lead, [Next]_vars PROVE Lead'
  OBVIOUS
<1> USE Sizes
<1>1. CASE Poll
  <2>1. prev' \subseteq Id /\ reported' \subseteq Id
    BY <1>1 DEF Poll, Ended, Hosts, Present, Lead
  <2>2. told' \in [Id -> Nat]
    <3>1. told' = [i \in Id |-> IF i \in Ended(prev) \ reported THEN told[i] + 1 ELSE told[i]]
      BY <1>1 DEF Poll
    <3>2. told \in [Id -> Nat]
      BY DEF Lead
    <3>3. ASSUME NEW i \in Id PROVE told[i] \in Nat /\ told[i] + 1 \in Nat
      <4>1. told[i] \in Nat
        BY <3>2
      <4>2. QED BY <4>1
    <3>4. QED BY <3>1, <3>3
  <2>3. QED BY <1>1, <2>1, <2>2 DEF Poll, Lead
<1>2. CASE TearDown
  BY <1>2 DEF TearDown, Lead
<1>3. CASE LeadExits \/ LeadRestarts
  <2>1. /\ lead' \in {"running", "exited"}
        /\ exitsLeft' = exitsLeft \/ (exitsLeft > 0 /\ exitsLeft' = exitsLeft - 1)
        /\ UNCHANGED <<registered, monitor, prev, reported, told>>
    BY <1>3 DEF LeadExits, LeadRestarts
  <2>2. exitsLeft \in 0 .. MaxLeadExits
    BY DEF Lead
  <2>3. exitsLeft' \in 0 .. MaxLeadExits
    BY <2>1, <2>2
  <2>4. QED BY <2>1, <2>3 DEF Lead
<1>4. SplitWindow \/ TimePasses \/ UNCHANGED vars => UNCHANGED leadVars
  BY DEF SplitWindow, TimePasses, vars, leadVars
<1>5. ASSUME NEW i \in Id, Spawn(i) \/ Record(i) \/ Tail(i) \/ Closes(i)
      PROVE  UNCHANGED leadVars
  BY <1>5 DEF Spawn, Record, Tail, Closes, ClosePane, Exit, RestartPane, Respawn
<1>6. ASSUME NEW a \in Agent, \/ SubagentStart(a) \/ CreateTranscript(a) \/ SubagentStop(a)
                              \/ Correlate(a) \/ FallBack(a)
      PROVE  UNCHANGED leadVars
  BY <1>6 DEF SubagentStart, CreateTranscript, SubagentStop, Correlate, FallBack
<1>7. UNCHANGED leadVars => Lead'
  BY DEF leadVars, Lead
<1>8. QED BY <1>1, <1>2, <1>3, <1>4, <1>5, <1>6, <1>7 DEF Next, Watchers, Closes

LEMMA ThreadsStep == Threads /\ [Next]_vars => Threads'
<1> SUFFICES ASSUME Threads, [Next]_vars PROVE Threads'
  OBVIOUS
<1> USE Sizes
<1>1. ASSUME NEW i \in Id, Tail(i) PROVE Threads'
  BY <1>1 DEF Tail, Threads, hookVars
<1>2. ASSUME NEW i \in Id, Spawn(i) \/ Record(i) \/ Closes(i)
      PROVE  UNCHANGED <<hook, watcher, tail, text>>
  BY <1>2 DEF Spawn, Record, Closes, ClosePane, Exit, RestartPane, Respawn, hookVars
<1>3. ASSUME NEW a \in Agent, SubagentStart(a) \/ SubagentStop(a) \/ Correlate(a) PROVE Threads'
  BY <1>3 DEF SubagentStart, SubagentStop, Correlate, Threads
<1>4. ASSUME NEW a \in Agent, CreateTranscript(a) \/ FallBack(a) PROVE Threads'
  BY <1>4 DEF CreateTranscript, FallBack, Transcript, Threads, Id
<1>5. SplitWindow \/ Poll \/ TearDown \/ LeadExits \/ LeadRestarts \/ TimePasses \/ UNCHANGED vars
          => UNCHANGED <<hook, watcher, tail, text>>
  BY DEF SplitWindow, Poll, TearDown, LeadExits, LeadRestarts, TimePasses, vars, hookVars
<1>6. UNCHANGED <<hook, watcher, tail, text>> => Threads'
  BY DEF Threads
<1>7. QED BY <1>1, <1>2, <1>3, <1>4, <1>5, <1>6 DEF Next, Watchers, Closes

LEMMA TypeStep == TypeOK /\ [Next]_vars => TypeOK'
<1>1. TypeOK' <=> Clocks' /\ Panes' /\ Lead' /\ Threads'
  BY DEF TypeOK, Clocks, Panes, Lead, Threads
<1>2. QED BY <1>1, TypeParts, ClocksStep, PanesStep, LeadStep, ThreadsStep

LEMMA TypeStart == Init => TypeOK
<1> SUFFICES ASSUME Init PROVE TypeOK
  OBVIOUS
<1> USE Sizes
<1>1. Clocks
  BY DEF Init, Clocks
<1>2. Panes
  <2>1. slot = [i \in Id |-> NoSlot] /\ nextId = 1 /\ asking = [i \in Id |-> "idle"] /\ up = {}
    BY DEF Init
  <2>2. QED BY <2>1, SlotIs DEF Panes
<1>3. Lead
  BY DEF Init, Lead
<1>4. Threads
  BY DEF Init, Threads
<1>5. QED BY <1>1, <1>2, <1>3, <1>4, TypeParts

\* teams_host.rs, teams_hooks.rs: the variables keep their types.
THEOREM TypeCorrect == Spec => []TypeOK
  BY TypeStart, TypeStep, PTL DEF Spec

-------------------------------------------------------------------------------
(* The fallback.  A request records its spawn after its PTY is up, so the  *)
(* instant the watchers read is one at which a pane was there.             *)

Answered ==
    /\ \A i \in Id : asking[i] = "record" => i \in up
    /\ lastSpawn = born

LEMMA AnsweredStep == Panes /\ Answered /\ [Next]_vars => Answered'
<1> SUFFICES ASSUME Panes, Answered, [Next]_vars PROVE Answered'
  OBVIOUS
<1>1. CASE SplitWindow
  BY <1>1 DEF SplitWindow, Panes, Answered
<1>2. ASSUME NEW i \in Id, Spawn(i) PROVE Answered'
  BY <1>2 DEF Spawn, Panes, Answered
<1>3. ASSUME NEW i \in Id, Record(i) PROVE Answered'
  BY <1>3 DEF Record, Panes, Answered
<1>4. ASSUME NEW i \in Id, Tail(i) \/ Closes(i) PROVE Answered'
  BY <1>4 DEF Tail, Closes, ClosePane, Exit, RestartPane, Respawn, Answered
<1>5. ASSUME NEW a \in Agent, \/ SubagentStart(a) \/ CreateTranscript(a) \/ SubagentStop(a)
                              \/ Correlate(a) \/ FallBack(a)
      PROVE  Answered'
  BY <1>5 DEF SubagentStart, CreateTranscript, SubagentStop, Correlate, FallBack, Answered
<1>6. CASE Poll \/ TearDown \/ LeadExits \/ LeadRestarts \/ TimePasses \/ UNCHANGED vars
  BY <1>6 DEF Poll, TearDown, LeadExits, LeadRestarts, TimePasses, vars, Answered
<1>7. QED
  BY <1>1, <1>2, <1>3, <1>4, <1>5, <1>6 DEF Next, Watchers, Closes

\* The step at which a watcher is through with an agent without a fallback.
LEMMA GivesUpRightly ==
    ASSUME Clocks, Threads, Answered, [Next]_vars, NEW a \in Agent,
           watcher[a] = "waiting", watcher'[a] = "over"
    PROVE  born >= pending[a]
<1>1. ASSUME NEW b \in Agent, Correlate(b) PROVE b = a
  BY <1>1 DEF Correlate, Threads
<1>2. ASSUME NEW b \in Agent, FallBack(b) \/ SubagentStart(b) PROVE FALSE
  BY <1>2 DEF FallBack, SubagentStart, Threads
<1>3. ASSUME NEW b \in Agent, CreateTranscript(b) \/ SubagentStop(b) PROVE FALSE
  BY <1>3 DEF CreateTranscript, SubagentStop
<1>4. ASSUME NEW i \in Id, Spawn(i) \/ Record(i) \/ Tail(i) \/ Closes(i) PROVE FALSE
  BY <1>4 DEF Spawn, Record, Tail, Closes, ClosePane, Exit, RestartPane, Respawn, hookVars
<1>5. ~(SplitWindow \/ Poll \/ TearDown \/ LeadExits \/ LeadRestarts \/ TimePasses \/ UNCHANGED vars)
  BY DEF SplitWindow, Poll, TearDown, LeadExits, LeadRestarts, TimePasses, vars, hookVars
<1>6. Correlate(a)
  BY <1>1, <1>2, <1>3, <1>4, <1>5 DEF Next, Watchers, Closes
<1>7. pending[a] = 0 \/ (Hosted(a) /\ pending[a] # 0)
  BY <1>6, Sizes DEF Correlate, Fallback, Clocks, Threads
<1>8. QED BY <1>7, Sizes DEF Hosted, Answered, Clocks

\* watch_for_fallback, with the order of spawn_agent: an agent is given up as hosted
\* only when some pane has come up since its hook, however many requests fail or race.
THEOREM HostedMeansHosted == Spec => NotGivenUpForNothing
<1> DEFINE Right == \A a \in Agent :
               watcher[a] = "waiting" /\ watcher'[a] = "over" /\ registered => born >= pending[a]
<1>1. Init => Answered
  BY DEF Init, Answered
<1>2. TypeOK /\ Answered /\ [Next]_vars => [Right]_vars
  BY TypeParts, GivesUpRightly
<1>3. Spec => [][Right]_vars
  BY <1>1, <1>2, TypeStart, TypeStep, TypeParts, AnsweredStep, PTL DEF Spec
<1>4. QED BY <1>3 DEF NotGivenUpForNothing

-------------------------------------------------------------------------------
(* The tail.  A transcript of the first generation is one whose agent has  *)
(* not been stopped.                                                       *)

FirstRuns ==
    \A i \in Id : slot[i].kind = "transcript" /\ slot[i].gen = 0 => slot[i].state = "running"

LEMMA FirstRunsStep == Panes /\ FirstRuns /\ [Next]_vars => FirstRuns'
<1> SUFFICES ASSUME Panes, FirstRuns, [Next]_vars PROVE FirstRuns'
  OBVIOUS
<1>1. CASE SplitWindow
  BY <1>1 DEF SplitWindow, Panes, FirstRuns
<1>2. ASSUME NEW i \in Id, Spawn(i) PROVE FirstRuns'
  BY <1>2 DEF Spawn, NoSlot, Panes, Slot, FirstRuns
<1>3. ASSUME NEW i \in Id, Record(i) \/ Tail(i) PROVE FirstRuns'
  BY <1>3 DEF Record, Tail, FirstRuns
<1>4. ASSUME NEW i \in Id, ClosePane(i) PROVE FirstRuns'
  BY <1>4 DEF ClosePane, NoSlot, Panes, Slot, FirstRuns
<1>5. ASSUME NEW i \in Id, Exit(i) PROVE FirstRuns'
  BY <1>5 DEF Exit, Hosts, Present, NoSlot, Panes, Slot, FirstRuns
<1>6. ASSUME NEW a \in Agent, CreateTranscript(a) \/ FallBack(a) PROVE FirstRuns'
  BY <1>6 DEF CreateTranscript, FallBack, Transcript, Panes, FirstRuns
<1>7. ASSUME NEW a \in Agent, SubagentStop(a) PROVE FirstRuns'
  <2>1. slot' = [i \in Id |-> IF i \in Transcripts /\ slot[i].agent = a
                               THEN [slot[i] EXCEPT !.state = "exited", !.gen = 1] ELSE slot[i]]
    BY <1>7 DEF SubagentStop
  <2>2. \A i \in Id : [slot[i] EXCEPT !.state = "exited", !.gen = 1].gen = 1
    BY Stopped DEF Panes
  <2>3. \A i \in Id : slot'[i] = slot[i] \/ slot'[i].gen = 1
    BY <2>1, <2>2
  <2>4. QED BY <2>3 DEF FirstRuns
<1>8. ASSUME NEW a \in Agent, SubagentStart(a) \/ Correlate(a) PROVE FirstRuns'
  BY <1>8 DEF SubagentStart, Correlate, FirstRuns
<1>9. CASE Poll \/ TearDown \/ LeadExits \/ LeadRestarts \/ TimePasses \/ UNCHANGED vars
  BY <1>9 DEF Poll, TearDown, LeadExits, LeadRestarts, TimePasses, vars, FirstRuns
<1>10. ASSUME NEW i \in Id, RestartPane(i) \/ Respawn(i) PROVE FirstRuns'
  <2>1. /\ slot[i].kind = "host" /\ slot'[i].kind = slot[i].kind
        /\ \A j \in Id \ {i} : slot'[j] = slot[j]
    BY <1>10 DEF RestartPane, Respawn, Hosts, Panes, Slot
  <2>2. QED BY <2>1 DEF FirstRuns
<1>11. QED
  BY <1>1, <1>2, <1>3, <1>4, <1>5, <1>6, <1>7, <1>8, <1>9, <1>10 DEF Next, Watchers

\* A text grows only in the step of a tail whose slot is still its own.
LEMMA OnlyCurrentGrows ==
    ASSUME Threads, [Next]_vars, NEW i \in Id, text'[i] # text[i]
    PROVE  Current(i)
<1>1. ASSUME NEW j \in Id, Tail(j) PROVE Current(i)
  BY <1>1 DEF Tail, Threads
<1>2. ASSUME NEW j \in Id, Spawn(j) \/ Record(j) \/ Closes(j) PROVE FALSE
  BY <1>2 DEF Spawn, Record, Closes, ClosePane, Exit, RestartPane, Respawn
<1>3. ASSUME NEW a \in Agent, \/ SubagentStart(a) \/ CreateTranscript(a) \/ SubagentStop(a)
                              \/ Correlate(a) \/ FallBack(a)
      PROVE  FALSE
  BY <1>3 DEF SubagentStart, CreateTranscript, SubagentStop, Correlate, FallBack
<1>4. ~(SplitWindow \/ Poll \/ TearDown \/ LeadExits \/ LeadRestarts \/ TimePasses \/ UNCHANGED vars)
  BY DEF SplitWindow, Poll, TearDown, LeadExits, LeadRestarts, TimePasses, vars
<1>5. QED BY <1>1, <1>2, <1>3, <1>4 DEF Next, Watchers, Closes

\* transcript_append with stop_transcript_session: nothing is appended to the pane of
\* an agent that has stopped, though its tail may run on.
THEOREM NothingAfterTheStop == Spec => StoppedIsQuiet
<1> DEFINE Quiet == \A i \in Id : text'[i] # text[i] => slot[i].state = "running"
<1>1. Init => FirstRuns
  BY DEF Init, NoSlot, FirstRuns
<1>2. TypeOK /\ FirstRuns /\ [Next]_vars => [Quiet]_vars
  BY TypeParts, OnlyCurrentGrows DEF Current, FirstRuns
<1>3. Spec => [][Quiet]_vars
  BY <1>1, <1>2, TypeStart, TypeStep, TypeParts, FirstRunsStep, PTL DEF Spec
<1>4. QED BY <1>3 DEF StoppedIsQuiet
===============================================================================
