------------------------------- MODULE GridProof -------------------------------
(***************************************************************************)
(* The two that live on the grid the session manager promises, proved for  *)
(* all constants: the launch of a preset by several callers, and the       *)
(* window.                                                                 *)
(***************************************************************************)
EXTENDS Presets, Window, FiniteSetTheorems, SequenceTheorems, TLAPS

(***************************************************************************)
(* Presets: a call that has counted the grid and not opened its pane yet   *)
(* is counted as if it had.  At the count there is room, so the callers    *)
(* after the first are all that can be too many.                           *)
(***************************************************************************)

CallPhase == {"idle", "look", "count", "spawn", "launch", "done"}

CallsOK ==
    /\ grid \in [Cell -> GridTable!Status]
    /\ call \in [Call -> [phase : CallPhase, at : Nat, cells : SUBSET Cell,
                          report : [Member -> MemberStatus]]]

\* The calls between their count and their opening.
Counters == {k \in Call : call[k].phase = "spawn"}

Bounded ==
    /\ IsFiniteSet(OccupiedCells)
    /\ Cardinality(OccupiedCells) + Cardinality(Counters) <= Cap + Cardinality(Call) - 1

LEMMA CountersFinite ==
    ASSUME NEW S \in SUBSET Call
    PROVE  IsFiniteSet(S) /\ Cardinality(S) \in Nat /\ Cardinality(S) <= Cardinality(Call)
           /\ Cardinality(Call) \in Nat
  BY PresetsAssumption, FS_Subset, FS_CardinalityType

\* A step that opens nothing and counts nothing keeps the bound.
LEMMA BoundStands ==
    ASSUME Bounded, OccupiedCells' \subseteq OccupiedCells, Counters' \subseteq Counters
    PROVE  Bounded'
<1>1. IsFiniteSet(OccupiedCells') /\ Cardinality(OccupiedCells') <= Cardinality(OccupiedCells)
  BY FS_Subset DEF Bounded
<1>2. IsFiniteSet(Counters) /\ Cardinality(Counters') <= Cardinality(Counters)
  <2>1. IsFiniteSet(Counters)
    BY CountersFinite DEF Counters
  <2>2. QED BY <2>1, FS_Subset
<1>3. IsFiniteSet(Counters')
  BY <1>2, FS_Subset
<1>4. /\ Cardinality(OccupiedCells) \in Nat /\ Cardinality(OccupiedCells') \in Nat
      /\ Cardinality(Counters) \in Nat /\ Cardinality(Counters') \in Nat
      /\ Cardinality(Call) \in Nat /\ Cap \in Nat
  <2>1. IsFiniteSet(OccupiedCells)
    BY DEF Bounded
  <2>2. QED BY <1>1, <1>2, <1>3, <2>1, FS_CardinalityType, PresetsAssumption
<1>5. QED BY <1>1, <1>2, <1>4 DEF Bounded

LEMMA PresetsStart == PresetInit => CallsOK /\ Bounded
<1> SUFFICES ASSUME PresetInit PROVE CallsOK /\ Bounded
  OBVIOUS
<1>1. CallsOK
  BY DEF PresetInit, CallsOK, GridTable!Init, GridTable!Status, NewCall, CallPhase, MemberStatus
<1>2. OccupiedCells = {} /\ Counters = {}
  BY DEF PresetInit, OccupiedCells, Counters, GridTable!Init, NewCall
<1>3. IsFiniteSet({}) /\ Cardinality({}) = 0
  BY FS_EmptySet
<1>4. Cap \in Nat \ {0} /\ Cardinality(Call) \in Nat
  BY PresetsAssumption, FS_CardinalityType
<1>5. QED BY <1>1, <1>2, <1>3, <1>4 DEF Bounded

LEMMA ReportsPhase ==
    ASSUME CallsOK, NEW k \in Call, NEW st \in MemberStatus, Reports(k, st)
    PROVE  /\ call' \in [Call -> [phase : CallPhase, at : Nat, cells : SUBSET Cell,
                                  report : [Member -> MemberStatus]]]
           /\ call'[k].phase = "look"
           /\ \A j \in Call : j # k => call'[j] = call[j]
<1> DEFINE old == call[k]
<1> DEFINE filed == [old.report EXCEPT ![old.at] = st]
<1>1. old \in [phase : CallPhase, at : Nat, cells : SUBSET Cell, report : [Member -> MemberStatus]]
  BY DEF CallsOK
<1>2. filed \in [Member -> MemberStatus]
  BY <1>1
<1>3. call' = [call EXCEPT ![k].phase = "look", ![k].at = @ + 1, ![k].report[call[k].at] = st]
  BY DEF Reports
<1>4. QED BY <1>1, <1>2, <1>3 DEF CallsOK, CallPhase

LEMMA GoesPhase ==
    ASSUME CallsOK, NEW k \in Call, NEW phase \in CallPhase, Goes(k, phase)
    PROVE  /\ call' \in [Call -> [phase : CallPhase, at : Nat, cells : SUBSET Cell,
                                  report : [Member -> MemberStatus]]]
           /\ call'[k].phase = phase
           /\ \A j \in Call : j # k => call'[j] = call[j]
  BY DEF Goes, CallsOK

\* The steps of the table, one pane at a time.
LEMMA TableStep ==
    ASSUME CallsOK, NEW c \in Cell, NEW new \in GridTable!Status, GridTable!Become(c, new)
    PROVE  /\ grid' \in [Cell -> GridTable!Status]
           /\ grid'[c] = new
           /\ \A d \in Cell : d # c => grid'[d] = grid[d]
  BY DEF CallsOK, GridTable!Become

\* A step of the table that is no opening occupies no cell.
LEMMA NothingOpens ==
    ASSUME CallsOK, NEW c \in Cell,
           \/ GridTable!Start(c) \/ GridTable!GiveUp(c) \/ GridTable!End(c)
           \/ GridTable!Restart(c) \/ GridTable!Close(c) \/ GridTable!Closed(c)
    PROVE  /\ grid' \in [Cell -> GridTable!Status]
           /\ OccupiedCells' \subseteq OccupiedCells
<1>1. \E new \in GridTable!Status : GridTable!Become(c, new)
  BY DEF GridTable!Start, GridTable!GiveUp, GridTable!End, GridTable!Restart, GridTable!Close,
         GridTable!Closed, GridTable!Status
<1>2. grid[c] \notin {"unopened", "closed"}
  BY DEF GridTable!Start, GridTable!GiveUp, GridTable!End, GridTable!Restart, GridTable!Close,
         GridTable!Closed
<1>3. /\ grid' \in [Cell -> GridTable!Status]
      /\ \A d \in Cell : d # c => grid'[d] = grid[d]
  BY <1>1, TableStep
<1>4. QED BY <1>2, <1>3 DEF OccupiedCells

LEMMA PresetsStep == CallsOK /\ Bounded /\ [PresetNext]_presetVars => CallsOK' /\ Bounded'
<1> SUFFICES ASSUME CallsOK, Bounded, [PresetNext]_presetVars PROVE CallsOK' /\ Bounded'
  OBVIOUS
<1> DEFINE CallsType == [Call -> [phase : CallPhase, at : Nat, cells : SUBSET Cell,
                                  report : [Member -> MemberStatus]]]
<1>1. call \in CallsType /\ grid \in [Cell -> GridTable!Status]
  BY DEF CallsOK
<1>2. CASE UNCHANGED presetVars
  <2>1. UNCHANGED <<grid, call>>
    BY <1>2 DEF presetVars
  <2>2. OccupiedCells' = OccupiedCells /\ Counters' = Counters
    BY <2>1 DEF OccupiedCells, Counters
  <2>3. QED BY <2>1, <2>2, BoundStands DEF CallsOK
<1>3. CASE GridStep
  <2>1. PICK c \in Cell :
            \/ GridTable!GiveUp(c) \/ GridTable!End(c) \/ GridTable!Close(c) \/ GridTable!Closed(c)
            \/ GridTable!Restart(c) \/ GridTable!Start(c)
    BY <1>3 DEF GridStep, OccupiedCells
  <2>2. /\ grid' \in [Cell -> GridTable!Status]
        /\ OccupiedCells' \subseteq OccupiedCells
    BY <2>1, NothingOpens
  <2>3. call' = call /\ Counters' = Counters
    BY <1>3 DEF GridStep, Counters
  <2>4. QED BY <2>2, <2>3, BoundStands DEF CallsOK
<1>4. ASSUME NEW k \in Call, \/ StartTeam(k) \/ LookFor(k) \/ Unresolved(k) \/ Deliver(k)
      PROVE  CallsOK' /\ Bounded'
  <2>1. UNCHANGED grid
    BY <1>4 DEF StartTeam, LookFor, Unresolved, Deliver
  <2>2. \/ \E phase \in CallPhase \ {"spawn"} : Goes(k, phase)
        \/ \E st \in MemberStatus : Reports(k, st)
    BY <1>4 DEF StartTeam, LookFor, Unresolved, Deliver, CallPhase, MemberStatus
  <2>3. call' \in CallsType /\ call'[k].phase # "spawn" /\ \A j \in Call : j # k => call'[j] = call[j]
    BY <2>2, GoesPhase, ReportsPhase
  <2>4. OccupiedCells' = OccupiedCells /\ Counters' \subseteq Counters
    BY <2>1, <2>3 DEF OccupiedCells, Counters
  <2>5. QED BY <1>1, <2>1, <2>3, <2>4, BoundStands DEF CallsOK
<1>5. ASSUME NEW k \in Call, Spawned(k) \/ NotSpawned(k) PROVE CallsOK' /\ Bounded'
  <2>1. \E st \in MemberStatus : Reports(k, st)
    BY <1>5 DEF Spawned, NotSpawned, MemberStatus
  <2>2. call' \in CallsType /\ call'[k].phase # "spawn" /\ \A j \in Call : j # k => call'[j] = call[j]
    BY <2>1, ReportsPhase
  <2>3. PICK c \in Cell : GridTable!Start(c) \/ UNCHANGED grid \/ GridTable!Closed(c)
    BY <1>1, <1>5 DEF Spawned, NotSpawned
  <2>4. grid' \in [Cell -> GridTable!Status] /\ OccupiedCells' \subseteq OccupiedCells
    <3>1. CASE UNCHANGED grid
      BY <1>1, <3>1 DEF OccupiedCells
    <3>2. CASE GridTable!Start(c) \/ GridTable!Closed(c)
      BY <3>2, NothingOpens
    <3>3. QED BY <2>3, <3>1, <3>2
  <2>5. Counters' \subseteq Counters
    BY <2>2 DEF Counters
  <2>6. QED BY <2>2, <2>4, <2>5, BoundStands DEF CallsOK
<1>6. ASSUME NEW k \in Call, CountGrid(k) PROVE CallsOK' /\ Bounded'
  <2>1. UNCHANGED grid /\ OccupiedCells' = OccupiedCells
    BY <1>6 DEF CountGrid, OccupiedCells
  <2>2. CASE Cardinality(OccupiedCells) >= Cap
    <3>1. Reports(k, "failed") /\ "failed" \in MemberStatus
      BY <1>6, <2>2 DEF CountGrid, MemberStatus
    <3>2. call' \in CallsType /\ call'[k].phase # "spawn" /\ \A j \in Call : j # k => call'[j] = call[j]
      BY <3>1, ReportsPhase
    <3>3. Counters' \subseteq Counters
      BY <3>2 DEF Counters
    <3>4. QED BY <1>1, <2>1, <3>2, <3>3, BoundStands DEF CallsOK
  <2>3. CASE ~(Cardinality(OccupiedCells) >= Cap)
    <3>1. Goes(k, "spawn") /\ "spawn" \in CallPhase
      BY <1>6, <2>3 DEF CountGrid, CallPhase
    <3>2. call' \in CallsType
      BY <3>1, GoesPhase
    <3>3. IsFiniteSet(OccupiedCells) /\ Cardinality(OccupiedCells) \in Nat
      BY FS_CardinalityType DEF Bounded
    <3>4. /\ Cardinality(Counters') \in Nat /\ Cardinality(Counters') <= Cardinality(Call)
          /\ Cardinality(Call) \in Nat /\ Cap \in Nat
      BY CountersFinite, PresetsAssumption DEF Counters
    <3>5. QED BY <1>1, <2>1, <2>3, <3>2, <3>3, <3>4 DEF CallsOK, Bounded
  <2>4. QED BY <2>2, <2>3
<1>7. ASSUME NEW k \in Call, Spawn(k) PROVE CallsOK' /\ Bounded'
  <2>1. PICK c \in Cell :
            /\ GridTable!Open(c)
            /\ call' = [call EXCEPT ![k].phase = "launch", ![k].cells = {c}]
    BY <1>7 DEF Spawn
  <2>2. call' \in CallsType /\ call'[k].phase = "launch" /\ \A j \in Call : j # k => call'[j] = call[j]
    BY ZenonT(40), <1>1, <2>1 DEF CallPhase
  <2>3. grid' \in [Cell -> GridTable!Status] /\ grid'[c] = "starting"
        /\ \A d \in Cell : d # c => grid'[d] = grid[d]
    BY <2>1, TableStep DEF GridTable!Open, GridTable!Status
  <2>4. OccupiedCells' = OccupiedCells \cup {c} /\ c \notin OccupiedCells
    BY <2>1, <2>3 DEF OccupiedCells, GridTable!Open
  <2>5. Counters' = Counters \ {k} /\ k \in Counters
    BY <1>7, <2>2 DEF Counters, Spawn, In
  <2>6. IsFiniteSet(OccupiedCells) /\ IsFiniteSet(Counters)
    BY CountersFinite DEF Bounded, Counters
  <2>7. /\ IsFiniteSet(OccupiedCells') /\ Cardinality(OccupiedCells') = Cardinality(OccupiedCells) + 1
        /\ Cardinality(Counters') = Cardinality(Counters) - 1
    BY <2>4, <2>5, <2>6, FS_AddElement, FS_RemoveElement
  <2>8. /\ Cardinality(OccupiedCells) \in Nat /\ Cardinality(Counters) \in Nat
        /\ Cardinality(Call) \in Nat /\ Cap \in Nat
    BY <2>6, FS_CardinalityType, PresetsAssumption
  <2>9. QED BY <2>2, <2>3, <2>7, <2>8 DEF CallsOK, Bounded
<1>8. QED BY <1>2, <1>3, <1>4, <1>5, <1>6, <1>7 DEF PresetNext, CallStep

\* For any grid, preset, cap and number of callers: the panes never outnumber the cap by
\* more than the callers after the first, whoever counts and opens when.
THEOREM PresetsFitTheGrid == PresetSpec => []OvershootBounded
<1>1. Bounded => OvershootBounded
  <2> SUFFICES ASSUME Bounded PROVE Cardinality(OccupiedCells) <= Cap + Cardinality(Call) - 1
    BY DEF OvershootBounded, OccupiedCells
  <2>1. /\ Cardinality(OccupiedCells) \in Nat /\ Cardinality(Counters) \in Nat
        /\ Cardinality(Call) \in Nat /\ Cap \in Nat
    BY CountersFinite, FS_CardinalityType, PresetsAssumption DEF Bounded, Counters
  <2>2. QED BY <2>1 DEF Bounded
<1>2. QED BY <1>1, PresetsStart, PresetsStep, PTL DEF PresetSpec

(***************************************************************************)
(* The window: what it has been told and what it has yet to hear.          *)
(***************************************************************************)

Message == [event : {"session-state", "pty-exit"}, state : SessionShown \ {"unknown"}]
Command == [do : Launch \cup {"kill", "save"}, what : SUBSET Tile]
Reply == [kind : Launch, ids : SUBSET Tile]

WindowOK ==
    /\ tile \in [Tile -> Grid!Status]
    /\ events \in [Tile -> Seq(Message)]
    /\ unsent \in [Tile -> Seq(Message)] /\ late \in [Tile -> Seq(Message)]
    /\ commands \in Seq(Command)
    /\ replies \subseteq Reply
    /\ shown \in [Tile -> SessionShown]
    /\ panes \subseteq Tile /\ shut \subseteq Tile /\ tombs \subseteq shut
    /\ revived \subseteq Tile /\ silent \subseteq Tile /\ raced \subseteq Tile
    /\ ready \in BOOLEAN /\ configured \in BOOLEAN /\ draft \subseteq SUBSET Tile

\* The pane is in a state the window would show as state.
Fits(p, state) ==
    CASE tile[p] = "starting" -> state = "starting"
      [] tile[p] \in {"running", "closing"} -> state = "running"
      [] tile[p] = "restarting" -> state = "restarting"
      [] tile[p] = "exited" -> state \in Ended
      [] tile[p] = "closed" -> state \in Ended \/ p \in silent
      [] OTHER -> FALSE

\* What the window has yet to hear of a pane, but for a thread that was overtaken.
Coming(p) == events[p] \o unsent[p]

\* Only a restart by hand leaves a thread behind that is still to tell.
Overtaken == \A p \in Tile : late[p] # <<>> => p \in raced

\* A pane that nobody has started was never spoken of.
Unheard ==
    \A p \in Tile : tile[p] \in {"unopened", "starting"} =>
        /\ events[p] = <<>> /\ unsent[p] = <<>> /\ late[p] = <<>>
        /\ shown[p] = "unknown" /\ p \notin panes \cup shut
        /\ \A reply \in replies : p \notin reply.ids

\* Only the launch that runs has panes.
Queued == \A i \in 2 .. Len(commands) : commands[i].do \in Launch => commands[i].what = {}

\* Panes a launch has made and the window has not been answered about.
Launching == {p \in Tile : commands # <<>> /\ commands[1].do \in Launch /\ p \in commands[1].what}
Listed(p) == p \in Launching \/ \E reply \in replies : p \in reply.ids

\* A pane that is launched has been opened.
Made == \A p \in Launching : tile[p] # "unopened"

\* What is told last is true.
LastWord ==
    \A p \in Tile \ raced : Coming(p) # <<>> =>
        LET last == Coming(p)[Len(Coming(p))]
        IN  last.event = "session-state" /\ Fits(p, last.state)

\* A launched pane the window does not know yet is about to be announced.
FirstWord ==
    \A p \in Tile \ (panes \cup shut \cup raced) :
        Listed(p) /\ shown[p] = "unknown" /\ tile[p] # "starting"
            => Coming(p) # <<>> /\ Coming(p)[1] = State("running")

\* The window knows the panes it shows, and what it knows is up to date.
Knows ==
    /\ \A p \in panes : shown[p] # "unknown"
    /\ \A p \in Tile \ (revived \cup raced) :
        shown[p] # "unknown" /\ Coming(p) = <<>> => Fits(p, shown[p])

WindowInv ==
    /\ WindowOK /\ Overtaken /\ Unheard /\ Queued /\ Made /\ LastWord /\ FirstWord /\ Knows

\* A terminal in the making of a pane that was opened once.
Making ==
    /\ making \in [Tile -> Nat] /\ terminals \subseteq Tile
    /\ \A p \in Tile \ revived :
        /\ making[p] <= 1
        /\ p \notin panes => p \notin terminals /\ (making[p] > 0 => p \in canceled \cap shut)
        /\ p \in panes /\ making[p] > 0 => p \in creating /\ p \notin terminals

\* The last layout in the queue is v; there is none in it.
Newest(queue, v) ==
    \A i \in 1 .. Len(queue) :
        queue[i].do = "save" /\ (\A j \in i + 1 .. Len(queue) : queue[j].do # "save")
            => queue[i].what = v
NoSave(queue) == \A i \in 1 .. Len(queue) : queue[i].do # "save"

\* The newest snapshot, wherever it is, is that of the open panes.
NewestSnapshot ==
    /\ ~(ready /\ configured) => draft = {}
    /\ draft \subseteq {Persistable(panes)}
    /\ ready /\ configured /\ draft = {} =>
        /\ Newest(commands, Persistable(panes))
        /\ NoSave(commands) => saveFailed \/ saved = Persistable(panes)

LEMMA KindsDiffer ==
    /\ \A p \in Tile : Kill(p) \in Command /\ Kill(p).do \notin Launch
    /\ \A kind \in Launch : Start(kind) \in Command /\ Start(kind).what = {}
    /\ \A layout \in SUBSET Tile : Save(layout) \in Command /\ Save(layout).do \notin Launch
  BY DEF Kill, Start, Save, Command, Launch

\* The last that is told of a change is the state after it.
Truthful(told, new) ==
    /\ told \in Seq(Message) /\ told # <<>>
    /\ told[Len(told)].event = "session-state"
    /\ \/ new = "running" /\ told[1] = State("running") /\ told[Len(told)].state = "running"
       \/ new = "restarting" /\ told[Len(told)].state = "restarting"
       \/ new \in {"exited", "closed"} /\ told[Len(told)].state \in Ended

LEMMA ToldTruly ==
    ASSUME NEW old, NEW new \in {"running", "restarting", "exited", "closed"}, NEW told \in Told(old, new)
    PROVE  Truthful(told, new)
<1>1. \A st \in SessionShown \ {"unknown"} :
        /\ State(st) \in Message /\ State(st).event = "session-state" /\ State(st).state = st
        /\ Exit(st) \in Message
  BY DEF State, Exit, Message
<1>2. Ended \subseteq SessionShown \ {"unknown"} /\ {"running", "restarting", "failed"} \subseteq SessionShown \ {"unknown"}
      /\ "failed" \in Ended
  BY DEF Ended, SessionShown
<1>3. \A m \in Message : /\ <<m>> \in Seq(Message) /\ <<m>> # <<>>
                         /\ <<m>>[1] = m /\ <<m>>[Len(<<m>>)] = m
  OBVIOUS
<1>4. \A x, m \in Message : /\ <<x, m>> \in Seq(Message) /\ <<x, m>> # <<>>
                            /\ <<x, m>>[Len(<<x, m>>)] = m
  OBVIOUS
<1>5. CASE new = "running"
  <2>1. told = <<State("running")>>
    BY <1>5 DEF Told
  <2>2. QED BY <1>1, <1>2, <1>3, <1>5, <2>1 DEF Truthful
<1>6. CASE new = "restarting"
  <2>1. PICK code \in Ended : told = <<Exit(code), State("restarting")>>
    BY <1>6 DEF Told
  <2>2. QED BY <1>1, <1>2, <1>4, <1>6, <2>1 DEF Truthful
<1>7. CASE new \in {"exited", "closed"}
  <2>1. PICK code \in Ended : told = <<State(code)>> \/ told = <<Exit(code), State(code)>>
    BY <1>2, <1>7 DEF Told
  <2>2. CASE told = <<State(code)>>
    BY <1>1, <1>2, <1>3, <1>7, <2>2 DEF Truthful
  <2>3. CASE told = <<Exit(code), State(code)>>
    BY <1>1, <1>2, <1>4, <1>7, <2>3 DEF Truthful
  <2>4. QED BY <2>1, <2>2, <2>3
<1>8. QED BY <1>5, <1>6, <1>7

LEMMA RestartToldTruly == Truthful(<<State("restarting")>>, "restarting")
<1>1. State("restarting") \in Message
  BY DEF State, Message, SessionShown
<1>2. /\ <<State("restarting")>> \in Seq(Message) /\ <<State("restarting")>> # <<>>
      /\ <<State("restarting")>>[Len(<<State("restarting")>>)] = State("restarting")
  BY <1>1
<1>3. QED BY <1>2 DEF Truthful, State

\* One pane of the table moves.
Moves(p, new) ==
    /\ tile' = [tile EXCEPT ![p] = new]
    /\ new \in Grid!Status \ {"unopened"}
    /\ tile[p] # "closed"
    /\ new = "starting" <=> tile[p] = "unopened"
    /\ new = "closing" => tile[p] = "running"

LEMMA TableMoves ==
    ASSUME NEW p \in Tile
    PROVE  /\ Grid!Open(p) => Moves(p, "starting")
           /\ Grid!Start(p) => Moves(p, "running") /\ tile[p] \in {"starting", "restarting"}
           /\ Grid!GiveUp(p) => Moves(p, "exited") /\ tile[p] = "restarting"
           /\ Grid!End(p) => \E new \in {"restarting", "exited"} : Moves(p, new) /\ tile[p] = "running"
           /\ Grid!Close(p) => Moves(p, "closing") /\ tile[p] = "running"
           /\ Grid!Restart(p) => Moves(p, "restarting")
           /\ Grid!Closed(p) => Moves(p, "closed")
  BY DEF Moves, Grid!Open, Grid!Start, Grid!GiveUp, Grid!End, Grid!Close, Grid!Restart, Grid!Closed,
         Grid!Become, Grid!Status

(***************************************************************************)
(* Sequences of messages.                                                  *)
(***************************************************************************)

LEMMA Parts ==
    ASSUME NEW s \in Seq(Message), NEW t \in Seq(Message)
    PROVE  /\ s \o t \in Seq(Message) /\ Len(s \o t) = Len(s) + Len(t) /\ Len(s) \in Nat /\ Len(t) \in Nat
           /\ \A i \in 1 .. Len(s) : (s \o t)[i] = s[i]
           /\ \A i \in 1 .. Len(t) : (s \o t)[Len(s) + i] = t[i]
  BY ConcatProperties

LEMMA Appended ==
    ASSUME NEW s \in Seq(Message), NEW t \in Seq(Message)
    PROVE  /\ s \o t \in Seq(Message)
           /\ s \o t = <<>> <=> s = <<>> /\ t = <<>>
           /\ s # <<>> => (s \o t)[1] = s[1]
           /\ s = <<>> => s \o t = t
           /\ t = <<>> => s \o t = s
           /\ t # <<>> => (s \o t)[Len(s \o t)] = t[Len(t)]
<1>1. /\ s \o t \in Seq(Message) /\ Len(s \o t) = Len(s) + Len(t) /\ Len(s) \in Nat /\ Len(t) \in Nat
      /\ \A i \in 1 .. Len(s) : (s \o t)[i] = s[i]
      /\ \A i \in 1 .. Len(t) : (s \o t)[Len(s) + i] = t[i]
  BY Parts
<1>2. /\ s = <<>> <=> Len(s) = 0
      /\ t = <<>> <=> Len(t) = 0
      /\ s \o t = <<>> <=> Len(s \o t) = 0
  BY <1>1, EmptySeq
<1>3. s \o t = <<>> <=> s = <<>> /\ t = <<>>
  BY <1>1, <1>2
<1>4. s # <<>> => (s \o t)[1] = s[1]
  BY <1>1, <1>2
<1>5. t # <<>> => (s \o t)[Len(s \o t)] = t[Len(t)]
  BY <1>1, <1>2
<1>6. (s = <<>> => s \o t = t) /\ (t = <<>> => s \o t = s)
  BY ConcatEmptySeq
<1>7. QED BY <1>1, <1>3, <1>4, <1>5, <1>6

\* A message passes from those unsent to those on their way, and the whole stays.
LEMMA Passed ==
    ASSUME NEW s \in Seq(Message), NEW t \in Seq(Message), t # <<>>
    PROVE  /\ Append(s, Head(t)) \in Seq(Message) /\ Tail(t) \in Seq(Message)
           /\ Append(s, Head(t)) \o Tail(t) = s \o t
<1>1. Head(t) \in Message /\ Tail(t) \in Seq(Message) /\ <<Head(t)>> \in Seq(Message)
  BY HeadTailProperties
<1>2. Append(s, Head(t)) \in Seq(Message) /\ Append(s, Head(t)) = s \o <<Head(t)>>
  BY <1>1, AppendIsConcat
<1>3. <<Head(t)>> \o Tail(t) = t
  <2>1. /\ Len(<<Head(t)>> \o Tail(t)) = Len(t) /\ <<Head(t)>> \o Tail(t) \in Seq(Message)
        /\ \A i \in 1 .. Len(t) : (<<Head(t)>> \o Tail(t))[i] = t[i]
    BY <1>1
  <2>2. QED BY <2>1, SeqEqual
<1>4. (s \o <<Head(t)>>) \o Tail(t) = s \o (<<Head(t)>> \o Tail(t))
  BY <1>1, ConcatAssociative
<1>5. QED BY <1>1, <1>2, <1>3, <1>4

LEMMA Joined ==
    ASSUME NEW s \in Seq(Message), NEW t \in Seq(Message), NEW u \in Seq(Message)
    PROVE  (s \o t) \o u = s \o (t \o u)
  BY ConcatAssociative

\* The first message is taken.
LEMMA Taken ==
    ASSUME NEW s \in Seq(Message), NEW t \in Seq(Message), s # <<>>
    PROVE  /\ Tail(s) \in Seq(Message) /\ Head(s) = s[1] /\ s[1] \in Message
           /\ s \o t # <<>> /\ (s \o t)[1] = s[1]
           /\ Tail(s) \o t = <<>> => (s \o t)[Len(s \o t)] = s[1]
           /\ Tail(s) \o t # <<>> =>
                (Tail(s) \o t)[Len(Tail(s) \o t)] = (s \o t)[Len(s \o t)]
<1> DEFINE u == Tail(s)
           all == s \o t
           rest == u \o t
<1>1. /\ u \in Seq(Message) /\ Head(s) = s[1] /\ s[1] \in Message
      /\ Len(u) = Len(s) - 1 /\ Len(s) \in Nat \ {0} /\ Len(t) \in Nat
      /\ \A i \in 1 .. Len(u) : u[i] = s[i + 1]
  BY HeadTailProperties
<1> HIDE DEF u
<1>2. /\ all # <<>> /\ all[1] = s[1]
      /\ all \in Seq(Message) /\ rest \in Seq(Message)
  BY <1>1, Appended
<1>3. /\ Len(all) = Len(s) + Len(t)
      /\ Len(rest) = Len(u) + Len(t)
      /\ \A i \in 1 .. Len(s) : all[i] = s[i]
      /\ \A i \in 1 .. Len(t) : all[Len(s) + i] = t[i]
      /\ \A i \in 1 .. Len(u) : rest[i] = u[i]
      /\ \A i \in 1 .. Len(t) : rest[Len(u) + i] = t[i]
  BY <1>1, Parts
<1>4. Len(t) = 0 <=> t = <<>>
  BY EmptySeq
<1> HIDE DEF all, rest
<1>5. rest = <<>> <=> Len(rest) = 0
  BY <1>2, EmptySeq
<1>6. rest = <<>> => all[Len(all)] = s[1]
  BY <1>1, <1>2, <1>3, <1>5
<1>7. ASSUME rest # <<>> PROVE rest[Len(rest)] = all[Len(all)]
  <2>1. CASE Len(t) = 0
    <3>1. Len(u) \in 1 .. Len(u) /\ Len(s) \in 1 .. Len(s) /\ Len(u) + 1 = Len(s)
      BY <1>1, <1>3, <1>5, <1>7, <2>1
    <3>2. rest[Len(u)] = u[Len(u)] /\ u[Len(u)] = s[Len(u) + 1] /\ all[Len(s)] = s[Len(s)]
      BY <1>1, <1>3, <3>1
    <3>3. Len(rest) = Len(u) /\ Len(all) = Len(s)
      BY <1>1, <1>3, <2>1
    <3>4. QED BY <3>1, <3>2, <3>3
  <2>2. CASE Len(t) # 0
    <3>1. Len(t) \in 1 .. Len(t)
      BY <1>1, <2>2
    <3>2. rest[Len(u) + Len(t)] = t[Len(t)] /\ all[Len(s) + Len(t)] = t[Len(t)]
      BY <1>3, <3>1
    <3>3. QED BY <1>3, <3>2
  <2>3. QED BY <2>1, <2>2
<1>8. QED BY <1>1, <1>2, <1>6, <1>7 DEF u, all, rest

(***************************************************************************)
(* The queue of commands.                                                  *)
(***************************************************************************)

LEMMA CommandsAppended ==
    ASSUME commands \in Seq(Command), Queued, NEW c \in Command, c.do \in Launch => c.what = {},
           commands' = Append(commands, c)
    PROVE  /\ commands' \in Seq(Command) /\ Queued' /\ Launching' = Launching
<1>1. /\ commands' \in Seq(Command) /\ Len(commands') = Len(commands) + 1 /\ Len(commands) \in Nat
      /\ commands'[Len(commands) + 1] = c /\ commands' # <<>>
      /\ \A i \in 1 .. Len(commands) : commands'[i] = commands[i]
  OBVIOUS
<1>2. Queued'
  BY <1>1 DEF Queued
<1>3. CASE commands = <<>>
  BY <1>1, <1>2, <1>3 DEF Launching
<1>4. CASE commands # <<>>
  <2>1. 1 \in 1 .. Len(commands)
    BY <1>4
  <2>2. Launching' = Launching
    BY <1>1, <1>4, <2>1 DEF Launching
  <2>3. QED BY <1>1, <1>2, <2>1, <2>2
<1>5. QED BY <1>3, <1>4

LEMMA CommandsPopped ==
    ASSUME commands \in Seq(Command), Queued, commands # <<>>, commands' = Tail(commands)
    PROVE  commands' \in Seq(Command) /\ Queued' /\ Launching' = {}
<1>1. /\ commands' \in Seq(Command) /\ Len(commands') = Len(commands) - 1 /\ Len(commands) \in Nat \ {0}
      /\ \A i \in 1 .. Len(commands') : commands'[i] = commands[i + 1]
  OBVIOUS
<1>2. Queued'
  BY <1>1 DEF Queued
<1>3. Launching' = {}
  <2>1. commands' # <<>> => 1 \in 1 .. Len(commands') /\ 2 \in 2 .. Len(commands)
    BY <1>1
  <2>2. commands' # <<>> /\ commands'[1].do \in Launch => commands'[1].what = {}
    BY <1>1, <2>1 DEF Queued
  <2>3. QED BY <2>2 DEF Launching
<1>4. QED BY <1>1, <1>2, <1>3

LEMMA HeadReplaced ==
    ASSUME NEW s \in Seq(Command), NEW e \in Command, s # <<>>, NEW t, t = [s EXCEPT ![1] = e]
    PROVE  /\ t \in Seq(Command) /\ Len(t) = Len(s)
           /\ \A j \in 1 .. Len(s) : t[j] = IF j = 1 THEN e ELSE s[j]
<1>1. 1 \in 1 .. Len(s)
  OBVIOUS
<1>2. QED BY <1>1, ExceptSeq

LEMMA CommandsGrown ==
    ASSUME commands \in Seq(Command), Queued, commands # <<>>, Head(commands).do \in Launch,
           NEW p \in Tile, commands' = [commands EXCEPT ![1].what = @ \cup {p}]
    PROVE  /\ commands' \in Seq(Command) /\ Queued' /\ Launching' = Launching \cup {p}
           /\ Len(commands') = Len(commands)
           /\ \A i \in 2 .. Len(commands) : commands'[i] = commands[i]
           /\ commands'[1].do = commands[1].do
<1>1. Len(commands) \in Nat \ {0} /\ commands[1] \in Command /\ Head(commands) = commands[1]
  OBVIOUS
<1> DEFINE c == [commands[1] EXCEPT !.what = @ \cup {p}]
<1>2. c \in Command /\ c.do = commands[1].do /\ c.what = commands[1].what \cup {p}
  BY <1>1 DEF Command
<1>3. commands' = [commands EXCEPT ![1] = c]
  OBVIOUS
<1> HIDE DEF c
<1>4. /\ commands' \in Seq(Command) /\ Len(commands') = Len(commands) /\ commands' # <<>>
      /\ \A i \in 2 .. Len(commands) : commands'[i] = commands[i]
      /\ commands'[1] = c
  <2>1. /\ commands' \in Seq(Command) /\ Len(commands') = Len(commands)
        /\ \A j \in 1 .. Len(commands) : commands'[j] = IF j = 1 THEN c ELSE commands[j]
    <3>1. commands' \in Seq(Command) /\ Len(commands') = Len(commands)
      BY ZenonT(40), <1>2, <1>3, HeadReplaced
    <3>2. DOMAIN commands = 1 .. Len(commands)
      OBVIOUS
    <3>3. \A j \in DOMAIN commands : commands'[j] = IF j = 1 THEN c ELSE commands[j]
      BY <1>3
    <3>4. QED BY <3>1, <3>2, <3>3
  <2>2. 1 \in 1 .. Len(commands) /\ \A i \in 2 .. Len(commands) : i \in 1 .. Len(commands) /\ i # 1
    BY <1>1
  <2>3. commands' # <<>>
    BY <1>1, <2>1
  <2>4. QED BY <2>1, <2>2, <2>3
<1>5. Queued'
  BY <1>4 DEF Queued
<1>6. Launching' = Launching \cup {p}
  BY <1>1, <1>2, <1>4 DEF Launching
<1>7. QED BY <1>2, <1>4, <1>5, <1>6

(***************************************************************************)
(* The steps of the window that leave the panes and what is told of them   *)
(* alone, but for a command put into the queue.                            *)
(***************************************************************************)

wordVars == <<events, unsent, late, raced>>
paneVars == <<tile, wordVars, shown, panes, tombs, shut, revived, silent>>

\* What the window hears is what the table says, as long as neither moves.
LEMMA WordsStand ==
    ASSUME WindowInv, UNCHANGED <<tile, silent, wordVars>>
    PROVE  Overtaken' /\ LastWord'
  BY DEF WindowInv, wordVars, Overtaken, LastWord, Coming, Fits

\* Where nothing is listed that was not, what was to be announced still is.
LEMMA ListedLess ==
    ASSUME WindowInv, UNCHANGED <<tile, wordVars, shown, panes, shut>>,
           \A p \in Tile : Listed(p)' => Listed(p)
    PROVE  FirstWord'
  BY DEF WindowInv, wordVars, FirstWord, Coming

LEMMA QueueingStands ==
    ASSUME WindowInv, UNCHANGED <<paneVars, replies>>, ready' \in BOOLEAN, configured' \in BOOLEAN,
           draft' \subseteq SUBSET Tile,
           \/ UNCHANGED commands
           \/ \E c \in Command : (c.do \in Launch => c.what = {}) /\ commands' = Append(commands, c)
    PROVE  WindowInv'
<1>1. commands' \in Seq(Command) /\ Queued' /\ Launching' = Launching
  <2>1. CASE UNCHANGED commands
    BY <2>1 DEF WindowInv, WindowOK, Queued, Launching
  <2>2. ASSUME NEW c \in Command, c.do \in Launch => c.what = {}, commands' = Append(commands, c)
        PROVE  commands' \in Seq(Command) /\ Queued' /\ Launching' = Launching
    BY <2>2, CommandsAppended DEF WindowInv, WindowOK
  <2>3. QED BY <2>1, <2>2
<1>2. UNCHANGED <<tile, wordVars, shown, panes, tombs, shut, revived, silent, replies>>
  BY DEF paneVars
<1>3. WindowOK'
  BY <1>1, <1>2 DEF WindowInv, WindowOK, wordVars
<1>4. Unheard'
  BY <1>2 DEF WindowInv, Unheard, wordVars
<1>5. Made'
  BY <1>1, <1>2 DEF WindowInv, Made
<1>6. Overtaken' /\ LastWord'
  BY <1>2, WordsStand
<1>7. FirstWord'
  <2>1. \A p \in Tile : Listed(p)' => Listed(p)
    BY <1>1, <1>2 DEF Listed
  <2>2. QED BY <1>2, <2>1, ListedLess
<1>8. Knows'
  BY <1>2 DEF WindowInv, Knows, Fits, Coming, wordVars
<1>9. QED BY <1>1, <1>3, <1>4, <1>5, <1>6, <1>7, <1>8 DEF WindowInv

\* The timer that finds nothing to close.
AutoCloseSpares(p) ==
    /\ closers' = closers \ {p}
    /\ UNCHANGED <<backendVars, events, commands, replies, shown, panes, tombs, terminalVars,
                   launching, startVars, draft, shut, revived>>

LEMMA RedraftType ==
    ASSUME WindowOK, panes' \in SUBSET Tile, NEW again, Redraft(again)
    PROVE  draft' \subseteq SUBSET Tile
  BY DEF WindowOK, Redraft, Persistable

LEMMA QueueingSteps ==
    ASSUME WindowInv,
           \/ UNCHANGED windowVars \/ AskAgent \/ AskTeam \/ RestoreNext \/ Restored \/ LoadConfig
           \/ SaveState
           \/ \E p \in Tile : CreateTermHandle(p) \/ AutoCloseSpares(p)
    PROVE  WindowInv'
<1>1. /\ ready \in BOOLEAN /\ configured \in BOOLEAN /\ draft \subseteq SUBSET Tile
      /\ panes \in SUBSET Tile /\ WindowOK
  BY DEF WindowInv, WindowOK
<1>2. CASE UNCHANGED windowVars
  <2>1. UNCHANGED <<paneVars, replies, commands, ready, configured, draft>>
    BY <1>2 DEF windowVars, backendVars, tellVars, startVars, paneVars, wordVars
  <2>2. QED BY <1>1, <2>1, QueueingStands
<1>3. CASE \E p \in Tile : CreateTermHandle(p) \/ AutoCloseSpares(p)
  <2>1. UNCHANGED <<paneVars, replies, commands, ready, configured, draft>>
    BY <1>3 DEF CreateTermHandle, AutoCloseSpares, backendVars, tellVars, startVars, paneVars, wordVars
  <2>2. QED BY <1>1, <2>1, QueueingStands
<1>4. CASE AskAgent
  <2>1. UNCHANGED <<paneVars, replies, ready, configured, draft>> /\ commands' = Append(commands, Start("agent"))
    BY <1>4 DEF AskAgent, Invoke, backendVars, tellVars, startVars, paneVars, wordVars
  <2>2. Start("agent") \in Command /\ Start("agent").what = {}
    BY KindsDiffer DEF Launch
  <2>3. QED BY <1>1, <2>1, <2>2, QueueingStands
<1>5. CASE AskTeam
  <2>1. UNCHANGED <<paneVars, replies, ready, configured, draft>> /\ commands' = Append(commands, Start("team"))
    BY <1>5 DEF AskTeam, Invoke, backendVars, tellVars, startVars, paneVars, wordVars
  <2>2. Start("team") \in Command /\ Start("team").what = {}
    BY KindsDiffer DEF Launch
  <2>3. QED BY <1>1, <2>1, <2>2, QueueingStands
<1>6. CASE RestoreNext
  <2>1. UNCHANGED <<paneVars, replies, ready, configured, draft>>
    BY <1>6 DEF RestoreNext, backendVars, tellVars, paneVars, wordVars
  <2>2. UNCHANGED commands \/ commands' = Append(commands, Start("restore"))
    BY <1>6 DEF RestoreNext, Invoke
  <2>3. Start("restore") \in Command /\ Start("restore").what = {}
    BY KindsDiffer DEF Launch
  <2>4. CASE UNCHANGED commands
    BY <1>1, <2>1, <2>4, QueueingStands
  <2>5. CASE commands' = Append(commands, Start("restore"))
    BY <1>1, <2>1, <2>3, <2>5, QueueingStands
  <2>6. QED BY <2>2, <2>4, <2>5
<1>7. CASE Restored \/ LoadConfig
  <2>1. /\ UNCHANGED <<paneVars, replies, commands>>
        /\ ready' \in BOOLEAN /\ configured' \in BOOLEAN /\ Redraft(TRUE)
    BY <1>1, <1>7 DEF Restored, LoadConfig, backendVars, tellVars, paneVars, wordVars
  <2>2. panes' \in SUBSET Tile
    BY <1>1, <2>1 DEF paneVars
  <2>3. draft' \subseteq SUBSET Tile
    BY <1>1, <2>1, <2>2, RedraftType
  <2>4. QED BY <2>1, <2>3, QueueingStands
<1>8. CASE SaveState
  <2>1. UNCHANGED <<paneVars, replies, ready, configured>> /\ draft' = {}
    BY <1>8 DEF SaveState, backendVars, tellVars, startVars, paneVars, wordVars
  <2>2. PICK layout \in SUBSET Tile : commands' = Append(commands, Save(layout))
    BY <1>1, <1>8 DEF SaveState, Invoke
  <2>3. Save(layout) \in Command /\ Save(layout).do \notin Launch
    BY KindsDiffer
  <2>4. QED BY <1>1, <2>1, <2>2, <2>3, QueueingStands
<1>9. QED BY <1>2, <1>3, <1>4, <1>5, <1>6, <1>7, <1>8

LEMMA SaveProjectStateKeeps == WindowInv /\ SaveProjectState => WindowInv'
<1> SUFFICES ASSUME WindowInv, SaveProjectState PROVE WindowInv'
  OBVIOUS
<1>1. /\ UNCHANGED <<tile, wordVars, shown, panes, tombs, shut, revived, silent, replies>>
      /\ UNCHANGED <<ready, configured, draft>>
      /\ commands # <<>> /\ commands' = Tail(commands)
  BY DEF SaveProjectState, Idle, tellVars, startVars, wordVars
<1>2. commands' \in Seq(Command) /\ Queued' /\ Launching' = {}
  BY <1>1, CommandsPopped DEF WindowInv, WindowOK
<1>3. WindowOK'
  BY <1>1, <1>2 DEF WindowInv, WindowOK, wordVars
<1>4. Unheard'
  BY <1>1 DEF WindowInv, Unheard, wordVars
<1>5. Made'
  BY <1>2 DEF Made
<1>6. Overtaken' /\ LastWord'
  BY <1>1, WordsStand
<1>7. FirstWord'
  <2>1. \A p \in Tile : Listed(p)' => Listed(p)
    BY <1>1, <1>2 DEF Listed
  <2>2. QED BY <1>1, <2>1, ListedLess
<1>8. Knows'
  BY <1>1 DEF WindowInv, Knows, Fits, Coming, wordVars
<1>9. QED BY <1>2, <1>3, <1>4, <1>5, <1>6, <1>7, <1>8 DEF WindowInv

LEMMA LaunchReturnsKeeps == WindowInv /\ LaunchReturns => WindowInv'
<1> SUFFICES ASSUME WindowInv, LaunchReturns PROVE WindowInv'
  OBVIOUS
<1> DEFINE reply == [kind |-> Head(commands).do, ids |-> Head(commands).what]
<1>1. /\ UNCHANGED <<tile, wordVars, shown, panes, tombs, shut, revived, silent>>
      /\ UNCHANGED <<ready, configured, draft>>
      /\ commands # <<>> /\ commands' = Tail(commands) /\ replies' = replies \cup {reply}
  BY DEF LaunchReturns, backendVars, tellVars, startVars, wordVars
<1>2. commands' \in Seq(Command) /\ Queued' /\ Launching' = {}
  BY <1>1, CommandsPopped DEF WindowInv, WindowOK
<1>3. Head(commands) = commands[1] /\ commands[1] \in Command
  BY <1>1 DEF WindowInv, WindowOK
<1>4. reply \in Reply /\ Launching = reply.ids
  BY <1>1, <1>3 DEF LaunchReturns, Launching, Command, Reply
<1>5. \A p \in Launching : tile[p] \notin {"unopened", "starting"}
  BY <1>4 DEF WindowInv, Made, LaunchReturns, Created
<1> HIDE DEF reply
<1>6. WindowOK'
  BY <1>1, <1>2, <1>4 DEF WindowInv, WindowOK, wordVars
<1>7. Unheard'
  BY <1>1, <1>4, <1>5 DEF WindowInv, Unheard, wordVars
<1>8. Made'
  BY <1>2 DEF Made
<1>9. Overtaken' /\ LastWord'
  BY <1>1, WordsStand
<1>10. FirstWord'
  <2>1. \A p \in Tile : Listed(p)' => Listed(p)
    BY <1>1, <1>2, <1>4 DEF Listed
  <2>2. QED BY <1>1, <2>1, ListedLess
<1>11. Knows'
  BY <1>1 DEF WindowInv, Knows, Fits, Coming, wordVars
<1>12. QED BY <1>2, <1>6, <1>7, <1>8, <1>9, <1>10, <1>11 DEF WindowInv

LEMMA LaunchedKeeps ==
    ASSUME WindowInv, NEW reply \in replies, Launched(reply)
    PROVE  WindowInv'
<1>1. /\ UNCHANGED <<tile, wordVars, commands, tombs, shut, silent, ready, configured>>
      /\ replies' = replies \ {reply} /\ panes' = panes \cup reply.ids
      /\ revived' = revived \cup ((reply.ids \ panes) \cap shut)
  BY DEF Launched, Add, backendVars, tellVars, wordVars
<1>2. reply.ids \subseteq Tile /\ shown \in [Tile -> SessionShown]
  BY DEF WindowInv, WindowOK, Reply
<1>3. /\ shown' \in [Tile -> SessionShown]
      /\ \A p \in Tile : IF p \in reply.ids /\ shown[p] = "unknown"
                         THEN shown'[p] = "starting" ELSE shown'[p] = shown[p]
  BY <1>2 DEF Launched, TrackedBy, SessionShown
<1>4. draft' \subseteq SUBSET Tile
  <2>1. panes' \in SUBSET Tile /\ WindowOK
    BY <1>1, <1>2 DEF WindowInv, WindowOK
  <2>2. QED BY <2>1, RedraftType DEF Launched
<1>5. \A p \in reply.ids : tile[p] \notin {"unopened", "starting"}
  BY <1>2 DEF WindowInv, Unheard
<1>6. WindowOK'
  BY <1>1, <1>2, <1>3, <1>4 DEF WindowInv, WindowOK, wordVars
<1>7. Unheard'
  BY <1>1, <1>3, <1>5 DEF WindowInv, Unheard, wordVars
<1>8. Queued' /\ Made' /\ Launching' = Launching
  BY <1>1 DEF WindowInv, Queued, Made, Launching
<1>9. Overtaken' /\ LastWord'
  BY <1>1, WordsStand
<1>10. FirstWord'
  <2>1. \A p \in Tile : Listed(p)' => Listed(p)
    BY <1>1, <1>8 DEF Listed
  <2>2. QED BY <1>1, <1>3, <2>1 DEF WindowInv, FirstWord, Coming, wordVars
<1>11. Knows'
  <2>1. \A p \in panes' : shown'[p] # "unknown"
    BY <1>1, <1>2, <1>3 DEF WindowInv, Knows, WindowOK
  <2>2. ASSUME NEW p \in Tile \ (revived' \cup raced'), shown'[p] # "unknown", Coming(p)' = <<>>
        PROVE  Fits(p, shown[p])'
    <3>1. p \notin revived \cup raced /\ Coming(p) = <<>>
      BY <1>1, <2>2 DEF Coming, wordVars
    <3>2. shown[p] # "unknown"
      <4> SUFFICES ASSUME shown[p] = "unknown" PROVE FALSE
        OBVIOUS
      <4>1. p \in reply.ids
        BY <1>3, <2>2
      <4>2. p \notin panes
        BY DEF WindowInv, Knows
      <4>3. p \notin shut
        BY <1>1, <2>2, <4>1, <4>2
      <4>4. Listed(p)
        BY <4>1 DEF Listed
      <4>5. Coming(p) # <<>>
        BY <1>5, <3>1, <4>1, <4>2, <4>3, <4>4 DEF WindowInv, FirstWord
      <4>6. QED BY <3>1, <4>5
    <3>3. shown'[p] = shown[p]
      BY <1>3, <3>2
    <3>4. Fits(p, shown[p])
      BY <3>1, <3>2 DEF WindowInv, Knows
    <3>5. QED BY <1>1, <3>3, <3>4 DEF Fits
  <2>3. QED BY <2>1, <2>2 DEF Knows
<1>12. QED BY <1>6, <1>7, <1>8, <1>9, <1>10, <1>11 DEF WindowInv

LEMMA TombExpiresKeeps ==
    ASSUME WindowInv, NEW p \in Tile, TombExpires(p)
    PROVE  WindowInv'
<1>1. /\ UNCHANGED <<tile, wordVars, commands, replies, shown, panes, shut, revived, silent>>
      /\ UNCHANGED <<ready, configured, draft>> /\ tombs' = tombs \ {p}
  BY DEF TombExpires, backendVars, tellVars, startVars, wordVars
<1>2. WindowOK' /\ Unheard'
  BY <1>1 DEF WindowInv, WindowOK, Unheard, wordVars
<1>3. Queued' /\ Made' /\ Launching' = Launching
  BY <1>1 DEF WindowInv, Queued, Made, Launching
<1>4. Overtaken' /\ LastWord'
  BY <1>1, WordsStand
<1>5. FirstWord'
  <2>1. \A q \in Tile : Listed(q)' => Listed(q)
    BY <1>1, <1>3 DEF Listed
  <2>2. QED BY <1>1, <2>1, ListedLess
<1>6. Knows'
  BY <1>1 DEF WindowInv, Knows, Fits, Coming, wordVars
<1>7. QED BY <1>2, <1>3, <1>4, <1>5, <1>6 DEF WindowInv

LEMMA ClosePaneKeeps ==
    ASSUME WindowInv, NEW p \in Tile, NEW armed, ClosePane(p, armed)
    PROVE  WindowInv'
<1>1. /\ UNCHANGED <<tile, wordVars, replies, revived, silent, ready, configured>>
      /\ p \in panes /\ tombs' = tombs \cup {p} /\ shut' = shut \cup {p} /\ panes' = panes \ {p}
      /\ shown' = [shown EXCEPT ![p] = "unknown"]
      /\ commands' = Append(commands, Kill(p))
  BY DEF ClosePane, Invoke, backendVars, tellVars, startVars, wordVars
<1>2. commands' \in Seq(Command) /\ Queued' /\ Launching' = Launching
  BY <1>1, CommandsAppended, KindsDiffer DEF WindowInv, WindowOK
<1>3. /\ shown' \in [Tile -> SessionShown] /\ shown'[p] = "unknown"
      /\ \A q \in Tile : q # p => shown'[q] = shown[q]
  BY <1>1 DEF WindowInv, WindowOK, SessionShown
<1>4. draft' \subseteq SUBSET Tile
  <2>1. panes' \in SUBSET Tile /\ WindowOK
    BY <1>1 DEF WindowInv, WindowOK
  <2>2. QED BY <2>1, RedraftType DEF ClosePane
<1>5. WindowOK'
  BY <1>1, <1>2, <1>3, <1>4 DEF WindowInv, WindowOK, wordVars
<1>6. Unheard'
  <2>1. tile[p] \notin {"unopened", "starting"}
    BY <1>1 DEF WindowInv, Unheard
  <2>2. QED BY <1>1, <1>3, <2>1 DEF WindowInv, Unheard, wordVars
<1>7. Made'
  BY <1>1, <1>2 DEF WindowInv, Made
<1>8. Overtaken' /\ LastWord'
  BY <1>1, WordsStand
<1>9. FirstWord'
  <2>1. \A q \in Tile : Listed(q)' => Listed(q)
    BY <1>1, <1>2 DEF Listed
  <2>2. QED BY <1>1, <1>3, <2>1 DEF WindowInv, FirstWord, Coming, wordVars
<1>10. Knows'
  <2>1. \A q \in panes' : shown'[q] # "unknown"
    BY <1>1, <1>3 DEF WindowInv, Knows, WindowOK
  <2>2. ASSUME NEW q \in Tile \ (revived' \cup raced'), shown'[q] # "unknown", Coming(q)' = <<>>
        PROVE  Fits(q, shown[q])'
    <3>1. q # p /\ shown'[q] = shown[q] /\ q \in Tile \ (revived \cup raced) /\ Coming(q) = <<>>
      BY <1>1, <1>3, <2>2 DEF Coming, wordVars
    <3>2. Fits(q, shown[q])
      BY <2>2, <3>1 DEF WindowInv, Knows
    <3>3. QED BY <1>1, <3>1, <3>2 DEF Fits
  <2>3. QED BY <2>1, <2>2 DEF Knows
<1>11. QED BY <1>2, <1>5, <1>6, <1>7, <1>8, <1>9, <1>10 DEF WindowInv

(***************************************************************************)
(* An event arrives.                                                       *)
(***************************************************************************)

LEMMA EventTaken ==
    ASSUME WindowInv, NEW p \in Tile, events[p] # <<>>, events' = [events EXCEPT ![p] = Tail(@)],
           UNCHANGED <<tile, silent, unsent, late, raced>>
    PROVE  /\ events' \in [Tile -> Seq(Message)] /\ LastWord' /\ Overtaken'
           /\ \A q \in Tile : q # p => events'[q] = events[q] /\ Coming(q)' = Coming(q)
           /\ Head(events[p]) = events[p][1] /\ events[p][1] \in Message
           /\ Coming(p)[1] = events[p][1]
           /\ p \notin raced /\ Coming(p)' = <<>>
                => events[p][1].event = "session-state" /\ Fits(p, events[p][1].state)
<1> DEFINE e == events[p]
           u == unsent[p]
           last == Coming(p)[Len(Coming(p))]
<1>1. /\ e \in Seq(Message) /\ e # <<>> /\ u \in Seq(Message) /\ events'[p] = Tail(e)
      /\ \A q \in Tile : q # p => events'[q] = events[q]
  BY DEF WindowInv, WindowOK
<1>2. /\ Tail(e) \in Seq(Message) /\ Head(e) = e[1] /\ e[1] \in Message
      /\ Coming(p) # <<>> /\ Coming(p)[1] = e[1]
      /\ Coming(p)' = <<>> => last = e[1]
      /\ Coming(p)' # <<>> => Coming(p)'[Len(Coming(p)')] = last
  <2>1. Coming(p) = e \o u /\ Coming(p)' = Tail(e) \o u
    BY <1>1 DEF Coming
  <2>2. /\ Tail(e) \in Seq(Message) /\ Head(e) = e[1] /\ e[1] \in Message
        /\ e \o u # <<>> /\ (e \o u)[1] = e[1]
        /\ Tail(e) \o u = <<>> => (e \o u)[Len(e \o u)] = e[1]
        /\ Tail(e) \o u # <<>> => (Tail(e) \o u)[Len(Tail(e) \o u)] = (e \o u)[Len(e \o u)]
    <3> HIDE DEF e, u
    <3>1. QED BY <1>1, Taken
  <2>3. QED BY Zenon, <2>1, <2>2
<1>3. events' \in [Tile -> Seq(Message)]
  BY <1>2 DEF WindowInv, WindowOK
<1>4. \A q \in Tile : q # p => Coming(q)' = Coming(q)
  BY <1>1 DEF Coming
<1>5. p \notin raced => last.event = "session-state" /\ Fits(p, last.state)
  BY <1>2 DEF WindowInv, LastWord
<1>6. LastWord'
  <2> SUFFICES ASSUME NEW q \in Tile \ raced', Coming(q)' # <<>>
               PROVE  /\ (Coming(q)[Len(Coming(q))].event)' = "session-state"
                      /\ Fits(q, Coming(q)[Len(Coming(q))].state)'
    BY DEF LastWord
  <2>1. CASE q # p
    <3>1. Coming(q)' = Coming(q) /\ Coming(q) # <<>> /\ q \in Tile \ raced
      BY <1>4, <2>1
    <3>2. Coming(q)[Len(Coming(q))].event = "session-state" /\ Fits(q, Coming(q)[Len(Coming(q))].state)
      BY <3>1 DEF WindowInv, LastWord
    <3>3. QED BY <3>1, <3>2 DEF Fits
  <2>2. CASE q = p
    <3> HIDE DEF last
    <3>1. Coming(p)'[Len(Coming(p)')] = last
      BY <1>2, <2>2
    <3>2. QED BY <1>5, <2>2, <3>1 DEF Fits
  <2>3. QED BY <2>1, <2>2
<1>7. Overtaken'
  BY DEF WindowInv, Overtaken
<1>8. QED BY <1>1, <1>2, <1>3, <1>4, <1>5, <1>6, <1>7

LEMMA SessionStateKeeps ==
    ASSUME WindowInv, NEW p \in Tile, SessionState(p)
    PROVE  WindowInv'
<1> DEFINE state == events[p][1].state
<1> DEFINE known == shown[p] # "unknown" \/ p \in panes
<1> DEFINE ignored == ~known /\ (state \in Ended \/ p \in tombs)
<1>1. /\ UNCHANGED <<tile, unsent, late, raced, commands, replies, tombs, shut, silent, ready, configured>>
      /\ events[p] # <<>> /\ events' = [events EXCEPT ![p] = Tail(@)]
  BY DEF SessionState, backendVars, tellVars, startVars
<1>2. WindowOK /\ tombs \subseteq shut
  BY DEF WindowInv, WindowOK
<1>3. /\ events' \in [Tile -> Seq(Message)] /\ LastWord' /\ Overtaken'
      /\ \A q \in Tile : q # p => events'[q] = events[q] /\ Coming(q)' = Coming(q)
      /\ Head(events[p]) = events[p][1] /\ events[p][1] \in Message
      /\ Coming(p)[1] = events[p][1]
      /\ p \notin raced /\ Coming(p)' = <<>> => Fits(p, state)
  BY <1>1, EventTaken
<1>4. state \in SessionShown \ {"unknown"}
  BY <1>3 DEF Message
<1>5. /\ shown' = IF ignored THEN shown ELSE [shown EXCEPT ![p] = state]
      /\ panes' = panes \/ (~known /\ ~ignored /\ panes' = panes \cup {p})
      /\ revived \subseteq revived' /\ revived' \subseteq Tile
      /\ \E again : Redraft(again)
  <2>1. PICK new : /\ new \in SUBSET {p}
                   /\ new # {} => ~known /\ ~ignored
                   /\ Add(new)
    BY <1>3 DEF SessionState
  <2>2. panes' = panes \cup new /\ revived' = revived \cup ((new \ panes) \cap shut)
    BY <2>1 DEF Add
  <2>3. new # {} => new = {p}
    BY <2>1
  <2>4. revived \subseteq revived' /\ revived' \subseteq Tile
    BY <1>2, <2>1, <2>2 DEF WindowOK
  <2>5. shown' = IF ignored THEN shown ELSE [shown EXCEPT ![p] = state]
    BY <1>3 DEF SessionState
  <2>6. \E again : Redraft(again)
    BY DEF SessionState
  <2>7. panes' = panes \/ (~known /\ ~ignored /\ panes' = panes \cup {p})
    BY <2>1, <2>2, <2>3
  <2>8. QED BY <2>4, <2>5, <2>6, <2>7
<1>6. /\ shown' \in [Tile -> SessionShown]
      /\ shown'[p] = IF ignored THEN shown[p] ELSE state
      /\ \A q \in Tile : q # p => shown'[q] = shown[q]
  BY <1>2, <1>4, <1>5 DEF WindowOK
<1>7. draft' \subseteq SUBSET Tile
  <2>1. panes' \in SUBSET Tile
    BY <1>2, <1>5 DEF WindowOK
  <2>2. QED BY <1>2, <1>5, <2>1, RedraftType
<1>8. tile[p] \notin {"unopened", "starting"}
  BY <1>1 DEF WindowInv, Unheard
<1> HIDE DEF state, ignored
<1>9. WindowOK'
  BY <1>1, <1>2, <1>3, <1>5, <1>6, <1>7 DEF WindowOK
<1>10. Unheard'
  <2>1. \A q \in Tile : q # p => (q \in panes' <=> q \in panes)
    BY <1>5
  <2>2. QED BY <1>1, <1>3, <1>6, <1>8, <2>1 DEF WindowInv, Unheard
<1>11. Queued' /\ Made' /\ Launching' = Launching
  BY <1>1 DEF WindowInv, Queued, Made, Launching
<1>12. \A q \in Tile : Listed(q)' => Listed(q)
  BY <1>1, <1>11 DEF Listed
<1>13. FirstWord'
  <2> SUFFICES ASSUME NEW q \in Tile \ (panes' \cup shut' \cup raced'),
                      Listed(q)', shown'[q] = "unknown", tile'[q] # "starting"
               PROVE  Coming(q)' # <<>> /\ Coming(q)'[1] = State("running")
    BY DEF FirstWord
  <2>1. q \in Tile \ (panes \cup shut \cup raced) /\ Listed(q) /\ tile[q] # "starting"
    BY <1>1, <1>5, <1>12
  <2>2. CASE q # p
    <3>1. shown[q] = "unknown" /\ Coming(q)' = Coming(q)
      BY <1>3, <1>6, <2>2
    <3>2. QED BY <2>1, <3>1 DEF WindowInv, FirstWord
  <2>3. CASE q = p
    <3>1. ignored /\ shown[p] = "unknown"
      BY <1>4, <1>6, <2>3
    <3>2. state \in Ended
      BY <1>2, <2>1, <2>3, <3>1 DEF ignored
    <3>3. events[p][1] = State("running")
      BY <1>3, <2>1, <2>3, <3>1 DEF WindowInv, FirstWord
    <3>4. QED BY <3>2, <3>3 DEF state, State, Ended
  <2>4. QED BY <2>2, <2>3
<1>14. Knows'
  <2>1. \A q \in panes' : shown'[q] # "unknown"
    <3>1. \A q \in panes : shown[q] # "unknown" /\ q \in Tile
      BY <1>2 DEF WindowInv, Knows, WindowOK
    <3>2. shown[p] # "unknown" \/ ~ignored => shown'[p] # "unknown"
      BY <1>4, <1>6
    <3>3. QED BY <1>5, <1>6, <3>1, <3>2
  <2>2. ASSUME NEW q \in Tile \ (revived' \cup raced'), shown'[q] # "unknown", Coming(q)' = <<>>
        PROVE  Fits(q, shown[q])'
    <3>1. CASE q = p
      <4>1. ignored => shown[p] = "unknown"
        BY DEF ignored
      <4>2. shown'[p] = state /\ Fits(p, state)
        BY <1>1, <1>3, <1>6, <2>2, <3>1, <4>1
      <4>3. QED BY <1>1, <3>1, <4>2 DEF Fits
    <3>2. CASE q # p
      <4>1. shown'[q] = shown[q] /\ q \in Tile \ (revived \cup raced) /\ Coming(q) = <<>>
        BY <1>1, <1>3, <1>5, <1>6, <2>2, <3>2
      <4>2. Fits(q, shown[q])
        BY <2>2, <4>1 DEF WindowInv, Knows
      <4>3. QED BY <1>1, <4>1, <4>2 DEF Fits
    <3>3. QED BY <3>1, <3>2
  <2>3. QED BY <2>1, <2>2 DEF Knows
<1>15. QED BY <1>3, <1>9, <1>10, <1>11, <1>13, <1>14 DEF WindowInv

LEMMA PtyExitKeeps ==
    ASSUME WindowInv, NEW p \in Tile, PtyExit(p)
    PROVE  WindowInv'
<1>1. /\ UNCHANGED <<tile, unsent, late, raced, commands, replies, panes, tombs, shut, silent>>
      /\ UNCHANGED <<ready, configured, revived, draft>>
      /\ events[p] # <<>> /\ events' = [events EXCEPT ![p] = Tail(@)]
      /\ Head(events[p]).event = "pty-exit"
  BY DEF PtyExit, backendVars, tellVars, startVars
<1>2. WindowOK
  BY DEF WindowInv
<1>3. /\ events' \in [Tile -> Seq(Message)] /\ LastWord' /\ Overtaken'
      /\ \A q \in Tile : q # p => events'[q] = events[q] /\ Coming(q)' = Coming(q)
      /\ Head(events[p]) = events[p][1] /\ events[p][1] \in Message
      /\ Coming(p)[1] = events[p][1]
      /\ p \notin raced /\ Coming(p)' = <<>> => events[p][1].event = "session-state"
  BY <1>1, EventTaken
<1>4. (p \notin raced => Coming(p)' # <<>>) /\ Coming(p)[1] # State("running")
  BY <1>1, <1>3 DEF State
<1>5. /\ shown' \in [Tile -> SessionShown]
      /\ shown'[p] = "unknown" <=> shown[p] = "unknown"
      /\ \A q \in Tile : q # p => shown'[q] = shown[q]
  BY <1>2, <1>3 DEF PtyExit, WindowOK, Message
<1>6. tile[p] \notin {"unopened", "starting"}
  BY <1>1 DEF WindowInv, Unheard
<1>7. WindowOK'
  BY <1>1, <1>2, <1>3, <1>5 DEF WindowOK
<1>8. Unheard'
  BY <1>1, <1>3, <1>5, <1>6 DEF WindowInv, Unheard
<1>9. Queued' /\ Made' /\ Launching' = Launching
  BY <1>1 DEF WindowInv, Queued, Made, Launching
<1>10. \A q \in Tile : Listed(q)' => Listed(q)
  BY <1>1, <1>9 DEF Listed
<1>11. FirstWord'
  <2> SUFFICES ASSUME NEW q \in Tile \ (panes' \cup shut' \cup raced'),
                      Listed(q)', shown'[q] = "unknown", tile'[q] # "starting"
               PROVE  Coming(q)' # <<>> /\ Coming(q)'[1] = State("running")
    BY DEF FirstWord
  <2>1. q \in Tile \ (panes \cup shut \cup raced) /\ Listed(q) /\ tile[q] # "starting"
        /\ shown[q] = "unknown"
    BY <1>1, <1>5, <1>10
  <2>2. Coming(q) # <<>> /\ Coming(q)[1] = State("running")
    BY <2>1 DEF WindowInv, FirstWord
  <2>3. q # p
    BY <1>4, <2>2
  <2>4. QED BY <1>3, <2>2, <2>3
<1>12. Knows'
  <2>1. \A q \in panes' : shown'[q] # "unknown"
    BY <1>1, <1>2, <1>5 DEF WindowInv, Knows, WindowOK
  <2>2. ASSUME NEW q \in Tile \ (revived' \cup raced'), shown'[q] # "unknown", Coming(q)' = <<>>
        PROVE  Fits(q, shown[q])'
    <3>1. q # p
      BY <1>1, <1>4, <2>2
    <3>2. shown'[q] = shown[q] /\ q \in Tile \ (revived \cup raced) /\ Coming(q) = <<>>
      BY <1>1, <1>3, <1>5, <2>2, <3>1
    <3>3. Fits(q, shown[q])
      BY <2>2, <3>2 DEF WindowInv, Knows
    <3>4. QED BY <1>1, <3>2, <3>3 DEF Fits
  <2>3. QED BY <2>1, <2>2 DEF Knows
<1>13. QED BY <1>3, <1>7, <1>8, <1>9, <1>11, <1>12 DEF WindowInv

(***************************************************************************)
(* The session manager moves a pane, and a thread is to tell of it.        *)
(***************************************************************************)

LEMMA LaunchOneKeeps ==
    ASSUME WindowInv, NEW p \in Tile, LaunchOne(p)
    PROVE  WindowInv'
<1>1. /\ UNCHANGED <<wordVars, replies, shown, panes, tombs, shut, revived, silent>>
      /\ UNCHANGED <<ready, configured, draft>>
      /\ commands # <<>> /\ Head(commands).do \in Launch /\ Grid!Open(p)
      /\ commands' = [commands EXCEPT ![1].what = @ \cup {p}]
  BY DEF LaunchOne, Idle, tellVars, startVars, wordVars
<1>2. commands' \in Seq(Command) /\ Queued' /\ Launching' = Launching \cup {p}
  BY <1>1, CommandsGrown DEF WindowInv, WindowOK
<1>3. /\ tile' \in [Tile -> Grid!Status] /\ tile'[p] = "starting" /\ tile[p] = "unopened"
      /\ \A q \in Tile : q # p => tile'[q] = tile[q]
  BY <1>1 DEF WindowInv, WindowOK, Grid!Open, Grid!Become, Grid!Status
<1>4. /\ events[p] = <<>> /\ unsent[p] = <<>> /\ shown[p] = "unknown" /\ p \notin panes \cup shut
      /\ \A reply \in replies : p \notin reply.ids
  BY <1>3 DEF WindowInv, Unheard
<1>5. WindowOK'
  BY <1>1, <1>2, <1>3 DEF WindowInv, WindowOK, wordVars
<1>6. Unheard'
  BY <1>1, <1>3, <1>4 DEF WindowInv, Unheard, wordVars
<1>7. Made'
  <2>1. \A q \in Launching \cup {p} : q # p => q \in Tile /\ tile'[q] # "unopened"
    BY <1>3 DEF WindowInv, Made, Launching
  <2>2. QED BY <1>2, <1>3, <2>1 DEF Made
<1>8. Overtaken' /\ \A q \in Tile : Coming(q)' = Coming(q)
  BY <1>1 DEF WindowInv, Overtaken, Coming, wordVars
<1>9. Coming(p) = <<>>
  BY <1>4, Appended DEF WindowInv, WindowOK, Coming
<1>10. LastWord'
  <2> SUFFICES ASSUME NEW q \in Tile \ raced', Coming(q)' # <<>>
               PROVE  /\ (Coming(q)[Len(Coming(q))].event)' = "session-state"
                      /\ Fits(q, Coming(q)[Len(Coming(q))].state)'
    BY DEF LastWord
  <2>1. Coming(q)' = Coming(q) /\ Coming(q) # <<>> /\ q # p /\ q \in Tile \ raced
    BY <1>1, <1>8, <1>9 DEF wordVars
  <2>2. Coming(q)[Len(Coming(q))].event = "session-state" /\ Fits(q, Coming(q)[Len(Coming(q))].state)
    BY <2>1 DEF WindowInv, LastWord
  <2>3. QED BY <1>1, <1>3, <2>1, <2>2 DEF Fits
<1>11. FirstWord'
  <2>1. \A q \in Tile : q # p /\ Listed(q)' => Listed(q)
    BY <1>1, <1>2 DEF Listed
  <2>2. QED BY <1>1, <1>3, <1>8, <2>1 DEF WindowInv, FirstWord, wordVars
<1>12. Knows'
  BY <1>1, <1>3, <1>4, <1>8 DEF WindowInv, Knows, Fits, wordVars
<1>13. QED BY <1>2, <1>5, <1>6, <1>7, <1>8, <1>10, <1>11, <1>12 DEF WindowInv

\* A pane that is started moves on by being announced first, or is not listed any more.
LEMMA PaneMoves ==
    ASSUME WindowInv, NEW p \in Tile, NEW new, Moves(p, new), NEW told \in Seq(Message),
           UNCHANGED <<events, shown, panes, tombs, shut, revived, replies, ready, configured, draft>>,
           unsent' \in [Tile -> Seq(Message)], late' \in [Tile -> Seq(Message)],
           raced' \subseteq Tile, silent' \subseteq Tile, raced \subseteq raced',
           \A q \in Tile : q # p => /\ unsent'[q] = unsent[q] /\ late'[q] = late[q]
                                    /\ q \in silent' <=> q \in silent,
           late'[p] # <<>> => p \in raced',
           p \notin raced' => unsent'[p] = unsent[p] \o told,
           told # <<>> => Truthful(told, new),
           \/ told # <<>>
           \/ new = "starting" /\ unsent'[p] = unsent[p] /\ late'[p] = late[p]
           \/ new = "closing" \/ (new = "closed" /\ p \in silent'),
           commands' \in Seq(Command), Queued', Launching' \subseteq Launching,
           tile[p] = "starting" => new = "running" \/ p \notin Launching'
    PROVE  WindowInv'
<1>1. new \in Grid!Status /\ tile' = [tile EXCEPT ![p] = new] /\ WindowOK
  BY DEF Moves, WindowInv
<1>2. /\ tile' \in [Tile -> Grid!Status] /\ tile'[p] = new
      /\ \A q \in Tile : q # p => tile'[q] = tile[q]
  BY <1>1 DEF WindowOK
<1>3. \A q \in Tile : q # p => Coming(q)' = Coming(q)
  BY DEF Coming
<1> DEFINE c == Coming(p)
<1>4. c \in Seq(Message)
  BY <1>1, Appended DEF WindowOK, Coming
<1>5. p \notin raced' => Coming(p)' = c \o told
  <2>1. events[p] \in Seq(Message) /\ unsent[p] \in Seq(Message)
    BY <1>1 DEF WindowOK
  <2>2. (events[p] \o unsent[p]) \o told = events[p] \o (unsent[p] \o told)
    BY Zenon, <2>1, Joined
  <2>3. QED BY <2>2 DEF Coming
<1>6. /\ c \o told = <<>> <=> c = <<>> /\ told = <<>>
      /\ c # <<>> => (c \o told)[1] = c[1]
      /\ c = <<>> => c \o told = told
      /\ told = <<>> => c \o told = c
      /\ told # <<>> => (c \o told)[Len(c \o told)] = told[Len(told)]
  <2> HIDE DEF c
  <2>1. QED BY <1>4, Appended
<1>7. told = <<>> => \A st : Fits(p, st) => Fits(p, st)'
  <2> SUFFICES ASSUME told = <<>>, NEW st, Fits(p, st) PROVE Fits(p, st)'
    OBVIOUS
  <2>1. new \in {"starting", "closing"} \/ (new = "closed" /\ p \in silent')
    OBVIOUS
  <2>2. CASE new = "starting"
    BY <2>2 DEF Moves, Fits
  <2>3. CASE new = "closing"
    BY <1>2, <2>3 DEF Moves, Fits
  <2>4. CASE new = "closed" /\ p \in silent'
    BY <1>2, <2>4 DEF Fits
  <2>5. QED BY <2>1, <2>2, <2>3, <2>4
<1>8. told # <<>> => told[Len(told)].event = "session-state" /\ Fits(p, told[Len(told)].state)'
  BY <1>2 DEF Truthful, Fits
<1>9. \A q \in Tile : q # p => \A st : Fits(q, st) => Fits(q, st)'
  BY <1>2 DEF Fits
<1> HIDE DEF c
<1>10. WindowOK'
  BY <1>1, <1>2 DEF WindowOK
<1>11. Overtaken'
  BY DEF WindowInv, Overtaken
<1>12. Unheard'
  <2>1. new = "starting" => unsent'[p] = unsent[p] /\ late'[p] = late[p] /\ tile[p] = "unopened"
    BY DEF Moves, Truthful
  <2>2. new # "unopened"
    BY DEF Moves
  <2>3. QED BY <1>2, <2>1, <2>2 DEF WindowInv, Unheard
<1>13. Made'
  <2>1. new # "unopened"
    BY DEF Moves
  <2>2. \A q \in Launching : q \in Tile /\ tile[q] # "unopened"
    BY DEF WindowInv, Made, Launching
  <2>3. \A q \in Launching' : tile'[q] # "unopened"
    BY <1>2, <2>1, <2>2
  <2>4. QED BY <2>3 DEF Made
<1>14. LastWord'
  <2> SUFFICES ASSUME NEW q \in Tile \ raced', Coming(q)' # <<>>
               PROVE  /\ (Coming(q)[Len(Coming(q))].event)' = "session-state"
                      /\ Fits(q, Coming(q)[Len(Coming(q))].state)'
    BY DEF LastWord
  <2>1. CASE q # p \/ told = <<>>
    <3>1. Coming(q)' = Coming(q) /\ q \in Tile \ raced
      BY <1>3, <1>5, <1>6, <2>1 DEF c
    <3>2. Coming(q)[Len(Coming(q))].event = "session-state" /\ Fits(q, Coming(q)[Len(Coming(q))].state)
      BY <3>1 DEF WindowInv, LastWord
    <3>3. ASSUME NEW x, x = Coming(q)[Len(Coming(q))].state
          PROVE  Fits(q, Coming(q)[Len(Coming(q))].state)'
      <4>1. Fits(q, x) => Fits(q, x)'
        BY <1>7, <1>9, <2>1
      <4>2. x = (Coming(q)[Len(Coming(q))].state)'
        BY <3>1, <3>3
      <4>3. QED BY <3>2, <3>3, <4>1, <4>2 DEF Fits
    <3>4. QED BY <3>1, <3>2, <3>3
  <2>2. CASE q = p /\ told # <<>>
    <3>1. Coming(p)'[Len(Coming(p)')] = told[Len(told)]
      BY <1>5, <1>6, <2>2
    <3>2. QED BY <1>8, <2>2, <3>1 DEF Fits
  <2>3. QED BY <2>1, <2>2
<1>15. FirstWord'
  <2> SUFFICES ASSUME NEW q \in Tile \ (panes' \cup shut' \cup raced'),
                      Listed(q)', shown'[q] = "unknown", tile'[q] # "starting"
               PROVE  Coming(q)' # <<>> /\ Coming(q)'[1] = State("running")
    BY DEF FirstWord
  <2>1. Listed(q) /\ q \in Tile \ (panes \cup shut \cup raced) /\ shown[q] = "unknown"
    BY DEF Listed
  <2>2. CASE tile[q] # "starting"
    <3>1. Coming(q) # <<>> /\ Coming(q)[1] = State("running")
      BY <2>1, <2>2 DEF WindowInv, FirstWord
    <3>2. QED BY <1>3, <1>5, <1>6, <3>1 DEF c
  <2>3. CASE tile[q] = "starting"
    <3>1. q = p
      BY <1>2, <2>3
    <3>2. events[p] = <<>> /\ unsent[p] = <<>> /\ \A reply \in replies : p \notin reply.ids
      BY <2>3, <3>1 DEF WindowInv, Unheard
    <3>3. c = <<>>
      BY <1>1, <3>2, Appended DEF WindowOK, Coming, c
    <3>4. p \in Launching'
      BY <3>1, <3>2 DEF Listed
    <3>5. new = "running"
      BY <2>3, <3>1, <3>4
    <3>6. told # <<>> /\ told[1] = State("running")
      BY <3>5 DEF Truthful
    <3>7. QED BY <1>5, <1>6, <3>1, <3>3, <3>6
  <2>4. QED BY <2>2, <2>3
<1>16. Knows'
  <2>1. \A q \in panes' : shown'[q] # "unknown"
    BY DEF WindowInv, Knows
  <2>2. ASSUME NEW q \in Tile \ (revived' \cup raced'), shown'[q] # "unknown", Coming(q)' = <<>>
        PROVE  Fits(q, shown[q])'
    <3>1. Coming(q) = <<>> /\ (q = p => told = <<>>) /\ q \in Tile \ (revived \cup raced)
      BY <1>3, <1>5, <1>6, <2>2 DEF c
    <3>2. Fits(q, shown[q])
      BY <2>2, <3>1 DEF WindowInv, Knows
    <3>3. ASSUME NEW x, x = shown[q] PROVE Fits(q, x) => Fits(q, shown[q])'
      <4>1. shown'[q] = x
        BY <3>3
      <4>2. Fits(q, x) => Fits(q, x)'
        BY <1>7, <1>9, <3>1
      <4>3. QED BY <4>1, <4>2 DEF Fits
    <3>4. QED BY <3>2, <3>3
  <2>3. QED BY <2>1, <2>2 DEF Knows
<1>17. QED BY <1>10, <1>11, <1>12, <1>13, <1>14, <1>15, <1>16 DEF WindowInv

LEMMA AdvanceKeeps ==
    ASSUME WindowInv, NEW p \in Tile, Advance(p)
    PROVE  WindowInv'
<1>1. /\ UNCHANGED <<silent, late, raced, events, commands, replies, shown, panes, tombs, shut, revived>>
      /\ UNCHANGED <<ready, configured, draft>> /\ unsent[p] = <<>>
  BY DEF Advance, Idle, startVars
<1>2. PICK new \in {"running", "restarting", "exited", "closed"} :
            Moves(p, new) /\ (tile[p] = "starting" => new = "running")
  BY TableMoves DEF Advance
<1>3. tile'[p] = new
  BY <1>2 DEF Moves, WindowInv, WindowOK
<1>4. PICK told \in Told(tile[p], new) : unsent' = [unsent EXCEPT ![p] = told]
  BY <1>3 DEF Advance
<1>5. Truthful(told, new) /\ told \in Seq(Message)
  BY <1>2, <1>4, ToldTruly DEF Truthful
<1>6. /\ unsent' \in [Tile -> Seq(Message)] /\ unsent'[p] = told
      /\ \A q \in Tile : q # p => unsent'[q] = unsent[q]
  BY <1>4, <1>5 DEF WindowInv, WindowOK
<1>7. unsent'[p] = unsent[p] \o told
  BY <1>1, <1>5, <1>6, Appended DEF WindowInv, WindowOK
<1>8. commands' \in Seq(Command) /\ Queued' /\ Launching' = Launching
  BY <1>1 DEF WindowInv, WindowOK, Queued, Launching
<1>9. late' \in [Tile -> Seq(Message)] /\ raced' \subseteq Tile /\ silent' \subseteq Tile
      /\ (late'[p] # <<>> => p \in raced') /\ told # <<>>
  BY <1>1, <1>5 DEF WindowInv, WindowOK, Overtaken, Truthful
<1>10. QED BY <1>1, <1>2, <1>5, <1>6, <1>7, <1>8, <1>9, PaneMoves

LEMMA RestartSessionKeeps ==
    ASSUME WindowInv, NEW p \in Tile, RestartSession(p)
    PROVE  WindowInv'
<1> DEFINE told == <<State("restarting")>>
<1>1. /\ UNCHANGED <<silent, events, commands, replies, shown, panes, tombs, shut, revived>>
      /\ UNCHANGED <<ready, configured, draft>> /\ unsent' = [unsent EXCEPT ![p] = told]
  BY DEF RestartSession, Idle, startVars
<1>2. Moves(p, "restarting") /\ tile[p] # "starting"
  <2>1. CASE tile[p] # "starting" /\ Grid!Restart(p)
    BY <2>1, TableMoves
  <2>2. CASE tile[p] = "restarting" /\ UNCHANGED tile
    BY <2>2 DEF Moves, Grid!Status, WindowInv, WindowOK
  <2>3. QED BY <2>1, <2>2 DEF RestartSession
<1>3. Truthful(told, "restarting") /\ told \in Seq(Message) /\ told # <<>>
  BY RestartToldTruly DEF Truthful
<1> HIDE DEF told
<1>4. /\ unsent' \in [Tile -> Seq(Message)] /\ unsent'[p] = told
      /\ \A q \in Tile : q # p => unsent'[q] = unsent[q]
  BY <1>1, <1>3 DEF WindowInv, WindowOK
<1>5. /\ late' \in [Tile -> Seq(Message)] /\ \A q \in Tile : q # p => late'[q] = late[q]
      /\ raced' \subseteq Tile /\ raced \subseteq raced' /\ silent' \subseteq Tile
      /\ late'[p] # <<>> => p \in raced'
      /\ p \notin raced' => unsent[p] = <<>>
  <2>1. CASE unsent[p] = <<>>
    BY <1>1, <2>1 DEF RestartSession, WindowInv, WindowOK, Overtaken
  <2>2. CASE unsent[p] # <<>>
    <3>1. late' = [late EXCEPT ![p] = unsent[p]] /\ raced' = raced \cup {p}
      BY <2>2 DEF RestartSession
    <3>2. QED BY <1>1, <3>1 DEF WindowInv, WindowOK
  <2>3. QED BY <2>1, <2>2
<1>6. p \notin raced' => unsent'[p] = unsent[p] \o told
  BY <1>3, <1>4, <1>5, Appended DEF WindowInv, WindowOK
<1>7. commands' \in Seq(Command) /\ Queued' /\ Launching' = Launching
  BY <1>1 DEF WindowInv, WindowOK, Queued, Launching
<1>8. QED BY <1>1, <1>2, <1>3, <1>4, <1>5, <1>6, <1>7, PaneMoves

\* The map is locked while a pane is opened or told to end: nobody tells of that.
LEMMA MovesUntold ==
    ASSUME WindowInv, NEW p \in Tile, (Grid!Open(p) /\ UNCHANGED silent) \/ Killed(p),
           UNCHANGED <<wordVars, shown, panes, tombs, shut, revived, replies, ready, configured, draft>>,
           commands' \in Seq(Command), Queued', Launching' \subseteq Launching,
           tile[p] = "starting" => p \notin Launching'
    PROVE  WindowInv'
<1>1. /\ <<>> \in Seq(Message) /\ unsent[p] \in Seq(Message) /\ unsent[p] \o <<>> = unsent[p]
      /\ unsent' \in [Tile -> Seq(Message)] /\ late' \in [Tile -> Seq(Message)]
      /\ raced' \subseteq Tile /\ raced \subseteq raced' /\ (late'[p] # <<>> => p \in raced')
      /\ UNCHANGED <<events, unsent, late, shown, panes, tombs, shut, revived, replies, ready, configured, draft>>
  <2>1. unsent[p] \in Seq(Message) /\ <<>> \in Seq(Message)
    BY DEF WindowInv, WindowOK
  <2>2. QED BY <2>1, Appended DEF WindowInv, WindowOK, Overtaken, wordVars
<1>2. PICK new \in {"starting", "closing", "closed"} :
            /\ Moves(p, new) /\ silent' \subseteq Tile
            /\ new = "closed" => p \in silent'
            /\ \A q \in Tile : q # p => (q \in silent' <=> q \in silent)
  <2>1. silent \subseteq Tile
    BY DEF WindowInv, WindowOK
  <2>2. CASE Grid!Open(p) /\ UNCHANGED silent
    BY <2>1, <2>2, TableMoves
  <2>3. CASE Grid!Close(p) /\ UNCHANGED silent
    BY <2>1, <2>3, TableMoves
  <2>4. CASE Grid!Closed(p) /\ silent' = silent \cup {p}
    BY <2>1, <2>4, TableMoves
  <2>5. QED BY <2>2, <2>3, <2>4 DEF Killed
<1>3. QED BY <1>1, <1>2, PaneMoves

LEMMA OthersKeep ==
    ASSUME WindowInv, NEW p \in Tile, Opened(p) \/ KilledByOthers(p)
    PROVE  WindowInv'
<1>1. /\ UNCHANGED <<wordVars, commands, shown, panes, tombs, shut, revived, replies>>
      /\ UNCHANGED <<ready, configured, draft>>
      /\ (Grid!Open(p) /\ UNCHANGED silent) \/ Killed(p)
      /\ tile[p] # "starting"
  BY DEF Opened, KilledByOthers, Killed, Grid!Open, Idle, tellVars, startVars, wordVars
<1>2. commands' \in Seq(Command) /\ Queued' /\ Launching' = Launching
  BY <1>1 DEF WindowInv, WindowOK, Queued, Launching
<1>3. QED BY <1>1, <1>2, MovesUntold

LEMMA KillPtyKeeps ==
    ASSUME WindowInv, NEW p \in Tile, KillPty(p)
    PROVE  WindowInv'
<1>1. /\ UNCHANGED <<replies, shown, panes, tombs, shut, revived, ready, configured, draft>>
      /\ commands # <<>> /\ commands' = Tail(commands)
  BY DEF KillPty, Doing, Idle, startVars
<1>2. commands' \in Seq(Command) /\ Queued' /\ Launching' = {}
  BY <1>1, CommandsPopped DEF WindowInv, WindowOK
<1>3. CASE Killed(p)
  <2>1. UNCHANGED wordVars
    BY <1>3 DEF Killed, tellVars, wordVars
  <2>2. QED BY <1>1, <1>2, <1>3, <2>1, MovesUntold
<1>4. CASE UNCHANGED <<tile, silent, tellVars, events>>
  <2>1. UNCHANGED <<tile, silent, wordVars>>
    BY <1>4 DEF tellVars, wordVars
  <2>2. WindowOK'
    BY <1>1, <1>2, <2>1 DEF WindowInv, WindowOK, wordVars
  <2>3. Unheard'
    BY <1>1, <2>1 DEF WindowInv, Unheard, wordVars
  <2>4. Made'
    BY <1>2 DEF Made
  <2>5. Overtaken' /\ LastWord'
    BY <2>1, WordsStand
  <2>6. FirstWord'
    <3>1. \A q \in Tile : Listed(q)' => Listed(q)
      BY <1>1, <1>2 DEF Listed
    <3>2. QED BY <1>1, <2>1, <3>1, ListedLess
  <2>7. Knows'
    BY <1>1, <2>1 DEF WindowInv, Knows, Fits, Coming, wordVars
  <2>8. QED BY <1>2, <2>2, <2>3, <2>4, <2>5, <2>6, <2>7 DEF WindowInv
<1>5. QED BY <1>3, <1>4 DEF KillPty

\* A thread tells, and the window has the same yet to hear; or it was overtaken.
LEMMA EmitKeeps ==
    ASSUME WindowInv, NEW p \in Tile, Emit(p) \/ EmitLate(p)
    PROVE  WindowInv'
<1>1. /\ UNCHANGED <<tile, silent, raced, commands, replies, shown, panes, tombs, shut, revived>>
      /\ UNCHANGED <<ready, configured, draft>>
  BY DEF Emit, EmitLate, Idle, startVars
<1>2. /\ events' \in [Tile -> Seq(Message)] /\ unsent' \in [Tile -> Seq(Message)]
      /\ late' \in [Tile -> Seq(Message)]
      /\ \A q \in Tile : q # p => /\ events'[q] = events[q] /\ unsent'[q] = unsent[q]
                                  /\ late'[q] = late[q]
      /\ p \notin raced => Coming(p)' = Coming(p) /\ late'[p] = late[p]
      /\ unsent[p] # <<>> \/ late[p] # <<>>
      /\ late'[p] # <<>> => late[p] # <<>>
  <2>1. events[p] \in Seq(Message) /\ unsent[p] \in Seq(Message) /\ late[p] \in Seq(Message)
    BY DEF WindowInv, WindowOK
  <2>2. CASE Emit(p)
    <3>1. /\ unsent[p] # <<>> /\ UNCHANGED late
          /\ events' = [events EXCEPT ![p] = Append(@, Head(unsent[p]))]
          /\ unsent' = [unsent EXCEPT ![p] = Tail(@)]
      BY <2>2 DEF Emit
    <3>2. /\ Append(events[p], Head(unsent[p])) \in Seq(Message) /\ Tail(unsent[p]) \in Seq(Message)
          /\ Append(events[p], Head(unsent[p])) \o Tail(unsent[p]) = Coming(p)
      BY <2>1, <3>1, Passed DEF Coming
    <3>3. events'[p] = Append(events[p], Head(unsent[p])) /\ unsent'[p] = Tail(unsent[p])
      BY <3>1 DEF WindowInv, WindowOK
    <3>4. Coming(p)' = Coming(p)
      BY <3>2, <3>3 DEF Coming
    <3>5. QED BY <3>1, <3>2, <3>4 DEF WindowInv, WindowOK
  <2>3. CASE EmitLate(p)
    <3>1. /\ late[p] # <<>> /\ UNCHANGED unsent
          /\ events' = [events EXCEPT ![p] = Append(@, Head(late[p]))]
          /\ late' = [late EXCEPT ![p] = Tail(@)]
      BY <2>3 DEF EmitLate
    <3>2. Append(events[p], Head(late[p])) \in Seq(Message) /\ Tail(late[p]) \in Seq(Message)
      BY <2>1, <3>1, Passed
    <3>3. p \in raced
      BY <3>1 DEF WindowInv, Overtaken
    <3>4. QED BY <3>1, <3>2, <3>3 DEF WindowInv, WindowOK
  <2>4. QED BY <2>2, <2>3
<1>3. \A q \in Tile \ raced : Coming(q)' = Coming(q)
  BY <1>2 DEF Coming
<1>4. tile[p] \notin {"unopened", "starting"}
  BY <1>2 DEF WindowInv, Unheard
<1>5. WindowOK'
  BY <1>1, <1>2 DEF WindowInv, WindowOK
<1>6. Overtaken'
  BY <1>1, <1>2 DEF WindowInv, Overtaken
<1>7. Unheard'
  BY <1>1, <1>2, <1>4 DEF WindowInv, Unheard
<1>8. Queued' /\ Made' /\ Launching' = Launching
  BY <1>1 DEF WindowInv, Queued, Made, Launching
<1>9. LastWord'
  <2> SUFFICES ASSUME NEW q \in Tile \ raced', Coming(q)' # <<>>
               PROVE  /\ (Coming(q)[Len(Coming(q))].event)' = "session-state"
                      /\ Fits(q, Coming(q)[Len(Coming(q))].state)'
    BY DEF LastWord
  <2>1. Coming(q)' = Coming(q) /\ Coming(q) # <<>> /\ q \in Tile \ raced
    BY <1>1, <1>3
  <2>2. Coming(q)[Len(Coming(q))].event = "session-state" /\ Fits(q, Coming(q)[Len(Coming(q))].state)
    BY <2>1 DEF WindowInv, LastWord
  <2>3. QED BY <1>1, <2>1, <2>2 DEF Fits
<1>10. FirstWord'
  <2>1. \A q \in Tile : Listed(q)' => Listed(q)
    BY <1>1, <1>8 DEF Listed
  <2>2. QED BY <1>1, <1>3, <2>1 DEF WindowInv, FirstWord
<1>11. Knows'
  <2>1. \A q \in Tile \ (revived \cup raced) :
            shown[q] # "unknown" /\ Coming(q)' = <<>> => Fits(q, shown[q])
    BY <1>3 DEF WindowInv, Knows
  <2>2. QED BY <1>1, <2>1 DEF WindowInv, Knows, Fits
<1>12. QED BY <1>5, <1>6, <1>7, <1>8, <1>9, <1>10, <1>11 DEF WindowInv

LEMMA WindowStart == WindowInit => WindowInv
<1> SUFFICES ASSUME WindowInit PROVE WindowInv
  OBVIOUS
<1>1. /\ commands = <<>> /\ Len(commands) = 0 /\ commands \in Seq(Command)
      /\ replies = {} /\ panes = {} /\ tombs = {} /\ shut = {} /\ revived = {} /\ silent = {}
      /\ raced = {} /\ draft = {}
      /\ events = [p \in Tile |-> <<>>] /\ unsent = [p \in Tile |-> <<>>]
      /\ late = [p \in Tile |-> <<>>] /\ shown = [p \in Tile |-> "unknown"]
      /\ tile \in [Tile -> {"unopened", "closed"}] /\ ready = FALSE /\ configured \in BOOLEAN
  BY DEF WindowInit
<1>2. WindowOK
  <2>1. /\ events \in [Tile -> Seq(Message)] /\ unsent \in [Tile -> Seq(Message)]
        /\ late \in [Tile -> Seq(Message)]
    BY <1>1
  <2>2. shown \in [Tile -> SessionShown] /\ tile \in [Tile -> Grid!Status]
    BY <1>1 DEF SessionShown, Grid!Status
  <2>3. QED BY <1>1, <2>1, <2>2 DEF WindowOK
<1>3. Queued /\ Launching = {} /\ Made
  BY <1>1 DEF Queued, Launching, Made
<1>4. Unheard /\ Overtaken
  BY <1>1 DEF Unheard, Overtaken
<1>5. \A p \in Tile : Coming(p) = <<>>
  BY <1>1, <1>2, Appended DEF WindowOK, Coming
<1>6. LastWord /\ Knows
  BY <1>1, <1>5 DEF LastWord, Knows
<1>7. FirstWord
  BY <1>1, <1>3 DEF FirstWord, Listed
<1>8. QED BY <1>2, <1>3, <1>4, <1>6, <1>7 DEF WindowInv

LEMMA WindowStep == WindowInv /\ [WindowNext]_windowVars => WindowInv'
<1> SUFFICES ASSUME WindowInv, [WindowNext]_windowVars PROVE WindowInv'
  OBVIOUS
<1>1. CASE \/ UNCHANGED windowVars \/ AskAgent \/ AskTeam \/ RestoreNext \/ Restored \/ LoadConfig
           \/ SaveState
  BY <1>1, QueueingSteps
<1>2. CASE LaunchReturns \/ SaveProjectState
  BY <1>2, LaunchReturnsKeeps, SaveProjectStateKeeps
<1>3. ASSUME NEW reply \in replies, Launched(reply) PROVE WindowInv'
  BY <1>3, LaunchedKeeps
<1>4. ASSUME NEW p \in Tile,
             \/ SessionState(p) \/ PtyExit(p) \/ CreateTermHandle(p)
             \/ ClosePane(p, closers) \/ AutoClose(p) \/ TombExpires(p) \/ Backend(p)
      PROVE  WindowInv'
  <2>1. CASE SessionState(p) \/ PtyExit(p) \/ ClosePane(p, closers) \/ TombExpires(p)
    BY <2>1, SessionStateKeeps, PtyExitKeeps, ClosePaneKeeps, TombExpiresKeeps
  <2>2. CASE CreateTermHandle(p)
    BY <2>2, QueueingSteps
  <2>3. CASE AutoClose(p)
    <3>1. ClosePane(p, closers \ {p}) \/ AutoCloseSpares(p)
      BY <2>3 DEF AutoClose, AutoCloseSpares
    <3>2. CASE ClosePane(p, closers \ {p})
      BY <3>2, ClosePaneKeeps
    <3>3. CASE AutoCloseSpares(p)
      BY <3>3, QueueingSteps
    <3>4. QED BY <3>1, <3>2, <3>3
  <2>4. CASE Advance(p) \/ RestartSession(p) \/ Opened(p) \/ KilledByOthers(p)
    BY <2>4, AdvanceKeeps, RestartSessionKeeps, OthersKeep
  <2>5. CASE Emit(p) \/ EmitLate(p) \/ LaunchOne(p) \/ KillPty(p)
    BY <2>5, EmitKeeps, LaunchOneKeeps, KillPtyKeeps
  <2>6. QED BY <1>4, <2>1, <2>2, <2>3, <2>4, <2>5 DEF Backend
<1>5. QED BY <1>1, <1>2, <1>3, <1>4 DEF WindowNext

\* For any panes, launches and closing modes, however late the threads of the session manager
\* tell and however their events and the replies to the commands cross: a pane about which all
\* is told and has arrived is shown in the state it is in, unless it was opened again after it
\* was closed or restarted by hand over a thread that was still to tell.
THEOREM TheWindowIsTrue == WindowSpec => []ShownTruth
<1>1. WindowInv => ShownTruth
  <2> SUFFICES ASSUME WindowInv, NEW p \in panes \ (revived \cup raced), Quiet(p) PROVE Agrees(p)
    BY DEF ShownTruth
  <2>1. Coming(p) = <<>>
    BY Appended DEF WindowInv, WindowOK, Quiet, Coming
  <2>2. Fits(p, shown[p])
    BY <2>1 DEF WindowInv, WindowOK, Knows
  <2>3. QED BY <2>2 DEF Fits, Agrees
<1>2. QED BY <1>1, WindowStart, WindowStep, PTL DEF WindowSpec

(***************************************************************************)
(* The terminals.  While a pane is closed, the creation that is under way  *)
(* is canceled, so a terminal never outlives its pane.                     *)
(***************************************************************************)

LEMMA AddMakes ==
    ASSUME WindowOK, Making, NEW new \in SUBSET Tile, Add(new), UNCHANGED shut
    PROVE  Making'
<1> DEFINE mounts == (new \ panes) \ (terminals \cup creating)
<1>1. /\ panes' = panes \cup new /\ creating' = creating \cup mounts
      /\ making' = [p \in Tile |-> making[p] + IF p \in mounts THEN 1 ELSE 0]
      /\ revived' = revived \cup ((new \ panes) \cap shut)
      /\ UNCHANGED <<terminals, canceled>>
  BY DEF Add
<1>2. making \in [Tile -> Nat]
  BY DEF Making
<1>3. /\ making' \in [Tile -> Nat]
      /\ \A p \in Tile : making'[p] = making[p] + IF p \in mounts THEN 1 ELSE 0
  BY <1>1, <1>2
<1>4. \A p \in Tile : p \in mounts => p \notin panes /\ p \notin terminals /\ p \notin creating
  OBVIOUS
<1>5. ASSUME NEW p \in Tile \ revived'
      PROVE  /\ making'[p] <= 1
             /\ p \notin panes' => p \notin terminals' /\ (making'[p] > 0 => p \in canceled' \cap shut')
             /\ p \in panes' /\ making'[p] > 0 => p \in creating' /\ p \notin terminals'
  <2>1. p \in Tile \ revived /\ (p \in new \ panes => p \notin shut)
    BY <1>1
  <2>2. /\ making[p] <= 1 /\ making[p] \in Nat
        /\ p \notin panes => p \notin terminals /\ (making[p] > 0 => p \in canceled \cap shut)
        /\ p \in panes /\ making[p] > 0 => p \in creating /\ p \notin terminals
    BY <1>2, <2>1 DEF Making
  <2>3. CASE p \in new \ panes
    <3>1. making[p] = 0 /\ p \notin terminals
      BY <2>1, <2>2, <2>3
    <3>2. making'[p] = IF p \in mounts THEN 1 ELSE 0
      BY <1>3, <3>1
    <3>3. QED BY <1>1, <2>3, <3>1, <3>2
  <2>4. CASE p \notin new \ panes
    <3>1. making'[p] = making[p]
      BY <1>3, <2>2, <2>4
    <3>2. QED BY <1>1, <2>2, <2>4, <3>1
  <2>5. QED BY <2>3, <2>4
<1>6. QED BY <1>1, <1>3, <1>5 DEF Making

LEMMA MakingStands ==
    ASSUME Making, UNCHANGED <<terminalVars, panes, shut, revived>>
    PROVE  Making'
  BY DEF Making, terminalVars

LEMMA ClosePaneMakes ==
    ASSUME WindowOK, Making, NEW p \in Tile, NEW armed, ClosePane(p, armed)
    PROVE  Making'
<1>1. /\ p \in panes /\ shut' = shut \cup {p} /\ panes' = panes \ {p} /\ UNCHANGED <<revived, making>>
      /\ terminals' = terminals \ {p}
      /\ canceled' = IF p \in creating /\ p \notin terminals THEN canceled \cup {p} ELSE canceled
      /\ creating' = creating \ {p}
  BY DEF ClosePane, Dispose
<1>2. ASSUME NEW q \in Tile \ revived, q # p
      PROVE  /\ making[q] <= 1
             /\ q \notin panes' => q \notin terminals' /\ (making[q] > 0 => q \in canceled' \cap shut')
             /\ q \in panes' /\ making[q] > 0 => q \in creating' /\ q \notin terminals'
  BY <1>1, <1>2 DEF Making
<1>3. p \notin revived => making[p] <= 1 /\ (making[p] > 0 => p \in canceled' \cap shut')
  BY <1>1 DEF Making
<1>4. QED BY <1>1, <1>2, <1>3 DEF Making

LEMMA CreateTermHandleMakes ==
    ASSUME WindowOK, Making, NEW p \in Tile, CreateTermHandle(p)
    PROVE  Making'
<1>1. /\ making[p] > 0 /\ making' = [making EXCEPT ![p] = @ - 1]
      /\ creating' = creating \ {p} /\ canceled' = canceled \ {p}
      /\ terminals' = IF p \in canceled THEN terminals \ {p} ELSE terminals \cup {p}
      /\ UNCHANGED <<panes, shut, revived>>
  BY DEF CreateTermHandle
<1>2. making \in [Tile -> Nat] /\ terminals \subseteq Tile
  BY DEF Making
<1>3. /\ making' \in [Tile -> Nat] /\ making'[p] = making[p] - 1
      /\ \A q \in Tile : q # p => making'[q] = making[q]
  BY <1>1, <1>2
<1>4. ASSUME NEW q \in Tile \ revived, q # p
      PROVE  /\ making'[q] <= 1
             /\ q \notin panes => q \notin terminals' /\ (making'[q] > 0 => q \in canceled' \cap shut)
             /\ q \in panes /\ making'[q] > 0 => q \in creating' /\ q \notin terminals'
  <2>1. /\ making'[q] = making[q] /\ (q \in terminals' <=> q \in terminals)
        /\ (q \in canceled' <=> q \in canceled) /\ (q \in creating' <=> q \in creating)
    BY <1>1, <1>3, <1>4
  <2>2. QED BY <2>1 DEF Making
<1>5. p \notin revived => making'[p] = 0 /\ (p \notin panes => p \notin terminals')
  <2> SUFFICES ASSUME p \notin revived PROVE making'[p] = 0 /\ (p \notin panes => p \notin terminals')
    OBVIOUS
  <2>1. making[p] <= 1 /\ making[p] \in Nat
    BY <1>2 DEF Making
  <2>2. p \notin panes => p \in canceled
    BY <1>1 DEF Making
  <2>3. QED BY <1>1, <1>3, <2>1, <2>2
<1>6. terminals' \subseteq Tile
  BY <1>1, <1>2
<1>7. QED BY <1>1, <1>3, <1>4, <1>5, <1>6 DEF Making

LEMMA MakingStep == WindowInv /\ Making /\ [WindowNext]_windowVars => Making'
<1> SUFFICES ASSUME WindowOK, Making, [WindowNext]_windowVars PROVE Making'
  BY DEF WindowInv
<1>1. CASE UNCHANGED windowVars
  BY <1>1, MakingStands DEF windowVars
<1>2. CASE \/ AskAgent \/ AskTeam \/ RestoreNext \/ Restored \/ LoadConfig \/ SaveState
           \/ LaunchReturns \/ SaveProjectState
  <2>1. UNCHANGED <<terminalVars, panes, shut, revived>>
    BY <1>2 DEF AskAgent, AskTeam, RestoreNext, Restored, LoadConfig, SaveState, LaunchReturns, SaveProjectState, Idle
  <2>2. QED BY <2>1, MakingStands
<1>3. ASSUME NEW reply \in replies, Launched(reply) PROVE Making'
  <2>1. reply.ids \in SUBSET Tile /\ Add(reply.ids) /\ UNCHANGED shut
    BY <1>3 DEF Launched, WindowOK, Reply
  <2>2. QED BY <2>1, AddMakes
<1>4. ASSUME NEW p \in Tile, SessionState(p) PROVE Making'
  <2>1. PICK new \in SUBSET {p} : Add(new) /\ UNCHANGED shut
    BY <1>4 DEF SessionState
  <2>2. QED BY <2>1, AddMakes
<1>5. ASSUME NEW p \in Tile, ClosePane(p, closers) \/ ClosePane(p, closers \ {p}) PROVE Making'
  BY <1>5, ClosePaneMakes
<1>6. ASSUME NEW p \in Tile, CreateTermHandle(p) PROVE Making'
  BY <1>6, CreateTermHandleMakes
<1>7. ASSUME NEW p \in Tile, PtyExit(p) \/ TombExpires(p) \/ AutoCloseSpares(p) PROVE Making'
  <2>1. UNCHANGED <<terminalVars, panes, shut, revived>>
    BY <1>7 DEF PtyExit, TombExpires, AutoCloseSpares
  <2>2. QED BY <2>1, MakingStands
<1>8. ASSUME NEW p \in Tile, Backend(p) PROVE Making'
  <2>1. UNCHANGED <<terminalVars, panes, shut, revived>>
    BY <1>8 DEF Backend, Advance, RestartSession, Opened, KilledByOthers, Emit, EmitLate, LaunchOne,
               KillPty, Idle
  <2>2. QED BY <2>1, MakingStands
<1>9. \A p \in Tile : AutoClose(p) => ClosePane(p, closers \ {p}) \/ AutoCloseSpares(p)
  BY DEF AutoClose, AutoCloseSpares
<1>10. QED BY <1>1, <1>2, <1>3, <1>4, <1>5, <1>6, <1>7, <1>8, <1>9 DEF WindowNext

\* For any panes: whenever a pane is closed and however long the creation of its terminal
\* takes, no terminal, and so no listener, stays behind.
THEOREM NoTerminalIsLeft == WindowSpec => []NoListenerLeak
<1>1. WindowInit => Making
  BY DEF WindowInit, Making
<1>2. Making /\ WindowInv => NoListenerLeak
  BY DEF Making, NoListenerLeak
<1>3. QED BY <1>1, <1>2, WindowStart, WindowStep, MakingStep, PTL DEF WindowSpec

(***************************************************************************)
(* The project state.  The newest layout is in the timer, in the queue or  *)
(* on disk, and commands are run in the order they were invoked.           *)
(***************************************************************************)

LEMMA SaveAppended ==
    ASSUME NEW s \in Seq(Command), NEW c \in Command, NEW v
    PROVE  /\ c.do # "save" => (Newest(s, v) => Newest(Append(s, c), v))
                               /\ (NoSave(Append(s, c)) => NoSave(s))
           /\ c.do = "save" /\ c.what = v => Newest(Append(s, c), v)
           /\ c.do = "save" => ~NoSave(Append(s, c))
<1> DEFINE t == Append(s, c)
<1>1. /\ Len(t) = Len(s) + 1 /\ Len(s) \in Nat /\ t[Len(s) + 1] = c
      /\ \A i \in 1 .. Len(s) : t[i] = s[i]
  OBVIOUS
<1> HIDE DEF t
<1>2. c.do # "save" /\ Newest(s, v) => Newest(t, v)
  <2> SUFFICES ASSUME c.do # "save", Newest(s, v), NEW i \in 1 .. Len(t), t[i].do = "save",
                      \A j \in i + 1 .. Len(t) : t[j].do # "save"
               PROVE  t[i].what = v
    BY DEF Newest
  <2>1. i \in 1 .. Len(s)
    BY <1>1
  <2>2. \A j \in i + 1 .. Len(s) : s[j].do # "save"
    BY <1>1, <2>1
  <2>3. QED BY <1>1, <2>1, <2>2 DEF Newest
<1>3. NoSave(t) => NoSave(s)
  BY <1>1 DEF NoSave
<1>4. c.do = "save" => ~NoSave(t)
  BY <1>1 DEF NoSave
<1>5. c.do = "save" /\ c.what = v => Newest(t, v)
  <2> SUFFICES ASSUME c.do = "save", c.what = v, NEW i \in 1 .. Len(t), t[i].do = "save",
                      \A j \in i + 1 .. Len(t) : t[j].do # "save"
               PROVE  t[i].what = v
    BY DEF Newest
  <2>1. i = Len(s) + 1
    BY <1>1
  <2>2. QED BY <1>1, <2>1
<1>6. QED BY <1>2, <1>3, <1>4, <1>5 DEF t

LEMMA SavePopped ==
    ASSUME NEW s \in Seq(Command), s # <<>>, NEW v, Newest(s, v)
    PROVE  /\ Newest(Tail(s), v)
           /\ Head(s).do # "save" => (NoSave(Tail(s)) => NoSave(s))
           /\ Head(s).do = "save" => (NoSave(Tail(s)) => Head(s).what = v)
<1> DEFINE t == Tail(s)
<1>1. /\ Len(t) = Len(s) - 1 /\ Len(s) \in Nat \ {0} /\ Head(s) = s[1]
      /\ \A i \in 1 .. Len(t) : t[i] = s[i + 1]
  OBVIOUS
<1> HIDE DEF t
<1>2. Newest(t, v)
  <2> SUFFICES ASSUME NEW i \in 1 .. Len(t), t[i].do = "save",
                      \A j \in i + 1 .. Len(t) : t[j].do # "save"
               PROVE  t[i].what = v
    BY DEF Newest
  <2>1. i + 1 \in 1 .. Len(s) /\ t[i] = s[i + 1]
    BY <1>1
  <2>2. ASSUME NEW j \in (i + 1) + 1 .. Len(s) PROVE s[j].do # "save"
    <3>1. j - 1 \in i + 1 .. Len(t) /\ j - 1 \in 1 .. Len(t) /\ (j - 1) + 1 = j
      BY <1>1
    <3>2. QED BY <1>1, <3>1
  <2>3. QED BY <2>1, <2>2 DEF Newest
<1>3. ASSUME NoSave(t), NEW i \in 1 .. Len(s), i # 1 PROVE s[i].do # "save"
  <2>1. i - 1 \in 1 .. Len(t) /\ (i - 1) + 1 = i
    BY <1>1, <1>3
  <2>2. QED BY <1>1, <1>3, <2>1 DEF NoSave
<1>4. Head(s).do # "save" /\ NoSave(t) => NoSave(s)
  BY <1>1, <1>3 DEF NoSave
<1>5. Head(s).do = "save" /\ NoSave(t) => Head(s).what = v
  <2> SUFFICES ASSUME s[1].do = "save", NoSave(t) PROVE s[1].what = v
    BY <1>1
  <2>1. 1 \in 1 .. Len(s) /\ \A j \in 1 + 1 .. Len(s) : j \in 1 .. Len(s) /\ j # 1
    BY <1>1
  <2>2. QED BY <1>3, <2>1 DEF Newest
<1>6. QED BY <1>2, <1>4, <1>5 DEF t

\* What a step may do to the queue without a word about layouts.
SavesStand ==
    /\ \A v : Newest(commands, v) => Newest(commands', v)
    /\ NoSave(commands') => NoSave(commands)

LEMMA OtherCommands ==
    ASSUME WindowOK, Queued,
           \/ UNCHANGED commands
           \/ \E c \in Command : c.do # "save" /\ commands' = Append(commands, c)
           \/ commands # <<>> /\ Head(commands).do # "save" /\ commands' = Tail(commands)
           \/ \E p \in Tile : /\ commands # <<>> /\ Head(commands).do \in Launch
                              /\ commands' = [commands EXCEPT ![1].what = @ \cup {p}]
    PROVE  SavesStand
<1>1. commands \in Seq(Command)
  BY DEF WindowOK
<1>2. CASE UNCHANGED commands
  BY <1>2 DEF SavesStand, Newest, NoSave
<1>3. ASSUME NEW c \in Command, c.do # "save", commands' = Append(commands, c) PROVE SavesStand
  BY <1>1, <1>3, SaveAppended DEF SavesStand
<1>4. CASE commands # <<>> /\ Head(commands).do # "save" /\ commands' = Tail(commands)
  <2>1. ASSUME NEW v, Newest(commands, v) PROVE Newest(commands', v)
    BY <1>1, <1>4, <2>1, SavePopped
  <2>2. NoSave(commands') => NoSave(commands)
    <3>1. /\ Len(commands') = Len(commands) - 1 /\ Len(commands) \in Nat \ {0}
          /\ commands[1].do # "save"
          /\ \A i \in 1 .. Len(commands') : commands'[i] = commands[i + 1]
      <4>1. Head(commands) = commands[1]
        BY <1>1, <1>4
      <4>2. QED BY <1>1, <1>4, <4>1
    <3>2. ASSUME NoSave(commands'), NEW i \in 1 .. Len(commands) PROVE commands[i].do # "save"
      <4>1. CASE i = 1
        BY <3>1, <4>1
      <4>2. CASE i # 1
        <5>1. i - 1 \in 1 .. Len(commands') /\ (i - 1) + 1 = i
          BY <3>1, <4>2
        <5>2. QED BY <3>1, <3>2, <5>1 DEF NoSave
      <4>3. QED BY <4>1, <4>2
    <3>3. QED BY <3>2 DEF NoSave
  <2>3. QED BY <2>1, <2>2 DEF SavesStand
<1>5. ASSUME NEW p \in Tile, commands # <<>>, Head(commands).do \in Launch,
             commands' = [commands EXCEPT ![1].what = @ \cup {p}]
      PROVE  SavesStand
  <2>1. Len(commands) \in Nat \ {0} /\ Head(commands) = commands[1]
    BY <1>1, <1>5
  <2>2. /\ Len(commands') = Len(commands) /\ commands'[1].do = commands[1].do
        /\ \A i \in 2 .. Len(commands) : commands'[i] = commands[i]
    BY <1>1, <1>5, CommandsGrown
  <2>3. commands[1].do \in Launch /\ \A kind \in Launch : kind # "save"
    BY <1>5, <2>1 DEF Launch
  <2>4. \A i \in 1 .. Len(commands) :
            /\ commands'[i].do = "save" <=> commands[i].do = "save"
            /\ commands[i].do = "save" => commands'[i] = commands[i]
    <3>1. \A i \in 1 .. Len(commands) : i = 1 \/ i \in 2 .. Len(commands)
      BY <2>1
    <3>2. QED BY <2>2, <2>3, <3>1
  <2>5. ASSUME NEW v, Newest(commands, v), NEW i \in 1 .. Len(commands'), commands'[i].do = "save",
               \A j \in i + 1 .. Len(commands') : commands'[j].do # "save"
        PROVE  commands'[i].what = v
    <3>1. i \in 1 .. Len(commands) /\ commands[i].do = "save" /\ commands'[i] = commands[i]
      BY <2>2, <2>4, <2>5
    <3>2. \A j \in i + 1 .. Len(commands) : commands[j].do # "save"
      BY <2>1, <2>2, <2>4, <2>5, <3>1
    <3>3. QED BY <2>5, <3>1, <3>2 DEF Newest
  <2>6. NoSave(commands') => NoSave(commands)
    BY <2>2, <2>4 DEF NoSave
  <2>7. QED BY <2>5, <2>6 DEF SavesStand, Newest
<1>6. QED BY <1>2, <1>3, <1>4, <1>5

\* The effect of the snapshots has run, on the panes that are open after the step.
LEMMA Redrafted ==
    ASSUME WindowOK, NewestSnapshot, SavesStand, UNCHANGED <<saved, saveFailed>>,
           ready => ready', configured => configured',
           \/ Redraft(TRUE)
           \/ Redraft(FALSE) /\ UNCHANGED <<ready, configured>>
    PROVE  NewestSnapshot'
<1>1. PICK runs \in BOOLEAN :
            /\ draft' = IF runs THEN {Persistable(panes')} ELSE draft
            /\ runs => ready' /\ configured'
            /\ ~runs /\ ready' /\ configured' => UNCHANGED <<panes, ready, configured>>
  <2>1. CASE Redraft(TRUE)
    BY <2>1 DEF Redraft
  <2>2. CASE Redraft(FALSE) /\ UNCHANGED <<ready, configured>>
    BY <2>2 DEF Redraft
  <2>3. QED BY <2>1, <2>2
<1>2. Persistable(panes)' = Persistable(panes')
  BY DEF Persistable
<1>3. CASE runs
  <2>1. draft' = {Persistable(panes')}
    BY <1>1, <1>3
  <2>2. QED BY <1>1, <1>2, <1>3, <2>1 DEF NewestSnapshot
<1>4. CASE ~runs
  <2>1. draft' = draft
    BY <1>1, <1>4
  <2>2. CASE ~(ready' /\ configured')
    <3>1. draft = {}
      BY <2>2 DEF NewestSnapshot
    <3>2. QED BY <2>1, <2>2, <3>1 DEF NewestSnapshot
  <2>3. CASE ready' /\ configured'
    <3>1. panes' = panes /\ ready /\ configured
      BY <1>1, <1>4, <2>3
    <3>2. Persistable(panes)' = Persistable(panes)
      BY <3>1 DEF Persistable
    <3>3. draft = {} => /\ Newest(commands', Persistable(panes))
                        /\ NoSave(commands') => saveFailed \/ saved = Persistable(panes)
      BY <3>1 DEF NewestSnapshot, SavesStand
    <3>4. Newest(commands, Persistable(panes))' <=> Newest(commands', Persistable(panes))
      BY <3>2 DEF Newest
    <3>5. NoSave(commands)' <=> NoSave(commands')
      BY DEF NoSave
    <3>6. draft' \subseteq {Persistable(panes)'}
      BY <2>1, <3>2 DEF NewestSnapshot
    <3>7. QED BY <2>1, <2>3, <3>2, <3>3, <3>4, <3>5, <3>6 DEF NewestSnapshot
  <2>4. QED BY <2>2, <2>3
<1>5. QED BY <1>3, <1>4

LEMMA SnapshotStands ==
    ASSUME WindowOK, NewestSnapshot, SavesStand,
           UNCHANGED <<panes, ready, configured, draft, saved, saveFailed>>
    PROVE  NewestSnapshot'
<1>1. Redraft(FALSE)
  BY DEF Redraft
<1>2. QED BY <1>1, Redrafted

LEMMA SnapshotStep == WindowInv /\ NewestSnapshot /\ [WindowNext]_windowVars => NewestSnapshot'
<1> SUFFICES ASSUME WindowOK, Queued, NewestSnapshot, [WindowNext]_windowVars PROVE NewestSnapshot'
  BY DEF WindowInv
<1>1. \A kind \in Launch : Start(kind) \in Command /\ Start(kind).do # "save"
  BY DEF Start, Command, Launch
<1>2. CASE UNCHANGED windowVars
  <2>1. UNCHANGED <<commands, panes, ready, configured, draft, saved, saveFailed>>
    BY <1>2 DEF windowVars, backendVars, diskVars, startVars
  <2>2. QED BY <2>1, OtherCommands, SnapshotStands
<1>3. CASE AskAgent \/ AskTeam \/ RestoreNext
  <2>1. UNCHANGED <<panes, ready, configured, draft, saved, saveFailed>>
    BY <1>3 DEF AskAgent, AskTeam, RestoreNext, backendVars, diskVars, startVars
  <2>2. UNCHANGED commands \/ \E kind \in Launch : commands' = Append(commands, Start(kind))
    BY <1>3 DEF AskAgent, AskTeam, RestoreNext, Invoke, Launch
  <2>3. UNCHANGED commands \/ \E c \in Command : c.do # "save" /\ commands' = Append(commands, c)
    BY <1>1, <2>2
  <2>4. SavesStand
    BY <2>3, OtherCommands
  <2>5. QED BY <2>1, <2>4, SnapshotStands
<1>4. CASE Restored \/ LoadConfig
  <2>1. UNCHANGED <<commands, saved, saveFailed>> /\ Redraft(TRUE)
    BY <1>4 DEF Restored, LoadConfig, backendVars, diskVars
  <2>2. (ready => ready') /\ (configured => configured')
    <3>1. \/ ready' = TRUE /\ configured' = configured
          \/ configured' = TRUE /\ ready' = ready
      BY <1>4 DEF Restored, LoadConfig
    <3>2. QED BY <3>1 DEF WindowOK
  <2>3. SavesStand
    BY <2>1, OtherCommands
  <2>4. QED BY <2>1, <2>2, <2>3, Redrafted
<1>5. CASE SaveState
  <2>1. PICK layout \in draft : commands' = Append(commands, Save(layout))
    BY <1>5 DEF SaveState, Invoke
  <2>2. draft' = {} /\ UNCHANGED <<panes, ready, configured>> /\ layout = Persistable(panes)
    BY <1>5, <2>1 DEF SaveState, startVars, NewestSnapshot
  <2>3. /\ commands \in Seq(Command) /\ Save(layout) \in Command
        /\ Save(layout).do = "save" /\ Save(layout).what = Persistable(panes)
    BY <2>1, <2>2, KindsDiffer DEF WindowOK, Save
  <2>4. Newest(commands', Persistable(panes)) /\ ~NoSave(commands')
    BY <2>1, <2>3, SaveAppended
  <2>5. Persistable(panes)' = Persistable(panes)
    BY <2>2 DEF Persistable
  <2>6. Newest(commands, Persistable(panes))' /\ ~NoSave(commands)'
    BY <2>4, <2>5 DEF Newest, NoSave
  <2>7. QED BY <2>2, <2>6 DEF NewestSnapshot
<1>6. CASE LaunchReturns
  <2>1. /\ UNCHANGED <<panes, ready, configured, draft, saved, saveFailed>>
        /\ commands # <<>> /\ Head(commands).do # "save" /\ commands' = Tail(commands)
    BY <1>6 DEF LaunchReturns, backendVars, diskVars, startVars, Launch
  <2>2. QED BY <2>1, OtherCommands, SnapshotStands
<1>7. CASE SaveProjectState
  <2>1. /\ UNCHANGED <<panes, ready, configured, draft>>
        /\ saveFailed' \/ saved' = Head(commands).what
        /\ commands # <<>> /\ Head(commands).do = "save" /\ commands' = Tail(commands)
    BY <1>7 DEF SaveProjectState, Idle, startVars
  <2>2. Persistable(panes)' = Persistable(panes) /\ commands \in Seq(Command)
    BY <2>1 DEF Persistable, WindowOK
  <2>3. ready /\ configured /\ draft = {} =>
            /\ Newest(commands', Persistable(panes))
            /\ NoSave(commands') => saveFailed' \/ saved' = Persistable(panes)
    BY <2>1, <2>2, SavePopped DEF NewestSnapshot
  <2>4. /\ Newest(commands, Persistable(panes))' <=> Newest(commands', Persistable(panes))
        /\ NoSave(commands)' <=> NoSave(commands')
    BY <2>2 DEF Newest, NoSave
  <2>5. (~(ready /\ configured) => draft = {}) /\ draft \subseteq {Persistable(panes)}
    BY DEF NewestSnapshot
  <2>6. QED BY <2>1, <2>2, <2>3, <2>4, <2>5 DEF NewestSnapshot
<1>8. ASSUME NEW reply \in replies, Launched(reply) PROVE NewestSnapshot'
  <2>1. UNCHANGED <<commands, saved, saveFailed, ready, configured>> /\ Redraft(FALSE)
    BY <1>8 DEF Launched, backendVars, diskVars
  <2>2. QED BY <2>1, OtherCommands, Redrafted
<1>9. ASSUME NEW p \in Tile, SessionState(p) PROVE NewestSnapshot'
  <2>1. /\ UNCHANGED <<commands, saved, saveFailed, ready, configured>>
        /\ Redraft(TRUE) \/ Redraft(FALSE)
    BY <1>9 DEF SessionState, Redraft, backendVars, diskVars, startVars
  <2>2. QED BY <2>1, OtherCommands, Redrafted
<1>10. ASSUME NEW p \in Tile, ClosePane(p, closers) \/ ClosePane(p, closers \ {p}) PROVE NewestSnapshot'
  <2>1. /\ UNCHANGED <<saved, saveFailed, ready, configured>> /\ Redraft(TRUE)
        /\ commands' = Append(commands, Kill(p))
    BY <1>10 DEF ClosePane, Invoke, backendVars, diskVars, startVars
  <2>2. Kill(p) \in Command /\ Kill(p).do # "save"
    BY DEF Kill, Command
  <2>3. SavesStand
    BY <2>1, <2>2, OtherCommands
  <2>4. QED BY <2>1, <2>3, Redrafted
<1>11. ASSUME NEW p \in Tile,
              \/ PtyExit(p) \/ CreateTermHandle(p) \/ AutoCloseSpares(p) \/ TombExpires(p)
              \/ Advance(p) \/ RestartSession(p) \/ Opened(p) \/ KilledByOthers(p)
              \/ Emit(p) \/ EmitLate(p)
       PROVE  NewestSnapshot'
  <2>1. UNCHANGED <<commands, panes, ready, configured, draft, saved, saveFailed>>
    BY <1>11 DEF PtyExit, CreateTermHandle, AutoCloseSpares, TombExpires, Advance, RestartSession,
                 Opened, KilledByOthers, Emit, EmitLate, Idle, backendVars, diskVars, startVars
  <2>2. QED BY <2>1, OtherCommands, SnapshotStands
<1>12. ASSUME NEW p \in Tile, LaunchOne(p) PROVE NewestSnapshot'
  <2>1. /\ UNCHANGED <<panes, ready, configured, draft, saved, saveFailed>>
        /\ commands # <<>> /\ Head(commands).do \in Launch
        /\ commands' = [commands EXCEPT ![1].what = @ \cup {p}]
    BY <1>12 DEF LaunchOne, Idle, diskVars, startVars
  <2>2. SavesStand
    BY <2>1, OtherCommands
  <2>3. QED BY <2>1, <2>2, SnapshotStands
<1>13. ASSUME NEW p \in Tile, KillPty(p) PROVE NewestSnapshot'
  <2>1. /\ UNCHANGED <<panes, ready, configured, draft, saved, saveFailed>>
        /\ commands # <<>> /\ Head(commands) = Kill(p) /\ commands' = Tail(commands)
    BY <1>13 DEF KillPty, Doing, Idle, diskVars, startVars
  <2>2. Kill(p).do # "save"
    BY DEF Kill
  <2>3. SavesStand
    BY <2>1, <2>2, OtherCommands
  <2>4. QED BY <2>1, <2>3, SnapshotStands
<1>14. \A p \in Tile : AutoClose(p) => ClosePane(p, closers \ {p}) \/ AutoCloseSpares(p)
  BY DEF AutoClose, AutoCloseSpares
<1>15. CASE \E p \in Tile :
               \/ SessionState(p) \/ PtyExit(p) \/ CreateTermHandle(p)
               \/ ClosePane(p, closers) \/ AutoClose(p) \/ TombExpires(p) \/ Backend(p)
  BY <1>9, <1>10, <1>11, <1>12, <1>13, <1>14, <1>15 DEF Backend
<1>16. QED BY <1>2, <1>3, <1>4, <1>5, <1>6, <1>7, <1>8, <1>15 DEF WindowNext

\* For any panes, with a configuration and after a save that did not fail: once no snapshot
\* waits and no save is under way, what is on disk is the layout that is open, however often
\* it changed while the timer ran.
THEOREM TheLayoutIsKept == WindowSpec => []SavedIsCurrent
<1>1. WindowInit => NewestSnapshot
  BY DEF WindowInit, NewestSnapshot
<1>2. NewestSnapshot => SavedIsCurrent
  BY DEF NewestSnapshot, SavedIsCurrent, NoSave
<1>3. QED BY <1>1, <1>2, WindowStart, WindowStep, SnapshotStep, PTL DEF WindowSpec
===============================================================================
