---------------------------- MODULE WorkflowProof ----------------------------
(***************************************************************************)
(* Proofs about Workflow, and about Recovery on top of it, for every       *)
(* workflow, grid and environment.                                         *)
(***************************************************************************)
EXTENDS Recovery, FiniteSetTheorems, SequenceTheorems, WellFoundedInduction,
        TLAPS

-----------------------------------------------------------------------------
(* The declaration.                                                        *)

LEMMA StepFacts ==
    /\ Step \subseteq Nat
    /\ \A s \in Step : Fan[s] \in Nat \ {0} /\ RetryMax[s] \in Nat
<1>1. Step \subseteq Nat
  BY WorkflowAssumption DEF WorkflowAssumption, ValidWorkflow, Step
<1>2. Fan \in [Step -> Nat \ {0}] /\ RetryMax \in [Step -> Nat]
  BY WorkflowAssumption DEF WorkflowAssumption, ValidWorkflow
<1>. QED  BY <1>1, <1>2

LEMMA CopyFacts ==
    /\ \A c \in Copy : c[1] \in Step /\ c[2] \in 1 .. Fan[c[1]] /\ c = <<c[1], c[2]>>
    /\ \A s \in Step : Copies(s) \subseteq Copy /\ Placeholder(s) \in Copies(s)
    /\ \A c \in Copy : c \in Copies(c[1])
BY StepFacts DEF Copy, Copies, Placeholder

\* A nonempty set of numbers has a smallest one.
LEMMA SmallestNumber ==
    ASSUME NEW T, T \subseteq Nat, T # {}
    PROVE  \E x \in T : \A y \in T : x <= y
<1>1. PICK x \in T : \A y \in T : ~(<<y, x>> \in OpToRel(<, Nat))
  BY NatLessThanWellFounded, WFMin
<1>2. \A y \in T : ~(y < x)
  BY <1>1 DEF OpToRel
<1>. QED  BY <1>2

\* The order in which the driver takes rows is the order of the declaration.
LEMMA FirstMember ==
    ASSUME NEW copies, copies \subseteq Copy, copies # {}
    PROVE  First(copies) \in copies
<1>. DEFINE Steps == {c[1] : c \in copies}
<1>1. Steps \subseteq Nat /\ Steps # {}
  BY CopyFacts, StepFacts
<1>2. PICK s \in Steps : \A t \in Steps : s <= t
  BY <1>1, SmallestNumber
<1>. DEFINE Numbers == {c[2] : c \in {d \in copies : d[1] = s}}
<1>3. Numbers \subseteq Nat /\ Numbers # {}
  <2>1. \A c \in copies : c[2] \in Nat
    BY CopyFacts, StepFacts
  <2>. QED  BY <2>1, <1>2
<1>4. PICK k \in Numbers : \A j \in Numbers : k <= j
  BY <1>3, SmallestNumber
<1>5. PICK c \in copies : c[1] = s /\ c[2] = k
  BY <1>4
<1>6. \A d \in copies : c[1] < d[1] \/ (c[1] = d[1] /\ c[2] <= d[2])
  <2>. TAKE d \in copies
  <2>1. s <= d[1] /\ s \in Nat /\ d[1] \in Nat
    BY <1>1, <1>2
  <2>2. CASE d[1] = s
    BY <2>2, <1>4, <1>5
  <2>3. CASE d[1] # s
    BY <2>1, <2>3, <1>5
  <2>. QED  BY <2>2, <2>3
<1>. HIDE DEF Steps, Numbers
<1>. QED  BY <1>5, <1>6 DEF First

-----------------------------------------------------------------------------
(* Rows.                                                                   *)

\* What is true of one run's rows wherever a copy of them is: the inductive form
\* of RowWithinBudget.  Only a placeholder waits, so that whatever overwrites the
\* placeholder of a waiting step overwrites no armed retry.
Sound(rows) ==
    /\ rows \in Rows
    /\ \A c \in Copy : /\ RowWithinBudget(c[1], rows[c])
                       /\ rows[c].state = "pending" => c = Placeholder(c[1])

LEMMA NoRowsSound == Sound(NoRows)
<1>1. NoRow \in Row
  BY DEF NoRow, Row, StepState, Body
<1>2. \A c \in Copy : RowWithinBudget(c[1], NoRow)
  BY CopyFacts, StepFacts DEF NoRow, RowWithinBudget
<1>. QED  BY <1>1, <1>2 DEF Sound, Rows, NoRows, NoRow

LEMMA AttemptRowSound ==
    ASSUME NEW s \in Step, NEW p \in Nat, NEW thread \in BOOLEAN,
           NEW n \in Nat, n <= RetryMax[s] + 1
    PROVE  /\ AttemptRow(s, p, thread, n) \in Row
           /\ RowWithinBudget(s, AttemptRow(s, p, thread, n))
           /\ AttemptRow(s, p, thread, n).state # "pending"
BY DEF AttemptRow, NoRow, Row, StepState, Body, RowWithinBudget

LEMMA ArmRetryBackoffSound ==
    ASSUME NEW rows, Sound(rows)
    PROVE  Sound(ArmRetryBackoff(rows))
<1>1. ASSUME NEW c \in Copy
      PROVE  LET row == ArmRetryBackoff(rows)[c]
             IN  /\ row \in Row
                 /\ RowWithinBudget(c[1], row)
                 /\ row.state = rows[c].state
  <2>1. rows[c] \in Row /\ RowWithinBudget(c[1], rows[c])
    BY DEF Sound, Rows
  <2>2. CASE ArmRetryBackoff(rows)[c] = rows[c]
    BY <2>1, <2>2
  <2>3. CASE ArmRetryBackoff(rows)[c] # rows[c]
    <3>1. /\ ArmRetryBackoff(rows)[c] = [rows[c] EXCEPT !.armed = TRUE]
          /\ rows[c].state = "failed" /\ rows[c].attempts > 0
          /\ RetryAllowed(c[1], rows[c].attempts)
      BY <2>3 DEF ArmRetryBackoff
    <3>. QED  BY ONLY <2>1, <3>1 DEF Row, RowWithinBudget, RetryAllowed
  <2>. QED  BY <2>2, <2>3
<1>. QED  BY <1>1 DEF Sound, Rows, ArmRetryBackoff

LEMMA SetStepStateSound ==
    ASSUME NEW rows, Sound(rows), NEW steps, NEW state \in {"skipped", "failed"},
           \A s \in steps \cap Step : ~rows[Placeholder(s)].armed
    PROVE  /\ Sound(SetStepState(rows, steps, state))
           /\ \A c \in Copy : SetStepState(rows, steps, state)[c].armed = rows[c].armed
           /\ \A c \in Copy : SetStepState(rows, steps, state)[c].state = "pending"
                                => rows[c].state = "pending"
<1>1. ASSUME NEW c \in Copy
      PROVE  LET row == SetStepState(rows, steps, state)[c]
             IN  /\ row \in Row
                 /\ RowWithinBudget(c[1], row)
                 /\ row.state = "pending" => rows[c].state = "pending"
                 /\ row.armed = rows[c].armed
  <2>1. rows[c] \in Row /\ RowWithinBudget(c[1], rows[c])
    BY DEF Sound, Rows
  <2>2. CASE c[1] \in steps /\ c = Placeholder(c[1])
    <3>1. ~rows[c].armed
      BY <2>2, CopyFacts
    <3>. QED  BY <2>1, <2>2, <3>1 DEF SetStepState, Row, RowWithinBudget, StepState
  <2>3. CASE ~(c[1] \in steps /\ c = Placeholder(c[1]))
    BY <2>1, <2>3 DEF SetStepState
  <2>. QED  BY <2>2, <2>3
<1>. QED  BY <1>1 DEF Sound, Rows, SetStepState

\* Where a step waits there is no retry to overwrite.
LEMMA WaitingIsNotArmed ==
    ASSUME NEW rows, Sound(rows), NEW s \in Step, IsPending(rows, s)
    PROVE  rows[Placeholder(s)].state = "pending" /\ ~rows[Placeholder(s)].armed
<1>1. PICK c \in Copies(s) : rows[c].state = "pending"
  BY DEF IsPending, InState
<1>2. c \in Copy /\ c[1] = s
  BY CopyFacts DEF Copies
<1>3. c = Placeholder(s)
  BY <1>1, <1>2 DEF Sound
<1>. QED  BY <1>1, <1>2, <1>3 DEF Sound, RowWithinBudget

LEMMA DecideSound ==
    ASSUME NEW rows, Sound(rows)
    PROVE  Sound(Decide(rows))
<1>. DEFINE a == ArmRetryBackoff(rows)
            b == SetStepState(a, ConditionTargets(a, "other"), "skipped")
            c == SetStepState(b, ConditionTargets(a, "none"), "failed")
            d == SetStepState(c, FailfastTargets(c), "skipped")
<1>1. Sound(a)
  BY ArmRetryBackoffSound
<1>2. \A body : \A s \in ConditionTargets(a, body) \cap Step :
          ~a[Placeholder(s)].armed
  BY <1>1, WaitingIsNotArmed DEF ConditionTargets
<1>3. Sound(b) /\ \A e \in Copy : b[e].armed = a[e].armed
  <2>. HIDE DEF a
  <2>. QED  BY <1>1, <1>2, SetStepStateSound
<1>4. \A s \in ConditionTargets(a, "none") \cap Step : ~b[Placeholder(s)].armed
  BY <1>2, <1>3, CopyFacts
<1>5. Sound(c)
  <2>. HIDE DEF a, b
  <2>. QED  BY <1>3, <1>4, SetStepStateSound
<1>6. \A s \in FailfastTargets(c) \cap Step : ~c[Placeholder(s)].armed
  BY <1>5, WaitingIsNotArmed DEF FailfastTargets
<1>7. Sound(d)
  <2>. HIDE DEF c
  <2>. QED  BY <1>5, <1>6, SetStepStateSound
<1>. QED  BY <1>7 DEF Decide, Failfast, ApplyConditions

LEMMA MarkEscalatedSound ==
    ASSUME NEW rows, Sound(rows), NEW copies
    PROVE  Sound(MarkEscalated(rows, copies))
<1>1. ASSUME NEW c \in Copy
      PROVE  LET row == MarkEscalated(rows, copies)[c]
             IN  /\ row \in Row
                 /\ RowWithinBudget(c[1], row)
                 /\ row.state = rows[c].state
  <2>. DEFINE row == MarkEscalated(rows, copies)[c]
  <2>1. rows[c] \in Row /\ RowWithinBudget(c[1], rows[c])
    BY DEF Sound, Rows
  <2>2. row = rows[c] \/ row = [rows[c] EXCEPT !.escalated = TRUE]
    BY DEF MarkEscalated
  <2>. HIDE DEF row
  <2>3. row \in Row /\ row.state = rows[c].state /\ row.attempts = rows[c].attempts
        /\ row.armed = rows[c].armed
    BY ONLY <2>1, <2>2 DEF Row
  <2>4. RowWithinBudget(c[1], row)
    BY ONLY <2>1, <2>3 DEF RowWithinBudget
  <2>. QED  BY <2>3, <2>4 DEF row
<1>. QED  BY <1>1 DEF Sound, Rows, MarkEscalated
-----------------------------------------------------------------------------
(* Panes.                                                                  *)

PaneRow == [st : {"live", "dying", "ok", "bad", "gone"},
            agent : AgentName, foreign : BOOLEAN]

LEMMA PaneFacts ==
    ASSUME pane \in Seq(PaneRow)
    PROVE  /\ Len(pane) \in Nat
           /\ Panes = 1 .. Len(pane)
           /\ Panes \subseteq Nat \ {0}
           /\ \A p \in Panes : pane[p] \in PaneRow
BY DEF Panes

LEMMA SeqFromFunction ==
    ASSUME NEW n \in Nat, NEW f \in [1 .. n -> PaneRow]
    PROVE  f \in Seq(PaneRow) /\ Len(f) = n
BY SeqDef, LenProperties

LEMMA KillType ==
    ASSUME pane \in Seq(PaneRow), NEW panes
    PROVE  Kill(panes) \in Seq(PaneRow)
<1>1. \A p \in Panes : Kill(panes)[p] \in PaneRow
  BY PaneFacts DEF Kill, PaneRow, Live
<1>2. Kill(panes) \in [1 .. Len(pane) -> PaneRow]
  BY <1>1, PaneFacts DEF Kill
<1>. QED  BY <1>2, PaneFacts, SeqFromFunction

LEMMA SetPaneType ==
    ASSUME pane \in Seq(PaneRow), NEW p,
           NEW st \in {"live", "dying", "ok", "bad", "gone"}
    PROVE  SetPane(p, st) \in Seq(PaneRow) /\ Len(SetPane(p, st)) = Len(pane)
<1>1. \A q \in Panes : SetPane(p, st)[q] \in PaneRow
  BY PaneFacts DEF SetPane, PaneRow, Panes
<1>2. SetPane(p, st) \in [1 .. Len(pane) -> PaneRow]
  BY <1>1, PaneFacts DEF SetPane, Panes
<1>. QED  BY <1>2, PaneFacts, SeqFromFunction

LEMMA NewPaneType ==
    ASSUME NEW s \in Step
    PROVE  NewPane(Agent[s], FALSE) \in PaneRow
BY DEF NewPane, PaneRow, AgentName

LEMMA BudgetType ==
    ASSUME pane \in Seq(PaneRow)
    PROVE  PaneBudget \in Nat
<1>. DEFINE held == {p \in Panes : pane[p].st # "gone"}
<1>1. IsFiniteSet(Panes)
  BY PaneFacts, FS_Interval
<1>2. IsFiniteSet(held)
  BY <1>1, FS_Subset
<1>3. Occupied \in Nat
  BY <1>2, FS_CardinalityType DEF Occupied
<1>. QED  BY <1>3, RunAssumption DEF RunAssumption, PaneBudget

LEMMA ReusableType ==
    ASSUME pane \in Seq(PaneRow), NEW rows, NEW s \in Step, NEW taken
    PROVE  Reusable(rows, s, taken) \in Nat
<1>. DEFINE found == Adoptable(Agent[s], taken)
<1>1. CASE found = {}
  BY <1>1 DEF Reusable
<1>2. CASE found # {}
  <2>1. found \subseteq Nat
    BY PaneFacts DEF Adoptable
  <2>2. \E p \in found : \A q \in found : p <= q
    BY <1>2, <2>1, SmallestNumber
  <2>3. (CHOOSE p \in found : \A q \in found : p <= q) \in found
    BY <2>2
  <2>. HIDE DEF found
  <2>. QED  BY <2>1, <2>3 DEF Reusable, found
<1>. QED  BY <1>1, <1>2

LEMMA SlotsNeededType ==
    ASSUME NEW rows, NEW s \in Step, NEW taken
    PROVE  SlotsNeeded(rows, s, taken) \in Nat
BY StepFacts DEF SlotsNeeded

LEMMA CopiesFinite ==
    ASSUME NEW s \in Step, NEW up \in SUBSET Copies(s)
    PROVE  IsFiniteSet(up) /\ Cardinality(up) \in Nat
<1>1. Fan[s] \in Int /\ 1 \in Int
  BY StepFacts
<1>2. IsFiniteSet(1 .. Fan[s])
  BY <1>1, FS_Interval
<1>3. IsFiniteSet({s})
  BY FS_Singleton
<1>4. IsFiniteSet(Copies(s))
  BY <1>2, <1>3, FS_Product DEF Copies
<1>. QED  BY <1>4, FS_Subset, FS_CardinalityType

LEMMA PaneForType ==
    ASSUME pane \in Seq(PaneRow), NEW s \in Step, NEW up \in SUBSET Copies(s),
           NEW c, NEW reused \in Nat
    PROVE  PaneFor(c, reused, up) \in Nat
<1>1. Cardinality({d \in up : d[2] <= c[2]}) \in Nat
  BY CopiesFinite, {d \in up : d[2] <= c[2]} \in SUBSET Copies(s)
<1>. QED  BY <1>1, PaneFacts DEF PaneFor

LEMMA SpawnStepSound ==
    ASSUME pane \in Seq(PaneRow), NEW rows, Sound(rows), NEW s \in Step,
           NEW reused \in Nat, NEW up \in SUBSET Copies(s), NEW sent
    PROVE  /\ Sound(SpawnStep(rows, s, reused, up, sent))
           /\ \A c \in Copy : c \notin Copies(s) =>
                 SpawnStep(rows, s, reused, up, sent)[c] = rows[c]
<1>1. ASSUME NEW c \in Copy
      PROVE  LET row == SpawnStep(rows, s, reused, up, sent)[c]
             IN  /\ row \in Row
                 /\ RowWithinBudget(c[1], row)
                 /\ row.state = "pending" => rows[c].state = "pending"
  <2>1. CASE c[1] = s
    <3>. DEFINE thread == s \in Kickoff /\ c \in sent
    <3>1. PaneFor(c, reused, up) \in Nat /\ thread \in BOOLEAN
      BY PaneForType
    <3>2. 1 \in Nat /\ 1 <= RetryMax[s] + 1
      BY StepFacts
    <3>3. SpawnStep(rows, s, reused, up, sent)[c]
            = AttemptRow(s, PaneFor(c, reused, up), thread, 1)
      BY <2>1 DEF SpawnStep
    <3>. HIDE DEF thread
    <3>. QED  BY <2>1, <3>1, <3>2, <3>3, AttemptRowSound
  <2>2. CASE c[1] # s
    BY <2>2 DEF SpawnStep, Sound, Rows
  <2>. QED  BY <2>1, <2>2
<1>2. \A c \in Copy : c \notin Copies(s) => c[1] # s
  BY CopyFacts
<1>. QED  BY <1>1, <1>2 DEF Sound, Rows, SpawnStep

LEMMA OpenedPanesType ==
    ASSUME pane \in Seq(PaneRow), NEW s \in Step, NEW reused,
           NEW up \in SUBSET Copies(s)
    PROVE  OpenedPanes(s, reused, up) \in Seq(PaneRow)
<1>. DEFINE opened == [i \in 1 .. Cardinality(up) |-> NewPane(Agent[s], FALSE)]
<1>1. opened \in Seq(PaneRow)
  BY CopiesFinite, NewPaneType, SeqFromFunction
<1>2. pane \o opened \in Seq(PaneRow)
  BY <1>1, ConcatProperties
<1>. QED  BY <1>2 DEF OpenedPanes

-----------------------------------------------------------------------------
(* The invariant.                                                          *)

SoundEverywhere ==
    /\ \A r \in Run : Sound(reg[r].rows)
    /\ Sound(loc) /\ Sound(launch.rows) /\ Sound(snap.rows)

\* The retries of a tick are chosen once and taken one by one: each is still
\* armed when its turn comes.
StillArmed == pc = "retry" => \A c \in todo : loc[c].armed

IInv == TypeOK /\ SoundEverywhere /\ StillArmed

LEMMA InitIInv == Init => IInv
<1>. SUFFICES ASSUME Init PROVE IInv
  OBVIOUS
<1>1. NoRows \in Rows /\ Sound(NoRows)
  BY NoRowsSound DEF Sound
<1>2. TypeOK
  BY <1>1, EmptySeq DEF Init, TypeOK, NoRun, Pass, RunState
<1>3. SoundEverywhere /\ StillArmed
  BY <1>1 DEF Init, SoundEverywhere, StillArmed
<1>. QED  BY <1>2, <1>3 DEF IInv

LEMMA StutterIInv == IInv /\ UNCHANGED vars => IInv'
<1>. SUFFICES ASSUME IInv, UNCHANGED vars PROVE IInv'
  OBVIOUS
<1>1. TypeOK'
  BY DEF IInv, TypeOK, vars, driver, Panes
<1>2. SoundEverywhere' /\ StillArmed'
  BY DEF IInv, SoundEverywhere, StillArmed, vars, driver
<1>. QED  BY <1>1, <1>2 DEF IInv

\* A pass of a tick changes one clone only.
LEMMA PassSound ==
    ASSUME SoundEverywhere, Sound(loc)', UNCHANGED <<reg, launch, snap>>
    PROVE  SoundEverywhere'
BY DEF SoundEverywhere

LEMMA TickIInv == ASSUME IInv, NEW r \in Run, Tick(r) PROVE IInv'
<1>1. PICK d \in SUBSET Timed(r), o \in SUBSET Queued(r) : TickBegin(r, d, o)
  BY DEF Tick
<1>2. d \subseteq Copy /\ o \subseteq Copy
  BY DEF Timed, Queued
<1>3. Sound(reg[r].rows) /\ reg[r].rows \in Rows
  BY DEF IInv, SoundEverywhere, Sound
<1>4. TypeOK'
  BY <1>1, <1>2, <1>3 DEF IInv, TypeOK, TickBegin, Pass
<1>5. SoundEverywhere'
  <2>1. Sound(loc)'
    BY <1>1, <1>3 DEF TickBegin, IInv, SoundEverywhere
  <2>. QED  BY <1>1, <2>1, PassSound DEF TickBegin, IInv
<1>6. StillArmed'
  BY <1>1 DEF TickBegin, StillArmed
<1>. QED  BY <1>4, <1>5, <1>6 DEF IInv

-----------------------------------------------------------------------------
(* The passes that only detect.                                            *)

LEMMA DetectReplyCompletionsIInv ==
    ASSUME IInv, DetectReplyCompletions PROVE IInv'
<1>. USE DEF DetectReplyCompletions
<1>1. Sound(loc) /\ cur \in Run /\ mail[cur] \in [Copy -> {"closed", "open", "match", "other"}]
  BY DEF IInv, SoundEverywhere, TypeOK
<1>2. ASSUME NEW c \in Copy
      PROVE  /\ loc'[c] \in Row
             /\ RowWithinBudget(c[1], loc'[c])
             /\ loc'[c].state = "pending" => loc[c].state = "pending"
  <2>1. loc[c] \in Row /\ RowWithinBudget(c[1], loc[c])
    BY <1>1 DEF Sound, Rows
  <2>2. CASE loc[c].state = "running" /\ mail[cur][c] \in {"match", "other"}
    BY <2>1, <2>2 DEF Row, StepState, Body, RowWithinBudget
  <2>3. CASE ~(loc[c].state = "running" /\ mail[cur][c] \in {"match", "other"})
    BY <2>1, <2>3
  <2>. QED  BY <2>2, <2>3
<1>3. Sound(loc)'
  BY <1>1, <1>2 DEF Sound, Rows
<1>4. TypeOK'
  <2>1. mail' \in [Run -> [Copy -> {"closed", "open", "match", "other"}]]
    BY <1>1 DEF IInv, TypeOK
  <2>2. done' \subseteq Nat /\ changed' \in BOOLEAN /\ pc' \in Pass
    BY DEF IInv, TypeOK, Pass
  <2>. QED  BY <1>3, <2>1, <2>2 DEF IInv, TypeOK, Sound
<1>5. StillArmed'
  BY DEF StillArmed
<1>. QED  BY <1>3, <1>4, <1>5, PassSound DEF IInv

LEMMA DetectCompletionsIInv == ASSUME IInv, DetectCompletions PROVE IInv'
<1>. USE DEF DetectCompletions
<1>1. Sound(loc)
  BY DEF IInv, SoundEverywhere
<1>2. ASSUME NEW c \in Copy
      PROVE  /\ loc'[c] \in Row
             /\ RowWithinBudget(c[1], loc'[c])
             /\ loc'[c].state = "pending" => loc[c].state = "pending"
  <2>1. loc[c] \in Row /\ RowWithinBudget(c[1], loc[c])
    BY <1>1 DEF Sound, Rows
  <2>2. CASE loc[c].state = "running"
    <3>1. \/ loc'[c] = loc[c]
          \/ loc'[c] = [loc[c] EXCEPT !.state = "succeeded"]
          \/ loc'[c] = [loc[c] EXCEPT !.state = "failed"]
      OBVIOUS
    <3>. QED  BY <2>1, <2>2, <3>1 DEF Row, StepState, RowWithinBudget
  <2>3. CASE loc[c].state # "running"
    <3>1. loc'[c] = loc[c]
      BY <2>3
    <3>. QED  BY <2>1, <3>1
  <2>. QED  BY <2>2, <2>3
<1>3. Sound(loc)'
  BY <1>1, <1>2 DEF Sound, Rows
<1>4. TypeOK'
  <2>1. done' \subseteq Nat /\ changed' \in BOOLEAN /\ pc' \in Pass
    BY DEF IInv, TypeOK, Pass
  <2>. QED  BY <1>3, <2>1 DEF IInv, TypeOK, Sound, Panes
<1>5. StillArmed'
  BY DEF StillArmed
<1>. QED  BY <1>3, <1>4, <1>5, PassSound DEF IInv

LEMMA CheckTimeoutsIInv == ASSUME IInv, CheckTimeouts PROVE IInv'
<1>. USE DEF CheckTimeouts
<1>1. Sound(loc)
  BY DEF IInv, SoundEverywhere
<1>2. ASSUME NEW c \in Copy
      PROVE  /\ loc'[c] \in Row
             /\ RowWithinBudget(c[1], loc'[c])
             /\ loc'[c].state = "pending" => loc[c].state = "pending"
  <2>1. loc[c] \in Row /\ RowWithinBudget(c[1], loc[c])
    BY <1>1 DEF Sound, Rows
  <2>2. \/ loc'[c] = loc[c]
        \/ /\ loc[c].state = "running"
           /\ loc'[c] = [loc[c] EXCEPT !.state = "failed", !.session = 0]
    OBVIOUS
  <2>. QED  BY <2>1, <2>2 DEF Row, StepState, RowWithinBudget
<1>3. Sound(loc)'
  BY <1>1, <1>2 DEF Sound, Rows
<1>4. TypeOK'
  <2>1. pane' \in Seq(PaneRow)
    BY KillType DEF IInv, TypeOK, PaneRow
  <2>2. done' \subseteq Nat /\ changed' \in BOOLEAN /\ pc' \in Pass
    BY DEF IInv, TypeOK, Pass
  <2>. QED  BY <1>3, <2>1, <2>2 DEF IInv, TypeOK, Sound, PaneRow
<1>5. StillArmed'
  BY DEF StillArmed
<1>. QED  BY <1>3, <1>4, <1>5, PassSound DEF IInv

LEMMA CancelStragglersIInv == ASSUME IInv, CancelStragglers PROVE IInv'
<1>. USE DEF CancelStragglers
<1>1. Sound(loc)
  BY DEF IInv, SoundEverywhere
<1>2. ASSUME NEW c \in Copy
      PROVE  /\ loc'[c] \in Row
             /\ RowWithinBudget(c[1], loc'[c])
             /\ loc'[c].state = "pending" => loc[c].state = "pending"
  <2>1. loc[c] \in Row /\ RowWithinBudget(c[1], loc[c])
    BY <1>1 DEF Sound, Rows
  <2>2. \/ loc'[c] = loc[c]
        \/ \E p \in {0, loc[c].session} :
              loc'[c] = [loc[c] EXCEPT !.state = "cancelled", !.armed = FALSE,
                                       !.waiting = FALSE, !.session = p]
    OBVIOUS
  <2>. QED  BY <2>1, <2>2 DEF Row, StepState, RowWithinBudget
<1>3. Sound(loc)'
  BY <1>1, <1>2 DEF Sound, Rows
<1>4. TypeOK'
  <2>1. pane' \in Seq(PaneRow)
    BY KillType DEF IInv, TypeOK, PaneRow
  <2>2. done' \subseteq Nat /\ changed' \in BOOLEAN /\ pc' \in Pass
    BY DEF IInv, TypeOK, Pass
  <2>. QED  BY <1>3, <2>1, <2>2 DEF IInv, TypeOK, Sound, PaneRow
<1>5. StillArmed'
  BY DEF StillArmed
<1>. QED  BY <1>3, <1>4, <1>5, PassSound DEF IInv

-----------------------------------------------------------------------------
(* Retries.                                                                *)

LEMMA FireDueRetriesIInv == ASSUME IInv, FireDueRetries PROVE IInv'
<1>. USE DEF FireDueRetries
<1>1. Sound(loc)'
  BY DEF IInv, SoundEverywhere
<1>2. budget' \in Nat
  BY BudgetType DEF IInv, TypeOK, PaneRow
<1>3. TypeOK'
  BY <1>2 DEF IInv, TypeOK, Pass, Panes
<1>4. StillArmed'
  BY DEF StillArmed
<1>. QED  BY <1>1, <1>3, <1>4, PassSound DEF IInv

MailBox == [Run -> [Copy -> {"closed", "open", "match", "other"}]]

LEMMA DeliveredType ==
    ASSUME mail \in MailBox, NEW r, NEW copies, NEW rows
    PROVE  Delivered(r, copies, rows) \in MailBox
BY DEF Delivered, MailBox

\* The retry whose turn it is has an attempt left.
LEMMA RetryTurn ==
    ASSUME IInv, pc = "retry", todo # {}
    PROVE  LET c == First(todo)
           IN  /\ c \in todo /\ c \in Copy /\ c[1] \in Step
               /\ loc[c] \in Row
               /\ loc[c].armed /\ loc[c].state = "failed"
               /\ loc[c].attempts + 1 \in Nat
               /\ loc[c].attempts + 1 <= RetryMax[c[1]] + 1
<1>. DEFINE c == First(todo)
<1>1. c \in todo /\ c \in Copy /\ c[1] \in Step
  BY FirstMember, CopyFacts DEF IInv, TypeOK
<1>2. loc[c] \in Row /\ RowWithinBudget(c[1], loc[c]) /\ loc[c].armed
  BY <1>1 DEF IInv, SoundEverywhere, Sound, Rows, StillArmed
<1>. HIDE DEF c
<1>3. loc[c].attempts + 1 \in Nat /\ loc[c].attempts + 1 <= RetryMax[c[1]] + 1
  BY <1>1, <1>2, StepFacts DEF Row, RowWithinBudget
<1>. QED  BY <1>1, <1>2, <1>3 DEF RowWithinBudget, c

\* One row gets a sound new value that is not pending, the others keep theirs.
LEMMA RowUpdateSound ==
    ASSUME NEW rows, Sound(rows), NEW c \in Copy, NEW row \in Row,
           RowWithinBudget(c[1], row),
           row.state = "pending" => c = Placeholder(c[1])
    PROVE  Sound([rows EXCEPT ![c] = row])
BY DEF Sound, Rows

\* The retries still to come are untouched by the one taken.
LEMMA RetryTaken ==
    ASSUME IInv, pc = "retry", NEW c \in todo, todo' = todo \ {c}, pc' = pc,
           NEW row, loc' = [loc EXCEPT ![c] = row]
    PROVE  StillArmed'
<1>1. \A d \in todo' : d \in Copy /\ d # c
  BY DEF IInv, TypeOK
<1>. QED  BY <1>1 DEF IInv, TypeOK, StillArmed, Rows

LEMMA RestartInPlaceIInv == ASSUME IInv, RestartInPlace PROVE IInv'
<1>. DEFINE c == First(todo)
            p == loc[c].session
<1>1. /\ c \in todo /\ c \in Copy /\ c[1] \in Step /\ loc[c] \in Row
      /\ loc[c].attempts + 1 \in Nat
      /\ loc[c].attempts + 1 <= RetryMax[c[1]] + 1
  BY RetryTurn DEF RestartInPlace
<1>2. PICK sent : loc' = [loc EXCEPT ![c] =
                     [AttemptRow(c[1], p, c[1] \in Kickoff /\ c \in sent,
                                 loc[c].attempts + 1)
                      EXCEPT !.escalated = loc[c].escalated]]
  BY DEF RestartInPlace
<1>3. /\ pane' = SetPane(p, "live") /\ mail' = Delivered(cur, {c}, loc')
      /\ done' = done \ {p} /\ todo' = todo \ {c} /\ changed' = TRUE
      /\ UNCHANGED <<reg, notified, pc, cur, due, over, budget, claimed, launch, snap>>
      /\ pc = "retry"
  BY DEF RestartInPlace
<1>. HIDE DEF c
<1>. DEFINE thread == c[1] \in Kickoff /\ c \in sent
            row == AttemptRow(c[1], p, thread, loc[c].attempts + 1)
            kept == [row EXCEPT !.escalated = loc[c].escalated]
<1>4. row \in Row /\ RowWithinBudget(c[1], row) /\ row.state # "pending"
  <2>1. p \in Nat /\ thread \in BOOLEAN
    BY <1>1 DEF Row
  <2>. HIDE DEF thread, p
  <2>. QED  BY <1>1, <2>1, AttemptRowSound
<1>5. kept \in Row /\ RowWithinBudget(c[1], kept) /\ kept.state # "pending"
  <2>. HIDE DEF row
  <2>. QED  BY <1>1, <1>4 DEF Row, RowWithinBudget
<1>6. loc' = [loc EXCEPT ![c] = kept]
  BY <1>2
<1>. HIDE DEF kept
<1>7. Sound(loc)'
  <2>1. Sound([loc EXCEPT ![c] = kept])
    BY <1>1, <1>5, RowUpdateSound DEF IInv, SoundEverywhere
  <2>. QED  BY <1>6, <2>1 DEF Sound, Rows
<1>8. TypeOK'
  <2>1. pane' \in Seq(PaneRow)
    BY <1>3, SetPaneType DEF IInv, TypeOK, PaneRow
  <2>2. mail' \in MailBox
    BY <1>3, DeliveredType DEF IInv, TypeOK, MailBox
  <2>3. done' \subseteq Nat
    BY <1>3 DEF IInv, TypeOK
  <2>. QED  BY <1>3, <1>7, <2>1, <2>2, <2>3 DEF IInv, TypeOK, Sound, PaneRow, MailBox
<1>9. StillArmed'
  BY <1>1, <1>3, <1>6, RetryTaken
<1>. QED  BY <1>3, <1>7, <1>8, <1>9, PassSound DEF IInv

LEMMA AfterNoRestartType ==
    ASSUME pane \in Seq(PaneRow), NEW c, NEW panes \in AfterNoRestart(c)
    PROVE  panes \in Seq(PaneRow)
<1>1. SetPane(loc[c].session, "bad") \in Seq(PaneRow)
  BY SetPaneType
<1>2. panes \in {pane, SetPane(loc[c].session, "bad")}
  BY DEF AfterNoRestart
<1>. QED  BY <1>1, <1>2

LEMMA RespawnFreshIInv == ASSUME IInv, RespawnFresh PROVE IInv'
<1>. DEFINE c == First(todo)
<1>1. /\ c \in todo /\ c \in Copy /\ c[1] \in Step /\ loc[c] \in Row
      /\ loc[c].attempts + 1 \in Nat
      /\ loc[c].attempts + 1 <= RetryMax[c[1]] + 1
  BY RetryTurn DEF RespawnFresh
<1>2. PICK panes \in AfterNoRestart(c),
           up \in Successes({c}, c[1] \in SpawnFails),
           sent \in Successes({c}, c[1] \in KickoffFails) :
        /\ loc' = [loc EXCEPT ![c] =
              AttemptRow(c[1], PaneFor(c, 0, up), c[1] \in Kickoff /\ c \in sent,
                         loc[c].attempts + 1)]
        /\ pane' = IF up = {} THEN panes
                   ELSE Append(panes, NewPane(Agent[c[1]], FALSE))
  BY DEF RespawnFresh
<1>3. /\ mail' = Delivered(cur, {c}, loc') /\ done' = done \ {loc[c].session}
      /\ todo' = todo \ {c} /\ budget' = budget - 1 /\ budget > 0 /\ changed' = TRUE
      /\ UNCHANGED <<reg, notified, pc, cur, due, over, claimed, launch, snap>>
      /\ pc = "retry"
  BY DEF RespawnFresh
<1>. HIDE DEF c
<1>. DEFINE thread == c[1] \in Kickoff /\ c \in sent
            row == AttemptRow(c[1], PaneFor(c, 0, up), thread, loc[c].attempts + 1)
<1>4. row \in Row /\ RowWithinBudget(c[1], row) /\ row.state # "pending"
  <2>1. up \in SUBSET Copies(c[1])
    BY <1>1, CopyFacts DEF Successes
  <2>2. PaneFor(c, 0, up) \in Nat /\ thread \in BOOLEAN
    BY <1>1, <2>1, PaneForType DEF IInv, TypeOK, PaneRow
  <2>. HIDE DEF thread
  <2>. QED  BY <1>1, <2>2, AttemptRowSound
<1>5. loc' = [loc EXCEPT ![c] = row]
  BY <1>2
<1>. HIDE DEF row
<1>6. Sound(loc)'
  <2>1. Sound([loc EXCEPT ![c] = row])
    BY <1>1, <1>4, RowUpdateSound DEF IInv, SoundEverywhere
  <2>. QED  BY <1>5, <2>1 DEF Sound, Rows
<1>7. TypeOK'
  <2>1. panes \in Seq(PaneRow)
    BY AfterNoRestartType DEF IInv, TypeOK, PaneRow
  <2>2. pane' \in Seq(PaneRow)
    BY <1>1, <1>2, <2>1, NewPaneType, AppendProperties
  <2>3. mail' \in MailBox
    BY <1>3, DeliveredType DEF IInv, TypeOK, MailBox
  <2>4. done' \subseteq Nat
    BY <1>3 DEF IInv, TypeOK
  <2>5. budget' \in Nat
    <3>1. budget \in Nat
      BY DEF IInv, TypeOK
    <3>. QED  BY ONLY <1>3, <3>1
  <2>6. loc' \in Rows
    BY <1>6 DEF Sound
  <2>. QED  BY ONLY IInv, <1>3, <2>2, <2>3, <2>4, <2>5, <2>6
            DEF IInv, TypeOK, PaneRow, MailBox
<1>8. StillArmed'
  BY <1>1, <1>3, <1>5, RetryTaken
<1>. QED  BY <1>3, <1>6, <1>7, <1>8, PassSound DEF IInv

LEMMA PostponeRetryIInv == ASSUME IInv, PostponeRetry PROVE IInv'
<1>. DEFINE c == First(todo)
            row == IF c \in over
                   THEN [loc[c] EXCEPT !.armed = FALSE, !.waiting = FALSE,
                                       !.attempts = @ + 1]
                   ELSE [loc[c] EXCEPT !.waiting = TRUE]
<1>1. /\ c \in todo /\ c \in Copy /\ c[1] \in Step /\ loc[c] \in Row
      /\ loc[c].armed /\ loc[c].state = "failed"
      /\ loc[c].attempts + 1 \in Nat
      /\ loc[c].attempts + 1 <= RetryMax[c[1]] + 1
  BY RetryTurn DEF PostponeRetry
<1>2. /\ pane' \in AfterNoRestart(c) /\ loc' = [loc EXCEPT ![c] = row]
      /\ changed' = (changed \/ c \in over \/ ~loc[c].waiting)
      /\ done' = done \ {loc[c].session} /\ todo' = todo \ {c}
      /\ UNCHANGED <<reg, mail, notified, pc, cur, due, over, budget, claimed,
                     launch, snap>>
      /\ pc = "retry"
  BY DEF PostponeRetry
<1>3. RowWithinBudget(c[1], loc[c])
  BY <1>1 DEF IInv, SoundEverywhere, Sound
<1>. HIDE DEF c
<1>4. row \in Row /\ RowWithinBudget(c[1], row) /\ row.state # "pending"
  BY <1>1, <1>3 DEF Row, RowWithinBudget
<1>. HIDE DEF row
<1>5. Sound(loc)'
  <2>1. Sound([loc EXCEPT ![c] = row])
    BY <1>1, <1>4, RowUpdateSound DEF IInv, SoundEverywhere
  <2>. QED  BY <1>2, <2>1 DEF Sound, Rows
<1>6. TypeOK'
  <2>1. pane' \in Seq(PaneRow)
    BY <1>2, AfterNoRestartType DEF IInv, TypeOK, PaneRow
  <2>2. done' \subseteq Nat
    BY <1>2 DEF IInv, TypeOK
  <2>3. changed' \in BOOLEAN
    BY <1>1, <1>2 DEF IInv, TypeOK, Row
  <2>. QED  BY <1>2, <1>5, <2>1, <2>2, <2>3 DEF IInv, TypeOK, Sound, PaneRow
<1>7. StillArmed'
  BY <1>1, <1>2, RetryTaken
<1>. QED  BY <1>2, <1>5, <1>6, <1>7, PassSound DEF IInv

-----------------------------------------------------------------------------
(* Decisions, spawns and the end of a tick.                                *)

LEMMA ClaimedType ==
    ASSUME pane \in Seq(PaneRow), NEW r
    PROVE  PanesClaimedByOtherRuns(r) \subseteq Nat
BY PaneFacts DEF PanesClaimedByOtherRuns

LEMMA DecidePassesIInv == ASSUME IInv, DecidePasses PROVE IInv'
<1>. USE DEF DecidePasses
<1>1. Sound(loc)'
  <2>1. Sound(Decide(loc))
    BY DecideSound DEF IInv, SoundEverywhere
  <2>. QED  BY <2>1
<1>2. TypeOK'
  <2>1. loc' \in Rows /\ pc' = "spawn" /\ changed' \in BOOLEAN
    BY <1>1 DEF IInv, TypeOK, Sound
  <2>2. todo' \subseteq Copy
    BY CopyFacts DEF ReadySteps
  <2>3. budget' \in Nat /\ claimed' \subseteq Nat
    BY BudgetType, ClaimedType DEF IInv, TypeOK, PaneRow
  <2>4. UNCHANGED <<reg, pane, done, mail, notified, cur, due, over, launch, snap>>
        /\ pc = "retry"
    OBVIOUS
  <2>. QED  BY ONLY IInv, <2>1, <2>2, <2>3, <2>4 DEF IInv, TypeOK, Pass, Panes
<1>3. StillArmed'
  BY DEF StillArmed
<1>. QED  BY <1>1, <1>2, <1>3, PassSound DEF IInv

LEMMA SpawnReadyIInv == ASSUME IInv, SpawnReady PROVE IInv'
<1>. DEFINE s == First(todo)[1]
            reused == Reusable(loc, s, claimed)
            needed == SlotsNeeded(loc, s, claimed)
<1>1. s \in Step
  BY FirstMember, CopyFacts DEF IInv, TypeOK, SpawnReady
<1>2. PICK up \in Successes(Copies(s), s \in SpawnFails),
           sent \in Successes(Copies(s), s \in KickoffFails) :
        /\ loc' = SpawnStep(loc, s, reused, up, sent)
        /\ pane' = OpenedPanes(s, reused, up)
  BY DEF SpawnReady
<1>3. /\ needed <= budget /\ budget' = budget - needed
      /\ mail' = Delivered(cur, Copies(s), loc') /\ todo' = todo \ Copies(s)
      /\ changed' = TRUE /\ pc = "spawn"
      /\ UNCHANGED <<reg, done, notified, pc, cur, due, over, claimed, launch, snap>>
  BY DEF SpawnReady
<1>. HIDE DEF s
<1>4. up \in SUBSET Copies(s)
  BY DEF Successes
<1>5. pane \in Seq(PaneRow) /\ mail \in MailBox /\ budget \in Nat /\ Sound(loc)
  BY DEF IInv, TypeOK, PaneRow, MailBox, SoundEverywhere
<1>6. reused \in Nat /\ needed \in Nat
  BY <1>1, <1>5, ReusableType, SlotsNeededType
<1>. HIDE DEF reused, needed
<1>7. Sound(loc)'
  <2>1. Sound(SpawnStep(loc, s, reused, up, sent))
    BY <1>1, <1>4, <1>5, <1>6, SpawnStepSound
  <2>. QED  BY <1>2, <2>1 DEF Sound, Rows
<1>8. TypeOK'
  <2>1. pane' \in Seq(PaneRow)
    BY <1>1, <1>2, <1>4, <1>5, OpenedPanesType
  <2>2. mail' \in MailBox
    BY <1>3, <1>5, DeliveredType
  <2>3. budget' \in Nat
    BY <1>3, <1>5, <1>6
  <2>4. loc' \in Rows
    BY <1>7 DEF Sound
  <2>. QED  BY <1>3, <2>1, <2>2, <2>3, <2>4 DEF IInv, TypeOK, PaneRow, MailBox
<1>9. StillArmed'
  BY <1>3 DEF StillArmed
<1>. QED  BY <1>3, <1>7, <1>8, <1>9, PassSound DEF IInv

LEMMA DeferStepIInv == ASSUME IInv, DeferStep PROVE IInv'
<1>. DEFINE c == Placeholder(First(todo)[1])
            row == IF c \in over
                   THEN [loc[c] EXCEPT !.state = "failed", !.waiting = FALSE,
                                       !.attempts = 1]
                   ELSE [loc[c] EXCEPT !.waiting = TRUE]
<1>1. First(todo)[1] \in Step
  BY FirstMember, CopyFacts DEF IInv, TypeOK, DeferStep
<1>2. c \in Copy /\ c[1] \in Step
  BY <1>1, CopyFacts
<1>3. /\ loc' = [loc EXCEPT ![c] = row] /\ todo' = todo \ {c}
      /\ changed' \in {changed \/ c \in over \/ ~loc[c].waiting, TRUE}
      /\ pc = "spawn"
      /\ UNCHANGED <<reg, pane, done, mail, notified, pc, cur, due, over, budget,
                     claimed, launch, snap>>
  BY DEF DeferStep
<1>. HIDE DEF c
<1>4. loc[c] \in Row /\ RowWithinBudget(c[1], loc[c])
      /\ (loc[c].state = "pending" => c = Placeholder(c[1]))
  BY <1>2 DEF IInv, SoundEverywhere, Sound, Rows
<1>5. row \in Row /\ RowWithinBudget(c[1], row)
      /\ (row.state = "pending" => c = Placeholder(c[1]))
  <2>1. RetryMax[c[1]] \in Nat
    BY <1>2, StepFacts
  <2>2. CASE c \in over
    <3>1. row = [loc[c] EXCEPT !.state = "failed", !.waiting = FALSE, !.attempts = 1]
      BY <2>2
    <3>2. loc[c].armed => 1 <= RetryMax[c[1]]
      BY <1>4, <2>1 DEF Row, RowWithinBudget
    <3>. HIDE DEF row
    <3>3. /\ row \in Row /\ row.armed = loc[c].armed
          /\ row.state = "failed" /\ row.attempts = 1
      BY <1>4, <3>1 DEF Row, StepState
    <3>. QED  BY <2>1, <3>2, <3>3 DEF RowWithinBudget
  <2>3. CASE c \notin over
    <3>1. row = [loc[c] EXCEPT !.waiting = TRUE]
      BY <2>3
    <3>. HIDE DEF row
    <3>. QED  BY <1>4, <3>1 DEF Row, RowWithinBudget
  <2>. QED  BY <2>2, <2>3
<1>. HIDE DEF row
<1>6. Sound(loc)'
  <2>1. Sound([loc EXCEPT ![c] = row])
    BY <1>2, <1>5, RowUpdateSound DEF IInv, SoundEverywhere
  <2>. QED  BY <1>3, <2>1 DEF Sound, Rows
<1>7. TypeOK'
  <2>1. changed' \in BOOLEAN
    BY <1>3, <1>4 DEF IInv, TypeOK, Row
  <2>. QED  BY <1>3, <1>6, <2>1 DEF IInv, TypeOK, Sound, Panes
<1>8. StillArmed'
  BY <1>3 DEF StillArmed
<1>. QED  BY <1>3, <1>6, <1>7, <1>8, PassSound DEF IInv

\* A run's rows are replaced by sound ones.
LEMMA WriteBackSound ==
    ASSUME TypeOK, SoundEverywhere, NEW r \in Run, NEW state \in RunState,
           NEW rows, Sound(rows),
           reg' = [reg EXCEPT ![r] = [state |-> state, rows |-> rows]]
    PROVE  /\ reg' \in [Run -> [state : RunState, rows : Rows]]
           /\ \A q \in Run : Sound(reg'[q].rows)
<1>1. rows \in Rows
  BY DEF Sound
<1>2. \A q \in Run : reg'[q].rows = rows \/ reg'[q].rows = reg[q].rows
  BY DEF TypeOK
<1>. QED  BY <1>1, <1>2 DEF TypeOK, SoundEverywhere

Notices == [Run -> [Copy \cup {RunItself} -> Nat]]

LEMMA NotifyType ==
    ASSUME notified \in Notices, NEW r \in Run, NEW what
    PROVE  Notify(r, what) \in Notices
<1>. DEFINE told == [x \in DOMAIN notified[r] |->
                        IF x \in what THEN notified[r][x] + 1 ELSE notified[r][x]]
<1>1. told \in [Copy \cup {RunItself} -> Nat]
  BY DEF Notices
<1>2. Notify(r, what) = [notified EXCEPT ![r] = told]
  BY DEF Notify, Notices
<1>. HIDE DEF told
<1>. QED  BY <1>1, <1>2 DEF Notices

LEMMA FinishIInv == ASSUME IInv, Finish PROVE IInv'
<1>. DEFINE armed == ArmRetryBackoff(loc)
            exhausted == Exhausted(armed)
            rows == MarkEscalated(armed, exhausted)
            state == FinalizeState(rows)
<1>1. Sound(rows)
  BY ArmRetryBackoffSound, MarkEscalatedSound DEF IInv, SoundEverywhere
<1>2. state \in RunState
  BY DEF FinalizeState, RunState
<1>3. cur \in Run /\ notified \in Notices
  BY DEF Finish, IInv, TypeOK, Notices
<1>4. \/ reg' = reg
      \/ reg' = [reg EXCEPT ![cur] = [state |-> state, rows |-> rows]]
  BY DEF Finish
<1>5. notified' \in Notices
  BY <1>3, NotifyType DEF Finish
<1>6. mail' \in MailBox
  BY DEF Finish, IInv, TypeOK, MailBox
<1>7. /\ pc' = "idle" /\ cur' = NoRun /\ loc' = NoRows /\ changed' = FALSE
      /\ due' = {} /\ over' = {} /\ budget' = 0 /\ claimed' = {}
      /\ UNCHANGED <<pane, done, todo, launch, snap>>
  BY DEF Finish
<1>8. /\ reg' \in [Run -> [state : RunState, rows : Rows]]
      /\ \A q \in Run : Sound(reg'[q].rows)
  <2>1. CASE reg' = reg
    BY <2>1 DEF IInv, TypeOK, SoundEverywhere
  <2>2. CASE reg' = [reg EXCEPT ![cur] = [state |-> state, rows |-> rows]]
    <3>. HIDE DEF rows, state
    <3>. QED  BY <1>1, <1>2, <1>3, <2>2, WriteBackSound DEF IInv
  <2>. QED  BY <1>4, <2>1, <2>2
<1>9. TypeOK'
  <2>1. NoRows \in Rows
    BY NoRowsSound DEF Sound
  <2>. QED  BY ONLY IInv, <1>5, <1>6, <1>7, <1>8, <2>1
            DEF IInv, TypeOK, Notices, MailBox, Pass, NoRun, Panes
<1>10. SoundEverywhere' /\ StillArmed'
  BY <1>7, <1>8, NoRowsSound DEF IInv, SoundEverywhere, StillArmed
<1>. QED  BY <1>9, <1>10 DEF IInv

-----------------------------------------------------------------------------
(* The command thread.                                                     *)

LaunchType == [run : Run \cup {NoRun}, rows : Rows, todo : SUBSET Copy,
               budget : Nat, claimed : SUBSET Nat]

LEMMA PendingRowSound ==
    ASSUME NEW c \in Copy
    PROVE  /\ PendingRow \in Row /\ RowWithinBudget(c[1], PendingRow)
           /\ [PendingRow EXCEPT !.waiting = TRUE] \in Row
           /\ RowWithinBudget(c[1], [PendingRow EXCEPT !.waiting = TRUE])
<1>1. RetryMax[c[1]] \in Nat
  BY CopyFacts, StepFacts
<1>2. PendingRow \in Row /\ [PendingRow EXCEPT !.waiting = TRUE] \in Row
  BY DEF PendingRow, NoRow, Row, StepState, Body
<1>3. \A row \in {PendingRow, [PendingRow EXCEPT !.waiting = TRUE]} :
          row.attempts = 0 /\ ~row.armed
  BY DEF PendingRow, NoRow
<1>. QED  BY <1>1, <1>2, <1>3 DEF RowWithinBudget

LEMMA LaunchBeginIInv == ASSUME IInv, NEW r \in Run, LaunchBegin(r) PROVE IInv'
<1>. USE DEF LaunchBegin
<1>. DEFINE rows == [c \in Copy |->
                IF c = Placeholder(c[1]) /\ c[1] \notin RootSteps
                THEN PendingRow ELSE NoRow]
<1>1. Sound(rows)
  <2>1. \A c \in Copy : NoRow \in Row /\ RowWithinBudget(c[1], NoRow)
                        /\ NoRow.state # "pending"
    BY NoRowsSound DEF Sound, Rows, NoRows, NoRow
  <2>. QED  BY <2>1, PendingRowSound DEF Sound, Rows
<1>2. {Placeholder(s) : s \in RootSteps} \subseteq Copy
  BY CopyFacts DEF RootSteps
<1>3. PaneBudget \in Nat /\ PanesClaimedByOtherRuns(r) \subseteq Nat
  BY BudgetType, ClaimedType DEF IInv, TypeOK, PaneRow
<1>. HIDE DEF rows
<1>4. launch' = [run |-> r, rows |-> rows, todo |-> {Placeholder(s) : s \in RootSteps},
                 budget |-> PaneBudget, claimed |-> PanesClaimedByOtherRuns(r)]
  BY DEF rows
<1>5. UNCHANGED <<reg, pane, done, mail, notified, driver, snap>>
  OBVIOUS
<1>6. launch' \in LaunchType /\ launch'.run = r
  BY <1>1, <1>2, <1>3, <1>4 DEF LaunchType, Sound
<1>7. r # NoRun
  BY RunAssumption DEF RunAssumption, NoRun
<1>8. TypeOK'
  BY ONLY IInv, <1>5, <1>6, <1>7 DEF IInv, TypeOK, LaunchType, driver, Panes
<1>9. SoundEverywhere' /\ StillArmed'
  BY <1>1, <1>4, <1>5 DEF IInv, SoundEverywhere, StillArmed, driver
<1>. QED  BY <1>8, <1>9 DEF IInv

LEMMA LaunchRootIInv == ASSUME IInv, LaunchRoot PROVE IInv'
<1>. DEFINE s == First(launch.todo)[1]
            reused == Reusable(launch.rows, s, launch.claimed)
            needed == SlotsNeeded(launch.rows, s, launch.claimed)
<1>1. launch \in LaunchType /\ Sound(launch.rows)
  BY DEF IInv, TypeOK, SoundEverywhere, LaunchType
<1>2. s \in Step
  BY <1>1, FirstMember, CopyFacts DEF LaunchRoot, LaunchType
<1>3. PICK up \in Successes(Copies(s), s \in SpawnFails),
           sent \in Successes(Copies(s), s \in KickoffFails) :
        /\ launch' = [launch EXCEPT
              !.rows = SpawnStep(launch.rows, s, reused, up, sent),
              !.todo = @ \ Copies(s), !.budget = @ - needed]
        /\ pane' = OpenedPanes(s, reused, up)
  BY DEF LaunchRoot
<1>4. /\ needed <= launch.budget
      /\ mail' = Delivered(launch.run, Copies(s), launch'.rows)
      /\ UNCHANGED <<reg, done, notified, driver, snap>>
      /\ launch.todo # {}
  BY DEF LaunchRoot
<1>. HIDE DEF s
<1>5. up \in SUBSET Copies(s)
  BY DEF Successes
<1>6. pane \in Seq(PaneRow) /\ mail \in MailBox
  BY DEF IInv, TypeOK, PaneRow, MailBox
<1>7. reused \in Nat /\ needed \in Nat
  BY <1>2, <1>6, ReusableType, SlotsNeededType
<1>. HIDE DEF reused, needed
<1>. DEFINE rows == SpawnStep(launch.rows, s, reused, up, sent)
<1>8. Sound(rows)
  BY <1>1, <1>2, <1>5, <1>6, <1>7, SpawnStepSound
<1>9. launch' = [launch EXCEPT !.rows = rows,
                     !.todo = @ \ Copies(s), !.budget = @ - needed]
  BY <1>3
<1>. HIDE DEF rows
<1>10. launch.budget - needed \in Nat
  BY <1>1, <1>4, <1>7 DEF LaunchType
<1>11. /\ launch' \in LaunchType /\ launch'.rows = rows /\ launch'.run = launch.run
       /\ launch'.todo \subseteq launch.todo
  BY <1>1, <1>8, <1>9, <1>10 DEF LaunchType, Sound
<1>12. TypeOK'
  <2>1. pane' \in Seq(PaneRow)
    BY <1>2, <1>3, <1>5, <1>6, OpenedPanesType
  <2>2. mail' \in MailBox
    BY <1>4, <1>6, DeliveredType
  <2>3. launch'.run = NoRun => launch'.todo = {}
    BY <1>11 DEF IInv, TypeOK
  <2>. QED  BY ONLY IInv, <1>4, <1>11, <2>1, <2>2, <2>3
            DEF IInv, TypeOK, PaneRow, MailBox, LaunchType, driver
<1>13. SoundEverywhere' /\ StillArmed'
  BY <1>4, <1>8, <1>11 DEF IInv, SoundEverywhere, StillArmed, driver
<1>. QED  BY <1>12, <1>13 DEF IInv

LEMMA LaunchDeferredIInv == ASSUME IInv, LaunchDeferred PROVE IInv'
<1>. DEFINE c == Placeholder(First(launch.todo)[1])
            row == [PendingRow EXCEPT !.waiting = TRUE]
            rows == [launch.rows EXCEPT ![c] = row]
<1>1. launch \in LaunchType /\ Sound(launch.rows)
  BY DEF IInv, TypeOK, SoundEverywhere, LaunchType
<1>2. First(launch.todo)[1] \in Step
  BY <1>1, FirstMember, CopyFacts DEF LaunchDeferred, LaunchType
<1>3. c \in Copy /\ c = Placeholder(c[1])
  BY <1>2, CopyFacts DEF Placeholder
<1>4. /\ launch' = [launch EXCEPT !.rows[c] = row, !.todo = @ \ {c}]
      /\ UNCHANGED <<reg, pane, done, mail, notified, driver, snap>>
  BY DEF LaunchDeferred
<1>. HIDE DEF c, row
<1>5. row \in Row /\ RowWithinBudget(c[1], row)
  BY <1>3, PendingRowSound DEF row
<1>6. Sound(rows)
  BY <1>1, <1>3, <1>5, RowUpdateSound
<1>7. launch' = [launch EXCEPT !.rows = rows, !.todo = @ \ {c}]
  BY <1>4
<1>. HIDE DEF rows
<1>8. /\ launch' \in LaunchType /\ launch'.rows = rows /\ launch'.run = launch.run
      /\ launch'.todo \subseteq launch.todo
  BY <1>1, <1>6, <1>7 DEF LaunchType, Sound
<1>9. TypeOK'
  <2>1. launch'.run = NoRun => launch'.todo = {}
    BY <1>8 DEF IInv, TypeOK
  <2>. QED  BY ONLY IInv, <1>4, <1>8, <2>1 DEF IInv, TypeOK, LaunchType, driver, Panes
<1>10. SoundEverywhere' /\ StillArmed'
  BY <1>4, <1>6, <1>8 DEF IInv, SoundEverywhere, StillArmed, driver
<1>. QED  BY <1>9, <1>10 DEF IInv

LEMMA LaunchEndIInv == ASSUME IInv, LaunchEnd PROVE IInv'
<1>. DEFINE state == IF \E c \in Copy :
                           launch.rows[c].state \in {"running", "pending"}
                     THEN "running" ELSE "failed"
<1>1. state \in RunState
  BY DEF RunState
<1>2. launch.run \in Run /\ Sound(launch.rows)
  BY DEF LaunchEnd, IInv, TypeOK, SoundEverywhere
<1>3. /\ reg' = [reg EXCEPT ![launch.run] = [state |-> state, rows |-> launch.rows]]
      /\ launch' = [run |-> NoRun, rows |-> NoRows, todo |-> {},
                    budget |-> 0, claimed |-> {}]
      /\ UNCHANGED <<pane, done, mail, driver, snap>>
  BY DEF LaunchEnd
<1>4. notified' \in Notices
  BY <1>2, NotifyType DEF LaunchEnd, IInv, TypeOK, Notices
<1>. HIDE DEF state
<1>5. /\ reg' \in [Run -> [state : RunState, rows : Rows]]
      /\ \A q \in Run : Sound(reg'[q].rows)
  BY <1>1, <1>2, <1>3, WriteBackSound DEF IInv
<1>6. launch' \in LaunchType /\ launch'.todo = {} /\ launch'.rows = NoRows
  BY <1>3, NoRowsSound DEF LaunchType, Sound
<1>7. TypeOK'
  BY ONLY IInv, <1>3, <1>4, <1>5, <1>6 DEF IInv, TypeOK, LaunchType, Notices, driver, Panes
<1>8. SoundEverywhere' /\ StillArmed'
  BY <1>3, <1>5, <1>6, NoRowsSound DEF IInv, SoundEverywhere, StillArmed, driver
<1>. QED  BY <1>7, <1>8 DEF IInv

LEMMA CancelReadIInv == ASSUME IInv, NEW r \in Run, CancelRead(r) PROVE IInv'
<1>. USE DEF CancelRead
<1>1. Sound(reg[r].rows)
  BY DEF IInv, SoundEverywhere
<1>2. TypeOK'
  BY <1>1 DEF IInv, TypeOK, Sound, driver, Panes
<1>3. SoundEverywhere' /\ StillArmed'
  BY <1>1 DEF IInv, SoundEverywhere, StillArmed, driver
<1>. QED  BY <1>2, <1>3 DEF IInv

LEMMA CancelWriteIInv == ASSUME IInv, CancelWrite PROVE IInv'
<1>. DEFINE ended == {c \in Copy : snap.rows[c].state = "running"}
                        \cup {c \in Copy : snap.rows[c].state = "pending"}
            rows == [c \in Copy |->
                        IF c \in ended
                        THEN [snap.rows[c] EXCEPT !.state = "cancelled",
                                                  !.waiting = FALSE]
                        ELSE snap.rows[c]]
<1>1. snap.run \in Run /\ Sound(snap.rows)
  BY DEF CancelWrite, IInv, TypeOK, SoundEverywhere
<1>2. Sound(rows)
  <2>1. ASSUME NEW c \in Copy
        PROVE  /\ rows[c] \in Row /\ RowWithinBudget(c[1], rows[c])
               /\ rows[c].state = "pending" => snap.rows[c].state = "pending"
    <3>1. snap.rows[c] \in Row /\ RowWithinBudget(c[1], snap.rows[c])
      BY <1>1 DEF Sound, Rows
    <3>2. \/ rows[c] = snap.rows[c]
          \/ /\ snap.rows[c].state \in {"running", "pending"}
             /\ rows[c] = [snap.rows[c] EXCEPT !.state = "cancelled",
                                               !.waiting = FALSE]
      OBVIOUS
    <3>. QED  BY <3>1, <3>2 DEF Row, StepState, RowWithinBudget
  <2>. QED  BY <1>1, <2>1 DEF Sound, Rows
<1>3. /\ reg' = [reg EXCEPT ![snap.run] = [state |-> "cancelled", rows |-> rows]]
      /\ snap' = [run |-> NoRun, rows |-> NoRows]
      /\ UNCHANGED <<done, notified, driver, launch>>
  BY DEF CancelWrite
<1>4. pane' \in Seq(PaneRow)
  BY KillType DEF CancelWrite, IInv, TypeOK, PaneRow
<1>5. mail' \in MailBox
  BY DEF CancelWrite, IInv, TypeOK, MailBox
<1>. HIDE DEF rows
<1>6. /\ reg' \in [Run -> [state : RunState, rows : Rows]]
      /\ \A q \in Run : Sound(reg'[q].rows)
  BY <1>1, <1>2, <1>3, WriteBackSound DEF IInv, RunState
<1>7. NoRows \in Rows
  BY NoRowsSound DEF Sound
<1>8. TypeOK'
  BY ONLY IInv, <1>3, <1>4, <1>5, <1>6, <1>7 DEF IInv, TypeOK, PaneRow, MailBox, driver
<1>9. SoundEverywhere' /\ StillArmed'
  BY <1>3, <1>6, NoRowsSound DEF IInv, SoundEverywhere, StillArmed, driver
<1>. QED  BY <1>8, <1>9 DEF IInv

-----------------------------------------------------------------------------
(* The environment touches no row.                                         *)

LEMMA EnvironmentIInv == ASSUME IInv, Environment PROVE IInv'
<1>1. UNCHANGED <<reg, notified, driver, launch, snap>>
  BY DEF Environment, Exit, Reap, AgentStatus, ClosePane, RestartPane, Reply, OpenPane
<1>2. pane \in Seq(PaneRow) /\ done \subseteq Nat /\ mail \in MailBox
  BY DEF IInv, TypeOK, PaneRow, MailBox
<1>3. pane' \in Seq(PaneRow) /\ done' \subseteq Nat /\ mail' \in MailBox
  <2>1. ASSUME NEW p \in Panes, NEW st \in {"ok", "bad"}, Exit(p, st)
        PROVE  pane' \in Seq(PaneRow) /\ UNCHANGED <<done, mail>>
    BY <1>2, <2>1, SetPaneType DEF Exit
  <2>2. ASSUME NEW p \in Panes, Reap(p)
        PROVE  pane' \in Seq(PaneRow) /\ UNCHANGED <<done, mail>>
    BY <1>2, <2>2, SetPaneType DEF Reap
  <2>3. ASSUME NEW p \in Panes, NEW isDone \in BOOLEAN, AgentStatus(p, isDone)
        PROVE  done' \subseteq Nat /\ UNCHANGED <<pane, mail>>
    BY <1>2, <2>3, PaneFacts DEF AgentStatus
  <2>4. ASSUME NEW p \in Panes, ClosePane(p)
        PROVE  pane' \in Seq(PaneRow) /\ UNCHANGED <<done, mail>>
    BY <1>2, <2>4, KillType DEF ClosePane
  <2>5. ASSUME NEW p \in Panes, RestartPane(p)
        PROVE  pane' \in Seq(PaneRow) /\ UNCHANGED <<done, mail>>
    BY <1>2, <2>5, SetPaneType DEF RestartPane
  <2>6. ASSUME NEW r \in Run, NEW c \in Copy, NEW body \in {"match", "other"},
               Reply(r, c, body)
        PROVE  mail' \in MailBox /\ UNCHANGED <<pane, done>>
    BY <1>2, <2>6 DEF Reply, MailBox
  <2>7. ASSUME NEW agent \in AgentName, OpenPane(agent)
        PROVE  pane' \in Seq(PaneRow) /\ UNCHANGED <<done, mail>>
    <3>1. NewPane(agent, TRUE) \in PaneRow
      BY DEF NewPane, PaneRow
    <3>. QED  BY <1>2, <2>7, <3>1, AppendProperties DEF OpenPane
  <2>. QED  BY <1>2, <2>1, <2>2, <2>3, <2>4, <2>5, <2>6, <2>7 DEF Environment
<1>4. TypeOK'
  BY ONLY IInv, <1>1, <1>3 DEF IInv, TypeOK, PaneRow, MailBox, driver
<1>5. SoundEverywhere' /\ StillArmed'
  BY <1>1 DEF IInv, SoundEverywhere, StillArmed, driver
<1>. QED  BY <1>4, <1>5 DEF IInv

-----------------------------------------------------------------------------
(* The theorems.                                                           *)

LEMMA NextIInv == IInv /\ [Next]_vars => IInv'
<1>. SUFFICES ASSUME IInv, [Next]_vars PROVE IInv'
  OBVIOUS
<1>1. ASSUME NEW r \in Run, Tick(r) \/ LaunchBegin(r) \/ CancelRead(r) PROVE IInv'
  BY <1>1, TickIInv, LaunchBeginIInv, CancelReadIInv
<1>2. CASE DriverStep
  BY <1>2, DetectReplyCompletionsIInv, DetectCompletionsIInv, CheckTimeoutsIInv,
     CancelStragglersIInv, FireDueRetriesIInv, RestartInPlaceIInv,
     RespawnFreshIInv, PostponeRetryIInv, DecidePassesIInv, SpawnReadyIInv,
     DeferStepIInv, FinishIInv DEF DriverStep
<1>3. CASE LaunchRoot \/ LaunchDeferred \/ LaunchEnd
  BY <1>3, LaunchRootIInv, LaunchDeferredIInv, LaunchEndIInv
<1>4. CASE CancelWrite
  BY <1>4, CancelWriteIInv
<1>5. CASE Environment
  BY <1>5, EnvironmentIInv
<1>6. CASE UNCHANGED vars
  BY <1>6, StutterIInv
<1>. QED  BY <1>1, <1>2, <1>3, <1>4, <1>5, <1>6 DEF Next

LEMMA Invariant == Spec => []IInv
<1>1. Init => IInv
  BY InitIInv
<1>2. IInv /\ [Next]_vars => IInv'
  BY NextIInv
<1>. QED  BY <1>1, <1>2, PTL DEF Spec

\* For every declared workflow and every behaviour of agents, operator and
\* grid, the registry, the driver's clone and what launch and cancel hold keep
\* their shape: rows stay on minted copies, budgets never go below zero, a
\* tick always has a run under it.
THEOREM TypeCorrect == Spec => []TypeOK
<1>1. IInv => TypeOK
  BY DEF IInv
<1>. QED  BY <1>1, Invariant, PTL

\* No step of any workflow is attempted more than retry.max + 1 times, and a
\* backoff is armed only on a failed attempt with budget left, in the registry
\* and in every clone the driver, a launch or a cancel may still write back
\* (arm_retry_backoff, fire_due_retries, postpone_retry).
THEOREM RetriesBounded == Spec => []RetryBudget
<1>1. IInv => RetryBudget
  BY DEF IInv, SoundEverywhere, Sound, RetryBudget, Clones
<1>. QED  BY <1>1, Invariant, PTL

-----------------------------------------------------------------------------
(* No step of any workflow is attempted before its time: the proof of      *)
(* NoEarlyStart, on top of the invariant above.                            *)

\* Everything upstream of step s allows it to start.
Cleared(rows, s) ==
    /\ DepsSatisfied(rows, s)
    /\ s \in Condition => \A d \in Deps[s] : rows[Placeholder(d)].reply = "match"

\* What has been attempted was allowed to, and a step that waits is not expanded.
Orderly(rows) ==
    /\ \A c \in Copy : rows[c].attempts > 0 => Cleared(rows, c[1])
    /\ \A c, d \in Copy : /\ rows[c].state = "pending"
                          /\ c[1] = d[1]
                          /\ c # d
                          => rows[d].state = "absent"

\* What a pass may do to a run's rows: a success is final, a copy that was not
\* there is not there, and nothing is attempted for the first time.
Onward(old, new) ==
    \A c \in Copy :
        /\ old[c].state = "succeeded"
              => new[c].state = "succeeded" /\ new[c].reply = old[c].reply
        /\ old[c].state = "absent" => new[c].state = "absent"
        /\ new[c].state = "pending" => old[c].state = "pending"
        /\ new[c].attempts > 0 => old[c].attempts > 0

LEMMA DepFacts ==
    /\ \A s \in Step : Deps[s] \subseteq Step
    /\ \A s \in Condition : /\ s \in Step
                            /\ \A d \in Deps[s] : Fan[d] = 1
    /\ \A s \in Step : Quota[s] \in Nat /\ Quota[s] <= Fan[s]
<1>1. /\ Deps \in [Step -> SUBSET Step] /\ Condition \subseteq Step
      /\ Quota \in [Step -> Nat] /\ \A s \in Step : Quota[s] <= Fan[s]
      /\ \A s \in Condition : \E d \in Step : Deps[s] = {d} /\ Fan[d] = 1
  BY WorkflowAssumption DEF WorkflowAssumption, ValidWorkflow
<1>. QED  BY <1>1

\* A join that is satisfied stays so while its successes last and nobody joins.
LEMMA JoinLasts ==
    ASSUME NEW old, NEW new, NEW s \in Step, DepSatisfied(old, s),
           \A c \in Copies(s) : old[c].state = "succeeded" => new[c].state = "succeeded",
           \A c \in Copies(s) : old[c].state = "absent" => new[c].state = "absent"
    PROVE  DepSatisfied(new, s)
<1>1. CASE Quota[s] = 0
  BY <1>1 DEF DepSatisfied, Present
<1>2. CASE Quota[s] # 0
  <2>. DEFINE before == InState(old, s, {"succeeded"})
              after == InState(new, s, {"succeeded"})
  <2>1. before \subseteq after /\ before \in SUBSET Copies(s) /\ after \in SUBSET Copies(s)
    BY DEF InState
  <2>2. IsFiniteSet(after) /\ Cardinality(after) \in Nat /\ Cardinality(before) \in Nat
    BY <2>1, CopiesFinite
  <2>3. Cardinality(before) <= Cardinality(after)
    BY <2>1, <2>2, FS_Subset
  <2>4. Quota[s] \in Nat /\ Cardinality(before) >= Quota[s]
    BY <1>2, DepFacts DEF DepSatisfied
  <2>5. Cardinality(after) >= Quota[s]
    <3>. HIDE DEF before, after
    <3>. QED  BY <2>2, <2>3, <2>4
  <2>. QED  BY <1>2, <2>5 DEF DepSatisfied
<1>. QED  BY <1>1, <1>2

\* The only copy of a step whose join is satisfied has succeeded.
LEMMA OnlyCopySucceeded ==
    ASSUME NEW rows, NEW d \in Step, Fan[d] = 1, DepSatisfied(rows, d)
    PROVE  rows[Placeholder(d)].state = "succeeded"
<1>1. Copies(d) = {Placeholder(d)}
  BY DEF Copies, Placeholder
<1>2. CASE Quota[d] = 0
  BY <1>1, <1>2 DEF DepSatisfied, Present
<1>3. CASE Quota[d] # 0
  <2>1. Quota[d] \in Nat
    BY DepFacts
  <2>2. Cardinality(InState(rows, d, {"succeeded"})) >= 1
    BY <1>3, <2>1, CopiesFinite DEF DepSatisfied, InState
  <2>3. InState(rows, d, {"succeeded"}) # {}
    BY <2>2, FS_EmptySet
  <2>. QED  BY <1>1, <2>3 DEF InState
<1>. QED  BY <1>2, <1>3

\* What allowed a step to start does not go away.
LEMMA ClearedLasts ==
    ASSUME NEW old, NEW new, NEW s \in Step, Cleared(old, s),
           \A d \in Deps[s] : DepSatisfied(old, d) => DepSatisfied(new, d),
           \A c \in Copy : old[c].state = "succeeded" => new[c].reply = old[c].reply
    PROVE  Cleared(new, s)
<1>1. DepsSatisfied(new, s)
  BY DEF Cleared, DepsSatisfied
<1>2. ASSUME s \in Condition, NEW d \in Deps[s]
      PROVE  new[Placeholder(d)].reply = "match"
  <2>1. d \in Step /\ Fan[d] = 1 /\ DepSatisfied(old, d)
    BY <1>2, DepFacts DEF Cleared, DepsSatisfied
  <2>2. old[Placeholder(d)].state = "succeeded"
    BY <2>1, OnlyCopySucceeded
  <2>3. Placeholder(d) \in Copy
    BY <2>1, CopyFacts
  <2>. QED  BY <1>2, <2>2, <2>3 DEF Cleared
<1>. QED  BY <1>1, <1>2 DEF Cleared

LEMMA OnwardClears ==
    ASSUME NEW old, NEW new, Onward(old, new), NEW s \in Step, Cleared(old, s)
    PROVE  Cleared(new, s)
<1>1. ASSUME NEW d \in Deps[s], DepSatisfied(old, d) PROVE DepSatisfied(new, d)
  <2>1. d \in Step /\ Copies(d) \subseteq Copy
    BY DepFacts, CopyFacts
  <2>. QED  BY <1>1, <2>1, JoinLasts DEF Onward
<1>2. \A c \in Copy : old[c].state = "succeeded" => new[c].reply = old[c].reply
  BY DEF Onward
<1>. QED  BY <1>1, <1>2, ClearedLasts

LEMMA OnwardOrderly ==
    ASSUME NEW old, NEW new, Onward(old, new), Orderly(old)
    PROVE  Orderly(new)
<1>1. ASSUME NEW c \in Copy, new[c].attempts > 0 PROVE Cleared(new, c[1])
  <2>1. c[1] \in Step /\ Cleared(old, c[1])
    BY <1>1, CopyFacts DEF Onward, Orderly
  <2>. QED  BY <2>1, OnwardClears
<1>2. ASSUME NEW c \in Copy, NEW d \in Copy, new[c].state = "pending",
             c[1] = d[1], c # d
      PROVE  new[d].state = "absent"
  BY <1>2 DEF Onward, Orderly
<1>. QED  BY <1>1, <1>2 DEF Orderly

\* One row changes and its step had been allowed to start.
LEMMA RowUpdateOrderly ==
    ASSUME NEW rows \in Rows, Orderly(rows), NEW c \in Copy, NEW row \in Row,
           Cleared(rows, c[1]), rows[c].state \notin {"succeeded", "absent"},
           row.state = "pending" => rows[c].state = "pending"
    PROVE  /\ Orderly([rows EXCEPT ![c] = row])
           /\ \A s \in Step : Cleared(rows, s) => Cleared([rows EXCEPT ![c] = row], s)
<1>. DEFINE new == [rows EXCEPT ![c] = row]
<1>1. \A d \in Copy : d # c => new[d] = rows[d]
  BY DEF Rows
<1>2. new[c] = row
  BY DEF Rows
<1>. HIDE DEF new
<1>3. ASSUME NEW s \in Step, Cleared(rows, s) PROVE Cleared(new, s)
  <2>1. ASSUME NEW d \in Deps[s], DepSatisfied(rows, d) PROVE DepSatisfied(new, d)
    <3>1. d \in Step /\ Copies(d) \subseteq Copy
      BY DepFacts, CopyFacts
    <3>. QED  BY <1>1, <2>1, <3>1, JoinLasts
  <2>2. \A d \in Copy : rows[d].state = "succeeded" => new[d].reply = rows[d].reply
    BY <1>1
  <2>. QED  BY <1>3, <2>1, <2>2, ClearedLasts
<1>4. ASSUME NEW d \in Copy, new[d].attempts > 0 PROVE Cleared(new, d[1])
  BY <1>1, <1>3, <1>4, CopyFacts DEF Orderly
<1>5. ASSUME NEW d \in Copy, NEW e \in Copy, new[d].state = "pending",
             d[1] = e[1], d # e
      PROVE  new[e].state = "absent"
  BY <1>1, <1>2, <1>5 DEF Orderly
<1>6. Orderly(new)
  BY <1>4, <1>5 DEF Orderly
<1>. QED  BY <1>3, <1>6 DEF new

\* No step is spawned unless its row is the only one of the step, waits, and the
\* step is cleared; what is to be spawned of a launch are unattempted roots.
Order ==
    /\ \A r \in Run : Orderly(reg[r].rows)
    /\ Orderly(loc) /\ Orderly(launch.rows) /\ Orderly(snap.rows)
    /\ pc = "spawn" => \A c \in todo : /\ c = Placeholder(c[1])
                                       /\ loc[c].state = "pending"
                                       /\ Cleared(loc, c[1])
    /\ \A c \in Copy : launch.rows[c].attempts > 0 => c[1] \in RootSteps
    /\ \A c \in launch.todo : /\ c = Placeholder(c[1])
                              /\ c[1] \in RootSteps
                              /\ \A d \in Copies(c[1]) :
                                    launch.rows[d].state = "absent"

OInv == IInv /\ Order

LEMMA RootsCleared ==
    ASSUME NEW rows, NEW s \in RootSteps
    PROVE  Cleared(rows, s)
BY DEF RootSteps, Cleared, DepsSatisfied

LEMMA NoRowsOrderly == Orderly(NoRows)
BY DEF Orderly, NoRows, NoRow

LEMMA InitOrder == Init => Order
<1>. SUFFICES ASSUME Init PROVE Order
  OBVIOUS
<1>1. \A c \in Copy : NoRows[c].attempts = 0
  BY DEF NoRows, NoRow
<1>. QED  BY <1>1, NoRowsOrderly DEF Init, Order

LEMMA StutterOrder == Order /\ UNCHANGED vars => Order'
BY DEF Order, vars, driver

-----------------------------------------------------------------------------
(* The passes of a tick.                                                   *)

\* A pass that only moves its clone onward.
LEMMA PassOrder ==
    ASSUME OInv, Onward(loc, loc'), UNCHANGED <<reg, launch, snap>>, pc' # "spawn"
    PROVE  Order'
<1>1. Orderly(loc')
  BY OnwardOrderly DEF OInv, Order
<1>. QED  BY <1>1 DEF OInv, Order

LEMMA TickOrder == ASSUME OInv, NEW r \in Run, Tick(r) PROVE Order'
<1>1. /\ loc' = reg[r].rows /\ pc' = "reply"
      /\ UNCHANGED <<reg, launch, snap>>
  BY DEF Tick, TickBegin
<1>. QED  BY <1>1 DEF OInv, Order

LEMMA DetectReplyCompletionsOrder ==
    ASSUME OInv, DetectReplyCompletions PROVE Order'
<1>. USE DEF DetectReplyCompletions
<1>1. ASSUME NEW c \in Copy
      PROVE  \/ loc'[c] = loc[c]
             \/ /\ loc[c].state = "running"
                /\ \E body : loc'[c] \in
                      {[loc[c] EXCEPT !.state = "succeeded", !.reply = body, !.armed = FALSE],
                       [loc[c] EXCEPT !.reply = body]}
  OBVIOUS
<1>2. \A c \in Copy : loc[c] \in Row
  BY DEF OInv, IInv, TypeOK, Rows
<1>3. Onward(loc, loc')
  BY ONLY <1>1, <1>2 DEF Onward, Row
<1>. QED  BY <1>3, PassOrder

LEMMA DetectCompletionsOrder == ASSUME OInv, DetectCompletions PROVE Order'
<1>. USE DEF DetectCompletions
<1>1. ASSUME NEW c \in Copy
      PROVE  \/ loc'[c] = loc[c]
             \/ /\ loc[c].state = "running"
                /\ loc'[c] \in {[loc[c] EXCEPT !.state = "succeeded"],
                                [loc[c] EXCEPT !.state = "failed"]}
  OBVIOUS
<1>2. \A c \in Copy : loc[c] \in Row
  BY DEF OInv, IInv, TypeOK, Rows
<1>3. Onward(loc, loc')
  BY ONLY <1>1, <1>2 DEF Onward, Row
<1>. QED  BY <1>3, PassOrder

LEMMA CheckTimeoutsOrder == ASSUME OInv, CheckTimeouts PROVE Order'
<1>. USE DEF CheckTimeouts
<1>1. ASSUME NEW c \in Copy
      PROVE  \/ loc'[c] = loc[c]
             \/ /\ loc[c].state = "running"
                /\ loc'[c] = [loc[c] EXCEPT !.state = "failed", !.session = 0]
  OBVIOUS
<1>2. \A c \in Copy : loc[c] \in Row
  BY DEF OInv, IInv, TypeOK, Rows
<1>3. Onward(loc, loc')
  BY ONLY <1>1, <1>2 DEF Onward, Row
<1>. QED  BY <1>3, PassOrder

LEMMA CancelStragglersOrder == ASSUME OInv, CancelStragglers PROVE Order'
<1>. USE DEF CancelStragglers
<1>1. ASSUME NEW c \in Copy
      PROVE  \/ loc'[c] = loc[c]
             \/ /\ loc[c].state \in {"running", "failed"}
                /\ \E p : loc'[c] =
                      [loc[c] EXCEPT !.state = "cancelled", !.armed = FALSE,
                                     !.waiting = FALSE, !.session = p]
  OBVIOUS
<1>2. \A c \in Copy : loc[c] \in Row
  BY DEF OInv, IInv, TypeOK, Rows
<1>3. Onward(loc, loc')
  BY ONLY <1>1, <1>2 DEF Onward, Row
<1>. QED  BY <1>3, PassOrder

LEMMA FireDueRetriesOrder == ASSUME OInv, FireDueRetries PROVE Order'
<1>1. Onward(loc, loc')
  BY DEF FireDueRetries, Onward
<1>. QED  BY <1>1, PassOrder DEF FireDueRetries

\* A retry replaces the row of a failed attempt.
LEMMA RetryOnward ==
    ASSUME NEW c \in Copy, loc \in Rows, loc[c].state = "failed",
           loc[c].attempts > 0, NEW row, row.state # "pending",
           loc' = [loc EXCEPT ![c] = row]
    PROVE  Onward(loc, loc')
<1>1. ASSUME NEW d \in Copy PROVE loc'[d] = IF d = c THEN row ELSE loc[d]
  BY DEF Rows
<1>. QED  BY <1>1 DEF Onward

\* The row whose retry has come has an attempt behind it.
LEMMA RetryAttempted ==
    ASSUME OInv, pc = "retry", todo # {}
    PROVE  /\ First(todo) \in Copy /\ loc \in Rows
           /\ loc[First(todo)].state = "failed"
           /\ loc[First(todo)].attempts > 0
<1>1. /\ First(todo) \in Copy /\ loc[First(todo)].armed
      /\ loc[First(todo)].state = "failed" /\ loc[First(todo)] \in Row
  BY RetryTurn DEF OInv
<1>2. RowWithinBudget(First(todo)[1], loc[First(todo)])
  BY <1>1 DEF OInv, IInv, SoundEverywhere, Sound
<1>3. loc[First(todo)].attempts > 0
  BY <1>1, <1>2 DEF RowWithinBudget, Row
<1>. QED  BY <1>1, <1>3 DEF OInv, IInv, TypeOK

LEMMA AttemptNotPending ==
    ASSUME NEW s, NEW p, NEW thread, NEW n
    PROVE  AttemptRow(s, p, thread, n).state \in {"failed", "running"}
BY DEF AttemptRow, NoRow

LEMMA RestartInPlaceOrder == ASSUME OInv, RestartInPlace PROVE Order'
<1>. DEFINE c == First(todo)
<1>1. PICK sent : loc' = [loc EXCEPT ![c] =
                     [AttemptRow(c[1], loc[c].session, c[1] \in Kickoff /\ c \in sent,
                                 loc[c].attempts + 1)
                      EXCEPT !.escalated = loc[c].escalated]]
  BY DEF RestartInPlace
<1>2. /\ UNCHANGED <<reg, launch, snap>> /\ pc = "retry" /\ pc' = pc /\ todo # {}
  BY DEF RestartInPlace
<1>. DEFINE row == AttemptRow(c[1], loc[c].session, c[1] \in Kickoff /\ c \in sent,
                              loc[c].attempts + 1)
            kept == [row EXCEPT !.escalated = loc[c].escalated]
<1>3. row.state # "pending"
  BY AttemptNotPending
<1>4. kept.state = row.state
  BY DEF AttemptRow, NoRow
<1>5. loc' = [loc EXCEPT ![c] = kept]
  BY <1>1
<1>. HIDE DEF kept, row, c
<1>6. Onward(loc, loc')
  BY <1>2, <1>3, <1>4, <1>5, RetryAttempted, RetryOnward DEF c
<1>. QED  BY <1>2, <1>6, PassOrder

LEMMA RespawnFreshOrder == ASSUME OInv, RespawnFresh PROVE Order'
<1>. DEFINE c == First(todo)
<1>1. PICK up, sent : loc' = [loc EXCEPT ![c] =
                        AttemptRow(c[1], PaneFor(c, 0, up), c[1] \in Kickoff /\ c \in sent,
                                   loc[c].attempts + 1)]
  BY DEF RespawnFresh
<1>2. /\ UNCHANGED <<reg, launch, snap>> /\ pc = "retry" /\ pc' = pc /\ todo # {}
  BY DEF RespawnFresh
<1>. DEFINE row == AttemptRow(c[1], PaneFor(c, 0, up), c[1] \in Kickoff /\ c \in sent,
                              loc[c].attempts + 1)
<1>3. row.state # "pending"
  BY AttemptNotPending
<1>4. loc' = [loc EXCEPT ![c] = row]
  BY <1>1
<1>. HIDE DEF row, c
<1>5. Onward(loc, loc')
  BY <1>2, <1>3, <1>4, RetryAttempted, RetryOnward DEF c
<1>. QED  BY <1>2, <1>5, PassOrder

LEMMA PostponeRetryOrder == ASSUME OInv, PostponeRetry PROVE Order'
<1>. DEFINE c == First(todo)
            row == IF c \in over
                   THEN [loc[c] EXCEPT !.armed = FALSE, !.waiting = FALSE,
                                       !.attempts = @ + 1]
                   ELSE [loc[c] EXCEPT !.waiting = TRUE]
<1>1. /\ loc' = [loc EXCEPT ![c] = row]
      /\ UNCHANGED <<reg, launch, snap>> /\ pc = "retry" /\ pc' = pc /\ todo # {}
  BY DEF PostponeRetry
<1>2. /\ c \in Copy /\ loc \in Rows /\ loc[c].state = "failed" /\ loc[c].attempts > 0
  BY <1>1, RetryAttempted
<1>3. row.state # "pending"
  <2>1. loc[c] \in Row
    BY <1>2 DEF Rows
  <2>. HIDE DEF c
  <2>. QED  BY <1>2, <2>1 DEF Row
<1>. HIDE DEF row, c
<1>4. Onward(loc, loc')
  BY <1>1, <1>2, <1>3, RetryOnward
<1>. QED  BY <1>1, <1>4, PassOrder

-----------------------------------------------------------------------------
(* The decisions of a tick.                                                *)

\* The passes over the rows leave successes, absences and attempts alone.
Quiet(old, new) ==
    \A c \in Copy :
        /\ (new[c].state = "succeeded") = (old[c].state = "succeeded")
        /\ (new[c].state = "absent") = (old[c].state = "absent")
        /\ new[c].state = "pending" => old[c].state = "pending"
        /\ new[c].reply = old[c].reply
        /\ new[c].attempts = old[c].attempts

LEMMA QuietFacts ==
    ASSUME NEW old, NEW new, Quiet(old, new)
    PROVE  /\ Onward(old, new)
           /\ \A s \in Step : DepsSatisfied(new, s) => DepsSatisfied(old, s)
           /\ \A s \in Step : IsPending(new, s) => IsPending(old, s)
<1>1. Onward(old, new)
  BY DEF Quiet, Onward
<1>2. ASSUME NEW d \in Step, DepSatisfied(new, d) PROVE DepSatisfied(old, d)
  <2>1. Copies(d) \subseteq Copy
    BY CopyFacts
  <2>. QED  BY <1>2, <2>1, JoinLasts DEF Quiet
<1>3. \A s \in Step : DepsSatisfied(new, s) => DepsSatisfied(old, s)
  BY <1>2, DepFacts DEF DepsSatisfied
<1>4. \A s \in Step : IsPending(new, s) => IsPending(old, s)
  BY CopyFacts DEF Quiet, IsPending, InState
<1>. QED  BY <1>1, <1>3, <1>4

LEMMA QuietTransitive ==
    ASSUME NEW a, NEW b, NEW c, Quiet(a, b), Quiet(b, c)
    PROVE  Quiet(a, c)
BY DEF Quiet

LEMMA ArmRetryBackoffQuiet ==
    ASSUME NEW rows \in Rows PROVE Quiet(rows, ArmRetryBackoff(rows))
<1>1. ASSUME NEW c \in Copy
      PROVE  \/ ArmRetryBackoff(rows)[c] = rows[c]
             \/ ArmRetryBackoff(rows)[c] = [rows[c] EXCEPT !.armed = TRUE]
  BY DEF ArmRetryBackoff
<1>2. \A c \in Copy : rows[c] \in Row
  BY DEF Rows
<1>. QED  BY ONLY <1>1, <1>2 DEF Quiet, Row

LEMMA MarkEscalatedQuiet ==
    ASSUME NEW rows \in Rows, NEW copies PROVE Quiet(rows, MarkEscalated(rows, copies))
<1>1. ASSUME NEW c \in Copy
      PROVE  \/ MarkEscalated(rows, copies)[c] = rows[c]
             \/ MarkEscalated(rows, copies)[c] = [rows[c] EXCEPT !.escalated = TRUE]
  BY DEF MarkEscalated
<1>2. \A c \in Copy : rows[c] \in Row
  BY DEF Rows
<1>. QED  BY ONLY <1>1, <1>2 DEF Quiet, Row

\* A waiting step that is decided is not waiting any more.
LEMMA SetStepStateQuiet ==
    ASSUME NEW rows, Sound(rows), NEW steps, NEW state \in {"skipped", "failed"},
           \A s \in steps \cap Step : rows[Placeholder(s)].state = "pending"
    PROVE  /\ Quiet(rows, SetStepState(rows, steps, state))
           /\ \A s \in steps \cap Step : ~IsPending(SetStepState(rows, steps, state), s)
<1>. DEFINE new == SetStepState(rows, steps, state)
<1>1. \A c \in Copy : rows[c] \in Row
  BY DEF Sound, Rows
<1>2. ASSUME NEW c \in Copy
      PROVE  \/ new[c] = rows[c] /\ ~(c[1] \in steps /\ c = Placeholder(c[1]))
             \/ /\ c[1] \in steps /\ c = Placeholder(c[1])
                /\ rows[c].state = "pending"
                /\ new[c] = [rows[c] EXCEPT !.state = state, !.waiting = FALSE]
  BY CopyFacts DEF SetStepState
<1>. HIDE DEF new
<1>3. Quiet(rows, new)
  <2>1. ASSUME NEW c \in Copy, rows[c].state = "pending",
               new[c] = [rows[c] EXCEPT !.state = state, !.waiting = FALSE]
        PROVE  /\ new[c].attempts = rows[c].attempts /\ new[c].reply = rows[c].reply
               /\ new[c].state = state
    <3>1. rows[c] \in Row
      BY <1>1
    <3>. QED  BY ONLY <2>1, <3>1 DEF Row
  <2>. QED  BY ONLY <1>2, <2>1 DEF Quiet
<1>4. ASSUME NEW s \in steps \cap Step PROVE ~IsPending(new, s)
  <2>1. SUFFICES ASSUME NEW c \in Copies(s) PROVE new[c].state # "pending"
    BY DEF IsPending, InState
  <2>2. c \in Copy /\ c[1] = s
    BY CopyFacts DEF Copies
  <2>3. CASE c = Placeholder(s)
    BY <1>1, <1>2, <2>2, <2>3 DEF Row
  <2>4. CASE c # Placeholder(s)
    BY <1>2, <2>2, <2>4 DEF Sound
  <2>. QED  BY <2>3, <2>4
<1>. QED  BY <1>3, <1>4 DEF new

\* After the passes over the rows a step that is ready is cleared: a condition
\* step whose reply is missing or does not match waits no longer.
LEMMA DecideOrder ==
    ASSUME NEW rows, Sound(rows)
    PROVE  /\ Quiet(rows, Decide(rows))
           /\ \A s \in ReadySteps(Decide(rows)) : Cleared(Decide(rows), s)
<1>. DEFINE a == ArmRetryBackoff(rows)
            b == SetStepState(a, ConditionTargets(a, "other"), "skipped")
            c == SetStepState(b, ConditionTargets(a, "none"), "failed")
            d == SetStepState(c, FailfastTargets(c), "skipped")
<1>1. Sound(a) /\ Quiet(rows, a)
  BY ArmRetryBackoffSound, ArmRetryBackoffQuiet DEF Sound
<1>2. \A body : \A s \in ConditionTargets(a, body) \cap Step :
          a[Placeholder(s)].state = "pending" /\ ~a[Placeholder(s)].armed
  BY <1>1, WaitingIsNotArmed DEF ConditionTargets
<1>3. /\ Sound(b) /\ Quiet(a, b)
      /\ \A e \in Copy : b[e].armed = a[e].armed
      /\ \A s \in ConditionTargets(a, "other") \cap Step : ~IsPending(b, s)
  <2>. HIDE DEF a
  <2>. QED  BY <1>1, <1>2, SetStepStateSound, SetStepStateQuiet
<1>4. \A s \in ConditionTargets(a, "none") \cap Step :
          b[Placeholder(s)].state = "pending" /\ ~b[Placeholder(s)].armed
  <2>. SUFFICES ASSUME NEW s \in ConditionTargets(a, "none") \cap Step
                PROVE  b[Placeholder(s)].state = "pending" /\ ~b[Placeholder(s)].armed
    OBVIOUS
  <2>1. s \notin ConditionTargets(a, "other")
    <3>1. s \in Condition /\ (\E e \in Deps[s] : a[Placeholder(e)].reply = "none")
      BY DEF ConditionTargets
    <3>2. PICK e \in Step : Deps[s] = {e}
      BY <3>1, WorkflowAssumption DEF WorkflowAssumption, ValidWorkflow
    <3>3. a[Placeholder(e)].reply = "none"
      BY <3>1, <3>2
    <3>. HIDE DEF a
    <3>. QED  BY <3>2, <3>3 DEF ConditionTargets
  <2>2. Placeholder(s) \in Copy /\ Placeholder(s)[1] = s
    BY CopyFacts DEF Placeholder
  <2>3. b[Placeholder(s)] = a[Placeholder(s)]
    <3>. HIDE DEF a
    <3>. QED  BY <2>1, <2>2 DEF SetStepState
  <2>. QED  BY <1>2, <2>3
<1>5. /\ Sound(c) /\ Quiet(b, c)
      /\ \A s \in ConditionTargets(a, "none") \cap Step : ~IsPending(c, s)
  <2>. HIDE DEF a, b
  <2>. QED  BY <1>3, <1>4, SetStepStateSound, SetStepStateQuiet
<1>6. \A s \in FailfastTargets(c) \cap Step : c[Placeholder(s)].state = "pending"
  BY <1>5, WaitingIsNotArmed DEF FailfastTargets
<1>7. Quiet(c, d)
  <2>. HIDE DEF c
  <2>. QED  BY <1>5, <1>6, SetStepStateQuiet
<1>8. Decide(rows) = d
  BY DEF Decide, Failfast, ApplyConditions
<1>. HIDE DEF a, b, c, d
<1>9. Quiet(a, b) /\ Quiet(b, c) /\ Quiet(b, d) /\ Quiet(a, d) /\ Quiet(rows, d)
  BY <1>1, <1>3, <1>5, <1>7, QuietTransitive
<1>10. ASSUME NEW s \in ReadySteps(d) PROVE Cleared(d, s)
  <2>1. s \in Step /\ IsPending(d, s) /\ DepsSatisfied(d, s)
    BY <1>10 DEF ReadySteps
  <2>2. IsPending(a, s) /\ IsPending(b, s) /\ IsPending(c, s) /\ DepsSatisfied(a, s)
    BY <1>7, <1>9, <2>1, QuietFacts
  <2>3. s \notin ConditionTargets(a, "other") /\ s \notin ConditionTargets(a, "none")
    BY <1>3, <1>5, <2>1, <2>2
  <2>4. ASSUME s \in Condition, NEW e \in Deps[s]
        PROVE  d[Placeholder(e)].reply = "match"
    <3>1. Placeholder(e) \in Copy
      BY <2>1, <2>4, DepFacts, CopyFacts
    <3>2. a[Placeholder(e)].reply \in Body
      BY <1>1, <3>1 DEF Sound, Rows, Row
    <3>3. a[Placeholder(e)].reply \notin {"other", "none"}
      BY <2>2, <2>3, <2>4 DEF ConditionTargets
    <3>4. d[Placeholder(e)].reply = a[Placeholder(e)].reply
      BY <1>9, <3>1 DEF Quiet
    <3>. QED  BY <3>2, <3>3, <3>4 DEF Body
  <2>. QED  BY <2>1, <2>4 DEF Cleared
<1>. QED  BY <1>8, <1>9, <1>10

LEMMA DecidePassesOrder == ASSUME OInv, DecidePasses PROVE Order'
<1>. USE DEF DecidePasses
<1>1. Sound(loc)
  BY DEF OInv, IInv, SoundEverywhere
<1>2. /\ Quiet(loc, loc')
      /\ \A s \in ReadySteps(loc') : Cleared(loc', s)
  BY <1>1, DecideOrder
<1>3. Orderly(loc')
  BY <1>2, QuietFacts, OnwardOrderly DEF OInv, Order
<1>4. Sound(loc')
  BY <1>1, DecideSound
<1>5. ASSUME NEW c \in todo'
      PROVE  c = Placeholder(c[1]) /\ loc'[c].state = "pending" /\ Cleared(loc', c[1])
  <2>1. PICK s \in ReadySteps(loc') : c = Placeholder(s)
    OBVIOUS
  <2>2. s \in Step /\ IsPending(loc', s) /\ c[1] = s
    BY <2>1 DEF ReadySteps, Placeholder
  <2>3. loc'[Placeholder(s)].state = "pending"
    BY <1>4, <2>2, WaitingIsNotArmed
  <2>. QED  BY <1>2, <2>1, <2>2, <2>3
<1>. QED  BY <1>3, <1>5 DEF OInv, Order

-----------------------------------------------------------------------------
(* Spawns.                                                                 *)

\* Expanding a cleared step whose copies are all still to come.
LEMMA SpawnStepOrder ==
    ASSUME NEW rows, Orderly(rows), NEW s \in Step, Cleared(rows, s),
           NEW reused, NEW up, NEW sent,
           \A c \in Copies(s) : rows[c].state \in {"pending", "absent"}
    PROVE  /\ Orderly(SpawnStep(rows, s, reused, up, sent))
           /\ \A t \in Step : Cleared(rows, t) =>
                 Cleared(SpawnStep(rows, s, reused, up, sent), t)
<1>. DEFINE new == SpawnStep(rows, s, reused, up, sent)
<1>1. ASSUME NEW c \in Copy
      PROVE  /\ c[1] # s => new[c] = rows[c]
             /\ c[1] = s => new[c].state \in {"failed", "running"}
  BY AttemptNotPending DEF SpawnStep
<1>. HIDE DEF new
<1>2. \A c \in Copy : c[1] = s => c \in Copies(s)
  BY CopyFacts
<1>3. ASSUME NEW t \in Step, Cleared(rows, t) PROVE Cleared(new, t)
  <2>1. ASSUME NEW d \in Deps[t], DepSatisfied(rows, d) PROVE DepSatisfied(new, d)
    <3>1. d \in Step /\ Copies(d) \subseteq Copy /\ \A c \in Copies(d) : c[1] = d
      BY DepFacts, CopyFacts DEF Copies
    <3>2. d # s
      <4>1. SUFFICES ASSUME d = s PROVE FALSE
        OBVIOUS
      <4>2. \A c \in Copies(s) : rows[c].state # "succeeded"
        OBVIOUS
      <4>3. InState(rows, s, {"succeeded"}) = {}
        BY <4>2 DEF InState
      <4>4. CASE Quota[s] = 0
        BY <2>1, <4>1, <4>2, <4>4 DEF DepSatisfied, Present
      <4>5. CASE Quota[s] # 0
        <5>1. Cardinality(InState(rows, s, {"succeeded"})) = 0
          BY <4>3, FS_EmptySet
        <5>2. Quota[s] \in Nat
          BY DepFacts
        <5>3. Cardinality(InState(rows, s, {"succeeded"})) >= Quota[s]
          BY <2>1, <4>1, <4>5 DEF DepSatisfied
        <5>. QED  BY <4>5, <5>1, <5>2, <5>3
      <4>. QED  BY <4>4, <4>5
    <3>3. \A c \in Copies(d) : new[c] = rows[c]
      BY <1>1, <3>1, <3>2
    <3>. QED  BY <2>1, <3>1, <3>3, JoinLasts
  <2>2. \A c \in Copy : rows[c].state = "succeeded" => new[c].reply = rows[c].reply
    BY <1>1, <1>2
  <2>. QED  BY <1>3, <2>1, <2>2, ClearedLasts
<1>4. ASSUME NEW c \in Copy, new[c].attempts > 0 PROVE Cleared(new, c[1])
  <2>1. Cleared(rows, c[1])
    BY <1>1, <1>4 DEF Orderly
  <2>. QED  BY <1>3, <2>1, CopyFacts
<1>5. ASSUME NEW c \in Copy, NEW d \in Copy, new[c].state = "pending",
             c[1] = d[1], c # d
      PROVE  new[d].state = "absent"
  BY <1>1, <1>5 DEF Orderly
<1>6. Orderly(new)
  BY <1>4, <1>5 DEF Orderly
<1>. QED  BY <1>3, <1>6 DEF new

\* The step whose turn it is waits unexpanded and is cleared.
LEMMA SpawnTurn ==
    ASSUME OInv, pc = "spawn", todo # {}
    PROVE  LET s == First(todo)[1]
           IN  /\ s \in Step /\ Placeholder(s) \in Copy /\ Placeholder(s) \in todo
               /\ loc[Placeholder(s)].state = "pending"
               /\ Cleared(loc, s)
               /\ \A c \in Copies(s) : loc[c].state \in {"pending", "absent"}
<1>. DEFINE c == First(todo)
            s == c[1]
<1>1. c \in todo /\ c \in Copy /\ s \in Step
  BY FirstMember, CopyFacts DEF OInv, IInv, TypeOK
<1>2. c = Placeholder(s) /\ loc[c].state = "pending" /\ Cleared(loc, s)
  BY <1>1 DEF OInv, Order
<1>. HIDE DEF c
<1>3. ASSUME NEW d \in Copies(s) PROVE loc[d].state \in {"pending", "absent"}
  <2>1. d \in Copy /\ d[1] = s
    BY <1>1, CopyFacts DEF Copies
  <2>. QED  BY <1>1, <1>2, <2>1 DEF OInv, Order, Orderly
<1>. QED  BY <1>1, <1>2, <1>3 DEF c

LEMMA SpawnReadyOrder == ASSUME OInv, SpawnReady PROVE Order'
<1>. DEFINE s == First(todo)[1]
            reused == Reusable(loc, s, claimed)
<1>1. PICK up, sent : loc' = SpawnStep(loc, s, reused, up, sent)
  BY DEF SpawnReady
<1>2. /\ todo' = todo \ Copies(s) /\ pc = "spawn" /\ todo # {} /\ pc' = pc
      /\ UNCHANGED <<reg, launch, snap>>
  BY DEF SpawnReady
<1>3. /\ s \in Step /\ Cleared(loc, s)
      /\ \A c \in Copies(s) : loc[c].state \in {"pending", "absent"}
  BY <1>2, SpawnTurn
<1>. HIDE DEF s, reused
<1>4. Orderly(loc') /\ \A t \in Step : Cleared(loc, t) => Cleared(loc', t)
  BY <1>1, <1>3, SpawnStepOrder DEF OInv, Order
<1>5. ASSUME NEW c \in todo'
      PROVE  c = Placeholder(c[1]) /\ loc'[c].state = "pending" /\ Cleared(loc', c[1])
  <2>1. c \in todo /\ c \notin Copies(s) /\ c \in Copy /\ c[1] \in Step
    BY <1>2, CopyFacts DEF OInv, IInv, TypeOK
  <2>2. c = Placeholder(c[1]) /\ loc[c].state = "pending" /\ Cleared(loc, c[1])
    BY <1>2, <2>1 DEF OInv, Order
  <2>3. c[1] # s
    BY <2>1, CopyFacts
  <2>4. loc'[c] = loc[c]
    BY <1>1, <2>1, <2>3 DEF SpawnStep
  <2>. QED  BY <1>4, <2>1, <2>2, <2>4
<1>. QED  BY <1>2, <1>4, <1>5 DEF OInv, Order

LEMMA DeferStepOrder == ASSUME OInv, DeferStep PROVE Order'
<1>. DEFINE c == Placeholder(First(todo)[1])
            row == IF c \in over
                   THEN [loc[c] EXCEPT !.state = "failed", !.waiting = FALSE,
                                       !.attempts = 1]
                   ELSE [loc[c] EXCEPT !.waiting = TRUE]
<1>1. /\ loc' = [loc EXCEPT ![c] = row] /\ todo' = todo \ {c}
      /\ pc = "spawn" /\ todo # {} /\ pc' = pc /\ UNCHANGED <<reg, launch, snap>>
  BY DEF DeferStep
<1>2. /\ c \in Copy /\ loc[c].state = "pending" /\ Cleared(loc, c[1])
  BY <1>1, SpawnTurn DEF Placeholder
<1>3. loc \in Rows /\ loc[c] \in Row
  BY <1>2 DEF OInv, IInv, TypeOK, Rows
<1>. HIDE DEF c
<1>4. row \in Row
  BY <1>3 DEF Row, StepState
<1>. HIDE DEF row
<1>5. Orderly(loc') /\ \A s \in Step : Cleared(loc, s) => Cleared(loc', s)
  BY <1>1, <1>2, <1>3, <1>4, RowUpdateOrderly DEF OInv, Order
<1>6. ASSUME NEW d \in todo'
      PROVE  d = Placeholder(d[1]) /\ loc'[d].state = "pending" /\ Cleared(loc', d[1])
  <2>1. d \in todo /\ d # c /\ d \in Copy /\ d[1] \in Step
    BY <1>1, CopyFacts DEF OInv, IInv, TypeOK
  <2>2. d = Placeholder(d[1]) /\ loc[d].state = "pending" /\ Cleared(loc, d[1])
    BY <1>1, <2>1 DEF OInv, Order
  <2>3. loc'[d] = loc[d]
    BY <1>1, <1>3, <2>1 DEF Rows
  <2>. QED  BY <1>5, <2>1, <2>2, <2>3
<1>. QED  BY <1>1, <1>5, <1>6 DEF OInv, Order

LEMMA FinishOrder == ASSUME OInv, Finish PROVE Order'
<1>. DEFINE armed == ArmRetryBackoff(loc)
            rows == MarkEscalated(armed, Exhausted(armed))
            state == FinalizeState(rows)
<1>1. \/ reg' = reg
      \/ reg' = [reg EXCEPT ![cur] = [state |-> state, rows |-> rows]]
  BY DEF Finish
<1>2. pc' = "idle" /\ loc' = NoRows /\ UNCHANGED <<launch, snap>>
  BY DEF Finish
<1>3. Orderly(rows)
  <2>1. Sound(loc) /\ Orderly(loc)
    BY DEF OInv, IInv, SoundEverywhere, Order
  <2>2. Quiet(loc, armed) /\ Sound(armed)
    BY <2>1, ArmRetryBackoffQuiet, ArmRetryBackoffSound DEF Sound
  <2>. HIDE DEF armed
  <2>3. Quiet(armed, rows)
    BY <2>2, MarkEscalatedQuiet DEF Sound
  <2>. HIDE DEF rows
  <2>. QED  BY <2>1, <2>2, <2>3, QuietFacts, OnwardOrderly
<1>. HIDE DEF rows, state
<1>4. \A r \in Run : Orderly(reg'[r].rows)
  <2>1. DOMAIN reg = Run
    BY DEF OInv, IInv, TypeOK
  <2>2. \A r \in Run : reg'[r].rows \in {rows, reg[r].rows}
    BY ONLY <1>1, <2>1
  <2>. QED  BY <1>3, <2>2 DEF OInv, Order
<1>. QED  BY <1>2, <1>4, NoRowsOrderly DEF OInv, Order

-----------------------------------------------------------------------------
(* The command thread.                                                     *)

\* Of a launch only the roots are attempted, and these need no clearance.
LEMMA LaunchOrderly ==
    ASSUME NEW rows, \A c \in Copy : rows[c].attempts > 0 => c[1] \in RootSteps,
           \A c, d \in Copy : rows[c].state = "pending" /\ c[1] = d[1] /\ c # d
                              => rows[d].state = "absent"
    PROVE  Orderly(rows)
BY RootsCleared DEF Orderly

LEMMA LaunchBeginOrder == ASSUME OInv, NEW r \in Run, LaunchBegin(r) PROVE Order'
<1>. DEFINE rows == [c \in Copy |->
                IF c = Placeholder(c[1]) /\ c[1] \notin RootSteps
                THEN PendingRow ELSE NoRow]
<1>1. launch'.rows = rows /\ launch'.todo = {Placeholder(s) : s \in RootSteps}
  BY DEF LaunchBegin
<1>2. UNCHANGED <<reg, driver, snap>>
  BY DEF LaunchBegin
<1>3. \A c \in Copy : rows[c].attempts = 0
  BY DEF PendingRow, NoRow
<1>4. \A c \in Copy : rows[c].state = "pending" => c = Placeholder(c[1])
  BY DEF NoRow
<1>5. \A c \in Copy : c # Placeholder(c[1]) => rows[c].state = "absent"
  BY DEF NoRow
<1>6. Orderly(rows)
  BY <1>3, <1>4, <1>5 DEF Orderly
<1>7. ASSUME NEW c \in launch'.todo
      PROVE  /\ c = Placeholder(c[1]) /\ c[1] \in RootSteps
             /\ \A d \in Copies(c[1]) : rows[d].state = "absent"
  <2>1. PICK s \in RootSteps : c = Placeholder(s)
    BY <1>1, <1>7
  <2>2. s \in Step /\ c[1] = s
    BY <2>1 DEF RootSteps, Placeholder
  <2>3. \A d \in Copies(s) : d \in Copy /\ d[1] = s
    BY <2>2, CopyFacts DEF Copies
  <2>. QED  BY <2>1, <2>2, <2>3 DEF NoRow
<1>. HIDE DEF rows
<1>. QED  BY <1>1, <1>2, <1>3, <1>6, <1>7 DEF OInv, Order, driver

\* The root whose turn it is has no copy yet.
LEMMA LaunchTurn ==
    ASSUME OInv, launch.todo # {}
    PROVE  LET s == First(launch.todo)[1]
           IN  /\ s \in Step /\ s \in RootSteps /\ launch.rows \in Rows
               /\ launch \in LaunchType
               /\ \A d \in Copies(s) : launch.rows[d].state = "absent"
<1>1. launch \in LaunchType
  BY DEF OInv, IInv, TypeOK, LaunchType
<1>2. First(launch.todo) \in launch.todo
  BY <1>1, FirstMember DEF LaunchType
<1>. QED  BY <1>1, <1>2 DEF OInv, Order, RootSteps, LaunchType

LEMMA LaunchRootOrder == ASSUME OInv, LaunchRoot PROVE Order'
<1>. DEFINE s == First(launch.todo)[1]
            reused == Reusable(launch.rows, s, launch.claimed)
            needed == SlotsNeeded(launch.rows, s, launch.claimed)
<1>1. PICK up, sent : launch' = [launch EXCEPT
              !.rows = SpawnStep(launch.rows, s, reused, up, sent),
              !.todo = @ \ Copies(s), !.budget = @ - needed]
  BY DEF LaunchRoot
<1>2. launch.todo # {} /\ UNCHANGED <<reg, driver, snap>>
  BY DEF LaunchRoot
<1>3. /\ s \in Step /\ s \in RootSteps /\ launch \in LaunchType
      /\ \A d \in Copies(s) : launch.rows[d].state = "absent"
  BY <1>2, LaunchTurn
<1>. DEFINE rows == SpawnStep(launch.rows, s, reused, up, sent)
<1>4. launch'.rows = rows /\ launch'.todo = launch.todo \ Copies(s)
  BY <1>1, <1>3 DEF LaunchType
<1>. HIDE DEF s
<1>5. Orderly(rows)
  BY <1>3, RootsCleared, SpawnStepOrder DEF OInv, Order
<1>6. \A c \in Copy : c[1] # s => rows[c] = launch.rows[c]
  BY DEF SpawnStep
<1>. HIDE DEF rows
<1>7. \A c \in Copy : rows[c].attempts > 0 => c[1] \in RootSteps
  BY <1>3, <1>6 DEF OInv, Order
<1>8. ASSUME NEW c \in launch'.todo
      PROVE  /\ c = Placeholder(c[1]) /\ c[1] \in RootSteps
             /\ \A d \in Copies(c[1]) : rows[d].state = "absent"
  <2>1. c \in launch.todo /\ c \in Copy /\ c \notin Copies(s)
    BY <1>3, <1>4 DEF LaunchType
  <2>2. c[1] # s /\ c[1] \in Step
    BY <2>1, CopyFacts
  <2>3. \A d \in Copies(c[1]) : d \in Copy /\ d[1] = c[1]
    BY <2>2, CopyFacts DEF Copies
  <2>. QED  BY <1>6, <2>1, <2>2, <2>3 DEF OInv, Order
<1>. QED  BY <1>2, <1>4, <1>5, <1>7, <1>8 DEF OInv, Order, driver

LEMMA LaunchDeferredOrder == ASSUME OInv, LaunchDeferred PROVE Order'
<1>. DEFINE s == First(launch.todo)[1]
            c == Placeholder(s)
            row == [PendingRow EXCEPT !.waiting = TRUE]
            rows == [launch.rows EXCEPT ![c] = row]
<1>1. /\ launch' = [launch EXCEPT !.rows[c] = row, !.todo = @ \ {c}]
      /\ launch.todo # {} /\ UNCHANGED <<reg, driver, snap>>
  BY DEF LaunchDeferred
<1>2. /\ s \in Step /\ s \in RootSteps /\ launch \in LaunchType /\ launch.rows \in Rows
      /\ \A d \in Copies(s) : launch.rows[d].state = "absent"
  BY <1>1, LaunchTurn
<1>. HIDE DEF s
<1>3. c \in Copy /\ c[1] = s
  BY <1>2, CopyFacts DEF Placeholder
<1>4. row.attempts = 0
  BY DEF PendingRow, NoRow
<1>5. \A d \in Copy : rows[d] = IF d = c THEN row ELSE launch.rows[d]
  BY <1>2 DEF Rows
<1>6. launch'.rows = rows /\ launch'.todo = launch.todo \ {c}
  BY <1>1, <1>2 DEF LaunchType
<1>. HIDE DEF c, row, rows
<1>7. \A d \in Copy : rows[d].attempts > 0 => d[1] \in RootSteps
  BY <1>4, <1>5 DEF OInv, Order
<1>8. \A d, e \in Copy : rows[d].state = "pending" /\ d[1] = e[1] /\ d # e
                         => rows[e].state = "absent"
  <2>1. \A d \in Copy : d[1] = s => launch.rows[d].state = "absent"
    BY <1>2, CopyFacts
  <2>. QED  BY <1>3, <1>5, <2>1 DEF OInv, Order, Orderly
<1>9. Orderly(rows)
  BY <1>7, <1>8, LaunchOrderly
<1>10. ASSUME NEW d \in launch'.todo
       PROVE  /\ d = Placeholder(d[1]) /\ d[1] \in RootSteps
              /\ \A e \in Copies(d[1]) : rows[e].state = "absent"
  <2>1. d \in launch.todo /\ d \in Copy /\ d # c /\ d[1] \in Step
    BY <1>2, <1>6, CopyFacts DEF LaunchType
  <2>2. d = Placeholder(d[1])
    BY <2>1 DEF OInv, Order
  <2>3. d[1] # s
    BY <2>1, <2>2 DEF c
  <2>4. \A e \in Copies(d[1]) : e \in Copy /\ e # c
    BY <1>3, <2>1, <2>3, CopyFacts DEF Copies
  <2>. QED  BY <1>5, <2>1, <2>4 DEF OInv, Order
<1>. QED  BY <1>1, <1>6, <1>7, <1>9, <1>10 DEF OInv, Order, driver

LEMMA LaunchEndOrder == ASSUME OInv, LaunchEnd PROVE Order'
<1>1. PICK state : reg' = [reg EXCEPT ![launch.run] =
                              [state |-> state, rows |-> launch.rows]]
  BY DEF LaunchEnd
<1>2. /\ launch'.rows = NoRows /\ launch'.todo = {}
      /\ UNCHANGED <<driver, snap>>
  BY DEF LaunchEnd
<1>3. \A r \in Run : reg'[r].rows \in {launch.rows, reg[r].rows}
  BY <1>1 DEF OInv, IInv, TypeOK
<1>4. \A c \in Copy : NoRows[c].attempts = 0
  BY DEF NoRows, NoRow
<1>. QED  BY <1>2, <1>3, <1>4, NoRowsOrderly DEF OInv, Order, driver

LEMMA CancelReadOrder == ASSUME OInv, NEW r \in Run, CancelRead(r) PROVE Order'
<1>1. snap'.rows = reg[r].rows /\ UNCHANGED <<reg, driver, launch>>
  BY DEF CancelRead
<1>. QED  BY <1>1 DEF OInv, Order, driver

LEMMA CancelWriteOrder == ASSUME OInv, CancelWrite PROVE Order'
<1>. DEFINE ended == {c \in Copy : snap.rows[c].state = "running"}
                        \cup {c \in Copy : snap.rows[c].state = "pending"}
            rows == [c \in Copy |->
                        IF c \in ended
                        THEN [snap.rows[c] EXCEPT !.state = "cancelled",
                                                  !.waiting = FALSE]
                        ELSE snap.rows[c]]
<1>1. /\ reg' = [reg EXCEPT ![snap.run] = [state |-> "cancelled", rows |-> rows]]
      /\ snap'.rows = NoRows /\ UNCHANGED <<driver, launch>>
  BY DEF CancelWrite
<1>2. ASSUME NEW c \in Copy
      PROVE  \/ rows[c] = snap.rows[c]
             \/ /\ snap.rows[c].state \in {"running", "pending"}
                /\ rows[c] = [snap.rows[c] EXCEPT !.state = "cancelled",
                                                  !.waiting = FALSE]
  OBVIOUS
<1>3. \A c \in Copy : snap.rows[c] \in Row
  BY DEF OInv, IInv, TypeOK, Rows
<1>. HIDE DEF rows
<1>4. Onward(snap.rows, rows)
  BY <1>2, <1>3 DEF Onward, Row
<1>5. Orderly(rows)
  BY <1>4, OnwardOrderly DEF OInv, Order
<1>6. \A r \in Run : reg'[r].rows \in {rows, reg[r].rows}
  BY <1>1 DEF OInv, IInv, TypeOK
<1>. QED  BY <1>1, <1>5, <1>6, NoRowsOrderly DEF OInv, Order, driver

LEMMA EnvironmentOrder == ASSUME OInv, Environment PROVE Order'
<1>1. UNCHANGED <<reg, driver, launch, snap>>
  BY DEF Environment, Exit, Reap, AgentStatus, ClosePane, RestartPane, Reply, OpenPane
<1>. QED  BY <1>1 DEF OInv, Order, driver

-----------------------------------------------------------------------------
(* The theorem.                                                            *)

LEMMA NextOrder == OInv /\ [Next]_vars => Order'
<1>. SUFFICES ASSUME OInv, [Next]_vars PROVE Order'
  OBVIOUS
<1>1. ASSUME NEW r \in Run, Tick(r) \/ LaunchBegin(r) \/ CancelRead(r) PROVE Order'
  BY <1>1, TickOrder, LaunchBeginOrder, CancelReadOrder
<1>2. CASE DriverStep
  BY <1>2, DetectReplyCompletionsOrder, DetectCompletionsOrder, CheckTimeoutsOrder,
     CancelStragglersOrder, FireDueRetriesOrder, RestartInPlaceOrder,
     RespawnFreshOrder, PostponeRetryOrder, DecidePassesOrder, SpawnReadyOrder,
     DeferStepOrder, FinishOrder DEF DriverStep
<1>3. CASE LaunchRoot \/ LaunchDeferred \/ LaunchEnd
  BY <1>3, LaunchRootOrder, LaunchDeferredOrder, LaunchEndOrder
<1>4. CASE CancelWrite
  BY <1>4, CancelWriteOrder
<1>5. CASE Environment
  BY <1>5, EnvironmentOrder
<1>6. CASE UNCHANGED vars
  BY <1>6, StutterOrder DEF OInv
<1>. QED  BY <1>1, <1>2, <1>3, <1>4, <1>5, <1>6 DEF Next

\* For every workflow, whatever the order of replies, exits, timeouts, retries,
\* launches and cancels: no step is attempted before every dependency's join is
\* satisfied (deps_satisfied, ready_steps) and, for a condition step, before the
\* upstream reply matched (condition_targets), in the registry and in every
\* clone that may be put back.
THEOREM StepsInOrder == Spec => []NoEarlyStart
<1>1. Init => Order
  BY InitOrder
<1>2. IInv /\ Order /\ [Next]_vars => Order'
  BY NextOrder DEF OInv
<1>3. Order => NoEarlyStart
  BY DEF Order, Orderly, Cleared, NoEarlyStart, Clones
<1>. QED  BY <1>1, <1>2, <1>3, Invariant, PTL DEF Spec

-----------------------------------------------------------------------------
(* What is told of a run, and how its rows advance.  A tick works on a     *)
(* clone, so what has been told of the run is what the clone says has been *)
(* told (Counts), and an escalated row never fails anew: it is out of      *)
(* retries (Calm), and attempts only grow.                                 *)

Unborn == {"absent", "pending"}

\* RowsAdvance, of one row.
Forth(old, new) ==
    /\ new.attempts >= old.attempts
    /\ old.state \in {"succeeded", "skipped", "cancelled"} => new.state = old.state
    /\ old.armed /\ ~new.armed
          => new.attempts > old.attempts \/ new.state = "cancelled"

\* What a pass does to a row, and to the rows of its clone.
Moves(old, new) ==
    /\ Forth(old, new)
    /\ new.escalated = old.escalated
    /\ new.state \in Unborn => old.state \in Unborn /\ new.attempts = old.attempts

Advances(old, new) == \A c \in Copy : Moves(old[c], new[c])

Calm(rows) ==
    \A c \in Copy :
        /\ rows[c].escalated => rows[c].attempts > RetryMax[c[1]]
        /\ rows[c].state \in Unborn => rows[c].attempts = 0

Counts(r, rows) ==
    /\ notified[r][RunItself] = 0
    /\ \A c \in Copy : notified[r][c] = IF rows[c].escalated THEN 1 ELSE 0

\* A run is launched once, while the registry does not have it, and while it is
\* ticked nobody but a cancel writes it.
Told ==
    /\ \A r \in Run : Calm(reg[r].rows)
    /\ Calm(loc) /\ Calm(launch.rows) /\ Calm(snap.rows)
    /\ \A c \in Copy : ~launch.rows[c].escalated
    /\ launch.run # NoRun => reg[launch.run].state = "absent"
    /\ snap.run # NoRun => reg[snap.run].state # "absent"
    /\ pc # "idle" => reg[cur].state \in {"running", "cancelled"} /\ Counts(cur, loc)
    /\ \A r \in Run : reg[r].state = "absent" =>
           reg[r].rows = NoRows /\ \A x \in DOMAIN notified[r] : notified[r][x] = 0
    /\ \A r \in Run : reg[r].state = "running" => Counts(r, reg[r].rows)
    /\ ToldOnce

TInv == OInv /\ Told

LEMMA RowFacts ==
    ASSUME OInv
    PROVE  /\ loc \in Rows /\ launch.rows \in Rows /\ snap.rows \in Rows
           /\ \A r \in Run : reg[r].rows \in Rows
           /\ \A c \in Copy : loc[c] \in Row /\ RowWithinBudget(c[1], loc[c])
<1>1. Sound(loc) /\ Sound(launch.rows) /\ Sound(snap.rows)
      /\ \A r \in Run : Sound(reg[r].rows)
  BY DEF OInv, IInv, SoundEverywhere
<1>. QED  BY <1>1 DEF Sound, Rows

LEMMA NumberFacts ==
    /\ \A c \in Copy : RetryMax[c[1]] \in Nat
    /\ \A rows \in Rows : \A c \in Copy :
           rows[c] \in Row /\ rows[c].attempts \in Nat
    /\ RunItself \notin Copy
<1>1. \A c \in Copy : RetryMax[c[1]] \in Nat
  BY CopyFacts, StepFacts
<1>2. \A rows \in Rows : \A c \in Copy : rows[c] \in Row /\ rows[c].attempts \in Nat
  BY DEF Rows, Row
<1>3. RunItself \notin Copy
  <2>1. 0 \notin Step
    BY WorkflowAssumption DEF WorkflowAssumption, ValidWorkflow, Step
  <2>. QED  BY <2>1, CopyFacts DEF RunItself
<1>. QED  BY <1>1, <1>2, <1>3

LEMMA ForthTransitive ==
    ASSUME NEW a \in Row, NEW b \in Row, NEW c \in Row, Forth(a, b), Forth(b, c)
    PROVE  Forth(a, c)
BY DEF Forth, Row

LEMMA ForthReflexive ==
    ASSUME NEW a \in Row PROVE Forth(a, a)
BY DEF Forth, Row

LEMMA MovesReflexive ==
    ASSUME NEW a \in Row PROVE Moves(a, a)
BY DEF Moves, Forth, Row

LEMMA AttemptRowFacts ==
    ASSUME NEW s, NEW p, NEW thread, NEW n, NEW e
    PROVE  LET row == AttemptRow(s, p, thread, n)
           IN  /\ row.state \in {"failed", "running"} /\ row.attempts = n
               /\ ~row.armed /\ ~row.escalated
               /\ [row EXCEPT !.escalated = e].state = row.state
               /\ [row EXCEPT !.escalated = e].attempts = n
               /\ ~[row EXCEPT !.escalated = e].armed
               /\ [row EXCEPT !.escalated = e].escalated = e
BY DEF AttemptRow, NoRow

\* What has been out of retries stays so.
LEMMA CalmLasts ==
    ASSUME NEW old \in Rows, NEW new \in Rows, Calm(old), Advances(old, new)
    PROVE  Calm(new)
<1>1. ASSUME NEW c \in Copy
      PROVE  /\ new[c].escalated => new[c].attempts > RetryMax[c[1]]
             /\ new[c].state \in Unborn => new[c].attempts = 0
  <2>1. /\ old[c].attempts \in Nat /\ new[c].attempts \in Nat
        /\ RetryMax[c[1]] \in Nat
    BY NumberFacts
  <2>2. /\ old[c].escalated => old[c].attempts > RetryMax[c[1]]
        /\ old[c].state \in Unborn => old[c].attempts = 0
    BY DEF Calm
  <2>3. /\ new[c].attempts >= old[c].attempts
        /\ new[c].escalated = old[c].escalated
        /\ new[c].state \in Unborn
              => old[c].state \in Unborn /\ new[c].attempts = old[c].attempts
    BY DEF Advances, Moves, Forth
  <2>. QED  BY <2>1, <2>2, <2>3
<1>. QED  BY <1>1 DEF Calm

-----------------------------------------------------------------------------
(* The passes of a tick.                                                   *)

\* A row that runs is given a result, one that has failed is cancelled, and only
\* a join that is satisfied cancels.
Judges(old, new) ==
    \A c \in Copy :
        \/ new[c] = old[c]
        \/ /\ new[c].attempts = old[c].attempts
           /\ new[c].escalated = old[c].escalated
           /\ new[c].state = "cancelled" => DepSatisfied(old, c[1])
           /\ \/ /\ old[c].state = "running"
                 /\ new[c].state \in {"running", "succeeded", "failed", "cancelled"}
              \/ old[c].state = "failed" /\ new[c].state = "cancelled"

LEMMA JudgesAdvances == ASSUME TInv, Judges(loc, loc') PROVE Advances(loc, loc')
<1>1. ASSUME NEW c \in Copy PROVE Moves(loc[c], loc'[c])
  <2>1. loc[c] \in Row /\ RowWithinBudget(c[1], loc[c])
    BY RowFacts DEF TInv
  <2>2. CASE loc'[c] = loc[c]
    BY <2>1, <2>2, MovesReflexive
  <2>3. CASE loc'[c] # loc[c]
    <3>1. loc[c].attempts \in Nat
      BY <2>1, NumberFacts DEF Row
    <3>2. /\ loc'[c].attempts = loc[c].attempts
          /\ loc'[c].escalated = loc[c].escalated
          /\ \/ /\ loc[c].state = "running"
                /\ loc'[c].state \in {"running", "succeeded", "failed", "cancelled"}
             \/ loc[c].state = "failed" /\ loc'[c].state = "cancelled"
      BY <2>3 DEF Judges
    <3>3. loc[c].state = "running" => ~loc[c].armed
      BY <2>1 DEF RowWithinBudget
    <3>. QED  BY ONLY <3>1, <3>2, <3>3 DEF Moves, Forth, Unborn
  <2>. QED  BY <2>2, <2>3
<1>. QED  BY <1>1 DEF Advances

LEMMA DetectReplyCompletionsJudges ==
    ASSUME TInv, DetectReplyCompletions PROVE Judges(loc, loc')
<1>. USE DEF DetectReplyCompletions
<1>1. ASSUME NEW c \in Copy
      PROVE  \/ loc'[c] = loc[c]
             \/ /\ loc[c].state = "running"
                /\ \E body : loc'[c] \in
                      {[loc[c] EXCEPT !.state = "succeeded", !.reply = body, !.armed = FALSE],
                       [loc[c] EXCEPT !.reply = body]}
  OBVIOUS
<1>2. \A c \in Copy : loc[c] \in Row
  BY RowFacts DEF TInv
<1>3. ASSUME NEW c \in Copy, loc'[c] # loc[c]
      PROVE  /\ loc[c].state = "running" /\ loc'[c].state \in {"running", "succeeded"}
             /\ loc'[c].attempts = loc[c].attempts
             /\ loc'[c].escalated = loc[c].escalated
  <2>1. PICK body : loc'[c] \in
           {[loc[c] EXCEPT !.state = "succeeded", !.reply = body, !.armed = FALSE],
            [loc[c] EXCEPT !.reply = body]}
    BY ONLY <1>1, <1>3
  <2>2. loc[c].state = "running"
    BY ONLY <1>1, <1>3
  <2>3. loc[c] \in Row
    BY ONLY <1>2
  <2>. QED  BY ONLY <2>1, <2>2, <2>3 DEF Row
<1>. QED  BY ONLY <1>3 DEF Judges

LEMMA DetectCompletionsJudges ==
    ASSUME TInv, DetectCompletions PROVE Judges(loc, loc')
<1>. USE DEF DetectCompletions
<1>1. ASSUME NEW c \in Copy
      PROVE  \/ loc'[c] = loc[c]
             \/ /\ loc[c].state = "running"
                /\ loc'[c] \in {[loc[c] EXCEPT !.state = "succeeded"],
                                [loc[c] EXCEPT !.state = "failed"]}
  OBVIOUS
<1>2. \A c \in Copy : loc[c] \in Row
  BY RowFacts DEF TInv
<1>. QED  BY ONLY <1>1, <1>2 DEF Judges, Row

LEMMA CheckTimeoutsJudges == ASSUME TInv, CheckTimeouts PROVE Judges(loc, loc')
<1>. USE DEF CheckTimeouts
<1>1. ASSUME NEW c \in Copy
      PROVE  \/ loc'[c] = loc[c]
             \/ /\ loc[c].state = "running"
                /\ loc'[c] = [loc[c] EXCEPT !.state = "failed", !.session = 0]
  OBVIOUS
<1>2. \A c \in Copy : loc[c] \in Row
  BY RowFacts DEF TInv
<1>. QED  BY ONLY <1>1, <1>2 DEF Judges, Row

LEMMA CancelStragglersJudges ==
    ASSUME TInv, CancelStragglers PROVE Judges(loc, loc')
<1>. DEFINE Stopped(c) == [loc[c] EXCEPT !.state = "cancelled", !.armed = FALSE,
                              !.waiting = FALSE,
                              !.session = IF loc[c].state = "running" THEN 0 ELSE @]
<1>1. ASSUME NEW c \in Copy
      PROVE  \/ loc'[c] = loc[c]
             \/ /\ loc[c].state \in {"running", "failed"} /\ loc'[c] = Stopped(c)
                /\ DepSatisfied(loc, c[1])
  BY DEF CancelStragglers
<1>2. ASSUME NEW c \in Copy
      PROVE  /\ Stopped(c).attempts = loc[c].attempts
             /\ Stopped(c).escalated = loc[c].escalated
             /\ Stopped(c).state = "cancelled"
  <2>1. loc[c] \in Row
    BY RowFacts DEF TInv
  <2>. QED  BY ONLY <2>1 DEF Row
<1>. HIDE DEF Stopped
<1>. QED  BY ONLY <1>1, <1>2 DEF Judges

\* A retry replaces a failed row, whose attempts are spent one by one.
Retries(old, new) ==
    \E c \in Copy :
        /\ old[c].state = "failed" /\ old[c].armed
        /\ new[c].state \in {"failed", "running"}
        /\ new[c].escalated = old[c].escalated
        /\ \/ new[c].attempts = old[c].attempts + 1
           \/ new[c].attempts = old[c].attempts /\ new[c].armed = old[c].armed
        /\ \A d \in Copy : d # c => new[d] = old[d]

LEMMA RetriesOne ==
    ASSUME TInv, NEW c \in Copy, NEW row, loc' = [loc EXCEPT ![c] = row],
           loc[c].state = "failed", loc[c].armed,
           row.state \in {"failed", "running"},
           row.escalated = loc[c].escalated,
           \/ row.attempts = loc[c].attempts + 1
           \/ row.attempts = loc[c].attempts /\ row.armed = loc[c].armed
    PROVE  Retries(loc, loc')
<1>1. loc \in Rows
  BY RowFacts DEF TInv
<1>2. \A d \in Copy : loc'[d] = IF d = c THEN row ELSE loc[d]
  BY <1>1 DEF Rows
<1>3. loc'[c] = row /\ \A d \in Copy : d # c => loc'[d] = loc[d]
  BY <1>2
<1>4. /\ loc'[c].state \in {"failed", "running"}
      /\ loc'[c].escalated = loc[c].escalated
      /\ \/ loc'[c].attempts = loc[c].attempts + 1
         \/ loc'[c].attempts = loc[c].attempts /\ loc'[c].armed = loc[c].armed
  BY <1>3
<1>. QED  BY <1>3, <1>4 DEF Retries

LEMMA RetriesAdvances == ASSUME TInv, Retries(loc, loc') PROVE Advances(loc, loc')
<1>1. \A d \in Copy : loc[d] \in Row /\ loc[d].attempts \in Nat
  BY RowFacts, NumberFacts DEF TInv
<1>2. PICK c \in Copy :
        /\ loc[c].state = "failed" /\ loc[c].armed
        /\ loc'[c].state \in {"failed", "running"}
        /\ loc'[c].escalated = loc[c].escalated
        /\ \/ loc'[c].attempts = loc[c].attempts + 1
           \/ loc'[c].attempts = loc[c].attempts /\ loc'[c].armed = loc[c].armed
        /\ \A d \in Copy : d # c => loc'[d] = loc[d]
  BY DEF Retries
<1>3. ASSUME NEW d \in Copy, d # c
      PROVE  Moves(loc[d], loc'[d])
  BY <1>1, <1>2, <1>3, MovesReflexive
<1>4. Moves(loc[c], loc'[c])
  <2>1. loc[c].attempts \in Nat
    BY <1>1
  <2>2. /\ loc[c].state = "failed" /\ loc[c].armed
        /\ loc'[c].state \in {"failed", "running"}
        /\ loc'[c].escalated = loc[c].escalated
    BY <1>2
  <2>3. \/ loc'[c].attempts = loc[c].attempts + 1
        \/ loc'[c].attempts = loc[c].attempts /\ loc'[c].armed = loc[c].armed
    BY <1>2
  <2>4. loc'[c].attempts >= loc[c].attempts
    BY ONLY <2>1, <2>3
  <2>5. ~loc'[c].armed => loc'[c].attempts > loc[c].attempts
    <3>1. loc'[c].attempts = loc[c].attempts + 1 => loc'[c].attempts > loc[c].attempts
      BY ONLY <2>1
    <3>2. loc'[c].armed = loc[c].armed => loc'[c].armed
      BY ONLY <2>2
    <3>. QED  BY ONLY <2>3, <3>1, <3>2
  <2>6. /\ loc[c].state \notin {"succeeded", "skipped", "cancelled"}
        /\ loc'[c].state \notin Unborn
    BY ONLY <2>2 DEF Unborn
  <2>. QED  BY ONLY <2>2, <2>4, <2>5, <2>6 DEF Moves, Forth
<1>. QED  BY <1>3, <1>4 DEF Advances

LEMMA RestartInPlaceRetries ==
    ASSUME TInv, RestartInPlace PROVE Retries(loc, loc')
<1>. DEFINE c == First(todo)
<1>1. PICK sent : loc' = [loc EXCEPT ![c] =
                     [AttemptRow(c[1], loc[c].session, c[1] \in Kickoff /\ c \in sent,
                                 loc[c].attempts + 1)
                      EXCEPT !.escalated = loc[c].escalated]]
  BY DEF RestartInPlace
<1>2. c \in Copy /\ loc[c].state = "failed" /\ loc[c].armed
  BY RetryTurn DEF TInv, OInv, RestartInPlace
<1>. DEFINE row == AttemptRow(c[1], loc[c].session, c[1] \in Kickoff /\ c \in sent,
                              loc[c].attempts + 1)
            kept == [row EXCEPT !.escalated = loc[c].escalated]
<1>3. /\ kept.state \in {"failed", "running"} /\ kept.attempts = loc[c].attempts + 1
      /\ kept.escalated = loc[c].escalated
  BY AttemptRowFacts
<1>4. loc' = [loc EXCEPT ![c] = kept]
  BY <1>1
<1>. HIDE DEF c, kept
<1>. QED  BY <1>2, <1>3, <1>4, RetriesOne

\* A retry that is due has not been escalated.
LEMMA RetryNotTold ==
    ASSUME TInv, pc = "retry", todo # {}
    PROVE  ~loc[First(todo)].escalated
<1>. DEFINE c == First(todo)
<1>1. /\ c \in Copy /\ loc[c] \in Row /\ loc[c].armed
  BY RetryTurn DEF TInv, OInv
<1>. HIDE DEF c
<1>2. loc[c].attempts <= RetryMax[c[1]]
  BY <1>1, RowFacts DEF TInv, RowWithinBudget
<1>3. loc[c].escalated => loc[c].attempts > RetryMax[c[1]]
  BY <1>1 DEF TInv, Told, Calm
<1>4. RetryMax[c[1]] \in Nat /\ loc[c].attempts \in Nat
  BY <1>1, NumberFacts DEF Row
<1>5. ~loc[c].escalated
  BY <1>2, <1>3, <1>4
<1>. QED  BY <1>5 DEF c

LEMMA RespawnFreshRetries ==
    ASSUME TInv, RespawnFresh PROVE Retries(loc, loc')
<1>. DEFINE c == First(todo)
<1>1. PICK up, sent : loc' = [loc EXCEPT ![c] =
                        AttemptRow(c[1], PaneFor(c, 0, up), c[1] \in Kickoff /\ c \in sent,
                                   loc[c].attempts + 1)]
  BY DEF RespawnFresh
<1>2. c \in Copy /\ loc[c].state = "failed" /\ loc[c].armed /\ loc[c] \in Row
  BY RetryTurn DEF TInv, OInv, RespawnFresh
<1>. DEFINE row == AttemptRow(c[1], PaneFor(c, 0, up), c[1] \in Kickoff /\ c \in sent,
                              loc[c].attempts + 1)
<1>3. /\ row.state \in {"failed", "running"} /\ row.attempts = loc[c].attempts + 1
      /\ ~row.escalated /\ row.escalated \in BOOLEAN
  BY AttemptRowFacts DEF AttemptRow, NoRow
<1>4. ~loc[c].escalated /\ loc[c].escalated \in BOOLEAN
  BY <1>2, RetryNotTold DEF RespawnFresh, Row
<1>5. loc' = [loc EXCEPT ![c] = row]
  BY <1>1
<1>. HIDE DEF c, row
<1>6. row.escalated = loc[c].escalated
  BY <1>3, <1>4
<1>. QED  BY <1>2, <1>3, <1>5, <1>6, RetriesOne

LEMMA PostponeRetryRetries ==
    ASSUME TInv, PostponeRetry PROVE Retries(loc, loc')
<1>. DEFINE c == First(todo)
            row == IF c \in over
                   THEN [loc[c] EXCEPT !.armed = FALSE, !.waiting = FALSE,
                                       !.attempts = @ + 1]
                   ELSE [loc[c] EXCEPT !.waiting = TRUE]
<1>1. loc' = [loc EXCEPT ![c] = row]
  BY DEF PostponeRetry
<1>2. c \in Copy /\ loc[c].state = "failed" /\ loc[c].armed /\ loc[c] \in Row
  BY RetryTurn DEF TInv, OInv, PostponeRetry
<1>. HIDE DEF c
<1>3. /\ row.state = "failed" /\ row.escalated = loc[c].escalated
      /\ \/ row.attempts = loc[c].attempts + 1
         \/ row.attempts = loc[c].attempts /\ row.armed = loc[c].armed
  BY <1>2 DEF Row
<1>. HIDE DEF row
<1>. QED  BY <1>1, <1>2, <1>3, RetriesOne

-----------------------------------------------------------------------------
(* Decisions and spawns.                                                   *)

LEMMA ArmAdvances ==
    ASSUME NEW rows \in Rows PROVE Advances(rows, ArmRetryBackoff(rows))
<1>1. ASSUME NEW c \in Copy
      PROVE  \/ ArmRetryBackoff(rows)[c] = rows[c]
             \/ ArmRetryBackoff(rows)[c] = [rows[c] EXCEPT !.armed = TRUE]
  BY DEF ArmRetryBackoff
<1>2. ASSUME NEW c \in Copy PROVE Moves(rows[c], ArmRetryBackoff(rows)[c])
  <2>1. rows[c] \in Row
    BY DEF Rows
  <2>2. CASE ArmRetryBackoff(rows)[c] = [rows[c] EXCEPT !.armed = TRUE]
    BY <2>1, <2>2 DEF Moves, Forth, Row
  <2>. QED  BY <1>1, <2>1, <2>2, MovesReflexive
<1>. QED  BY <1>2 DEF Advances

LEMMA SetStepStateAdvances ==
    ASSUME NEW rows \in Rows, NEW steps, NEW state \in {"skipped", "failed"},
           \A s \in steps \cap Step : rows[Placeholder(s)].state = "pending"
    PROVE  Advances(rows, SetStepState(rows, steps, state))
<1>. DEFINE new == SetStepState(rows, steps, state)
<1>1. ASSUME NEW c \in Copy
      PROVE  \/ new[c] = rows[c]
             \/ /\ rows[c].state = "pending"
                /\ new[c] = [rows[c] EXCEPT !.state = state, !.waiting = FALSE]
  BY CopyFacts DEF SetStepState
<1>2. \A c \in Copy : rows[c] \in Row
  BY DEF Rows
<1>. HIDE DEF new
<1>3. ASSUME NEW c \in Copy PROVE Moves(rows[c], new[c])
  <2>1. CASE /\ rows[c].state = "pending"
             /\ new[c] = [rows[c] EXCEPT !.state = state, !.waiting = FALSE]
    BY <1>2, <2>1 DEF Moves, Forth, Unborn, Row
  <2>. QED  BY <1>1, <1>2, <2>1, MovesReflexive
<1>. QED  BY <1>3 DEF Advances, new

LEMMA AdvancesTransitive ==
    ASSUME NEW a \in Rows, NEW b \in Rows, NEW c \in Rows, Advances(a, b), Advances(b, c)
    PROVE  Advances(a, c)
<1>1. \A d \in Copy : a[d] \in Row /\ b[d] \in Row /\ c[d] \in Row
  BY NumberFacts
<1>2. \A d \in Copy : Forth(a[d], c[d])
  BY <1>1, ForthTransitive DEF Advances, Moves
<1>. QED  BY <1>2 DEF Advances, Moves

\* The steps that are decided wait, and none is decided twice.
LEMMA DecidedWait ==
    ASSUME NEW rows, Sound(rows)
    PROVE  LET a == ArmRetryBackoff(rows)
               b == SetStepState(a, ConditionTargets(a, "other"), "skipped")
               c == SetStepState(b, ConditionTargets(a, "none"), "failed")
           IN  /\ Sound(a) /\ Sound(b) /\ Sound(c)
               /\ \A s \in ConditionTargets(a, "other") \cap Step :
                     a[Placeholder(s)].state = "pending"
               /\ \A s \in ConditionTargets(a, "none") \cap Step :
                     b[Placeholder(s)].state = "pending"
               /\ \A s \in FailfastTargets(c) \cap Step :
                     c[Placeholder(s)].state = "pending"
<1>. DEFINE a == ArmRetryBackoff(rows)
            b == SetStepState(a, ConditionTargets(a, "other"), "skipped")
            c == SetStepState(b, ConditionTargets(a, "none"), "failed")
<1>1. Sound(a)
  BY ArmRetryBackoffSound
<1>2. \A body : \A s \in ConditionTargets(a, body) \cap Step :
          a[Placeholder(s)].state = "pending" /\ ~a[Placeholder(s)].armed
  BY <1>1, WaitingIsNotArmed DEF ConditionTargets
<1>3. Sound(b) /\ \A e \in Copy : b[e].armed = a[e].armed
  <2>. HIDE DEF a
  <2>. QED  BY <1>1, <1>2, SetStepStateSound
<1>4. ASSUME NEW s \in ConditionTargets(a, "none") \cap Step
      PROVE  b[Placeholder(s)].state = "pending" /\ ~b[Placeholder(s)].armed
  <2>1. s \notin ConditionTargets(a, "other")
    <3>1. s \in Condition /\ (\E e \in Deps[s] : a[Placeholder(e)].reply = "none")
      BY <1>4 DEF ConditionTargets
    <3>2. PICK e \in Step : Deps[s] = {e}
      BY <3>1, WorkflowAssumption DEF WorkflowAssumption, ValidWorkflow
    <3>3. a[Placeholder(e)].reply = "none"
      BY <3>1, <3>2
    <3>. HIDE DEF a
    <3>. QED  BY <3>2, <3>3 DEF ConditionTargets
  <2>2. Placeholder(s) \in Copy /\ Placeholder(s)[1] = s
    BY <1>4, CopyFacts DEF Placeholder
  <2>3. b[Placeholder(s)] = a[Placeholder(s)]
    <3>. HIDE DEF a
    <3>. QED  BY <2>1, <2>2 DEF SetStepState
  <2>. QED  BY <1>2, <1>4, <2>3
<1>5. Sound(c)
  <2>. HIDE DEF a, b
  <2>. QED  BY <1>3, <1>4, SetStepStateSound
<1>6. \A s \in FailfastTargets(c) \cap Step : c[Placeholder(s)].state = "pending"
  BY <1>5, WaitingIsNotArmed DEF FailfastTargets
<1>. HIDE DEF a, b, c
<1>7. /\ Sound(a) /\ Sound(b) /\ Sound(c)
      /\ \A s \in ConditionTargets(a, "other") \cap Step : a[Placeholder(s)].state = "pending"
      /\ \A s \in ConditionTargets(a, "none") \cap Step : b[Placeholder(s)].state = "pending"
      /\ \A s \in FailfastTargets(c) \cap Step : c[Placeholder(s)].state = "pending"
  BY <1>1, <1>2, <1>3, <1>4, <1>5, <1>6
<1>. QED  BY <1>7 DEF a, b, c

LEMMA DecideAdvances ==
    ASSUME NEW rows, Sound(rows)
    PROVE  Advances(rows, Decide(rows))
<1>. DEFINE a == ArmRetryBackoff(rows)
            b == SetStepState(a, ConditionTargets(a, "other"), "skipped")
            c == SetStepState(b, ConditionTargets(a, "none"), "failed")
            d == SetStepState(c, FailfastTargets(c), "skipped")
<1>1. /\ Sound(a) /\ Sound(b) /\ Sound(c)
      /\ \A s \in ConditionTargets(a, "other") \cap Step : a[Placeholder(s)].state = "pending"
      /\ \A s \in ConditionTargets(a, "none") \cap Step : b[Placeholder(s)].state = "pending"
      /\ \A s \in FailfastTargets(c) \cap Step : c[Placeholder(s)].state = "pending"
  BY DecidedWait
<1>2. Decide(rows) = d
  BY DEF Decide, Failfast, ApplyConditions
<1>3. Sound(d)
  BY <1>2, DecideSound
<1>4. Advances(rows, a)
  BY ArmAdvances DEF Sound
<1>5. Advances(a, b)
  <2>. HIDE DEF a
  <2>. QED  BY <1>1, SetStepStateAdvances DEF Sound
<1>6. Advances(b, c)
  <2>. HIDE DEF a, b
  <2>. QED  BY <1>1, SetStepStateAdvances DEF Sound
<1>7. Advances(c, d)
  <2>. HIDE DEF c
  <2>. QED  BY <1>1, SetStepStateAdvances DEF Sound
<1>8. rows \in Rows /\ a \in Rows /\ b \in Rows /\ c \in Rows /\ d \in Rows
  BY <1>1, <1>3 DEF Sound
<1>. HIDE DEF a, b, c, d
<1>9. Advances(rows, d)
  BY <1>4, <1>5, <1>6, <1>7, <1>8, AdvancesTransitive
<1>. QED  BY <1>2, <1>9

LEMMA DecidePassesAdvances == ASSUME TInv, DecidePasses PROVE Advances(loc, loc')
<1>1. Sound(loc) /\ loc' = Decide(loc)
  BY DEF TInv, OInv, IInv, SoundEverywhere, DecidePasses
<1>. QED  BY <1>1, DecideAdvances

\* A step is spawned over rows that were never attempted and never told of.
LEMMA SpawnAdvances ==
    ASSUME NEW rows \in Rows, Calm(rows), NEW s \in Step, NEW reused, NEW up, NEW sent,
           \A c \in Copies(s) : rows[c].state \in Unborn /\ ~rows[c].armed
    PROVE  Advances(rows, SpawnStep(rows, s, reused, up, sent))
<1>. DEFINE new == SpawnStep(rows, s, reused, up, sent)
<1>1. ASSUME NEW c \in Copy, c[1] = s PROVE Moves(rows[c], new[c])
  <2>1. c \in Copies(s) /\ rows[c] \in Row
    BY <1>1, CopyFacts, NumberFacts
  <2>2. /\ rows[c].state \in Unborn /\ ~rows[c].armed /\ rows[c].attempts = 0
        /\ RetryMax[c[1]] \in Nat /\ rows[c].escalated \in BOOLEAN
        /\ rows[c].escalated => rows[c].attempts > RetryMax[c[1]]
    BY <1>1, <2>1, NumberFacts DEF Calm, Row
  <2>3. ~rows[c].escalated
    BY <2>2
  <2>. DEFINE thread == s \in Kickoff /\ c \in sent
  <2>4. new[c] = AttemptRow(s, PaneFor(c, reused, up), thread, 1)
    BY <1>1 DEF SpawnStep
  <2>5. /\ new[c].state \in {"failed", "running"} /\ new[c].attempts = 1
        /\ new[c].escalated = FALSE
    BY <2>4 DEF AttemptRow, NoRow
  <2>. HIDE DEF new
  <2>6. rows[c].escalated = FALSE
    BY <2>2, <2>3
  <2>7. Forth(rows[c], new[c])
    <3>1. new[c].attempts >= rows[c].attempts
      BY ONLY <2>2, <2>5
    <3>. QED  BY ONLY <2>2, <2>5, <3>1 DEF Forth, Unborn
  <2>. QED  BY ONLY <2>5, <2>6, <2>7 DEF Moves, Unborn
<1>2. ASSUME NEW c \in Copy, c[1] # s PROVE Moves(rows[c], new[c])
  <2>1. new[c] = rows[c] /\ rows[c] \in Row
    BY <1>2, NumberFacts DEF SpawnStep
  <2>. QED  BY <2>1, MovesReflexive
<1>. HIDE DEF new
<1>3. Advances(rows, new)
  BY <1>1, <1>2 DEF Advances
<1>. QED  BY <1>3 DEF new

LEMMA SpawnReadyAdvances == ASSUME TInv, SpawnReady PROVE Advances(loc, loc')
<1>. DEFINE s == First(todo)[1]
            reused == Reusable(loc, s, claimed)
<1>1. PICK up, sent : loc' = SpawnStep(loc, s, reused, up, sent)
  BY DEF SpawnReady
<1>2. /\ s \in Step
      /\ \A c \in Copies(s) : loc[c].state \in {"pending", "absent"}
  BY SpawnTurn DEF SpawnReady, TInv
<1>. HIDE DEF s, reused
<1>3. loc \in Rows /\ Calm(loc)
  BY RowFacts DEF TInv, Told
<1>4. ASSUME NEW c \in Copies(s) PROVE loc[c].state \in Unborn /\ ~loc[c].armed
  <2>1. c \in Copy
    BY <1>2, CopyFacts
  <2>2. RowWithinBudget(c[1], loc[c])
    BY <2>1, RowFacts DEF TInv
  <2>. QED  BY <1>2, <2>2 DEF RowWithinBudget, Unborn
<1>. QED  BY <1>1, <1>2, <1>3, <1>4, SpawnAdvances

LEMMA DeferStepAdvances == ASSUME TInv, DeferStep PROVE Advances(loc, loc')
<1>. DEFINE c == Placeholder(First(todo)[1])
            row == IF c \in over
                   THEN [loc[c] EXCEPT !.state = "failed", !.waiting = FALSE,
                                       !.attempts = 1]
                   ELSE [loc[c] EXCEPT !.waiting = TRUE]
<1>1. loc' = [loc EXCEPT ![c] = row]
  BY DEF DeferStep
<1>2. c \in Copy /\ loc[c].state = "pending"
  BY SpawnTurn DEF DeferStep, TInv
<1>3. loc \in Rows /\ loc[c] \in Row /\ loc[c].attempts = 0 /\ ~loc[c].armed
  BY <1>2, RowFacts DEF TInv, Told, Calm, Unborn, RowWithinBudget
<1>. HIDE DEF c
<1>4. Moves(loc[c], row)
  <2>1. CASE row = [loc[c] EXCEPT !.state = "failed", !.waiting = FALSE, !.attempts = 1]
    <3>1. row.state = "failed" /\ row.attempts = 1 /\ row.escalated = loc[c].escalated
      BY <1>3, <2>1 DEF Row
    <3>. HIDE DEF row
    <3>. QED  BY <1>2, <1>3, <3>1 DEF Moves, Forth, Unborn
  <2>2. CASE row = [loc[c] EXCEPT !.waiting = TRUE]
    <3>1. /\ row.state = "pending" /\ row.attempts = 0 /\ row.escalated = loc[c].escalated
          /\ row.armed = loc[c].armed
      BY <1>2, <1>3, <2>2 DEF Row
    <3>. HIDE DEF row
    <3>. QED  BY <1>2, <1>3, <3>1 DEF Moves, Forth, Unborn
  <2>. QED  BY <2>1, <2>2
<1>. HIDE DEF row
<1>5. ASSUME NEW d \in Copy PROVE Moves(loc[d], loc'[d])
  <2>1. loc'[d] = (IF d = c THEN row ELSE loc[d]) /\ loc[d] \in Row
    BY <1>1, <1>3, NumberFacts DEF Rows
  <2>. QED  BY <1>4, <2>1, MovesReflexive
<1>. QED  BY <1>5 DEF Advances

LEMMA FireDueRetriesAdvances ==
    ASSUME TInv, FireDueRetries PROVE Advances(loc, loc')
<1>1. loc' = loc /\ \A c \in Copy : loc[c] \in Row
  BY RowFacts DEF TInv, FireDueRetries
<1>. QED  BY <1>1, MovesReflexive DEF Advances

-----------------------------------------------------------------------------
(* Every step keeps what has been told in line with the rows.              *)

\* Nothing is told, and the registry stays as it is.
LEMMA QuietTold ==
    ASSUME TInv, UNCHANGED <<reg, notified>>
    PROVE  /\ \A r \in Run : Calm(reg'[r].rows)
           /\ \A r \in Run : reg'[r].state = "absent" =>
                 reg'[r].rows = NoRows /\ \A x \in DOMAIN notified'[r] : notified'[r][x] = 0
           /\ \A r \in Run : reg'[r].state = "running" => Counts(r, reg[r].rows)'
           /\ ToldOnce'
<1>1. reg' = reg /\ notified' = notified
  OBVIOUS
<1>2. ToldOnce
  BY DEF TInv, Told
<1>3. ToldOnce'
  BY <1>1, <1>2 DEF ToldOnce
<1>4. \A r \in Run : reg'[r].state = "running" => Counts(r, reg[r].rows)'
  <2>1. \A r \in Run : reg[r].state = "running" => Counts(r, reg[r].rows)
    BY DEF TInv, Told
  <2>. QED  BY <1>1, <2>1 DEF Counts
<1>. QED  BY <1>1, <1>3, <1>4 DEF TInv, Told

LEMMA PassTold ==
    ASSUME TInv, IInv', pc # "idle", Advances(loc, loc'),
           UNCHANGED <<reg, notified, launch, snap, cur>>
    PROVE  Told'
<1>1. loc \in Rows /\ loc' \in Rows
  BY RowFacts DEF TInv, IInv, TypeOK
<1>2. Calm(loc')
  BY <1>1, CalmLasts DEF TInv, Told
<1>3. \A c \in Copy : loc'[c].escalated = loc[c].escalated
  BY DEF Advances, Moves
<1>4. Counts(cur, loc)'
  <2>1. Counts(cur, loc)
    BY DEF TInv, Told
  <2>. QED  BY <1>3, <2>1 DEF Counts
<1>5. /\ \A r \in Run : Calm(reg'[r].rows)
      /\ \A r \in Run : reg'[r].state = "absent" =>
            reg'[r].rows = NoRows /\ \A x \in DOMAIN notified'[r] : notified'[r][x] = 0
      /\ \A r \in Run : reg'[r].state = "running" => Counts(r, reg[r].rows)'
      /\ ToldOnce'
  BY QuietTold
<1>6. /\ Calm(launch'.rows) /\ Calm(snap'.rows)
      /\ \A c \in Copy : ~launch'.rows[c].escalated
      /\ launch'.run # NoRun => reg'[launch'.run].state = "absent"
      /\ snap'.run # NoRun => reg'[snap'.run].state # "absent"
      /\ reg'[cur'].state \in {"running", "cancelled"}
  BY DEF TInv, Told
<1>. QED  BY ONLY <1>2, <1>4, <1>5, <1>6 DEF Told

\* The steps that change neither the registry nor the driver's clone.
LEMMA AsideTold ==
    ASSUME TInv, UNCHANGED <<reg, notified, driver>>,
           launch'.run # NoRun => reg[launch'.run].state = "absent",
           snap'.run # NoRun => reg[snap'.run].state # "absent",
           Calm(launch'.rows), Calm(snap'.rows),
           \A c \in Copy : ~launch'.rows[c].escalated
    PROVE  Told'
<1>1. reg' = reg /\ notified' = notified /\ pc' = pc /\ cur' = cur /\ loc' = loc
  BY DEF driver
<1>2. pc' # "idle" => Counts(cur, loc)'
  <2>1. pc # "idle" => Counts(cur, loc)
    BY DEF TInv, Told
  <2>. QED  BY <1>1, <2>1 DEF Counts
<1>3. Calm(loc') /\ (pc' # "idle" => reg'[cur'].state \in {"running", "cancelled"})
  BY <1>1 DEF TInv, Told
<1>4. /\ \A r \in Run : Calm(reg'[r].rows)
      /\ \A r \in Run : reg'[r].state = "absent" =>
            reg'[r].rows = NoRows /\ \A x \in DOMAIN notified'[r] : notified'[r][x] = 0
      /\ \A r \in Run : reg'[r].state = "running" => Counts(r, reg[r].rows)'
      /\ ToldOnce'
  BY <1>1, QuietTold
<1>. QED  BY <1>1, <1>2, <1>3, <1>4 DEF Told

LEMMA EnvironmentTold == ASSUME TInv, Environment PROVE Told'
<1>1. UNCHANGED <<reg, notified, driver, launch, snap>>
  BY DEF Environment, Exit, Reap, AgentStatus, ClosePane, RestartPane, Reply, OpenPane
<1>. QED  BY <1>1, AsideTold DEF TInv, Told

LEMMA StutterTold == ASSUME TInv, UNCHANGED vars PROVE Told'
<1>1. UNCHANGED <<reg, notified, driver, launch, snap>>
  BY DEF vars
<1>. QED  BY <1>1, AsideTold DEF TInv, Told

LEMMA NothingIsTold == Calm(NoRows) /\ \A c \in Copy : ~NoRows[c].escalated
BY DEF Calm, NoRows, NoRow

LEMMA CancelReadTold == ASSUME TInv, NEW r \in Run, CancelRead(r) PROVE Told'
<1>1. /\ UNCHANGED <<reg, notified, driver, launch>>
      /\ snap' = [run |-> r, rows |-> reg[r].rows] /\ reg[r].state = "running"
  BY DEF CancelRead
<1>2. Calm(snap'.rows) /\ (snap'.run # NoRun => reg[snap'.run].state # "absent")
  BY <1>1 DEF TInv, Told
<1>. QED  BY <1>1, <1>2, AsideTold DEF TInv, Told

LEMMA TickTold == ASSUME TInv, NEW r \in Run, Tick(r) PROVE Told'
<1>1. /\ UNCHANGED <<reg, notified, launch, snap>>
      /\ pc' = "reply" /\ cur' = r /\ loc' = reg[r].rows /\ reg[r].state = "running"
  BY DEF Tick, TickBegin
<1>2. Counts(cur, loc)'
  <2>1. Counts(r, reg[r].rows)
    BY <1>1 DEF TInv, Told
  <2>. QED  BY <1>1, <2>1 DEF Counts
<1>3. /\ \A q \in Run : Calm(reg'[q].rows)
      /\ \A q \in Run : reg'[q].state = "absent" =>
            reg'[q].rows = NoRows /\ \A x \in DOMAIN notified'[q] : notified'[q][x] = 0
      /\ \A q \in Run : reg'[q].state = "running" => Counts(q, reg[q].rows)'
      /\ ToldOnce'
  BY <1>1, QuietTold
<1>4. /\ Calm(loc') /\ Calm(launch'.rows) /\ Calm(snap'.rows)
      /\ \A c \in Copy : ~launch'.rows[c].escalated
      /\ launch'.run # NoRun => reg'[launch'.run].state = "absent"
      /\ snap'.run # NoRun => reg'[snap'.run].state # "absent"
      /\ reg'[cur'].state \in {"running", "cancelled"}
  BY <1>1 DEF TInv, Told
<1>. QED  BY ONLY <1>2, <1>3, <1>4 DEF Told

LEMMA LaunchBeginTold == ASSUME TInv, NEW r \in Run, LaunchBegin(r) PROVE Told'
<1>. DEFINE rows == [c \in Copy |->
                IF c = Placeholder(c[1]) /\ c[1] \notin RootSteps
                THEN PendingRow ELSE NoRow]
<1>1. /\ UNCHANGED <<reg, notified, driver, snap>>
      /\ launch'.run = r /\ launch'.rows = rows /\ reg[r].state = "absent"
  BY DEF LaunchBegin
<1>2. \A c \in Copy : ~rows[c].escalated /\ rows[c].attempts = 0
  BY DEF PendingRow, NoRow
<1>. HIDE DEF rows
<1>3. Calm(rows)
  BY <1>2 DEF Calm
<1>. QED  BY <1>1, <1>2, <1>3, AsideTold DEF TInv, Told

LEMMA LaunchRootTold == ASSUME TInv, IInv', LaunchRoot PROVE Told'
<1>. DEFINE s == First(launch.todo)[1]
            reused == Reusable(launch.rows, s, launch.claimed)
            needed == SlotsNeeded(launch.rows, s, launch.claimed)
<1>1. PICK up, sent : launch' = [launch EXCEPT
              !.rows = SpawnStep(launch.rows, s, reused, up, sent),
              !.todo = @ \ Copies(s), !.budget = @ - needed]
  BY DEF LaunchRoot
<1>2. launch.todo # {} /\ UNCHANGED <<reg, notified, driver, snap>>
  BY DEF LaunchRoot
<1>3. /\ s \in Step /\ launch \in LaunchType
      /\ \A d \in Copies(s) : launch.rows[d].state = "absent"
  BY <1>2, LaunchTurn DEF TInv
<1>. DEFINE rows == SpawnStep(launch.rows, s, reused, up, sent)
<1>4. launch'.rows = rows /\ launch'.run = launch.run
  BY <1>1, <1>3 DEF LaunchType
<1>5. launch.rows \in Rows /\ Calm(launch.rows) /\ rows \in Rows
  BY <1>4, RowFacts DEF TInv, Told, IInv, TypeOK
<1>. HIDE DEF s, reused
<1>6. ASSUME NEW c \in Copies(s)
      PROVE  launch.rows[c].state \in Unborn /\ ~launch.rows[c].armed
  <2>1. c \in Copy
    BY <1>3, CopyFacts
  <2>2. RowWithinBudget(c[1], launch.rows[c])
    BY <2>1 DEF TInv, OInv, IInv, SoundEverywhere, Sound
  <2>. QED  BY <1>3, <2>2 DEF RowWithinBudget, Unborn
<1>7. Advances(launch.rows, rows)
  BY <1>3, <1>5, <1>6, SpawnAdvances
<1>. HIDE DEF rows
<1>8. Calm(rows)
  BY <1>5, <1>7, CalmLasts
<1>9. \A c \in Copy : ~rows[c].escalated
  BY <1>7 DEF Advances, Moves, TInv, Told
<1>. QED  BY <1>2, <1>4, <1>8, <1>9, AsideTold DEF TInv, Told

LEMMA LaunchDeferredTold == ASSUME TInv, LaunchDeferred PROVE Told'
<1>. DEFINE c == Placeholder(First(launch.todo)[1])
            row == [PendingRow EXCEPT !.waiting = TRUE]
            rows == [launch.rows EXCEPT ![c] = row]
<1>1. /\ launch' = [launch EXCEPT !.rows[c] = row, !.todo = @ \ {c}]
      /\ launch.todo # {} /\ UNCHANGED <<reg, notified, driver, snap>>
  BY DEF LaunchDeferred
<1>2. launch \in LaunchType /\ launch.rows \in Rows
  BY <1>1, LaunchTurn DEF TInv
<1>3. row.attempts = 0 /\ ~row.escalated
  BY DEF PendingRow, NoRow
<1>4. \A d \in Copy : rows[d] = IF d = c THEN row ELSE launch.rows[d]
  BY <1>2 DEF Rows
<1>5. launch'.rows = rows /\ launch'.run = launch.run
  BY <1>1, <1>2 DEF LaunchType
<1>. HIDE DEF c, row, rows
<1>6. Calm(rows) /\ \A d \in Copy : ~rows[d].escalated
  BY <1>3, <1>4 DEF Calm, TInv, Told
<1>. QED  BY <1>1, <1>5, <1>6, AsideTold DEF TInv, Told

\* A notification adds one to what it is about, and touches no other run.
LEMMA NotifyFacts ==
    ASSUME TInv, NEW r \in Run, NEW what
    PROVE  /\ \A q \in Run : DOMAIN Notify(r, what)[q] = Copy \cup {RunItself}
           /\ \A q \in Run \ {r} : Notify(r, what)[q] = notified[q]
           /\ \A x \in Copy \cup {RunItself} :
                 Notify(r, what)[r][x] = IF x \in what THEN notified[r][x] + 1
                                                       ELSE notified[r][x]
           /\ \A q \in Run : DOMAIN notified[q] = Copy \cup {RunItself}
<1>1. notified \in [Run -> [Copy \cup {RunItself} -> Nat]]
  BY DEF TInv, OInv, IInv, TypeOK
<1>. QED  BY <1>1 DEF Notify

\* A write of one run to the registry, with what is told of it.
LEMMA WriteTold ==
    ASSUME TInv, NEW r \in Run, NEW state, NEW rows, state # "absent", Calm(rows),
           reg' = [reg EXCEPT ![r] = [state |-> state, rows |-> rows]],
           \A q \in Run \ {r} : notified'[q] = notified[q],
           state = "running" =>
              /\ notified'[r][RunItself] = 0
              /\ \A c \in Copy : notified'[r][c] = IF rows[c].escalated THEN 1 ELSE 0,
           \A x \in DOMAIN notified'[r] : notified'[r][x] <= 1,
           notified'[r][RunItself] > 0 => \A c \in Copy : notified'[r][c] = 0,
           state = "failed" => \E x \in DOMAIN notified'[r] : notified'[r][x] > 0
    PROVE  /\ \A q \in Run : Calm(reg'[q].rows)
           /\ \A q \in Run : reg'[q].state = "absent" =>
                 reg'[q].rows = NoRows /\ \A x \in DOMAIN notified'[q] : notified'[q][x] = 0
           /\ \A q \in Run : reg'[q].state = "running" => Counts(q, reg[q].rows)'
           /\ ToldOnce'
           /\ \A q \in Run \ {r} : reg'[q] = reg[q]
           /\ reg'[r].state = state
<1>1. DOMAIN reg = Run
  BY DEF TInv, OInv, IInv, TypeOK
<1>2. /\ reg'[r].state = state /\ reg'[r].rows = rows
      /\ \A q \in Run \ {r} : reg'[q] = reg[q]
  BY <1>1
<1>3. ASSUME NEW q \in Run, reg'[q].state = "running" PROVE Counts(q, reg[q].rows)'
  <2>1. CASE q = r
    BY <1>2, <1>3, <2>1 DEF Counts
  <2>2. CASE q # r
    <3>1. reg'[q] = reg[q] /\ notified'[q] = notified[q]
      BY <1>2, <2>2
    <3>2. Counts(q, reg[q].rows)
      BY <1>3, <3>1 DEF TInv, Told
    <3>. QED  BY <3>1, <3>2 DEF Counts
  <2>. QED  BY <2>1, <2>2
<1>4. ToldOnce'
  <2>1. ASSUME NEW q \in Run
        PROVE  /\ \A x \in DOMAIN notified'[q] : notified'[q][x] <= 1
               /\ notified'[q][RunItself] > 0 => \A c \in Copy : notified'[q][c] = 0
               /\ reg'[q].state = "failed" => \E x \in DOMAIN notified'[q] : notified'[q][x] > 0
    <3>1. CASE q = r
      BY <1>2, <3>1
    <3>2. CASE q # r
      <4>1. reg'[q] = reg[q] /\ notified'[q] = notified[q]
        BY <1>2, <3>2
      <4>2. /\ \A x \in DOMAIN notified[q] : notified[q][x] <= 1
            /\ notified[q][RunItself] > 0 => \A c \in Copy : notified[q][c] = 0
            /\ reg[q].state = "failed" => \E x \in DOMAIN notified[q] : notified[q][x] > 0
        BY DEF TInv, Told, ToldOnce
      <4>. QED  BY ONLY <4>1, <4>2
    <3>. QED  BY <3>1, <3>2
  <2>. QED  BY <2>1 DEF ToldOnce
<1>5. ASSUME NEW q \in Run
      PROVE  /\ Calm(reg'[q].rows)
             /\ reg'[q].state = "absent" =>
                   reg'[q].rows = NoRows /\ \A x \in DOMAIN notified'[q] : notified'[q][x] = 0
  <2>1. CASE q = r
    BY <1>2, <2>1
  <2>2. CASE q # r
    <3>1. reg'[q] = reg[q] /\ notified'[q] = notified[q]
      BY <1>2, <2>2
    <3>2. /\ Calm(reg[q].rows)
          /\ reg[q].state = "absent" =>
                reg[q].rows = NoRows /\ \A x \in DOMAIN notified[q] : notified[q][x] = 0
      BY DEF TInv, Told
    <3>. QED  BY ONLY <3>1, <3>2
  <2>. QED  BY <2>1, <2>2
<1>. QED  BY <1>2, <1>3, <1>4, <1>5

LEMMA CancelWriteTold == ASSUME TInv, IInv', CancelWrite PROVE Told'
<1>. DEFINE ended == {c \in Copy : snap.rows[c].state = "running"}
                        \cup {c \in Copy : snap.rows[c].state = "pending"}
            rows == [c \in Copy |->
                        IF c \in ended
                        THEN [snap.rows[c] EXCEPT !.state = "cancelled",
                                                  !.waiting = FALSE]
                        ELSE snap.rows[c]]
            r == snap.run
<1>1. /\ reg' = [reg EXCEPT ![r] = [state |-> "cancelled", rows |-> rows]]
      /\ snap' = [run |-> NoRun, rows |-> NoRows] /\ UNCHANGED <<notified, driver, launch>>
      /\ r # NoRun
  BY DEF CancelWrite
<1>2. r \in Run /\ reg[r].state # "absent"
  BY <1>1 DEF TInv, Told, OInv, IInv, TypeOK
<1>3. \A c \in Copy : snap.rows[c] \in Row
  BY DEF TInv, OInv, IInv, TypeOK, Rows
<1>4. ASSUME NEW c \in Copy
      PROVE  /\ rows[c].escalated = snap.rows[c].escalated
             /\ rows[c].attempts = snap.rows[c].attempts
             /\ rows[c].state \in Unborn => rows[c].state = snap.rows[c].state
  <2>1. snap.rows[c] \in Row
    BY <1>3
  <2>2. \/ rows[c] = snap.rows[c]
        \/ rows[c] = [snap.rows[c] EXCEPT !.state = "cancelled", !.waiting = FALSE]
    OBVIOUS
  <2>. HIDE DEF rows
  <2>. QED  BY <2>1, <2>2 DEF Row, Unborn
<1>. HIDE DEF rows, r
<1>5. Calm(rows)
  <2>1. Calm(snap.rows)
    BY DEF TInv, Told
  <2>. QED  BY <1>4, <2>1 DEF Calm
<1>6. /\ \A x \in DOMAIN notified'[r] : notified'[r][x] <= 1
      /\ notified'[r][RunItself] > 0 => \A c \in Copy : notified'[r][c] = 0
  BY <1>1, <1>2 DEF TInv, Told, ToldOnce
<1>7. \A q \in Run \ {r} : notified'[q] = notified[q]
  BY <1>1
<1>8. /\ \A q \in Run : Calm(reg'[q].rows)
      /\ \A q \in Run : reg'[q].state = "absent" =>
            reg'[q].rows = NoRows /\ \A x \in DOMAIN notified'[q] : notified'[q][x] = 0
      /\ \A q \in Run : reg'[q].state = "running" => Counts(q, reg[q].rows)'
      /\ ToldOnce'
      /\ \A q \in Run \ {r} : reg'[q] = reg[q]
      /\ reg'[r].state = "cancelled"
  BY <1>1, <1>2, <1>5, <1>6, <1>7, WriteTold
<1>9. pc' # "idle" => reg'[cur'].state \in {"running", "cancelled"} /\ Counts(cur, loc)'
  <2>. SUFFICES ASSUME pc' # "idle"
                PROVE  reg'[cur'].state \in {"running", "cancelled"} /\ Counts(cur, loc)'
    OBVIOUS
  <2>1. pc' = pc /\ cur' = cur /\ loc' = loc /\ notified' = notified
    BY <1>1 DEF driver
  <2>2. reg[cur].state \in {"running", "cancelled"} /\ Counts(cur, loc) /\ cur \in Run
    BY <2>1 DEF TInv, Told, OInv, IInv, TypeOK
  <2>3. Counts(cur, loc)'
    BY <2>1, <2>2 DEF Counts
  <2>. QED  BY <1>8, <2>1, <2>2, <2>3
<1>10. launch'.run # NoRun => reg'[launch'.run].state = "absent"
  <2>1. launch'.run # NoRun => launch.run \in Run /\ reg[launch.run].state = "absent"
    BY <1>1 DEF TInv, Told, OInv, IInv, TypeOK
  <2>2. launch'.run # NoRun => launch.run # r
    BY <1>2, <2>1
  <2>. QED  BY <1>1, <1>8, <2>1, <2>2
<1>11. /\ Calm(loc') /\ Calm(launch'.rows) /\ Calm(snap'.rows)
       /\ \A c \in Copy : ~launch'.rows[c].escalated
       /\ snap'.run = NoRun
  BY <1>1, NothingIsTold DEF TInv, Told, driver
<1>. QED  BY ONLY <1>8, <1>9, <1>10, <1>11 DEF Told

LEMMA LaunchEndTold == ASSUME TInv, LaunchEnd PROVE Told'
<1>. DEFINE state == IF \E c \in Copy :
                           launch.rows[c].state \in {"running", "pending"}
                     THEN "running" ELSE "failed"
            what == IF state = "failed" THEN {RunItself} ELSE {}
            r == launch.run
            rows == launch.rows
<1>1. /\ reg' = [reg EXCEPT ![r] = [state |-> state, rows |-> rows]]
      /\ notified' = Notify(r, what)
  BY DEF LaunchEnd
<1>2. /\ launch' = [run |-> NoRun, rows |-> NoRows, todo |-> {},
                    budget |-> 0, claimed |-> {}]
      /\ UNCHANGED <<driver, snap>> /\ r # NoRun
  BY DEF LaunchEnd
<1>3. /\ r \in Run /\ reg[r].state = "absent"
      /\ \A x \in DOMAIN notified[r] : notified[r][x] = 0
      /\ Calm(rows) /\ \A c \in Copy : ~rows[c].escalated
  BY <1>2 DEF TInv, Told, OInv, IInv, TypeOK
<1>4. state \in {"running", "failed"}
  OBVIOUS
<1>5. what = IF state = "failed" THEN {RunItself} ELSE {}
  OBVIOUS
<1>. HIDE DEF state, what, r, rows
<1>6. /\ DOMAIN notified'[r] = Copy \cup {RunItself}
      /\ \A c \in Copy : notified'[r][c] = 0
      /\ notified'[r][RunItself] = IF state = "failed" THEN 1 ELSE 0
      /\ \A q \in Run \ {r} : notified'[q] = notified[q]
  <2>1. /\ DOMAIN notified[r] = Copy \cup {RunItself}
        /\ DOMAIN Notify(r, what)[r] = Copy \cup {RunItself}
        /\ \A q \in Run \ {r} : Notify(r, what)[q] = notified[q]
        /\ \A x \in Copy \cup {RunItself} :
              Notify(r, what)[r][x] = IF x \in what THEN notified[r][x] + 1
                                                    ELSE notified[r][x]
    BY <1>3, NotifyFacts
  <2>2. RunItself \notin Copy
    BY NumberFacts
  <2>3. \A x \in Copy \cup {RunItself} : notified[r][x] = 0
    BY <1>3, <2>1
  <2>4. DOMAIN notified'[r] = Copy \cup {RunItself}
    BY <1>1, <2>1
  <2>5. \A q \in Run \ {r} : notified'[q] = notified[q]
    BY <1>1, <2>1
  <2>6. \A x \in Copy \cup {RunItself} : notified'[r][x] = IF x \in what THEN 1 ELSE 0
    BY <1>1, <2>1, <2>3
  <2>7. RunItself \in what <=> state = "failed"
    BY <1>5
  <2>8. \A c \in Copy : c \notin what
    BY <1>5, <2>2
  <2>. QED  BY ONLY <2>4, <2>5, <2>6, <2>7, <2>8
<1>7. state = "running" =>
         /\ notified'[r][RunItself] = 0
         /\ \A c \in Copy : notified'[r][c] = IF rows[c].escalated THEN 1 ELSE 0
  BY <1>3, <1>6
<1>8. /\ \A x \in DOMAIN notified'[r] : notified'[r][x] <= 1
      /\ notified'[r][RunItself] > 0 => \A c \in Copy : notified'[r][c] = 0
      /\ state = "failed" => \E x \in DOMAIN notified'[r] : notified'[r][x] > 0
  BY ONLY <1>6
<1>9. /\ \A q \in Run : Calm(reg'[q].rows)
      /\ \A q \in Run : reg'[q].state = "absent" =>
            reg'[q].rows = NoRows /\ \A x \in DOMAIN notified'[q] : notified'[q][x] = 0
      /\ \A q \in Run : reg'[q].state = "running" => Counts(q, reg[q].rows)'
      /\ ToldOnce'
      /\ \A q \in Run \ {r} : reg'[q] = reg[q]
      /\ reg'[r].state = state
  BY <1>1, <1>3, <1>4, <1>6, <1>7, <1>8, WriteTold
<1>10. pc' # "idle" => reg'[cur'].state \in {"running", "cancelled"} /\ Counts(cur, loc)'
  <2>. SUFFICES ASSUME pc' # "idle"
                PROVE  reg'[cur'].state \in {"running", "cancelled"} /\ Counts(cur, loc)'
    OBVIOUS
  <2>1. pc' = pc /\ cur' = cur /\ loc' = loc
    BY <1>2 DEF driver
  <2>2. reg[cur].state \in {"running", "cancelled"} /\ Counts(cur, loc) /\ cur \in Run
    BY <2>1 DEF TInv, Told, OInv, IInv, TypeOK
  <2>3. cur \in Run \ {r}
    BY <1>3, <2>2
  <2>4. notified'[cur] = notified[cur] /\ reg'[cur] = reg[cur]
    BY <1>6, <1>9, <2>3
  <2>5. Counts(cur, loc)'
    BY <2>1, <2>2, <2>4 DEF Counts
  <2>. QED  BY <2>1, <2>2, <2>4, <2>5
<1>11. snap'.run # NoRun => reg'[snap'.run].state # "absent"
  <2>1. snap'.run # NoRun => snap.run \in Run /\ reg[snap.run].state # "absent"
    BY <1>2 DEF TInv, Told, OInv, IInv, TypeOK
  <2>2. snap'.run # NoRun => snap.run # r
    BY <1>3, <2>1
  <2>. QED  BY <1>2, <1>9, <2>1, <2>2
<1>12. /\ Calm(loc') /\ Calm(launch'.rows) /\ Calm(snap'.rows)
       /\ \A c \in Copy : ~launch'.rows[c].escalated
       /\ launch'.run = NoRun
  BY <1>2, NothingIsTold DEF TInv, Told, driver
<1>. QED  BY ONLY <1>9, <1>10, <1>11, <1>12 DEF Told

LEMMA FinishTold == ASSUME TInv, Finish PROVE Told'
<1>. DEFINE armed == ArmRetryBackoff(loc)
            exhausted == Exhausted(armed)
            rows == MarkEscalated(armed, exhausted)
            state == FinalizeState(rows)
            silent == \A c \in Copy : ~rows[c].escalated
            what == exhausted \cup IF state = "failed" /\ silent THEN {RunItself} ELSE {}
            r == cur
<1>1. /\ reg' = IF changed \/ rows # loc \/ state # "running"
                THEN [reg EXCEPT ![r] = [state |-> state, rows |-> rows]]
                ELSE reg
      /\ notified' = Notify(r, what)
  BY DEF Finish
<1>2. /\ pc' = "idle" /\ loc' = NoRows /\ UNCHANGED <<launch, snap>>
      /\ pc # "idle"
  BY DEF Finish
<1>3. r \in Run /\ reg[r].state \in {"running", "cancelled"} /\ Counts(r, loc) /\ Calm(loc)
  BY <1>2 DEF TInv, Told, OInv, IInv, TypeOK
<1>4. state \in {"running", "succeeded", "failed"}
  <2>. HIDE DEF rows
  <2>. QED  BY DEF FinalizeState
<1>5. ASSUME NEW c \in Copy
      PROVE  /\ rows[c].state = loc[c].state /\ rows[c].attempts = loc[c].attempts
             /\ rows[c].escalated = (loc[c].escalated \/ c \in exhausted)
             /\ c \in exhausted => /\ ~loc[c].escalated
                                  /\ loc[c].state = "failed"
                                  /\ loc[c].attempts > RetryMax[c[1]]
  <2>1. loc[c] \in Row
    BY RowFacts DEF TInv
  <2>2. armed[c] = loc[c] \/ armed[c] = [loc[c] EXCEPT !.armed = TRUE]
    BY DEF ArmRetryBackoff
  <2>. HIDE DEF armed
  <2>3. /\ armed[c].state = loc[c].state /\ armed[c].attempts = loc[c].attempts
        /\ armed[c].escalated = loc[c].escalated /\ armed[c] \in Row
    BY <2>1, <2>2 DEF Row
  <2>4. c \in exhausted => /\ ~armed[c].escalated /\ armed[c].state = "failed"
                           /\ RetryMax[c[1]] > 0
                           /\ ~RetryAllowed(c[1], armed[c].attempts)
    BY DEF Exhausted
  <2>5. rows[c] = IF c \in exhausted THEN [armed[c] EXCEPT !.escalated = TRUE]
                                     ELSE armed[c]
    BY DEF MarkEscalated
  <2>. HIDE DEF exhausted, rows
  <2>6. /\ rows[c].state = armed[c].state /\ rows[c].attempts = armed[c].attempts
        /\ rows[c].escalated = IF c \in exhausted THEN TRUE ELSE armed[c].escalated
    BY <2>3, <2>5 DEF Row
  <2>7. RetryMax[c[1]] \in Nat /\ armed[c].attempts \in Nat
    BY <2>3, NumberFacts DEF Row
  <2>8. c \in exhausted => loc[c].attempts > RetryMax[c[1]]
    BY <2>3, <2>4, <2>7 DEF RetryAllowed
  <2>9. loc[c].escalated \in BOOLEAN
    BY <2>1 DEF Row
  <2>. QED  BY ONLY <2>3, <2>4, <2>6, <2>8, <2>9
<1>6. exhausted \subseteq Copy
  BY DEF Exhausted
<1>7. silent <=> \A c \in Copy : ~rows[c].escalated
  OBVIOUS
<1>8. \A x : x \in what <=> x \in exhausted \/ (x = RunItself /\ state = "failed" /\ silent)
  <2>. HIDE DEF exhausted, state, silent
  <2>. QED  OBVIOUS
<1>. HIDE DEF armed, exhausted, rows, state, silent, what, r
<1>9. Calm(rows)
  BY <1>3, <1>5 DEF Calm, Unborn
<1>10. /\ DOMAIN notified'[r] = Copy \cup {RunItself}
       /\ \A c \in Copy : notified'[r][c] = IF rows[c].escalated THEN 1 ELSE 0
       /\ notified'[r][RunItself] = IF state = "failed" /\ silent THEN 1 ELSE 0
       /\ \A q \in Run \ {r} : notified'[q] = notified[q]
       /\ \A q \in Run : DOMAIN notified'[q] = DOMAIN notified[q]
  <2>1. /\ \A q \in Run : DOMAIN Notify(r, what)[q] = Copy \cup {RunItself}
        /\ \A q \in Run \ {r} : Notify(r, what)[q] = notified[q]
        /\ \A x \in Copy \cup {RunItself} :
              Notify(r, what)[r][x] = IF x \in what THEN notified[r][x] + 1
                                                    ELSE notified[r][x]
        /\ \A q \in Run : DOMAIN notified[q] = Copy \cup {RunItself}
    BY <1>3, NotifyFacts
  <2>2. RunItself \notin Copy
    BY NumberFacts
  <2>3. ASSUME NEW c \in Copy
        PROVE  notified'[r][c] = IF rows[c].escalated THEN 1 ELSE 0
    <3>1. c \in what <=> c \in exhausted
      BY <1>8, <2>2
    <3>2. notified'[r][c] = IF c \in exhausted THEN notified[r][c] + 1 ELSE notified[r][c]
      BY <1>1, <2>1, <3>1
    <3>3. notified[r][c] = IF loc[c].escalated THEN 1 ELSE 0
      BY <1>3 DEF Counts
    <3>4. /\ rows[c].escalated = (loc[c].escalated \/ c \in exhausted)
          /\ c \in exhausted => ~loc[c].escalated
      BY <1>5
    <3>5. rows[c].escalated <=> loc[c].escalated \/ c \in exhausted
      BY <3>4
    <3>6. CASE c \in exhausted
      BY <3>2, <3>3, <3>4, <3>5, <3>6
    <3>7. CASE c \notin exhausted
      BY <3>2, <3>3, <3>5, <3>7
    <3>. QED  BY <3>6, <3>7
  <2>4. notified'[r][RunItself] = IF state = "failed" /\ silent THEN 1 ELSE 0
    <3>1. RunItself \in what <=> state = "failed" /\ silent
      BY <1>6, <1>8, <2>2
    <3>2. notified[r][RunItself] = 0
      BY <1>3 DEF Counts
    <3>. QED  BY <1>1, <2>1, <3>1, <3>2
  <2>. QED  BY <1>1, <1>3, <2>1, <2>3, <2>4
<1>11. /\ \A x \in DOMAIN notified'[r] : notified'[r][x] <= 1
       /\ notified'[r][RunItself] > 0 => \A c \in Copy : notified'[r][c] = 0
       /\ state = "failed" => \E x \in DOMAIN notified'[r] : notified'[r][x] > 0
  BY ONLY <1>7, <1>10
<1>12. CASE reg' = [reg EXCEPT ![r] = [state |-> state, rows |-> rows]]
  <2>1. state = "running" =>
           /\ notified'[r][RunItself] = 0
           /\ \A c \in Copy : notified'[r][c] = IF rows[c].escalated THEN 1 ELSE 0
    BY ONLY <1>10
  <2>2. state # "absent"
    BY <1>4
  <2>3. /\ \A q \in Run : Calm(reg'[q].rows)
        /\ \A q \in Run : reg'[q].state = "absent" =>
              reg'[q].rows = NoRows /\ \A x \in DOMAIN notified'[q] : notified'[q][x] = 0
        /\ \A q \in Run : reg'[q].state = "running" => Counts(q, reg[q].rows)'
        /\ ToldOnce'
        /\ \A q \in Run \ {r} : reg'[q] = reg[q]
        /\ reg'[r].state = state
    BY <1>3, <1>9, <1>10, <1>11, <1>12, <2>1, <2>2, WriteTold
  <2>4. /\ launch'.run # NoRun => reg'[launch'.run].state = "absent"
        /\ snap'.run # NoRun => reg'[snap'.run].state # "absent"
    <3>1. /\ launch'.run # NoRun => launch.run \in Run /\ reg[launch.run].state = "absent"
          /\ snap'.run # NoRun => snap.run \in Run /\ reg[snap.run].state # "absent"
      BY <1>2 DEF TInv, Told, OInv, IInv, TypeOK
    <3>2. launch'.run # NoRun => launch.run # r
      BY <1>3, <3>1
    <3>. QED  BY <1>2, <2>2, <2>3, <3>1, <3>2
  <2>5. /\ Calm(loc') /\ Calm(launch'.rows) /\ Calm(snap'.rows)
        /\ \A c \in Copy : ~launch'.rows[c].escalated
    BY <1>2, NothingIsTold DEF TInv, Told
  <2>. QED  BY ONLY <1>2, <2>3, <2>4, <2>5 DEF Told
<1>13. CASE reg' = reg /\ rows = loc /\ state = "running"
  <2>1. ASSUME NEW q \in Run PROVE notified'[q] = notified[q]
    <3>1. CASE q # r
      BY <1>10, <3>1
    <3>2. CASE q = r
      <4>1. \A x \in Copy \cup {RunItself} : notified'[r][x] = notified[r][x]
        BY <1>3, <1>10, <1>13 DEF Counts
      <4>2. /\ notified'[r] \in [Copy \cup {RunItself} -> Nat]
            /\ notified[r] \in [Copy \cup {RunItself} -> Nat]
        <5>1. IInv'
          BY FinishIInv DEF TInv, OInv
        <5>. QED  BY <1>3, <5>1 DEF TInv, OInv, IInv, TypeOK
      <4>. QED  BY <3>2, <4>1, <4>2
    <3>. QED  BY <3>1, <3>2
  <2>2. notified' = notified
    <3>1. notified \in [Run -> [Copy \cup {RunItself} -> Nat]]
      BY DEF TInv, OInv, IInv, TypeOK
    <3>2. notified' \in [Run -> [Copy \cup {RunItself} -> Nat]]
      BY FinishIInv DEF TInv, OInv, IInv, TypeOK
    <3>. QED  BY <2>1, <3>1, <3>2
  <2>3. /\ \A q \in Run : Calm(reg'[q].rows)
        /\ \A q \in Run : reg'[q].state = "absent" =>
              reg'[q].rows = NoRows /\ \A x \in DOMAIN notified'[q] : notified'[q][x] = 0
        /\ \A q \in Run : reg'[q].state = "running" => Counts(q, reg[q].rows)'
        /\ ToldOnce'
    BY <1>13, <2>2, QuietTold
  <2>4. /\ Calm(loc') /\ Calm(launch'.rows) /\ Calm(snap'.rows)
        /\ \A c \in Copy : ~launch'.rows[c].escalated
        /\ launch'.run # NoRun => reg'[launch'.run].state = "absent"
        /\ snap'.run # NoRun => reg'[snap'.run].state # "absent"
    BY <1>2, <1>13, NothingIsTold DEF TInv, Told
  <2>. QED  BY ONLY <1>2, <2>3, <2>4 DEF Told
<1>. QED  BY <1>1, <1>12, <1>13

\* Every pass before the write-back advances the clone, and only the clone.
LEMMA EveryPassAdvances ==
    ASSUME TInv, DriverStep, ~Finish
    PROVE  /\ Advances(loc, loc') /\ pc # "idle"
           /\ UNCHANGED <<reg, notified, launch, snap, cur>>
<1>1. CASE DetectReplyCompletions
  <2>1. pc # "idle" /\ UNCHANGED <<reg, notified, launch, snap, cur>>
    BY <1>1 DEF DetectReplyCompletions
  <2>. QED  BY <1>1, <2>1, DetectReplyCompletionsJudges, JudgesAdvances
<1>2. CASE DetectCompletions
  <2>1. pc # "idle" /\ UNCHANGED <<reg, notified, launch, snap, cur>>
    BY <1>2 DEF DetectCompletions
  <2>. QED  BY <1>2, <2>1, DetectCompletionsJudges, JudgesAdvances
<1>3. CASE CheckTimeouts
  <2>1. pc # "idle" /\ UNCHANGED <<reg, notified, launch, snap, cur>>
    BY <1>3 DEF CheckTimeouts
  <2>. QED  BY <1>3, <2>1, CheckTimeoutsJudges, JudgesAdvances
<1>4. CASE CancelStragglers
  <2>1. pc # "idle" /\ UNCHANGED <<reg, notified, launch, snap, cur>>
    BY <1>4 DEF CancelStragglers
  <2>. QED  BY <1>4, <2>1, CancelStragglersJudges, JudgesAdvances
<1>5. CASE FireDueRetries
  <2>1. pc # "idle" /\ UNCHANGED <<reg, notified, launch, snap, cur>>
    BY <1>5 DEF FireDueRetries
  <2>. QED  BY <1>5, <2>1, FireDueRetriesAdvances
<1>6. CASE RestartInPlace
  <2>1. pc # "idle" /\ UNCHANGED <<reg, notified, launch, snap, cur>>
    BY <1>6 DEF RestartInPlace
  <2>. QED  BY <1>6, <2>1, RestartInPlaceRetries, RetriesAdvances
<1>7. CASE RespawnFresh
  <2>1. pc # "idle" /\ UNCHANGED <<reg, notified, launch, snap, cur>>
    BY <1>7 DEF RespawnFresh
  <2>. QED  BY <1>7, <2>1, RespawnFreshRetries, RetriesAdvances
<1>8. CASE PostponeRetry
  <2>1. pc # "idle" /\ UNCHANGED <<reg, notified, launch, snap, cur>>
    BY <1>8 DEF PostponeRetry
  <2>. QED  BY <1>8, <2>1, PostponeRetryRetries, RetriesAdvances
<1>9. CASE DecidePasses
  <2>1. pc # "idle" /\ UNCHANGED <<reg, notified, launch, snap, cur>>
    BY <1>9 DEF DecidePasses
  <2>. QED  BY <1>9, <2>1, DecidePassesAdvances
<1>10. CASE SpawnReady
  <2>1. pc # "idle" /\ UNCHANGED <<reg, notified, launch, snap, cur>>
    BY <1>10 DEF SpawnReady
  <2>. QED  BY <1>10, <2>1, SpawnReadyAdvances
<1>11. CASE DeferStep
  <2>1. pc # "idle" /\ UNCHANGED <<reg, notified, launch, snap, cur>>
    BY <1>11 DEF DeferStep
  <2>. QED  BY <1>11, <2>1, DeferStepAdvances
<1>. QED  BY <1>1, <1>2, <1>3, <1>4, <1>5, <1>6, <1>7, <1>8, <1>9, <1>10, <1>11
          DEF DriverStep

LEMMA DriverStepTold == ASSUME TInv, IInv', DriverStep PROVE Told'
<1>1. CASE Finish
  BY <1>1, FinishTold
<1>2. CASE ~Finish
  BY <1>2, EveryPassAdvances, PassTold
<1>. QED  BY <1>1, <1>2

LEMMA NextTold == TInv /\ [Next]_vars => Told'
<1>. SUFFICES ASSUME TInv, [Next]_vars PROVE Told'
  OBVIOUS
<1>1. IInv'
  BY NextIInv DEF TInv, OInv
<1>2. ASSUME NEW r \in Run, Tick(r) \/ LaunchBegin(r) \/ CancelRead(r) PROVE Told'
  BY <1>2, TickTold, LaunchBeginTold, CancelReadTold
<1>3. CASE DriverStep
  BY <1>1, <1>3, DriverStepTold
<1>4. CASE LaunchRoot \/ LaunchDeferred \/ LaunchEnd
  BY <1>1, <1>4, LaunchRootTold, LaunchDeferredTold, LaunchEndTold
<1>5. CASE CancelWrite
  BY <1>1, <1>5, CancelWriteTold
<1>6. CASE Environment
  BY <1>6, EnvironmentTold
<1>7. CASE UNCHANGED vars
  BY <1>7, StutterTold
<1>. QED  BY <1>2, <1>3, <1>4, <1>5, <1>6, <1>7 DEF Next

LEMMA InitTold == Init => Told
<1>. SUFFICES ASSUME Init PROVE Told
  OBVIOUS
<1>1. /\ \A r \in Run : reg[r].state = "absent" /\ reg[r].rows = NoRows
      /\ \A r \in Run : \A x \in DOMAIN notified[r] : notified[r][x] = 0
      /\ \A r \in Run : DOMAIN notified[r] = Copy \cup {RunItself}
  BY DEF Init
<1>2. loc = NoRows /\ launch.rows = NoRows /\ snap.rows = NoRows
      /\ pc = "idle" /\ launch.run = NoRun /\ snap.run = NoRun
  BY DEF Init
<1>3. ToldOnce
  BY <1>1 DEF ToldOnce
<1>. QED  BY <1>1, <1>2, <1>3, NothingIsTold DEF Told

\* The driver tells of a run once: whatever is launched, ticked and cancelled in
\* whatever order, no step's exhaustion is announced twice, a failed run has been
\* announced, and never on top of one of its steps (take_escalations,
\* run_failure_escalation, and the write-back that makes the mark on a row last).
THEOREM EachFailureToldOnce == Spec => []ToldOnce
<1>1. Init => TInv
  BY InitIInv, InitOrder, InitTold DEF TInv, OInv
<1>2. TInv /\ [Next]_vars => TInv'
  BY NextIInv, NextOrder, NextTold DEF TInv, OInv
<1>3. TInv => ToldOnce
  BY DEF TInv, Told
<1>. QED  BY <1>1, <1>2, <1>3, PTL DEF Spec

-----------------------------------------------------------------------------
(* Why a step is skipped.  What is lost of a join is lost for good: its    *)
(* copies are all there, and too few of them can still succeed.            *)

\* What the recursion that defines Upstream yields, by induction on a rank of
\* the declaration: it is defined, and of steps.
LEMMA UpstreamFacts ==
    /\ \A s \in Step : Upstream[s] \subseteq Step
    /\ \A s \in Step : Upstream[s] = Deps[s] \cup UNION {Upstream[d] : d \in Deps[s]}
    /\ \A s \in Step : Deps[s] \subseteq Upstream[s]
<1>1. PICK rank \in [Step -> Step] : \A s \in Step : \A d \in Deps[s] : rank[d] < rank[s]
  BY WorkflowAssumption DEF WorkflowAssumption, ValidWorkflow
<1>2. /\ \A s \in Step : Deps[s] \subseteq Step
      /\ \A s \in Step : rank[s] \in Nat /\ rank[s] > 0 /\ rank[s] <= N
      /\ N \in Nat
  <2>1. N \in Nat
    BY WorkflowAssumption DEF WorkflowAssumption, ValidWorkflow
  <2>2. \A x \in Step : x \in Nat /\ x > 0 /\ x <= N
    BY <2>1 DEF Step
  <2>3. \A s \in Step : rank[s] \in Step
    BY <1>1
  <2>. QED  BY <2>1, <2>2, <2>3, DepFacts
<1>. DEFINE Below(n) == {s \in Step : rank[s] <= n}
            Fits(n) == \E f \in [Below(n) -> SUBSET Step] : \A s \in Below(n) :
                          f[s] = Deps[s] \cup UNION {f[d] : d \in Deps[s]}
            Bad == {n \in Nat : ~Fits(n)}
<1>3. Bad = {}
  <2>. SUFFICES ASSUME Bad # {} PROVE FALSE
    OBVIOUS
  <2>1. PICK n \in Bad : \A m \in Bad : n <= m
    <3>1. Bad \subseteq Nat
      OBVIOUS
    <3>. HIDE DEF Bad
    <3>. QED  BY <3>1, SmallestNumber
  <2>2. n # 0
    <3>1. Below(0) = {}
      BY <1>2
    <3>2. [s \in {} |-> {}] \in [Below(0) -> SUBSET Step]
      BY <3>1
    <3>3. Fits(0)
      BY <3>1, <3>2
    <3>4. 0 \notin Bad
      BY <3>3
    <3>. HIDE DEF Bad
    <3>. QED  BY <2>1, <3>4
  <2>3. n - 1 \in Nat /\ n \in Nat /\ n - 1 \notin Bad
    <3>1. n \in Nat
      BY <2>1
    <3>2. n - 1 \in Nat /\ ~(n <= n - 1)
      BY <2>2, <3>1
    <3>. HIDE DEF Bad
    <3>. QED  BY <2>1, <3>1, <3>2
  <2>4. PICK f \in [Below(n - 1) -> SUBSET Step] : \A s \in Below(n - 1) :
                          f[s] = Deps[s] \cup UNION {f[d] : d \in Deps[s]}
    BY <2>3
  <2>. DEFINE g == [s \in Below(n) |-> Deps[s] \cup UNION {f[d] : d \in Deps[s]}]
  <2>5. ASSUME NEW s \in Below(n), NEW d \in Deps[s] PROVE d \in Below(n - 1)
    BY <1>1, <1>2, <2>1, <2>3
  <2>6. ASSUME NEW s \in Below(n) PROVE g[s] \in SUBSET Step
    BY <1>2, <2>4, <2>5
  <2>7. ASSUME NEW d \in Below(n - 1) PROVE d \in Below(n) /\ g[d] = f[d]
    <3>1. d \in Below(n)
      BY <1>2, <2>1, <2>3
    <3>. QED  BY <2>4, <3>1
  <2>8. ASSUME NEW s \in Below(n)
        PROVE  g[s] = Deps[s] \cup UNION {g[d] : d \in Deps[s]}
    <3>1. \A d \in Deps[s] : g[d] = f[d]
      BY <2>5, <2>7
    <3>2. g[s] = Deps[s] \cup UNION {f[d] : d \in Deps[s]}
      OBVIOUS
    <3>. HIDE DEF g, Below
    <3>. QED  BY <3>1, <3>2
  <2>9. g \in [Below(n) -> SUBSET Step]
    BY <2>6
  <2>10. Fits(n)
    <3>. HIDE DEF g, Below
    <3>. QED  BY <2>8, <2>9
  <2>. QED  BY <2>1, <2>10
<1>4. \E f : f = [s \in Step |-> Deps[s] \cup UNION {f[d] : d \in Deps[s]}]
  <2>1. Fits(N)
    BY <1>2, <1>3
  <2>2. Below(N) = Step
    BY <1>2
  <2>3. PICK f \in [Below(N) -> SUBSET Step] : \A s \in Below(N) :
                          f[s] = Deps[s] \cup UNION {f[d] : d \in Deps[s]}
    BY <2>1
  <2>4. f = [s \in Step |-> Deps[s] \cup UNION {f[d] : d \in Deps[s]}]
    BY <2>2, <2>3
  <2>. QED  BY <2>4
<1>5. Upstream = [s \in Step |-> Deps[s] \cup UNION {Upstream[d] : d \in Deps[s]}]
  BY <1>4 DEF Upstream
<1>6. \A s \in Step : Upstream[s] = Deps[s] \cup UNION {Upstream[d] : d \in Deps[s]}
  BY <1>5
<1>. DEFINE Astray == {s \in Step : ~(Upstream[s] \subseteq Step)}
            Ranks == {rank[s] : s \in Astray}
<1>7. Astray = {}
  <2>. SUFFICES ASSUME Astray # {} PROVE FALSE
    OBVIOUS
  <2>1. Ranks \subseteq Nat /\ Ranks # {}
    BY <1>2
  <2>2. PICK x \in Ranks : \A y \in Ranks : x <= y
    <3>. HIDE DEF Ranks
    <3>. QED  BY <2>1, SmallestNumber
  <2>3. PICK s \in Astray : rank[s] = x
    BY <2>2
  <2>4. ASSUME NEW d \in Deps[s] PROVE Upstream[d] \subseteq Step
    <3>1. d \in Step /\ rank[d] < rank[s] /\ rank[d] \in Nat /\ rank[s] \in Nat
      BY <1>1, <1>2
    <3>2. d \notin Astray
      <4>1. SUFFICES ASSUME d \in Astray PROVE FALSE
        OBVIOUS
      <4>2. rank[d] \in Ranks
        BY <4>1
      <4>. QED  BY <2>2, <2>3, <3>1, <4>2
    <3>. QED  BY <3>1, <3>2
  <2>. QED  BY <1>2, <1>6, <2>3, <2>4
<1>. QED  BY <1>6, <1>7

\* A copy that has succeeded or may still do so.
Hopeful(s, row) ==
    \/ row.state \in {"pending", "running", "succeeded"}
    \/ /\ row.state = "failed"
       /\ row.armed \/ (row.attempts > 0 /\ RetryAllowed(s, row.attempts))

Hopes(rows, s) == {c \in Copies(s) : Hopeful(s, rows[c])}

Lost(rows, s) ==
    /\ Present(rows, s) # {}
    /\ ~IsPending(rows, s)
    /\ Cardinality(Hopes(rows, s))
          < (IF Quota[s] = 0 THEN Cardinality(Present(rows, s)) ELSE Quota[s])

\* No copy of step s comes or goes, and none that was given up has a future again.
Fades(old, new, s) ==
    \A c \in Copies(s) :
        /\ (new[c].state = "absent") = (old[c].state = "absent")
        /\ new[c].state = "pending" => old[c].state = "pending"
        /\ Hopeful(s, new[c]) => Hopeful(s, old[c])

LEMMA LostLasts ==
    ASSUME NEW old, NEW new, NEW s \in Step, Lost(old, s), Fades(old, new, s)
    PROVE  Lost(new, s)
<1>1. Present(new, s) = Present(old, s) /\ ~IsPending(new, s)
  BY DEF Fades, Lost, Present, IsPending, InState
<1>. DEFINE before == Hopes(old, s)
            after == Hopes(new, s)
<1>2. after \subseteq before /\ after \in SUBSET Copies(s) /\ before \in SUBSET Copies(s)
  BY DEF Fades, Hopes
<1>3. IsFiniteSet(before) /\ Cardinality(after) \in Nat /\ Cardinality(before) \in Nat
  BY <1>2, CopiesFinite
<1>4. Cardinality(after) <= Cardinality(before)
  BY <1>2, <1>3, FS_Subset
<1>. DEFINE required == IF Quota[s] = 0 THEN Cardinality(Present(old, s)) ELSE Quota[s]
<1>5. required \in Nat /\ Cardinality(before) < required
  <2>1. Present(old, s) \in SUBSET Copies(s)
    BY DEF Present
  <2>2. Cardinality(Present(old, s)) \in Nat
    BY <2>1, CopiesFinite
  <2>3. Quota[s] \in Nat
    BY DepFacts
  <2>. QED  BY <2>2, <2>3 DEF Lost
<1>6. Cardinality(after) < required
  <2>. HIDE DEF after, before, required
  <2>. QED  BY <1>3, <1>4, <1>5
<1>. QED  BY <1>1, <1>6 DEF Lost

\* The copies that have succeeded and those that are not through are hopeful, and
\* no others are once every retry that is left is armed.
LEMMA HopesCounted ==
    ASSUME NEW rows \in Rows, NEW s \in Step
    PROVE  LET banked == Cardinality(InState(rows, s, {"succeeded"}))
               inPlay == Cardinality({c \in Present(rows, s) : ~IsTerminal(rows[c])})
           IN  /\ banked \in Nat /\ inPlay \in Nat
               /\ Cardinality(Hopes(rows, s)) \in Nat
               /\ banked + inPlay <= Cardinality(Hopes(rows, s))
               /\ (\A c \in Copies(s) :
                      /\ rows[c].state = "failed"
                      /\ rows[c].attempts > 0
                      /\ RetryAllowed(s, rows[c].attempts)
                      => rows[c].armed)
                  => banked + inPlay = Cardinality(Hopes(rows, s))
<1>. DEFINE won == InState(rows, s, {"succeeded"})
            on == {c \in Present(rows, s) : ~IsTerminal(rows[c])}
            hopes == Hopes(rows, s)
<1>1. \A c \in Copies(s) : rows[c].state \in StepState /\ rows[c].armed \in BOOLEAN
  BY CopyFacts DEF Rows, Row
<1>2. /\ won \in SUBSET Copies(s) /\ on \in SUBSET Copies(s)
      /\ hopes \in SUBSET Copies(s)
  BY DEF InState, Present, Hopes
<1>3. won \cap on = {} /\ won \cup on \subseteq hopes
  BY <1>1 DEF InState, Present, Hopes, Hopeful, IsTerminal, StepState
<1>4. ASSUME \A c \in Copies(s) : /\ rows[c].state = "failed"
                                  /\ rows[c].attempts > 0
                                  /\ RetryAllowed(s, rows[c].attempts)
                                  => rows[c].armed
      PROVE  hopes = won \cup on
  <2>1. ASSUME NEW c \in hopes PROVE c \in won \cup on
    BY <1>1, <1>4 DEF InState, Present, Hopes, Hopeful, IsTerminal, StepState
  <2>. QED  BY <1>3, <2>1
<1>5. /\ IsFiniteSet(won) /\ IsFiniteSet(on) /\ IsFiniteSet(hopes)
      /\ Cardinality(won) \in Nat /\ Cardinality(on) \in Nat
      /\ Cardinality(hopes) \in Nat
  BY <1>2, CopiesFinite
<1>. HIDE DEF won, on, hopes
<1>6. Cardinality(won \cup on) = Cardinality(won) + Cardinality(on)
  <2>1. Cardinality(won \cup on)
            = Cardinality(won) + Cardinality(on) - Cardinality(won \cap on)
    BY <1>5, FS_Union
  <2>2. Cardinality(won \cap on) = 0
    BY <1>3, FS_EmptySet
  <2>. QED  BY <1>5, <2>1, <2>2
<1>7. Cardinality(won \cup on) <= Cardinality(hopes)
  BY <1>3, <1>5, FS_Subset
<1>. QED  BY <1>4, <1>5, <1>6, <1>7 DEF won, on, hopes

LEMMA LostIsUnsatisfiable ==
    ASSUME NEW rows \in Rows, NEW s \in Step, Lost(rows, s)
    PROVE  DepUnsatisfiable(rows, s)
<1>. DEFINE banked == Cardinality(InState(rows, s, {"succeeded"}))
            inPlay == Cardinality({c \in Present(rows, s) : ~IsTerminal(rows[c])})
            hopes == Cardinality(Hopes(rows, s))
            required == IF Quota[s] = 0 THEN Cardinality(Present(rows, s)) ELSE Quota[s]
<1>1. banked \in Nat /\ inPlay \in Nat /\ hopes \in Nat /\ banked + inPlay <= hopes
  BY HopesCounted
<1>2. hopes < required /\ required \in Nat
  <2>1. Present(rows, s) \in SUBSET Copies(s)
    BY DEF Present
  <2>2. Cardinality(Present(rows, s)) \in Nat
    BY <2>1, CopiesFinite
  <2>3. Quota[s] \in Nat
    BY DepFacts
  <2>. QED  BY <2>2, <2>3 DEF Lost
<1>3. ~DepSatisfied(rows, s)
  <2>1. CASE Quota[s] = 0
    <3>1. SUFFICES ASSUME \A c \in Present(rows, s) : rows[c].state = "succeeded"
                   PROVE  FALSE
      BY <2>1 DEF DepSatisfied
    <3>2. InState(rows, s, {"succeeded"}) = Present(rows, s)
      BY <3>1 DEF InState, Present
    <3>3. required = banked
      BY <2>1, <3>2
    <3>. HIDE DEF banked, inPlay, hopes, required
    <3>. QED  BY <1>1, <1>2, <3>3
  <2>2. CASE Quota[s] # 0
    <3>1. required = Quota[s]
      BY <2>2
    <3>2. ~(banked >= Quota[s])
      <4>. HIDE DEF banked, inPlay, hopes, required
      <4>. QED  BY <1>1, <1>2, <3>1
    <3>. QED  BY <2>2, <3>2 DEF DepSatisfied
  <2>. QED  BY <2>1, <2>2
<1>4. banked + inPlay < required
  <2>. HIDE DEF banked, inPlay, hopes, required
  <2>. QED  BY <1>1, <1>2
<1>. QED  BY <1>3, <1>4 DEF Lost, DepUnsatisfiable

LEMMA UnsatisfiableIsLost ==
    ASSUME NEW rows \in Rows, NEW s \in Step, DepUnsatisfiable(rows, s),
           \A c \in Copies(s) : /\ rows[c].state = "failed"
                                /\ rows[c].attempts > 0
                                /\ RetryAllowed(s, rows[c].attempts)
                                => rows[c].armed
    PROVE  Lost(rows, s)
<1>1. Cardinality(InState(rows, s, {"succeeded"}))
          + Cardinality({c \in Present(rows, s) : ~IsTerminal(rows[c])})
        = Cardinality(Hopes(rows, s))
  BY HopesCounted
<1>. QED  BY <1>1 DEF DepUnsatisfiable, Lost

\* What a pass may do to a row that still has a future, and to one of a copy that
\* has failed: no other row changes.
Ages(s, old, new) ==
    \/ new = old
    \/ /\ Hopeful(s, old)
       /\ new.state # "absent"
       /\ new.state = "pending" => old.state = "pending"
    \/ old.state = "failed" /\ new.state = "cancelled"

LEMMA AgesFades ==
    ASSUME NEW old, NEW new, \A c \in Copy : Ages(c[1], old[c], new[c])
    PROVE  \A s \in Step : Fades(old, new, s)
<1>. SUFFICES ASSUME NEW s \in Step, NEW c \in Copies(s)
              PROVE  /\ (new[c].state = "absent") = (old[c].state = "absent")
                     /\ new[c].state = "pending" => old[c].state = "pending"
                     /\ Hopeful(s, new[c]) => Hopeful(s, old[c])
  BY DEF Fades
<1>1. Ages(s, old[c], new[c])
  BY CopyFacts DEF Copies
<1>. QED  BY ONLY <1>1 DEF Ages, Hopeful

\* Every skip has a reason that will not go away.
Justified(rows) ==
    \A c \in Copy : rows[c].state = "skipped" =>
        \/ c[1] \in DeclinedByCondition(rows)
        \/ \E d \in Upstream[c[1]] : Lost(rows, d)

\* Reasons last, so only what is newly skipped needs one.
LEMMA JustifiedLasts ==
    ASSUME NEW old, NEW new, Justified(old),
           \A s \in Step : DepSatisfied(old, s) => DepSatisfied(new, s),
           \A s \in Step : Lost(old, s) => Lost(new, s),
           \A c \in Copy : new[c].state = "skipped" =>
              \/ old[c].state = "skipped"
              \/ c[1] \in DeclinedByCondition(new)
              \/ \E d \in Upstream[c[1]] : Lost(new, d)
    PROVE  Justified(new)
<1>. SUFFICES ASSUME NEW c \in Copy, new[c].state = "skipped", old[c].state = "skipped"
              PROVE  \/ c[1] \in DeclinedByCondition(new)
                     \/ \E d \in Upstream[c[1]] : Lost(new, d)
  BY DEF Justified
<1>1. c[1] \in Step
  BY CopyFacts
<1>2. CASE c[1] \in DeclinedByCondition(old)
  <2>1. c[1] \in Condition /\ DepsSatisfied(old, c[1])
    BY <1>2 DEF DeclinedByCondition
  <2>2. DepsSatisfied(new, c[1])
    BY <1>1, <2>1, DepFacts DEF DepsSatisfied
  <2>3. c = Placeholder(c[1])
    <3>1. Fan[c[1]] = 1
      BY <2>1, WorkflowAssumption DEF WorkflowAssumption, ValidWorkflow
    <3>2. c[2] \in 1 .. 1 /\ c = <<c[1], c[2]>>
      BY <3>1, CopyFacts
    <3>. QED  BY <3>2 DEF Placeholder
  <2>. QED  BY <2>1, <2>2, <2>3 DEF DeclinedByCondition
<1>3. CASE \E d \in Upstream[c[1]] : Lost(old, d)
  BY <1>1, <1>3, UpstreamFacts
<1>. QED  BY <1>2, <1>3 DEF Justified

LEMMA OnwardJoins ==
    ASSUME NEW old, NEW new, Onward(old, new)
    PROVE  \A s \in Step : DepSatisfied(old, s) => DepSatisfied(new, s)
<1>. SUFFICES ASSUME NEW s \in Step, DepSatisfied(old, s) PROVE DepSatisfied(new, s)
  OBVIOUS
<1>1. Copies(s) \subseteq Copy
  BY CopyFacts
<1>. QED  BY <1>1, JoinLasts DEF Onward

\* Under a pass that skips nothing.
LEMMA AgesJustified ==
    ASSUME NEW old, NEW new, Justified(old), Onward(old, new),
           \A c \in Copy : Ages(c[1], old[c], new[c]),
           \A c \in Copy : new[c].state = "skipped" => old[c].state = "skipped"
    PROVE  Justified(new)
<1>1. \A s \in Step : Fades(old, new, s)
  BY AgesFades
<1>2. \A s \in Step : Lost(old, s) => Lost(new, s)
  BY <1>1, LostLasts
<1>3. \A s \in Step : DepSatisfied(old, s) => DepSatisfied(new, s)
  BY OnwardJoins
<1>. QED  BY <1>2, <1>3, JustifiedLasts

LEMMA JudgesJustified ==
    ASSUME NEW old, NEW new, Judges(old, new), Justified(old)
    PROVE  Justified(new)
<1>2. Onward(old, new)
  BY DEF Judges, Onward
<1>1. ASSUME NEW c \in Copy
      PROVE  /\ Ages(c[1], old[c], new[c])
             /\ new[c].state = "skipped" => old[c].state = "skipped"
  <2>1. CASE new[c] = old[c]
    BY <2>1 DEF Ages
  <2>2. CASE new[c] # old[c]
    <3>1. \/ /\ old[c].state = "running"
             /\ new[c].state \in {"running", "succeeded", "failed", "cancelled"}
          \/ old[c].state = "failed" /\ new[c].state = "cancelled"
      BY <2>2 DEF Judges
    <3>. QED  BY ONLY <3>1 DEF Ages, Hopeful
  <2>. QED  BY <2>1, <2>2
<1>. QED  BY <1>1, <1>2, AgesJustified

LEMMA RetriesJustified ==
    ASSUME NEW old, NEW new, Sound(old), Retries(old, new), Justified(old)
    PROVE  Justified(new)
<1>1. PICK c \in Copy :
        /\ old[c].state = "failed" /\ old[c].armed
        /\ new[c].state \in {"failed", "running"}
        /\ new[c].escalated = old[c].escalated
        /\ \/ new[c].attempts = old[c].attempts + 1
           \/ new[c].attempts = old[c].attempts /\ new[c].armed = old[c].armed
        /\ \A d \in Copy : d # c => new[d] = old[d]
  BY DEF Retries
<1>2. ASSUME NEW d \in Copy
      PROVE  /\ Ages(d[1], old[d], new[d])
             /\ new[d].state = "skipped" => old[d].state = "skipped"
  <2>1. CASE d = c
    <3>1. /\ old[d].state = "failed" /\ old[d].armed
          /\ new[d].state \in {"failed", "running"}
      BY <1>1, <2>1
    <3>. QED  BY ONLY <3>1 DEF Ages, Hopeful
  <2>2. CASE d # c
    BY <1>1, <2>2 DEF Ages
  <2>. QED  BY <2>1, <2>2
<1>3. Onward(old, new)
  <2>1. old[c].attempts > 0
    BY <1>1 DEF Sound, RowWithinBudget
  <2>. QED  BY <1>1, <2>1 DEF Onward
<1>. QED  BY <1>2, <1>3, AgesJustified

-----------------------------------------------------------------------------
(* The decisions of a tick.                                                *)

LEMMA ArmJustified ==
    ASSUME NEW rows \in Rows, Justified(rows)
    PROVE  /\ Justified(ArmRetryBackoff(rows))
           /\ \A c \in Copy : /\ ArmRetryBackoff(rows)[c].state = "failed"
                              /\ ArmRetryBackoff(rows)[c].attempts > 0
                              /\ RetryAllowed(c[1], ArmRetryBackoff(rows)[c].attempts)
                              => ArmRetryBackoff(rows)[c].armed
<1>. DEFINE new == ArmRetryBackoff(rows)
<1>1. ASSUME NEW c \in Copy
      PROVE  \/ /\ rows[c].state = "failed" /\ ~rows[c].armed /\ rows[c].attempts > 0
                /\ RetryAllowed(c[1], rows[c].attempts)
                /\ new[c] = [rows[c] EXCEPT !.armed = TRUE]
             \/ /\ ~(/\ rows[c].state = "failed" /\ ~rows[c].armed
                     /\ rows[c].attempts > 0 /\ RetryAllowed(c[1], rows[c].attempts))
                /\ new[c] = rows[c]
  BY DEF ArmRetryBackoff
<1>2. Onward(rows, new)
  BY ArmRetryBackoffQuiet, QuietFacts
<1>. HIDE DEF new
<1>3. ASSUME NEW c \in Copy
      PROVE  /\ Ages(c[1], rows[c], new[c])
             /\ new[c].state = "skipped" => rows[c].state = "skipped"
             /\ /\ new[c].state = "failed"
                /\ new[c].attempts > 0
                /\ RetryAllowed(c[1], new[c].attempts)
                => new[c].armed
  <2>1. rows[c] \in Row
    BY DEF Rows
  <2>2. CASE /\ rows[c].state = "failed" /\ ~rows[c].armed /\ rows[c].attempts > 0
             /\ RetryAllowed(c[1], rows[c].attempts)
             /\ new[c] = [rows[c] EXCEPT !.armed = TRUE]
    <3>1. new[c].state = "failed" /\ new[c].armed
      BY ONLY <2>1, <2>2 DEF Row
    <3>. QED  BY ONLY <2>2, <3>1 DEF Ages, Hopeful
  <2>3. CASE /\ ~(/\ rows[c].state = "failed" /\ ~rows[c].armed
                  /\ rows[c].attempts > 0 /\ RetryAllowed(c[1], rows[c].attempts))
             /\ new[c] = rows[c]
    BY ONLY <2>3 DEF Ages
  <2>. QED  BY ONLY <1>1, <2>2, <2>3
<1>4. Justified(new)
  BY <1>2, <1>3, AgesJustified
<1>. QED  BY <1>3, <1>4 DEF new

\* Rows as the decisions find them: what can be retried is armed, and what waits
\* was never attempted.
Poised(rows) ==
    /\ Sound(rows)
    /\ Justified(rows)
    /\ \A c \in Copy : /\ rows[c].state = "failed"
                       /\ rows[c].attempts > 0
                       /\ RetryAllowed(c[1], rows[c].attempts)
                       => rows[c].armed
    /\ \A c \in Copy : rows[c].state = "pending" => rows[c].attempts = 0

LEMMA SetStepStatePoised ==
    ASSUME NEW rows, Poised(rows), NEW steps, NEW state \in {"skipped", "failed"},
           \A s \in steps \cap Step : rows[Placeholder(s)].state = "pending",
           state = "skipped" => \A s \in steps \cap Step :
              \/ s \in Condition /\ DepsSatisfied(rows, s)
              \/ \E d \in Upstream[s] : Lost(rows, d)
    PROVE  Poised(SetStepState(rows, steps, state))
<1>. DEFINE new == SetStepState(rows, steps, state)
<1>1. Sound(rows) /\ \A c \in Copy : rows[c] \in Row /\ RowWithinBudget(c[1], rows[c])
  BY DEF Poised, Sound, Rows
<1>2. ASSUME NEW s \in steps \cap Step PROVE ~rows[Placeholder(s)].armed
  <2>1. Placeholder(s) \in Copy /\ rows[Placeholder(s)].state = "pending"
    BY CopyFacts
  <2>. QED  BY <1>1, <2>1 DEF RowWithinBudget
<1>3. Sound(new)
  BY <1>1, <1>2, SetStepStateSound
<1>4. Onward(rows, new)
  BY <1>1, SetStepStateQuiet, QuietFacts
<1>5. ASSUME NEW c \in Copy
      PROVE  \/ new[c] = rows[c]
             \/ /\ c[1] \in steps /\ c = Placeholder(c[1])
                /\ rows[c].state = "pending"
                /\ new[c] = [rows[c] EXCEPT !.state = state, !.waiting = FALSE]
  BY CopyFacts DEF SetStepState
<1>. HIDE DEF new
<1>6. ASSUME NEW c \in Copy, rows[c].state = "pending",
             new[c] = [rows[c] EXCEPT !.state = state, !.waiting = FALSE]
      PROVE  new[c].state = state /\ new[c].attempts = 0
  <2>1. rows[c] \in Row /\ rows[c].attempts = 0
    BY <1>1, <1>6 DEF Poised
  <2>. QED  BY ONLY <1>6, <2>1 DEF Row
<1>7. ASSUME NEW c \in Copy PROVE Ages(c[1], rows[c], new[c])
  <2>1. CASE new[c] = rows[c]
    BY <2>1 DEF Ages
  <2>2. CASE /\ rows[c].state = "pending"
             /\ new[c] = [rows[c] EXCEPT !.state = state, !.waiting = FALSE]
    BY <1>6, <2>2 DEF Ages, Hopeful
  <2>. QED  BY <1>5, <2>1, <2>2
<1>8. \A s \in Step : Lost(rows, s) => Lost(new, s)
  BY <1>7, AgesFades, LostLasts
<1>9. \A s \in Step : DepSatisfied(rows, s) => DepSatisfied(new, s)
  BY <1>4, OnwardJoins
<1>10. ASSUME NEW c \in Copy, new[c].state = "skipped", rows[c].state # "skipped"
       PROVE  \/ c[1] \in DeclinedByCondition(new)
              \/ \E d \in Upstream[c[1]] : Lost(new, d)
  <2>1. c[1] \in steps \cap Step /\ c = Placeholder(c[1]) /\ state = "skipped"
    BY <1>5, <1>6, <1>10, CopyFacts
  <2>2. CASE c[1] \in Condition /\ DepsSatisfied(rows, c[1])
    <3>1. DepsSatisfied(new, c[1])
      BY <1>9, <2>1, <2>2, DepFacts DEF DepsSatisfied
    <3>. QED  BY <1>10, <2>1, <2>2, <3>1 DEF DeclinedByCondition
  <2>3. CASE \E d \in Upstream[c[1]] : Lost(rows, d)
    BY <1>8, <2>1, <2>3, UpstreamFacts
  <2>. QED  BY <2>1, <2>2, <2>3
<1>11. Justified(new)
  BY <1>8, <1>9, <1>10, JustifiedLasts DEF Poised
<1>12. ASSUME NEW c \in Copy
       PROVE  /\ /\ new[c].state = "failed"
                 /\ new[c].attempts > 0
                 /\ RetryAllowed(c[1], new[c].attempts)
                 => new[c].armed
              /\ new[c].state = "pending" => new[c].attempts = 0
  <2>1. CASE new[c] = rows[c]
    BY <2>1 DEF Poised
  <2>2. CASE /\ rows[c].state = "pending"
             /\ new[c] = [rows[c] EXCEPT !.state = state, !.waiting = FALSE]
    <3>1. new[c].state = state /\ new[c].attempts = 0
      BY <1>6, <2>2
    <3>. QED  BY ONLY <3>1, state \in {"skipped", "failed"}
  <2>. QED  BY <1>5, <2>1, <2>2
<1>. QED  BY <1>3, <1>11, <1>12 DEF Poised, new

LEMMA DecideJustified ==
    ASSUME NEW rows, Sound(rows), Calm(rows), Justified(rows)
    PROVE  Justified(Decide(rows))
<1>. DEFINE a == ArmRetryBackoff(rows)
            b == SetStepState(a, ConditionTargets(a, "other"), "skipped")
            c == SetStepState(b, ConditionTargets(a, "none"), "failed")
            d == SetStepState(c, FailfastTargets(c), "skipped")
<1>1. /\ Sound(a)
      /\ \A s \in ConditionTargets(a, "other") \cap Step : a[Placeholder(s)].state = "pending"
      /\ \A s \in ConditionTargets(a, "none") \cap Step : b[Placeholder(s)].state = "pending"
      /\ \A s \in FailfastTargets(c) \cap Step : c[Placeholder(s)].state = "pending"
  BY DecidedWait
<1>2. Decide(rows) = d
  BY DEF Decide, Failfast, ApplyConditions
<1>3. Poised(a)
  <2>1. rows \in Rows /\ Quiet(rows, a)
    BY ArmRetryBackoffQuiet DEF Sound
  <2>2. ASSUME NEW e \in Copy, a[e].state = "pending" PROVE a[e].attempts = 0
    BY <2>1, <2>2 DEF Quiet, Calm, Unborn
  <2>3. /\ Justified(a)
        /\ \A e \in Copy : /\ a[e].state = "failed"
                           /\ a[e].attempts > 0
                           /\ RetryAllowed(e[1], a[e].attempts)
                           => a[e].armed
    BY <2>1, ArmJustified
  <2>. HIDE DEF a
  <2>. QED  BY <1>1, <2>2, <2>3 DEF Poised
<1>4. Poised(b)
  <2>1. \A s \in ConditionTargets(a, "other") \cap Step :
            s \in Condition /\ DepsSatisfied(a, s)
    BY DEF ConditionTargets
  <2>. HIDE DEF a
  <2>. QED  BY <1>1, <1>3, <2>1, SetStepStatePoised
<1>5. Poised(c)
  <2>. HIDE DEF a, b
  <2>. QED  BY <1>1, <1>4, SetStepStatePoised
<1>. HIDE DEF a, b, c
<1>6. ASSUME NEW s \in FailfastTargets(c) \cap Step
      PROVE  \E u \in Upstream[s] : Lost(c, u)
  <2>1. PICK u \in Upstream[s] : DepUnsatisfiable(c, u)
    BY DEF FailfastTargets
  <2>2. u \in Step /\ c \in Rows
    BY <1>5, UpstreamFacts DEF Poised, Sound
  <2>3. \A e \in Copies(u) : /\ c[e].state = "failed"
                             /\ c[e].attempts > 0
                             /\ RetryAllowed(u, c[e].attempts)
                             => c[e].armed
    <3>1. \A e \in Copies(u) : e \in Copy /\ e[1] = u
      BY <2>2, CopyFacts DEF Copies
    <3>. QED  BY <1>5, <3>1 DEF Poised
  <2>4. Lost(c, u)
    BY <2>1, <2>2, <2>3, UnsatisfiableIsLost
  <2>. QED  BY <2>4
<1>7. Poised(d)
  BY <1>1, <1>5, <1>6, SetStepStatePoised
<1>. QED  BY <1>2, <1>7 DEF Poised

-----------------------------------------------------------------------------
(* The steps of the program.                                               *)

JustifiedEverywhere ==
    /\ \A r \in Run : Justified(reg[r].rows)
    /\ Justified(loc) /\ Justified(snap.rows)
    /\ \A c \in Copy : launch.rows[c].state # "skipped"

SInv == TInv /\ JustifiedEverywhere

\* Rows in which nothing is skipped.
LEMMA NothingSkipped ==
    ASSUME NEW rows, \A c \in Copy : rows[c].state # "skipped"
    PROVE  Justified(rows)
BY DEF Justified

\* A join that is satisfied has a success in it.
LEMMA SatisfiedSucceeded ==
    ASSUME NEW rows, NEW s \in Step, DepSatisfied(rows, s)
    PROVE  \E c \in Copies(s) : rows[c].state = "succeeded"
<1>1. CASE Quota[s] = 0
  BY <1>1 DEF DepSatisfied, Present
<1>2. CASE Quota[s] # 0
  <2>1. Cardinality(InState(rows, s, {"succeeded"})) >= Quota[s] /\ Quota[s] \in Nat
    BY <1>2, DepFacts DEF DepSatisfied
  <2>2. InState(rows, s, {"succeeded"}) # {}
    BY <1>2, <2>1, FS_EmptySet
  <2>. QED  BY <2>2 DEF InState
<1>. QED  BY <1>1, <1>2

\* No join that is satisfied is of the step that is spawned.
LEMMA SpawnJoins ==
    ASSUME NEW rows, NEW s \in Step, NEW reused, NEW up, NEW sent,
           rows[Placeholder(s)].state = "pending",
           \A c \in Copies(s) : rows[c].state \in {"pending", "absent"}
    PROVE  \A d \in Step : DepSatisfied(rows, d) =>
              DepSatisfied(SpawnStep(rows, s, reused, up, sent), d)
<1>. DEFINE new == SpawnStep(rows, s, reused, up, sent)
<1>1. \A c \in Copy : c[1] # s => new[c] = rows[c]
  BY DEF SpawnStep
<1>. HIDE DEF new
<1>2. ASSUME NEW d \in Step, DepSatisfied(rows, d) PROVE DepSatisfied(new, d)
  <2>1. PICK c \in Copies(d) : rows[c].state = "succeeded"
    BY <1>2, SatisfiedSucceeded
  <2>2. d # s
    BY <2>1
  <2>3. \A e \in Copies(d) : e \in Copy /\ e[1] = d
    BY CopyFacts DEF Copies
  <2>4. \A e \in Copies(d) : new[e] = rows[e]
    BY <1>1, <2>2, <2>3
  <2>. QED  BY <1>2, <2>4, JoinLasts
<1>. QED  BY <1>2 DEF new

LEMMA SpawnJustified ==
    ASSUME NEW rows, Orderly(rows), Justified(rows), NEW s \in Step, Cleared(rows, s),
           NEW reused, NEW up, NEW sent,
           rows[Placeholder(s)].state = "pending",
           \A c \in Copies(s) : rows[c].state \in {"pending", "absent"}
    PROVE  Justified(SpawnStep(rows, s, reused, up, sent))
<1>. DEFINE new == SpawnStep(rows, s, reused, up, sent)
<1>1. ASSUME NEW c \in Copy
      PROVE  /\ c[1] # s => new[c] = rows[c]
             /\ c[1] = s => new[c].state \in {"failed", "running"}
  BY AttemptNotPending DEF SpawnStep
<1>. HIDE DEF new
<1>2. ASSUME NEW d \in Step, d # s, NEW c \in Copies(d) PROVE new[c] = rows[c]
  BY <1>1, <1>2, CopyFacts DEF Copies
<1>3. ASSUME NEW d \in Step, Lost(rows, d) PROVE Lost(new, d)
  <2>1. d # s
    <3>1. Placeholder(s) \in Copies(s)
      BY CopyFacts
    <3>2. IsPending(rows, s)
      BY <3>1 DEF IsPending, InState
    <3>. QED  BY <1>3, <3>2 DEF Lost
  <2>2. Fades(rows, new, d)
    BY <1>2, <2>1 DEF Fades
  <2>. QED  BY <1>3, <2>2, LostLasts
<1>4. \A d \in Step : DepSatisfied(rows, d) => DepSatisfied(new, d)
  BY SpawnJoins DEF new
<1>5. ASSUME NEW c \in Copy, new[c].state = "skipped" PROVE rows[c].state = "skipped"
  BY <1>1, <1>5
<1>6. Justified(new)
  BY <1>3, <1>4, <1>5, JustifiedLasts
<1>. QED  BY <1>6 DEF new

LEMMA DeferJustified == ASSUME SInv, DeferStep PROVE Justified(loc')
<1>. DEFINE c == Placeholder(First(todo)[1])
            row == IF c \in over
                   THEN [loc[c] EXCEPT !.state = "failed", !.waiting = FALSE,
                                       !.attempts = 1]
                   ELSE [loc[c] EXCEPT !.waiting = TRUE]
<1>1. loc' = [loc EXCEPT ![c] = row] /\ pc = "spawn" /\ todo # {}
  BY DEF DeferStep
<1>2. /\ c \in Copy /\ loc[c].state = "pending" /\ Cleared(loc, c[1])
  BY <1>1, SpawnTurn DEF Placeholder, SInv, TInv
<1>3. loc \in Rows /\ loc[c] \in Row /\ Orderly(loc)
  BY <1>2, RowFacts DEF SInv, TInv, OInv, Order
<1>. HIDE DEF c
<1>4. row \in Row /\ row.state \in {"failed", "pending"}
  BY <1>2, <1>3 DEF Row, StepState
<1>. HIDE DEF row
<1>5. \A d \in Copy : loc'[d] = IF d = c THEN row ELSE loc[d]
  BY <1>1, <1>3 DEF Rows
<1>6. ASSUME NEW d \in Copy
      PROVE  /\ Ages(d[1], loc[d], loc'[d])
             /\ loc'[d].state = "skipped" => loc[d].state = "skipped"
  <2>1. CASE d = c
    BY <1>2, <1>4, <1>5, <2>1 DEF Ages, Hopeful
  <2>2. CASE d # c
    BY <1>5, <2>2 DEF Ages
  <2>. QED  BY <2>1, <2>2
<1>7. ASSUME NEW s \in Step, DepSatisfied(loc, s) PROVE DepSatisfied(loc', s)
  <2>1. \A d \in Copies(s) : d \in Copy
    BY CopyFacts
  <2>. QED  BY <1>2, <1>5, <1>7, <2>1, JoinLasts
<1>8. \A s \in Step : Lost(loc, s) => Lost(loc', s)
  BY <1>6, AgesFades, LostLasts
<1>. QED  BY <1>6, <1>7, <1>8, JustifiedLasts DEF SInv, JustifiedEverywhere

\* Every pass before the write-back.
LEMMA PassJustified == ASSUME SInv, DriverStep, ~Finish PROVE Justified(loc')
<1>1. TInv /\ Sound(loc) /\ Calm(loc) /\ Orderly(loc) /\ Justified(loc)
  BY DEF SInv, TInv, OInv, IInv, SoundEverywhere, Told, Order, JustifiedEverywhere
<1>2. CASE DetectReplyCompletions \/ DetectCompletions \/ CheckTimeouts \/ CancelStragglers
  <2>1. Judges(loc, loc')
    BY <1>1, <1>2, DetectReplyCompletionsJudges, DetectCompletionsJudges,
       CheckTimeoutsJudges, CancelStragglersJudges
  <2>. QED  BY <1>1, <2>1, JudgesJustified
<1>3. CASE RestartInPlace \/ RespawnFresh \/ PostponeRetry
  <2>1. Retries(loc, loc')
    BY <1>1, <1>3, RestartInPlaceRetries, RespawnFreshRetries, PostponeRetryRetries
  <2>. QED  BY <1>1, <2>1, RetriesJustified
<1>4. CASE FireDueRetries
  BY <1>1, <1>4 DEF FireDueRetries
<1>5. CASE DecidePasses
  <2>1. loc' = Decide(loc)
    BY <1>5 DEF DecidePasses
  <2>. QED  BY <1>1, <2>1, DecideJustified
<1>6. CASE SpawnReady
  <2>. DEFINE s == First(todo)[1]
              reused == Reusable(loc, s, claimed)
  <2>1. PICK up, sent : loc' = SpawnStep(loc, s, reused, up, sent)
    BY <1>6 DEF SpawnReady
  <2>2. /\ s \in Step /\ Cleared(loc, s) /\ loc[Placeholder(s)].state = "pending"
        /\ \A c \in Copies(s) : loc[c].state \in {"pending", "absent"}
    BY <1>1, <1>6, SpawnTurn DEF SpawnReady, TInv
  <2>. HIDE DEF s, reused
  <2>. QED  BY <1>1, <2>1, <2>2, SpawnJustified
<1>7. CASE DeferStep
  BY <1>7, DeferJustified
<1>. QED  BY <1>2, <1>3, <1>4, <1>5, <1>6, <1>7 DEF DriverStep

LEMMA EscalatedJustified ==
    ASSUME NEW rows \in Rows, Justified(rows), NEW exhausted
    PROVE  Justified(MarkEscalated(rows, exhausted))
<1>. DEFINE new == MarkEscalated(rows, exhausted)
<1>1. ASSUME NEW c \in Copy
      PROVE  /\ new[c].state = rows[c].state /\ new[c].armed = rows[c].armed
             /\ new[c].attempts = rows[c].attempts
  <2>1. new[c] = rows[c] \/ new[c] = [rows[c] EXCEPT !.escalated = TRUE]
    BY DEF MarkEscalated
  <2>2. rows[c] \in Row
    BY DEF Rows
  <2>. HIDE DEF new
  <2>. QED  BY ONLY <2>1, <2>2 DEF Row
<1>2. Onward(rows, new)
  BY MarkEscalatedQuiet, QuietFacts
<1>. HIDE DEF new
<1>3. ASSUME NEW s \in Step PROVE Fades(rows, new, s)
  <2>1. ASSUME NEW c \in Copies(s)
        PROVE  /\ new[c].state = rows[c].state /\ new[c].armed = rows[c].armed
               /\ new[c].attempts = rows[c].attempts
    BY <1>1, CopyFacts
  <2>. QED  BY <2>1 DEF Fades, Hopeful
<1>4. \A s \in Step : Lost(rows, s) => Lost(new, s)
  BY <1>3, LostLasts
<1>5. \A s \in Step : DepSatisfied(rows, s) => DepSatisfied(new, s)
  BY <1>2, OnwardJoins
<1>6. Justified(new)
  BY <1>1, <1>4, <1>5, JustifiedLasts
<1>. QED  BY <1>6 DEF new

LEMMA NoRowsJustified == Justified(NoRows)
BY NothingSkipped DEF NoRows, NoRow

LEMMA FinishJustified ==
    ASSUME SInv, Finish
    PROVE  Justified(loc') /\ \A r \in Run : Justified(reg'[r].rows)
<1>. DEFINE armed == ArmRetryBackoff(loc)
            rows == MarkEscalated(armed, Exhausted(armed))
            state == FinalizeState(rows)
<1>1. \/ reg' = reg
      \/ reg' = [reg EXCEPT ![cur] = [state |-> state, rows |-> rows]]
  BY DEF Finish
<1>2. loc' = NoRows
  BY DEF Finish
<1>3. Sound(loc) /\ Justified(loc) /\ \A r \in Run : Justified(reg[r].rows)
  BY DEF SInv, TInv, OInv, IInv, SoundEverywhere, JustifiedEverywhere
<1>4. armed \in Rows /\ Justified(armed)
  BY <1>3, ArmRetryBackoffSound, ArmJustified DEF Sound
<1>. HIDE DEF armed
<1>5. Justified(rows)
  BY <1>4, EscalatedJustified
<1>. HIDE DEF rows, state
<1>6. DOMAIN reg = Run
  BY DEF SInv, TInv, OInv, IInv, TypeOK
<1>7. \A r \in Run : reg'[r].rows \in {rows, reg[r].rows}
  BY ONLY <1>1, <1>6
<1>. QED  BY <1>2, <1>3, <1>5, <1>7, NoRowsJustified

LEMMA CancelWriteJustified ==
    ASSUME SInv, CancelWrite PROVE \A r \in Run : Justified(reg'[r].rows)
<1>. DEFINE ended == {c \in Copy : snap.rows[c].state = "running"}
                        \cup {c \in Copy : snap.rows[c].state = "pending"}
            rows == [c \in Copy |->
                        IF c \in ended
                        THEN [snap.rows[c] EXCEPT !.state = "cancelled",
                                                  !.waiting = FALSE]
                        ELSE snap.rows[c]]
<1>1. reg' = [reg EXCEPT ![snap.run] = [state |-> "cancelled", rows |-> rows]]
  BY DEF CancelWrite
<1>2. ASSUME NEW c \in Copy
      PROVE  \/ rows[c] = snap.rows[c]
             \/ /\ snap.rows[c].state \in {"running", "pending"}
                /\ rows[c] = [snap.rows[c] EXCEPT !.state = "cancelled",
                                                  !.waiting = FALSE]
  OBVIOUS
<1>3. \A c \in Copy : snap.rows[c] \in Row
  BY RowFacts DEF SInv, TInv, Rows
<1>. HIDE DEF rows
<1>4. Onward(snap.rows, rows)
  BY <1>2, <1>3 DEF Onward, Row
<1>5. ASSUME NEW c \in Copy
      PROVE  /\ Ages(c[1], snap.rows[c], rows[c])
             /\ rows[c].state = "skipped" => snap.rows[c].state = "skipped"
  <2>1. CASE rows[c] = snap.rows[c]
    BY <2>1 DEF Ages
  <2>2. CASE /\ snap.rows[c].state \in {"running", "pending"}
             /\ rows[c] = [snap.rows[c] EXCEPT !.state = "cancelled", !.waiting = FALSE]
    <3>1. rows[c].state = "cancelled"
      BY <1>3, <2>2 DEF Row
    <3>. QED  BY <2>2, <3>1 DEF Ages, Hopeful
  <2>. QED  BY <1>2, <2>1, <2>2
<1>6. Justified(rows)
  BY <1>4, <1>5, AgesJustified DEF SInv, JustifiedEverywhere
<1>7. \A r \in Run : reg'[r].rows \in {rows, reg[r].rows}
  BY <1>1 DEF SInv, TInv, OInv, IInv, TypeOK
<1>. QED  BY <1>6, <1>7 DEF SInv, JustifiedEverywhere

\* Nothing is skipped while a run is launched.
LEMMA LaunchSkipsNothing ==
    ASSUME SInv, (\E r \in Run : LaunchBegin(r)) \/ LaunchRoot \/ LaunchDeferred
    PROVE  \A c \in Copy : launch'.rows[c].state # "skipped"
<1>1. \A c \in Copy : launch.rows[c].state # "skipped"
  BY DEF SInv, JustifiedEverywhere
<1>2. CASE \E r \in Run : LaunchBegin(r)
  BY <1>2 DEF LaunchBegin, PendingRow, NoRow
<1>3. CASE LaunchRoot
  <2>. DEFINE s == First(launch.todo)[1]
              reused == Reusable(launch.rows, s, launch.claimed)
              needed == SlotsNeeded(launch.rows, s, launch.claimed)
  <2>1. PICK up, sent : launch' = [launch EXCEPT
                !.rows = SpawnStep(launch.rows, s, reused, up, sent),
                !.todo = @ \ Copies(s), !.budget = @ - needed]
    BY <1>3 DEF LaunchRoot
  <2>2. launch \in LaunchType
    BY <1>3, LaunchTurn DEF SInv, TInv, LaunchRoot
  <2>3. launch'.rows = SpawnStep(launch.rows, s, reused, up, sent)
    BY <2>1, <2>2 DEF LaunchType
  <2>. HIDE DEF s, reused
  <2>. QED  BY <1>1, <2>3, AttemptNotPending DEF SpawnStep
<1>4. CASE LaunchDeferred
  <2>. DEFINE c == Placeholder(First(launch.todo)[1])
              row == [PendingRow EXCEPT !.waiting = TRUE]
  <2>1. launch' = [launch EXCEPT !.rows[c] = row, !.todo = @ \ {c}]
    BY <1>4 DEF LaunchDeferred
  <2>2. launch \in LaunchType /\ launch.rows \in Rows
    BY <1>4, LaunchTurn DEF SInv, TInv, LaunchDeferred
  <2>3. row.state = "pending"
    BY DEF PendingRow, NoRow
  <2>. HIDE DEF c, row
  <2>4. \A d \in Copy : launch'.rows[d] = IF d = c THEN row ELSE launch.rows[d]
    BY <2>1, <2>2 DEF LaunchType, Rows
  <2>. QED  BY <1>1, <2>3, <2>4
<1>. QED  BY <1>2, <1>3, <1>4

LEMMA NextJustified == ASSUME SInv, [Next]_vars PROVE JustifiedEverywhere'
<1>. USE DEF SInv
<1>1. ASSUME NEW r \in Run, Tick(r) PROVE JustifiedEverywhere'
  <2>1. loc' = reg[r].rows /\ UNCHANGED <<reg, launch, snap>>
    BY <1>1 DEF Tick, TickBegin
  <2>. QED  BY <2>1 DEF JustifiedEverywhere
<1>2. CASE (\E r \in Run : LaunchBegin(r)) \/ LaunchRoot \/ LaunchDeferred
  <2>1. UNCHANGED <<reg, loc, snap>>
    BY <1>2 DEF LaunchBegin, LaunchRoot, LaunchDeferred, driver
  <2>2. \A c \in Copy : launch'.rows[c].state # "skipped"
    BY <1>2, LaunchSkipsNothing
  <2>. QED  BY <2>1, <2>2 DEF JustifiedEverywhere
<1>3. ASSUME NEW r \in Run, CancelRead(r) PROVE JustifiedEverywhere'
  <2>1. snap'.rows = reg[r].rows /\ UNCHANGED <<reg, loc, launch>>
    BY <1>3 DEF CancelRead, driver
  <2>. QED  BY <2>1 DEF JustifiedEverywhere
<1>4. CASE Finish
  <2>1. UNCHANGED <<launch, snap>>
    BY <1>4 DEF Finish
  <2>. QED  BY <1>4, <2>1, FinishJustified DEF JustifiedEverywhere
<1>5. CASE DriverStep /\ ~Finish
  <2>1. UNCHANGED <<reg, launch, snap>>
    BY <1>5, EveryPassAdvances
  <2>. QED  BY <1>5, <2>1, PassJustified DEF JustifiedEverywhere
<1>6. CASE LaunchEnd
  <2>1. PICK state : reg' = [reg EXCEPT ![launch.run] =
                                [state |-> state, rows |-> launch.rows]]
    BY <1>6 DEF LaunchEnd
  <2>2. launch'.rows = NoRows /\ UNCHANGED <<loc, snap>>
    BY <1>6 DEF LaunchEnd, driver
  <2>3. \A r \in Run : reg'[r].rows \in {launch.rows, reg[r].rows}
    BY <2>1 DEF TInv, OInv, IInv, TypeOK
  <2>4. \A c \in Copy : NoRows[c].state # "skipped"
    BY DEF NoRows, NoRow
  <2>. QED  BY <2>2, <2>3, <2>4, NothingSkipped DEF JustifiedEverywhere
<1>7. CASE CancelWrite
  <2>1. snap'.rows = NoRows /\ UNCHANGED <<loc, launch>>
    BY <1>7 DEF CancelWrite, driver
  <2>. QED  BY <1>7, <2>1, CancelWriteJustified, NoRowsJustified DEF JustifiedEverywhere
<1>8. CASE Environment \/ UNCHANGED vars
  <2>1. UNCHANGED <<reg, loc, launch, snap>>
    BY <1>8 DEF Environment, Exit, Reap, AgentStatus, ClosePane, RestartPane, Reply,
       OpenPane, vars, driver
  <2>. QED  BY <2>1 DEF JustifiedEverywhere
<1>. QED  BY <1>1, <1>2, <1>3, <1>4, <1>5, <1>6, <1>7, <1>8 DEF Next

LEMMA InitJustified == Init => JustifiedEverywhere
<1>. SUFFICES ASSUME Init PROVE JustifiedEverywhere
  OBVIOUS
<1>1. /\ \A r \in Run : reg[r].rows = NoRows
      /\ loc = NoRows /\ launch.rows = NoRows /\ snap.rows = NoRows
  BY DEF Init
<1>2. \A c \in Copy : NoRows[c].state # "skipped"
  BY DEF NoRows, NoRow
<1>. QED  BY <1>1, <1>2, NoRowsJustified DEF JustifiedEverywhere

\* No step is given up that could still have run: what is skipped was declined by
\* its own condition, or hangs on a join that can no longer be satisfied, and
\* neither verdict turns, whatever the order of replies, exits, timeouts, retries
\* and cancels (condition_targets, failfast_targets, dep_unsatisfiable).
THEOREM EverySkipIsJustified == Spec => []SkipJustified
<1>1. Init => SInv
  BY InitIInv, InitOrder, InitTold, InitJustified DEF SInv, TInv, OInv
<1>2. SInv /\ [Next]_vars => SInv'
  BY NextIInv, NextOrder, NextTold, NextJustified DEF SInv, TInv, OInv
<1>3. SInv => SkipJustified
  <2>. SUFFICES ASSUME SInv, NEW rows \in Clones, NEW c \in Copy,
                       rows[c].state = "skipped"
                PROVE  \/ c[1] \in DeclinedByCondition(rows)
                       \/ \E d \in Upstream[c[1]] : DepUnsatisfiable(rows, d)
    BY DEF SkipJustified
  <2>1. rows \in Rows
    BY RowFacts DEF SInv, TInv, Clones
  <2>2. Justified(rows)
    BY NothingSkipped DEF SInv, JustifiedEverywhere, Clones
  <2>3. \/ c[1] \in DeclinedByCondition(rows)
        \/ \E d \in Upstream[c[1]] : Lost(rows, d)
    BY <2>2 DEF Justified
  <2>4. ASSUME NEW d \in Upstream[c[1]], Lost(rows, d) PROVE DepUnsatisfiable(rows, d)
    <3>1. d \in Step
      BY UpstreamFacts, CopyFacts
    <3>. QED  BY <2>1, <2>4, <3>1, LostIsUnsatisfiable
  <2>. QED  BY <2>3, <2>4
<1>. QED  BY <1>1, <1>2, <1>3, PTL DEF Spec

-----------------------------------------------------------------------------
(* The colour of a run.                                                    *)

\* What holds of a step whenever it holds of all it depends on holds of all.
LEMMA DependencyInduction ==
    ASSUME NEW S, \A s \in Step : (\A d \in Deps[s] : d \in S) => s \in S
    PROVE  Step \subseteq S
<1>1. PICK rank \in [Step -> Step] : \A s \in Step : \A d \in Deps[s] : rank[d] < rank[s]
  BY WorkflowAssumption DEF WorkflowAssumption, ValidWorkflow
<1>2. \A s \in Step : rank[s] \in Nat
  BY <1>1, StepFacts
<1>. DEFINE Ranks == {rank[s] : s \in Step \ S}
<1>. SUFFICES ASSUME Step \ S # {} PROVE FALSE
  OBVIOUS
<1>3. Ranks \subseteq Nat /\ Ranks # {}
  BY <1>2
<1>4. PICK x \in Ranks : \A y \in Ranks : x <= y
  <2>. HIDE DEF Ranks
  <2>. QED  BY <1>3, SmallestNumber
<1>5. PICK s \in Step \ S : rank[s] = x
  BY <1>4
<1>6. ASSUME NEW d \in Deps[s] PROVE d \in S
  <2>1. d \in Step /\ rank[d] < rank[s] /\ rank[d] \in Nat /\ rank[s] \in Nat
    BY <1>1, <1>2, DepFacts
  <2>2. SUFFICES ASSUME d \notin S PROVE FALSE
    OBVIOUS
  <2>3. rank[d] \in Ranks
    BY <2>1, <2>2
  <2>. QED  BY <1>4, <1>5, <2>1, <2>3
<1>. QED  BY <1>5, <1>6

\* A count is met once as many have succeeded.
LEMMA CountLasts ==
    ASSUME NEW old, NEW new, NEW s \in Step, Quota[s] # 0, DepSatisfied(old, s),
           \A c \in Copies(s) : old[c].state = "succeeded" => new[c].state = "succeeded"
    PROVE  DepSatisfied(new, s)
<1>. DEFINE before == InState(old, s, {"succeeded"})
            after == InState(new, s, {"succeeded"})
<1>1. before \subseteq after /\ before \in SUBSET Copies(s) /\ after \in SUBSET Copies(s)
  BY DEF InState
<1>2. IsFiniteSet(after) /\ Cardinality(after) \in Nat /\ Cardinality(before) \in Nat
  BY <1>1, CopiesFinite
<1>3. Cardinality(before) <= Cardinality(after)
  BY <1>1, <1>2, FS_Subset
<1>4. Quota[s] \in Nat /\ Cardinality(before) >= Quota[s]
  BY DepFacts DEF DepSatisfied
<1>5. Cardinality(after) >= Quota[s]
  <2>. HIDE DEF before, after
  <2>. QED  BY <1>2, <1>3, <1>4
<1>. QED  BY <1>5 DEF DepSatisfied

\* What the recursion that defines Declined yields: such a set exists.
LEMMA DeclinedFacts ==
    ASSUME NEW rows
    PROVE  \A s \in Step : s \in Declined(rows) <=>
              /\ \A c \in Present(rows, s) : IsTerminal(rows[c])
              /\ ~DepSatisfied(rows, s)
              /\ InState(rows, s, {"skipped", "cancelled"}) # {}
              /\ \A c \in InState(rows, s, {"skipped", "cancelled"}) :
                    rows[c].state = "skipped"
              /\ \A d \in Deps[s] : DepSatisfied(rows, d) \/ d \in Declined(rows)
<1>. DEFINE Dropped(s) == InState(rows, s, {"skipped", "cancelled"})
            Own(s) == /\ \A c \in Present(rows, s) : IsTerminal(rows[c])
                      /\ ~DepSatisfied(rows, s)
                      /\ Dropped(s) # {}
                      /\ \A c \in Dropped(s) : rows[c].state = "skipped"
            Sat == {s \in Step : DepSatisfied(rows, s)}
            Closed(X) == \A s \in X : Own(s) /\ \A d \in Deps[s] : d \in Sat \/ d \in X
            D == UNION {X \in SUBSET Step : Closed(X)}
            E == {s \in Step : Own(s) /\ \A d \in Deps[s] : d \in Sat \/ d \in D}
<1>1. D \subseteq E
  <2>. HIDE DEF Own, Sat
  <2>. QED  OBVIOUS
<1>2. E \subseteq D
  <2>1. Closed(E) /\ E \in SUBSET Step
    <3>. HIDE DEF Own, Sat, D
    <3>. QED  BY <1>1
  <2>. HIDE DEF Own, Sat, E
  <2>. QED  BY <2>1
<1>3. \A s \in Step : s \in D <=> Own(s) /\ \A d \in Deps[s] : d \in Sat \/ d \in D
  <2>. HIDE DEF Own, Sat, D
  <2>. QED  BY <1>1, <1>2
<1>4. \A s \in Step : \A d \in Deps[s] : d \in Step /\ (d \in Sat <=> DepSatisfied(rows, d))
  BY DepFacts
<1>5. \E f : f = [s \in Step |->
            LET dropped == InState(rows, s, {"skipped", "cancelled"})
            IN  /\ \A c \in Present(rows, s) : IsTerminal(rows[c])
                /\ ~DepSatisfied(rows, s)
                /\ dropped # {}
                /\ \A c \in dropped : rows[c].state = "skipped"
                /\ \A d \in Deps[s] : DepSatisfied(rows, d) \/ f[d]]
  <2>. DEFINE g == [s \in Step |-> s \in D]
  <2>. HIDE DEF D, Sat
  <2>1. ASSUME NEW s \in Step
        PROVE  g[s] = (Own(s) /\ \A d \in Deps[s] : DepSatisfied(rows, d) \/ g[d])
    <3>. HIDE DEF Own
    <3>1. \A d \in Deps[s] : (DepSatisfied(rows, d) \/ g[d]) <=> (d \in Sat \/ d \in D)
      BY <1>4
    <3>2. g[s] = (s \in D)
      OBVIOUS
    <3>. HIDE DEF g
    <3>. QED  BY <1>3, <3>1, <3>2
  <2>2. g = [s \in Step |-> Own(s) /\ \A d \in Deps[s] : DepSatisfied(rows, d) \/ g[d]]
    <3>. HIDE DEF Own
    <3>. QED  BY <2>1
  <2>. QED  BY <2>2
<1>. DEFINE f == CHOOSE f : f = [s \in Step |->
            LET dropped == InState(rows, s, {"skipped", "cancelled"})
            IN  /\ \A c \in Present(rows, s) : IsTerminal(rows[c])
                /\ ~DepSatisfied(rows, s)
                /\ dropped # {}
                /\ \A c \in dropped : rows[c].state = "skipped"
                /\ \A d \in Deps[s] : DepSatisfied(rows, d) \/ f[d]]
<1>6. f = [s \in Step |-> 
              Own(s) /\ \A d \in Deps[s] : DepSatisfied(rows, d) \/ f[d]]
  BY <1>5
<1>7. Declined(rows) = {s \in Step : f[s]}
  BY DEF Declined
<1>. HIDE DEF f, D, Sat
<1>8. ASSUME NEW s \in Step
      PROVE s \in Declined(rows) <=> 
              Own(s) /\ \A d \in Deps[s] : DepSatisfied(rows, d) \/ d \in Declined(rows)
  <2>. HIDE DEF Own
  <2>1. f[s] <=> Own(s) /\ \A d \in Deps[s] : DepSatisfied(rows, d) \/ f[d]
    BY <1>6
  <2>. QED  BY <1>4, <1>7, <2>1
<1>. QED  BY <1>8

\* No join counts more than one copy of a step that is retried.  A fan-out that
\* gave up waiting for panes is one row, and a retry runs that row alone: it
\* could never meet such a count, and the run would be green all the same.
CountsOnce == \A s \in Step : Quota[s] > 1 => RetryMax[s] = 0

\* What a row's state says of the rows around it: a step that ran was attempted,
\* all its copies with it where they are counted; one that failed was due; one
\* that was cancelled was not needed any more.
Earned(rows, c) ==
    /\ rows[c].state \in {"running", "succeeded"} =>
          /\ rows[c].attempts > 0
          /\ Quota[c[1]] > 1 => \A d \in Copies(c[1]) : rows[d].state # "absent"
    /\ rows[c].state = "failed" => DepsSatisfied(rows, c[1])
    /\ rows[c].state = "cancelled" => DepSatisfied(rows, c[1])

AllEarned(rows) == \A c \in Copy : Earned(rows, c)

\* A failed copy of a join that counts is not a straggler.
NoStragglers(rows) ==
    \A c \in Copy :
        rows[c].state = "failed" /\ Quota[c[1]] # 0 => ~DepSatisfied(rows, c[1])

\* Rows that say how they came about.
Telling(rows) ==
    /\ rows \in Rows /\ Orderly(rows) /\ AllEarned(rows) /\ Justified(rows)

\* A step whose join is satisfied was not declined.
LEMMA SatisfiedNotDeclined ==
    ASSUME NEW rows, NEW s \in Step, DepSatisfied(rows, s)
    PROVE  s \notin DeclinedByCondition(rows)
<1>. SUFFICES ASSUME s \in DeclinedByCondition(rows) PROVE FALSE
  OBVIOUS
<1>1. s \in Condition /\ rows[Placeholder(s)].state = "skipped"
  BY DEF DeclinedByCondition
<1>2. Fan[s] = 1
  BY <1>1, WorkflowAssumption DEF WorkflowAssumption, ValidWorkflow
<1>. QED  BY <1>1, <1>2, OnlyCopySucceeded

\* Where the joins in front of a step are satisfied, all joins upstream are:
\* whatever succeeded had been cleared to start.
LEMMA ReachedThroughSuccess ==
    ASSUME NEW rows, Telling(rows)
    PROVE  \A s \in Step : DepsSatisfied(rows, s) =>
              \A u \in Upstream[s] : DepSatisfied(rows, u)
<1>. DEFINE S == {s \in Step : DepsSatisfied(rows, s) =>
                     \A u \in Upstream[s] : DepSatisfied(rows, u)}
<1>1. ASSUME NEW s \in Step, \A d \in Deps[s] : d \in S PROVE s \in S
  <2>. SUFFICES ASSUME DepsSatisfied(rows, s), NEW u \in Upstream[s]
                PROVE  DepSatisfied(rows, u)
    OBVIOUS
  <2>1. CASE u \in Deps[s]
    BY <2>1 DEF DepsSatisfied
  <2>2. CASE u \notin Deps[s]
    <3>1. PICK d \in Deps[s] : u \in Upstream[d]
      BY <2>2, UpstreamFacts
    <3>2. d \in Step /\ DepSatisfied(rows, d)
      BY DepFacts DEF DepsSatisfied
    <3>3. PICK c \in Copies(d) : rows[c].state = "succeeded"
      BY <3>2, SatisfiedSucceeded
    <3>4. c \in Copy /\ c[1] = d
      BY <3>2, CopyFacts DEF Copies
    <3>5. rows[c].attempts > 0
      BY <3>3, <3>4 DEF Telling, AllEarned, Earned
    <3>6. DepsSatisfied(rows, d)
      BY <3>4, <3>5 DEF Telling, Orderly, Cleared
    <3>. QED  BY <1>1, <3>1, <3>6
  <2>. QED  BY <2>1, <2>2
<1>2. Step \subseteq S
  <2>. HIDE DEF S
  <2>. QED  BY <1>1, DependencyInduction
<1>. QED  BY <1>2

\* The steps excused from the verdict, as VerdictExact has them.
Excused(rows, s) == ({s} \cup Upstream[s]) \cap DeclinedByCondition(rows) # {}

\* A failure is of a step whose join is not satisfied and which nothing excuses.
LEMMA FailureCounts ==
    ASSUME NEW rows, Telling(rows), NoStragglers(rows),
           NEW c \in Copy, rows[c].state = "failed"
    PROVE  ~DepSatisfied(rows, c[1]) /\ ~Excused(rows, c[1])
<1>. DEFINE s == c[1]
<1>1. s \in Step /\ c \in Copies(s)
  BY CopyFacts
<1>2. ~DepSatisfied(rows, s)
  <2>1. CASE Quota[s] = 0
    <3>1. c \in Present(rows, s)
      BY <1>1 DEF Present
    <3>. QED  BY <2>1, <3>1 DEF DepSatisfied
  <2>2. CASE Quota[s] # 0
    BY <2>2 DEF NoStragglers
  <2>. QED  BY <2>1, <2>2
<1>3. DepsSatisfied(rows, s)
  BY DEF Telling, AllEarned, Earned
<1>4. ASSUME NEW u \in Upstream[s] PROVE u \notin DeclinedByCondition(rows)
  <2>1. u \in Step /\ DepSatisfied(rows, u)
    BY <1>1, <1>3, ReachedThroughSuccess, UpstreamFacts
  <2>. QED  BY <2>1, SatisfiedNotDeclined
<1>5. s \notin DeclinedByCondition(rows)
  <2>. SUFFICES ASSUME s \in DeclinedByCondition(rows) PROVE FALSE
    OBVIOUS
  <2>1. s \in Condition /\ rows[Placeholder(s)].state = "skipped"
    BY DEF DeclinedByCondition
  <2>2. Fan[s] = 1
    BY <2>1, WorkflowAssumption DEF WorkflowAssumption, ValidWorkflow
  <2>3. c = Placeholder(s)
    <3>1. c[2] \in 1 .. 1 /\ c = <<c[1], c[2]>>
      BY <2>2, CopyFacts
    <3>. QED  BY <3>1 DEF Placeholder
  <2>. QED  BY <2>1, <2>3
<1>. QED  BY <1>2, <1>4, <1>5 DEF Excused

\* A step of rows at rest in which nothing failed has its join satisfied, or
\* copies that were dropped.
LEMMA DroppedUnlessSatisfied ==
    ASSUME NEW rows, Telling(rows), AllTerminal(rows),
           \A c \in Copy : rows[c].state # "failed",
           NEW s \in Step, ~DepSatisfied(rows, s)
    PROVE  InState(rows, s, {"skipped", "cancelled"}) # {}
<1>. SUFFICES ASSUME InState(rows, s, {"skipped", "cancelled"}) = {} PROVE FALSE
  OBVIOUS
<1>1. \A c \in Copies(s) : c \in Copy /\ c[1] = s
  BY CopyFacts DEF Copies
<1>2. ASSUME NEW c \in Present(rows, s) PROVE rows[c].state = "succeeded"
  <2>1. c \in Copies(s) /\ IsTerminal(rows[c])
    BY <1>2 DEF AllTerminal, Present
  <2>2. rows[c].state \notin {"skipped", "cancelled"}
    BY <2>1 DEF InState
  <2>. QED  BY <1>1, <2>1, <2>2 DEF IsTerminal
<1>3. PICK c \in Present(rows, s) : TRUE
  BY DEF AllTerminal
<1>4. c \in Copies(s) /\ rows[c].state = "succeeded"
  BY <1>2 DEF Present
<1>5. CASE Quota[s] = 0
  BY <1>2, <1>3, <1>5 DEF DepSatisfied
<1>. DEFINE won == InState(rows, s, {"succeeded"})
<1>6. won \in SUBSET Copies(s) /\ c \in won
  BY <1>4 DEF InState
<1>7. IsFiniteSet(won) /\ Cardinality(won) \in Nat
  BY <1>6, CopiesFinite
<1>8. Quota[s] \in Nat /\ Quota[s] <= Fan[s] /\ Fan[s] \in Nat
  BY DepFacts, StepFacts
<1>9. CASE Quota[s] = 1
  <2>1. Cardinality(won) # 0
    <3>. HIDE DEF won
    <3>. QED  BY <1>6, <1>7, FS_EmptySet
  <2>2. Cardinality(won) >= 1
    <3>. HIDE DEF won
    <3>. QED  BY <1>7, <2>1
  <2>. QED  BY <1>9, <2>2 DEF DepSatisfied
<1>10. CASE Quota[s] > 1
  <2>1. \A d \in Copies(s) : rows[d].state # "absent"
    BY <1>1, <1>4, <1>10 DEF Telling, AllEarned, Earned
  <2>2. \A d \in Copies(s) : rows[d].state = "succeeded"
    BY <1>2, <2>1 DEF Present
  <2>3. won = Copies(s)
    BY <2>2 DEF InState
  <2>4. Cardinality(Copies(s)) = Fan[s]
    <3>1. IsFiniteSet(1 .. Fan[s]) /\ Cardinality(1 .. Fan[s]) = Fan[s]
      <4>1. Fan[s] \in Int /\ 1 \in Int /\ Fan[s] > 0
        BY StepFacts
      <4>2. /\ IsFiniteSet(1 .. Fan[s])
            /\ Cardinality(1 .. Fan[s]) = IF 1 > Fan[s] THEN 0 ELSE Fan[s] - 1 + 1
        BY <4>1, FS_Interval
      <4>. QED  BY ONLY <4>1, <4>2
    <3>2. IsFiniteSet({s}) /\ Cardinality({s}) = 1
      BY FS_Singleton
    <3>3. Cardinality(Copies(s)) = Cardinality({s}) * Cardinality(1 .. Fan[s])
      BY <3>1, <3>2, FS_Product DEF Copies
    <3>. QED  BY <1>8, <3>1, <3>2, <3>3
  <2>5. Cardinality(won) >= Quota[s]
    BY <1>8, <2>3, <2>4
  <2>. QED  BY <1>8, <1>10, <2>5 DEF DepSatisfied
<1>. QED  BY <1>5, <1>8, <1>9, <1>10

\* What nothing failed in is excused wherever it is not satisfied, and its copies
\* were skipped for it.
LEMMA DropsAreExcused ==
    ASSUME NEW rows, Telling(rows), AllTerminal(rows),
           \A c \in Copy : rows[c].state # "failed"
    PROVE  \A s \in Step : ~DepSatisfied(rows, s) =>
              Excused(rows, s) /\ s \in Declined(rows)
<1>. DEFINE S == {s \in Step : ~DepSatisfied(rows, s) =>
                     Excused(rows, s) /\ s \in Declined(rows)}
<1>1. ASSUME NEW s \in Step, \A d \in Deps[s] : d \in S PROVE s \in S
  <2>. SUFFICES ASSUME ~DepSatisfied(rows, s)
                PROVE  Excused(rows, s) /\ s \in Declined(rows)
    OBVIOUS
  <2>. DEFINE dropped == InState(rows, s, {"skipped", "cancelled"})
  <2>1. \A c \in Copies(s) : c \in Copy /\ c[1] = s
    BY CopyFacts DEF Copies
  <2>2. dropped # {}
    BY DroppedUnlessSatisfied
  <2>3. ASSUME NEW c \in dropped
        PROVE  rows[c].state = "skipped" /\ c \in Copy /\ c[1] = s
    <3>1. c \in Copies(s) /\ rows[c].state \in {"skipped", "cancelled"}
      BY DEF InState
    <3>2. rows[c].state # "cancelled"
      BY <2>1, <3>1 DEF Telling, AllEarned, Earned
    <3>. QED  BY <2>1, <3>1, <3>2
  <2>4. s \in Declined(rows)
    <3>1. \A c \in Present(rows, s) : IsTerminal(rows[c])
      BY DEF AllTerminal
    <3>2. \A d \in Deps[s] : DepSatisfied(rows, d) \/ d \in Declined(rows)
      BY <1>1
    <3>3. \A c \in dropped : rows[c].state = "skipped"
      BY <2>3
    <3>. QED  BY <2>2, <3>1, <3>2, <3>3, DeclinedFacts
  <2>5. Excused(rows, s)
    <3>1. PICK c \in Copy : rows[c].state = "skipped" /\ c[1] = s
      BY <2>2, <2>3
    <3>2. CASE s \in DeclinedByCondition(rows)
      BY <3>2 DEF Excused
    <3>3. CASE \E u \in Upstream[s] : Lost(rows, u)
      <4>1. PICK u \in Upstream[s] : Lost(rows, u)
        BY <3>3
      <4>2. u \in Step /\ rows \in Rows
        BY UpstreamFacts DEF Telling
      <4>3. ~DepSatisfied(rows, u)
        BY <4>1, <4>2, LostIsUnsatisfiable DEF DepUnsatisfiable
      <4>4. ~DepsSatisfied(rows, s)
        BY <4>3, ReachedThroughSuccess
      <4>5. PICK d \in Deps[s] : ~DepSatisfied(rows, d)
        BY <4>4 DEF DepsSatisfied
      <4>6. Excused(rows, d)
        BY <1>1, <4>5
      <4>7. d \in Upstream[s] /\ Upstream[d] \subseteq Upstream[s]
        BY UpstreamFacts
      <4>. QED  BY <4>6, <4>7 DEF Excused
    <3>. QED  BY <3>1, <3>2, <3>3 DEF Telling, Justified
  <2>. QED  BY <2>4, <2>5
<1>2. Step \subseteq S
  <2>. HIDE DEF S
  <2>. QED  BY <1>1, DependencyInduction
<1>. QED  BY <1>2

\* The verdict of finalize_state, recursion and all, is the one without.
LEMMA FinalizeExact ==
    ASSUME NEW rows, Telling(rows), NoStragglers(rows),
           FinalizeState(rows) # "running"
    PROVE  FinalizeState(rows) = "succeeded" <=>
              \A s \in Step : DepSatisfied(rows, s) \/ Excused(rows, s)
<1>1. AllTerminal(rows)
  BY DEF FinalizeState
<1>2. CASE \E c \in Copy : rows[c].state = "failed"
  <2>1. FinalizeState(rows) = "failed"
    BY <1>1, <1>2 DEF FinalizeState
  <2>2. PICK c \in Copy : rows[c].state = "failed"
    BY <1>2
  <2>3. c[1] \in Step /\ ~DepSatisfied(rows, c[1]) /\ ~Excused(rows, c[1])
    BY <2>2, FailureCounts, CopyFacts
  <2>. QED  BY <2>1, <2>3
<1>3. CASE \A c \in Copy : rows[c].state # "failed"
  <2>1. \A s \in Step : ~DepSatisfied(rows, s) => Excused(rows, s) /\ s \in Declined(rows)
    BY <1>1, <1>3, DropsAreExcused
  <2>2. ASSUME NEW c \in Copy, rows[c].state \in {"skipped", "cancelled"}
        PROVE  BenignCopy(rows, c)
    <3>1. c[1] \in Step /\ c \in Copies(c[1])
      BY CopyFacts
    <3>2. CASE DepSatisfied(rows, c[1])
      BY <3>2 DEF BenignCopy
    <3>3. CASE ~DepSatisfied(rows, c[1])
      <4>1. c[1] \in Declined(rows)
        BY <2>1, <3>1, <3>3
      <4>2. /\ \A e \in InState(rows, c[1], {"skipped", "cancelled"}) :
                  rows[e].state = "skipped"
            /\ \A d \in Deps[c[1]] : DepSatisfied(rows, d) \/ d \in Declined(rows)
        BY <3>1, <4>1, DeclinedFacts
      <4>3. rows[c].state = "skipped"
        BY <2>2, <3>1, <4>2 DEF InState
      <4>. QED  BY <4>2, <4>3 DEF BenignCopy
    <3>. QED  BY <3>2, <3>3
  <2>3. FinalizeState(rows) = "succeeded"
    BY <1>1, <1>3, <2>2 DEF FinalizeState
  <2>. QED  BY <2>1, <2>3
<1>. QED  BY <1>2, <1>3

-----------------------------------------------------------------------------
(* How rows come to tell it: every pass keeps what the rows say of each      *)
(* other.                                                                    *)

\* Joins last and rows stay, so only a row that is new in its state has to be
\* accounted for.
LEMMA EarnedLasts ==
    ASSUME NEW old, NEW new, AllEarned(old),
           \A s \in Step : DepSatisfied(old, s) => DepSatisfied(new, s),
           \A c \in Copy : old[c].state # "absent" => new[c].state # "absent",
           \A c \in Copy : \/ /\ new[c].state = old[c].state
                              /\ old[c].attempts > 0 => new[c].attempts > 0
                           \/ Earned(new, c)
    PROVE  AllEarned(new)
<1>. SUFFICES ASSUME NEW c \in Copy, new[c].state = old[c].state,
                     old[c].attempts > 0 => new[c].attempts > 0
              PROVE  Earned(new, c)
  BY DEF AllEarned
<1>1. Earned(old, c) /\ c[1] \in Step
  BY CopyFacts DEF AllEarned
<1>2. \A d \in Copies(c[1]) : d \in Copy
  BY <1>1, CopyFacts
<1>3. DepsSatisfied(old, c[1]) => DepsSatisfied(new, c[1])
  BY <1>1, DepFacts DEF DepsSatisfied
<1>. QED  BY <1>1, <1>2, <1>3 DEF Earned

\* Nothing new succeeds, and what newly fails has no success beside it.
LEMMA NoStragglersLasts ==
    ASSUME NEW old, NEW new, NoStragglers(old),
           \A c \in Copy : new[c].state = "succeeded" => old[c].state = "succeeded",
           \A c \in Copy : new[c].state = "failed" =>
              \/ old[c].state = "failed"
              \/ \A d \in Copies(c[1]) : old[d].state # "succeeded"
    PROVE  NoStragglers(new)
<1>. SUFFICES ASSUME NEW c \in Copy, new[c].state = "failed", Quota[c[1]] # 0,
                     DepSatisfied(new, c[1])
              PROVE  FALSE
  BY DEF NoStragglers
<1>1. c[1] \in Step /\ Copies(c[1]) \subseteq Copy
  BY CopyFacts
<1>2. DepSatisfied(old, c[1])
  BY <1>1, CountLasts
<1>3. \E d \in Copies(c[1]) : old[d].state = "succeeded"
  BY <1>1, <1>2, SatisfiedSucceeded
<1>4. old[c].state = "failed"
  BY <1>3
<1>. QED  BY <1>2, <1>4 DEF NoStragglers

LEMMA JudgesEarned ==
    ASSUME NEW old, NEW new, Judges(old, new), Orderly(old), AllEarned(old)
    PROVE  AllEarned(new)
<1>1. Onward(old, new)
  BY DEF Judges, Onward
<1>2. \A s \in Step : DepSatisfied(old, s) => DepSatisfied(new, s)
  BY <1>1, OnwardJoins
<1>3. \A c \in Copy : old[c].state # "absent" => new[c].state # "absent"
  BY DEF Judges
<1>4. ASSUME NEW c \in Copy, new[c] # old[c] PROVE Earned(new, c)
  <2>1. /\ new[c].attempts = old[c].attempts
        /\ new[c].state = "cancelled" => DepSatisfied(old, c[1])
        /\ \/ /\ old[c].state = "running"
              /\ new[c].state \in {"running", "succeeded", "failed", "cancelled"}
           \/ old[c].state = "failed" /\ new[c].state = "cancelled"
    BY <1>4 DEF Judges
  <2>2. c[1] \in Step /\ Copies(c[1]) \subseteq Copy
    BY CopyFacts
  <2>3. CASE old[c].state = "running"
    <3>1. /\ old[c].attempts > 0
          /\ Quota[c[1]] > 1 => \A d \in Copies(c[1]) : old[d].state # "absent"
      BY <2>3 DEF AllEarned, Earned
    <3>2. DepsSatisfied(old, c[1])
      BY <3>1 DEF Orderly, Cleared
    <3>3. DepsSatisfied(new, c[1])
      BY <1>2, <2>2, <3>2, DepFacts DEF DepsSatisfied
    <3>4. Quota[c[1]] > 1 => \A d \in Copies(c[1]) : new[d].state # "absent"
      BY <1>3, <2>2, <3>1
    <3>5. new[c].state = "cancelled" => DepSatisfied(new, c[1])
      BY <1>2, <2>1, <2>2
    <3>6. new[c].attempts > 0
      BY <2>1, <3>1
    <3>. QED  BY <3>3, <3>4, <3>5, <3>6 DEF Earned
  <2>4. CASE old[c].state = "failed"
    <3>1. new[c].state = "cancelled" /\ DepSatisfied(new, c[1])
      BY <1>2, <2>1, <2>2, <2>4
    <3>. QED  BY <3>1 DEF Earned
  <2>. QED  BY <2>1, <2>3, <2>4
<1>. QED  BY <1>2, <1>3, <1>4, EarnedLasts

LEMMA RetriesEarned ==
    ASSUME CountsOnce, NEW old, NEW new, Sound(old), Retries(old, new),
           AllEarned(old)
    PROVE  /\ AllEarned(new)
           /\ NoStragglers(old) => NoStragglers(new)
<1>1. PICK c \in Copy :
        /\ old[c].state = "failed" /\ old[c].armed
        /\ new[c].state \in {"failed", "running"}
        /\ new[c].escalated = old[c].escalated
        /\ \/ new[c].attempts = old[c].attempts + 1
           \/ new[c].attempts = old[c].attempts /\ new[c].armed = old[c].armed
        /\ \A d \in Copy : d # c => new[d] = old[d]
  BY DEF Retries
<1>2. old[c].attempts > 0 /\ old[c].attempts \in Nat
  BY <1>1, NumberFacts DEF Sound, RowWithinBudget
<1>3. new[c].attempts > 0
  <2>1. new[c].attempts = old[c].attempts + 1 \/ new[c].attempts = old[c].attempts
    BY <1>1
  <2>. QED  BY ONLY <1>2, <2>1
<1>4. ~(Quota[c[1]] > 1)
  <2>1. c[1] \in Step /\ RetryMax[c[1]] \in Nat
    BY CopyFacts, StepFacts
  <2>2. old[c].attempts <= RetryMax[c[1]]
    BY <1>1 DEF Sound, RowWithinBudget
  <2>3. RetryMax[c[1]] # 0
    BY <1>2, <2>1, <2>2
  <2>. QED  BY <2>1, <2>3 DEF CountsOnce
<1>5. Onward(old, new)
  BY <1>1, <1>2 DEF Onward
<1>6. \A s \in Step : DepSatisfied(old, s) => DepSatisfied(new, s)
  BY <1>5, OnwardJoins
<1>7. \A d \in Copy : old[d].state # "absent" => new[d].state # "absent"
  BY <1>1
<1>8. ASSUME NEW d \in Copy
      PROVE  \/ /\ new[d].state = old[d].state
                /\ old[d].attempts > 0 => new[d].attempts > 0
             \/ Earned(new, d)
  <2>1. CASE d # c
    BY <1>1, <2>1
  <2>2. CASE d = c /\ new[c].state = "failed"
    BY <1>1, <1>3, <2>2
  <2>3. CASE d = c /\ new[c].state = "running"
    BY <1>3, <1>4, <2>3 DEF Earned
  <2>. QED  BY <1>1, <2>1, <2>2, <2>3
<1>9. AllEarned(new)
  BY <1>6, <1>7, <1>8, EarnedLasts
<1>10. /\ \A d \in Copy : new[d].state = "succeeded" => old[d].state = "succeeded"
       /\ \A d \in Copy : new[d].state = "failed" => old[d].state = "failed"
  BY <1>1
<1>. QED  BY <1>9, <1>10, NoStragglersLasts

\* Arming and escalating leave states and attempts alone.
LEMMA ArmSame ==
    ASSUME NEW rows \in Rows, NEW c \in Copy
    PROVE  /\ ArmRetryBackoff(rows)[c].state = rows[c].state
           /\ ArmRetryBackoff(rows)[c].attempts = rows[c].attempts
<1>. DEFINE new == ArmRetryBackoff(rows)
<1>1. new[c] = rows[c] \/ new[c] = [rows[c] EXCEPT !.armed = TRUE]
  BY DEF ArmRetryBackoff
<1>2. rows[c] \in Row
  BY DEF Rows
<1>. HIDE DEF new
<1>3. new[c].state = rows[c].state /\ new[c].attempts = rows[c].attempts
  BY ONLY <1>1, <1>2 DEF Row
<1>. QED  BY <1>3 DEF new

LEMMA EscalatedSame ==
    ASSUME NEW rows \in Rows, NEW copies, NEW c \in Copy
    PROVE  /\ MarkEscalated(rows, copies)[c].state = rows[c].state
           /\ MarkEscalated(rows, copies)[c].attempts = rows[c].attempts
<1>. DEFINE new == MarkEscalated(rows, copies)
<1>1. new[c] = rows[c] \/ new[c] = [rows[c] EXCEPT !.escalated = TRUE]
  BY DEF MarkEscalated
<1>2. rows[c] \in Row
  BY DEF Rows
<1>. HIDE DEF new
<1>3. new[c].state = rows[c].state /\ new[c].attempts = rows[c].attempts
  BY ONLY <1>1, <1>2 DEF Row
<1>. QED  BY <1>3 DEF new

\* Rows whose states and attempts are the same say the same.
LEMMA SameEarned ==
    ASSUME NEW old, NEW new, AllEarned(old),
           \A c \in Copy : new[c].state = old[c].state /\ new[c].attempts = old[c].attempts
    PROVE  /\ AllEarned(new)
           /\ NoStragglers(old) => NoStragglers(new)
<1>1. ASSUME NEW s \in Step, DepSatisfied(old, s) PROVE DepSatisfied(new, s)
  <2>1. Copies(s) \subseteq Copy
    BY CopyFacts
  <2>. QED  BY <1>1, <2>1, JoinLasts
<1>2. AllEarned(new)
  BY <1>1, EarnedLasts
<1>3. NoStragglers(old) => NoStragglers(new)
  BY NoStragglersLasts
<1>. QED  BY <1>2, <1>3

LEMMA SetStepStateEarned ==
    ASSUME NEW rows, Sound(rows), Orderly(rows), AllEarned(rows),
           NEW steps, NEW state \in {"skipped", "failed"},
           \A s \in steps \cap Step : rows[Placeholder(s)].state = "pending",
           state = "failed" => \A s \in steps \cap Step : DepsSatisfied(rows, s)
    PROVE  /\ AllEarned(SetStepState(rows, steps, state))
           /\ Orderly(SetStepState(rows, steps, state))
           /\ NoStragglers(rows) => NoStragglers(SetStepState(rows, steps, state))
<1>. DEFINE new == SetStepState(rows, steps, state)
<1>1. ASSUME NEW c \in Copy
      PROVE  \/ new[c] = rows[c]
             \/ /\ c[1] \in steps /\ c = Placeholder(c[1])
                /\ rows[c].state = "pending"
                /\ new[c] = [rows[c] EXCEPT !.state = state, !.waiting = FALSE]
  BY CopyFacts DEF SetStepState
<1>2. Onward(rows, new)
  BY SetStepStateQuiet, QuietFacts
<1>. HIDE DEF new
<1>3. ASSUME NEW c \in Copy, new[c] # rows[c]
      PROVE  /\ c[1] \in steps \cap Step /\ rows[c].state = "pending"
             /\ new[c].state = state
  <2>1. rows[c] \in Row /\ c[1] \in Step
    BY CopyFacts DEF Sound, Rows
  <2>2. /\ c[1] \in steps /\ rows[c].state = "pending"
        /\ new[c] = [rows[c] EXCEPT !.state = state, !.waiting = FALSE]
    BY <1>1, <1>3
  <2>3. new[c].state = state
    BY ONLY <2>1, <2>2 DEF Row
  <2>. QED  BY <2>1, <2>2, <2>3
<1>4. \A s \in Step : DepSatisfied(rows, s) => DepSatisfied(new, s)
  BY <1>2, OnwardJoins
<1>5. \A c \in Copy : rows[c].state # "absent" => new[c].state # "absent"
  BY <1>3
<1>6. ASSUME NEW c \in Copy, new[c] # rows[c] PROVE Earned(new, c)
  <2>1. c[1] \in steps \cap Step /\ new[c].state = state
    BY <1>3, <1>6
  <2>2. CASE state = "skipped"
    BY <2>1, <2>2 DEF Earned
  <2>3. CASE state = "failed"
    <3>1. DepsSatisfied(new, c[1])
      BY <1>4, <2>1, <2>3, DepFacts DEF DepsSatisfied
    <3>. QED  BY <2>1, <2>3, <3>1 DEF Earned
  <2>. QED  BY <2>2, <2>3
<1>7. AllEarned(new)
  BY <1>4, <1>5, <1>6, EarnedLasts
<1>8. Orderly(new)
  BY <1>2, OnwardOrderly
<1>9. ASSUME NoStragglers(rows) PROVE NoStragglers(new)
  <2>1. \A c \in Copy : new[c].state = "succeeded" => rows[c].state = "succeeded"
    BY <1>3
  <2>2. ASSUME NEW c \in Copy, new[c].state = "failed", rows[c].state # "failed"
        PROVE  \A d \in Copies(c[1]) : rows[d].state # "succeeded"
    <3>1. rows[c].state = "pending"
      BY <1>3, <2>2
    <3>2. \A d \in Copies(c[1]) : d \in Copy /\ d[1] = c[1]
      BY CopyFacts DEF Copies
    <3>. QED  BY <3>1, <3>2 DEF Orderly
  <2>. QED  BY <1>9, <2>1, <2>2, NoStragglersLasts
<1>. QED  BY <1>7, <1>8, <1>9 DEF new

LEMMA DecideEarned ==
    ASSUME NEW rows, Sound(rows), Orderly(rows), AllEarned(rows)
    PROVE  /\ AllEarned(Decide(rows))
           /\ NoStragglers(rows) => NoStragglers(Decide(rows))
<1>. DEFINE a == ArmRetryBackoff(rows)
            b == SetStepState(a, ConditionTargets(a, "other"), "skipped")
            c == SetStepState(b, ConditionTargets(a, "none"), "failed")
            d == SetStepState(c, FailfastTargets(c), "skipped")
<1>1. /\ Sound(a) /\ Sound(b) /\ Sound(c)
      /\ \A s \in ConditionTargets(a, "other") \cap Step : a[Placeholder(s)].state = "pending"
      /\ \A s \in ConditionTargets(a, "none") \cap Step : b[Placeholder(s)].state = "pending"
      /\ \A s \in FailfastTargets(c) \cap Step : c[Placeholder(s)].state = "pending"
  BY DecidedWait
<1>2. Decide(rows) = d
  BY DEF Decide, Failfast, ApplyConditions
<1>3. rows \in Rows
  BY DEF Sound
<1>4. /\ AllEarned(a) /\ Orderly(a)
      /\ NoStragglers(rows) => NoStragglers(a)
  <2>1. Onward(rows, a)
    BY <1>3, ArmRetryBackoffQuiet, QuietFacts
  <2>2. \A e \in Copy : a[e].state = rows[e].state /\ a[e].attempts = rows[e].attempts
    BY <1>3, ArmSame
  <2>. HIDE DEF a
  <2>. QED  BY <2>1, <2>2, OnwardOrderly, SameEarned
<1>5. /\ AllEarned(b) /\ Orderly(b)
      /\ NoStragglers(a) => NoStragglers(b)
  <2>. HIDE DEF a
  <2>. QED  BY <1>1, <1>4, SetStepStateEarned
<1>6. \A s \in ConditionTargets(a, "none") \cap Step : DepsSatisfied(b, s)
  <2>1. \A s \in ConditionTargets(a, "none") \cap Step : DepsSatisfied(a, s)
    BY DEF ConditionTargets
  <2>. HIDE DEF a
  <2>2. Onward(a, b)
    BY <1>1, SetStepStateQuiet, QuietFacts
  <2>. HIDE DEF b
  <2>. QED  BY <2>1, <2>2, OnwardJoins, DepFacts DEF DepsSatisfied
<1>7. /\ AllEarned(c) /\ Orderly(c)
      /\ NoStragglers(b) => NoStragglers(c)
  <2>. HIDE DEF a, b
  <2>. QED  BY <1>1, <1>5, <1>6, SetStepStateEarned
<1>8. /\ AllEarned(d)
      /\ NoStragglers(c) => NoStragglers(d)
  <2>. HIDE DEF c
  <2>. QED  BY <1>1, <1>7, SetStepStateEarned
<1>. HIDE DEF a, b, c, d
<1>. QED  BY <1>2, <1>4, <1>5, <1>7, <1>8

LEMMA SpawnEarned ==
    ASSUME NEW rows, Orderly(rows), AllEarned(rows), NEW s \in Step, Cleared(rows, s),
           NEW reused, NEW up, NEW sent,
           rows[Placeholder(s)].state = "pending",
           \A c \in Copies(s) : rows[c].state \in {"pending", "absent"}
    PROVE  /\ AllEarned(SpawnStep(rows, s, reused, up, sent))
           /\ NoStragglers(rows) => NoStragglers(SpawnStep(rows, s, reused, up, sent))
<1>. DEFINE new == SpawnStep(rows, s, reused, up, sent)
<1>1. \A d \in Step : DepSatisfied(rows, d) => DepSatisfied(new, d)
  BY SpawnJoins
<1>2. ASSUME NEW c \in Copy
      PROVE  /\ c[1] # s => new[c] = rows[c]
             /\ c[1] = s => new[c].state \in {"failed", "running"} /\ new[c].attempts = 1
  BY AttemptRowFacts DEF SpawnStep
<1>. HIDE DEF new
<1>3. \A c \in Copies(s) : c \in Copy /\ c[1] = s
  BY CopyFacts DEF Copies
<1>4. ASSUME NEW c \in Copy, c[1] = s PROVE Earned(new, c)
  <2>1. new[c].state \in {"failed", "running"} /\ new[c].attempts > 0
    BY <1>2, <1>4
  <2>2. \A d \in Copies(c[1]) : new[d].state # "absent"
    BY <1>2, <1>3, <1>4
  <2>3. DepsSatisfied(new, c[1])
    BY <1>1, <1>4, DepFacts DEF Cleared, DepsSatisfied
  <2>. QED  BY <2>1, <2>2, <2>3 DEF Earned
<1>5. \A c \in Copy : rows[c].state # "absent" => new[c].state # "absent"
  BY <1>2
<1>6. AllEarned(new)
  BY <1>1, <1>2, <1>4, <1>5, EarnedLasts
<1>7. ASSUME NoStragglers(rows) PROVE NoStragglers(new)
  <2>1. \A c \in Copy : new[c].state = "succeeded" => rows[c].state = "succeeded"
    BY <1>2
  <2>2. ASSUME NEW c \in Copy, new[c].state = "failed", rows[c].state # "failed"
        PROVE  \A d \in Copies(c[1]) : rows[d].state # "succeeded"
    BY <1>2, <2>2
  <2>. QED  BY <1>7, <2>1, <2>2, NoStragglersLasts
<1>. QED  BY <1>6, <1>7 DEF new

LEMMA DeferEarned ==
    ASSUME SInv, AllEarned(loc), NoStragglers(loc), DeferStep
    PROVE  AllEarned(loc') /\ NoStragglers(loc')
<1>. DEFINE c == Placeholder(First(todo)[1])
            row == IF c \in over
                   THEN [loc[c] EXCEPT !.state = "failed", !.waiting = FALSE,
                                       !.attempts = 1]
                   ELSE [loc[c] EXCEPT !.waiting = TRUE]
<1>1. loc' = [loc EXCEPT ![c] = row] /\ pc = "spawn" /\ todo # {}
  BY DEF DeferStep
<1>2. /\ c \in Copy /\ loc[c].state = "pending" /\ Cleared(loc, c[1])
      /\ \A d \in Copies(c[1]) : loc[d].state \in {"pending", "absent"}
  BY <1>1, SpawnTurn DEF Placeholder, SInv, TInv
<1>3. loc \in Rows /\ loc[c] \in Row
  BY <1>2, RowFacts DEF SInv, TInv
<1>. HIDE DEF c
<1>4. \/ row.state = "failed"
      \/ row.state = loc[c].state /\ row.attempts = loc[c].attempts
  BY <1>2, <1>3 DEF Row
<1>. HIDE DEF row
<1>5. \A d \in Copy : loc'[d] = IF d = c THEN row ELSE loc[d]
  BY <1>1, <1>3 DEF Rows
<1>6. ASSUME NEW s \in Step, DepSatisfied(loc, s) PROVE DepSatisfied(loc', s)
  <2>1. \A d \in Copies(s) : d \in Copy
    BY CopyFacts
  <2>. QED  BY <1>2, <1>5, <1>6, <2>1, JoinLasts
<1>7. \A d \in Copy : loc[d].state # "absent" => loc'[d].state # "absent"
  BY <1>2, <1>4, <1>5
<1>8. ASSUME NEW d \in Copy
      PROVE  \/ /\ loc'[d].state = loc[d].state
                /\ loc[d].attempts > 0 => loc'[d].attempts > 0
             \/ Earned(loc', d)
  <2>1. CASE d # c
    BY <1>5, <2>1
  <2>2. CASE d = c /\ row.state = "failed"
    <3>1. c[1] \in Step
      BY <1>2, CopyFacts
    <3>2. DepsSatisfied(loc', c[1])
      BY <1>2, <1>6, <3>1, DepFacts DEF Cleared, DepsSatisfied
    <3>. QED  BY <1>5, <2>2, <3>2 DEF Earned
  <2>3. CASE d = c /\ row.state = loc[c].state /\ row.attempts = loc[c].attempts
    BY <1>5, <2>3
  <2>. QED  BY <1>4, <2>1, <2>2, <2>3
<1>9. AllEarned(loc')
  BY <1>6, <1>7, <1>8, EarnedLasts
<1>10. \A d \in Copy : loc'[d].state = "succeeded" => loc[d].state = "succeeded"
  BY <1>2, <1>4, <1>5
<1>11. ASSUME NEW d \in Copy, loc'[d].state = "failed", loc[d].state # "failed"
       PROVE  \A e \in Copies(d[1]) : loc[e].state # "succeeded"
  BY <1>2, <1>5, <1>11
<1>12. NoStragglers(loc')
  BY <1>10, <1>11, NoStragglersLasts
<1>. QED  BY <1>9, <1>12

\* The stragglers go with the pass that cancels them.
LEMMA CancelStragglersEarned ==
    ASSUME SInv, CancelStragglers PROVE NoStragglers(loc')
<1>. DEFINE Loses(c) == /\ Quota[c[1]] > 0
                        /\ DepSatisfied(loc, c[1])
                        /\ loc[c].state \in {"running", "failed"}
            Stopped(c) == [loc[c] EXCEPT !.state = "cancelled", !.armed = FALSE,
                              !.waiting = FALSE,
                              !.session = IF loc[c].state = "running" THEN 0 ELSE @]
<1>1. ASSUME NEW c \in Copy
      PROVE  loc'[c] = IF Loses(c) THEN Stopped(c) ELSE loc[c]
  BY DEF CancelStragglers
<1>2. ASSUME NEW c \in Copy PROVE Stopped(c).state = "cancelled"
  <2>1. loc[c] \in Row
    BY RowFacts DEF SInv, TInv
  <2>. QED  BY ONLY <2>1 DEF Row
<1>. HIDE DEF Stopped
<1>. SUFFICES ASSUME NEW c \in Copy, loc'[c].state = "failed", Quota[c[1]] # 0,
                     DepSatisfied(loc', c[1])
              PROVE  FALSE
  BY DEF NoStragglers
<1>3. ~Loses(c) /\ loc[c].state = "failed"
  BY <1>1, <1>2
<1>4. c[1] \in Step /\ Copies(c[1]) \subseteq Copy /\ Quota[c[1]] \in Nat
  BY CopyFacts, DepFacts
<1>5. ~DepSatisfied(loc, c[1])
  BY <1>3, <1>4
<1>6. \A d \in Copies(c[1]) : loc'[d].state = "succeeded" => loc[d].state = "succeeded"
  <2>. HIDE DEF Loses
  <2>. QED  BY <1>1, <1>2, <1>4
<1>. QED  BY <1>4, <1>5, <1>6, CountLasts

\* While a run is launched nothing succeeds and every step is in its rows or due.
LaunchTelling ==
    /\ \A c \in Copy :
          /\ launch.rows[c].state \in {"absent", "pending", "running", "failed"}
          /\ launch.rows[c].state \in {"running", "failed"} => launch.rows[c].attempts > 0
          /\ launch.rows[c].state = "running" =>
                \A d \in Copies(c[1]) : launch.rows[d].state # "absent"
    /\ launch.run # NoRun =>
          \A s \in Step : \/ Placeholder(s) \in launch.todo
                          \/ launch.rows[Placeholder(s)].state # "absent"

Counting == {"budget", "retry", "spawn"}

Telltale ==
    /\ AllEarned(loc)
    /\ \A r \in Run : reg[r].state = "running" => AllEarned(reg[r].rows)
    /\ pc \in Counting => NoStragglers(loc)
    /\ LaunchTelling

VInv == SInv /\ Telltale /\ VerdictExact

LEMMA NoRowsEarned == AllEarned(NoRows)
BY DEF AllEarned, Earned, NoRows, NoRow

\* What a row shows of the verdict.
Exact(entry) ==
    entry.state \in {"succeeded", "failed"} =>
        (entry.state = "succeeded" <=>
            \A s \in Step : DepSatisfied(entry.rows, s) \/ Excused(entry.rows, s))

LEMMA ExactEverywhere == VerdictExact <=> \A r \in Run : Exact(reg[r])
BY DEF VerdictExact, Exact, Excused

\* Every pass before the write-back.
LEMMA PassEarned ==
    ASSUME CountsOnce, VInv, DriverStep, ~Finish
    PROVE  AllEarned(loc') /\ (pc' \in Counting => NoStragglers(loc'))
<1>1. /\ TInv /\ SInv /\ Sound(loc) /\ Orderly(loc) /\ AllEarned(loc)
      /\ pc \in Counting => NoStragglers(loc)
  BY DEF VInv, Telltale, SInv, TInv, OInv, IInv, SoundEverywhere, Order
<1>2. CASE DetectReplyCompletions \/ DetectCompletions \/ CheckTimeouts
  <2>1. Judges(loc, loc') /\ pc' \notin Counting
    <3>1. pc' \notin Counting
      BY <1>2 DEF DetectReplyCompletions, DetectCompletions, CheckTimeouts, Counting
    <3>2. Judges(loc, loc')
      BY <1>1, <1>2, DetectReplyCompletionsJudges, DetectCompletionsJudges,
         CheckTimeoutsJudges
    <3>. QED  BY <3>1, <3>2
  <2>. QED  BY <1>1, <2>1, JudgesEarned
<1>3. CASE CancelStragglers
  <2>1. AllEarned(loc')
    BY <1>1, <1>3, CancelStragglersJudges, JudgesEarned
  <2>2. NoStragglers(loc')
    BY <1>1, <1>3, CancelStragglersEarned
  <2>. QED  BY <2>1, <2>2
<1>4. CASE RestartInPlace \/ RespawnFresh \/ PostponeRetry
  <2>1. Retries(loc, loc')
    BY <1>1, <1>4, RestartInPlaceRetries, RespawnFreshRetries, PostponeRetryRetries
  <2>2. pc = "retry"
    BY <1>4 DEF RestartInPlace, RespawnFresh, PostponeRetry
  <2>. QED  BY <1>1, <2>1, <2>2, RetriesEarned DEF Counting
<1>5. CASE FireDueRetries
  <2>1. loc' = loc /\ pc = "budget"
    BY <1>5 DEF FireDueRetries
  <2>. QED  BY <1>1, <2>1 DEF Counting
<1>6. CASE DecidePasses
  <2>1. loc' = Decide(loc) /\ pc = "retry"
    BY <1>6 DEF DecidePasses
  <2>. QED  BY <1>1, <2>1, DecideEarned DEF Counting
<1>7. CASE SpawnReady
  <2>. DEFINE s == First(todo)[1]
              reused == Reusable(loc, s, claimed)
  <2>1. PICK up, sent : loc' = SpawnStep(loc, s, reused, up, sent)
    BY <1>7 DEF SpawnReady
  <2>2. /\ s \in Step /\ Cleared(loc, s) /\ loc[Placeholder(s)].state = "pending"
        /\ \A c \in Copies(s) : loc[c].state \in {"pending", "absent"}
    BY <1>1, <1>7, SpawnTurn DEF SpawnReady, TInv
  <2>3. NoStragglers(loc)
    BY <1>1, <1>7 DEF SpawnReady, Counting
  <2>. HIDE DEF s, reused
  <2>4. AllEarned(loc') /\ NoStragglers(loc')
    BY <1>1, <2>1, <2>2, <2>3, SpawnEarned
  <2>. QED  BY <2>4
<1>8. CASE DeferStep
  <2>1. NoStragglers(loc)
    BY <1>1, <1>8 DEF DeferStep, Counting
  <2>. QED  BY <1>1, <1>8, <2>1, DeferEarned
<1>. QED  BY <1>2, <1>3, <1>4, <1>5, <1>6, <1>7, <1>8 DEF DriverStep

\* The driver writes back what it has judged.
LEMMA FinishExact ==
    ASSUME VInv, Finish
    PROVE  \A r \in Run : /\ Exact(reg'[r])
                          /\ reg'[r].state = "running" => AllEarned(reg'[r].rows)
<1>. DEFINE armed == ArmRetryBackoff(loc)
            rows == MarkEscalated(armed, Exhausted(armed))
            state == FinalizeState(rows)
            entry == [state |-> state, rows |-> rows]
<1>1. reg' = reg \/ reg' = [reg EXCEPT ![cur] = entry]
  BY DEF Finish
<1>2. /\ Sound(loc) /\ Orderly(loc) /\ Justified(loc) /\ AllEarned(loc)
      /\ NoStragglers(loc)
  <2>1. /\ Sound(loc) /\ Orderly(loc) /\ Justified(loc)
    BY DEF VInv, SInv, TInv, OInv, IInv, SoundEverywhere, Order, JustifiedEverywhere
  <2>2. AllEarned(loc) /\ NoStragglers(loc)
    BY DEF VInv, Telltale, Counting, Finish
  <2>. QED  BY <2>1, <2>2
<1>3. loc \in Rows /\ armed \in Rows /\ Sound(armed) /\ Justified(armed)
  BY <1>2, ArmRetryBackoffSound, ArmJustified DEF Sound
<1>4. Orderly(armed) /\ AllEarned(armed) /\ NoStragglers(armed)
  <2>1. Onward(loc, armed)
    BY <1>3, ArmRetryBackoffQuiet, QuietFacts
  <2>2. \A c \in Copy : armed[c].state = loc[c].state /\ armed[c].attempts = loc[c].attempts
    BY <1>3, ArmSame
  <2>. HIDE DEF armed
  <2>. QED  BY <1>2, <2>1, <2>2, OnwardOrderly, SameEarned
<1>. HIDE DEF armed
<1>5. rows \in Rows /\ Justified(rows)
  BY <1>3, MarkEscalatedSound, EscalatedJustified DEF Sound
<1>6. Orderly(rows) /\ AllEarned(rows) /\ NoStragglers(rows)
  <2>1. Onward(armed, rows)
    BY <1>3, MarkEscalatedQuiet, QuietFacts
  <2>2. \A c \in Copy : rows[c].state = armed[c].state /\ rows[c].attempts = armed[c].attempts
    BY <1>3, EscalatedSame
  <2>. HIDE DEF rows
  <2>. QED  BY <1>4, <2>1, <2>2, OnwardOrderly, SameEarned
<1>. HIDE DEF rows
<1>7. Telling(rows)
  BY <1>5, <1>6 DEF Telling
<1>8. Exact(entry) /\ AllEarned(entry.rows)
  <2>1. state # "running" =>
            (state = "succeeded" <=> \A s \in Step : DepSatisfied(rows, s) \/ Excused(rows, s))
    BY <1>6, <1>7, FinalizeExact
  <2>2. entry.state = state /\ entry.rows = rows
    OBVIOUS
  <2>. HIDE DEF state, entry
  <2>. QED  BY <1>6, <2>1, <2>2 DEF Exact
<1>. HIDE DEF state, entry
<1>9. ASSUME NEW r \in Run PROVE reg'[r] = reg[r] \/ reg'[r] = entry
  <2>1. DOMAIN reg = Run
    BY DEF VInv, SInv, TInv, OInv, IInv, TypeOK
  <2>. QED  BY <1>1, <2>1
<1>10. \A r \in Run : /\ Exact(reg[r])
                      /\ reg[r].state = "running" => AllEarned(reg[r].rows)
  BY ExactEverywhere DEF VInv, Telltale
<1>. QED  BY <1>8, <1>9, <1>10

\* A launch gives no row an outcome it has to account for but a failure.
LEMMA LaunchStepTelling ==
    ASSUME VInv, (\E r \in Run : LaunchBegin(r)) \/ LaunchRoot \/ LaunchDeferred
    PROVE  LaunchTelling'
<1>1. LaunchTelling
  BY DEF VInv, Telltale
<1>2. CASE \E r \in Run : LaunchBegin(r)
  <2>1. PICK r \in Run : launch' = [run |-> r,
                  rows |-> [c \in Copy |->
                      IF c = Placeholder(c[1]) /\ c[1] \notin RootSteps
                      THEN PendingRow ELSE NoRow],
                  todo |-> {Placeholder(s) : s \in RootSteps},
                  budget |-> PaneBudget,
                  claimed |-> PanesClaimedByOtherRuns(r)]
    BY <1>2 DEF LaunchBegin
  <2>2. \A c \in Copy : launch'.rows[c].state \in {"absent", "pending"}
    BY <2>1 DEF PendingRow, NoRow
  <2>3. ASSUME NEW s \in Step
        PROVE  \/ Placeholder(s) \in launch'.todo
               \/ launch'.rows[Placeholder(s)].state # "absent"
    <3>1. Placeholder(s) \in Copy /\ Placeholder(s)[1] = s
      BY CopyFacts DEF Placeholder
    <3>2. CASE s \in RootSteps
      BY <2>1, <3>2
    <3>3. CASE s \notin RootSteps
      <4>1. launch'.rows[Placeholder(s)] = PendingRow
        BY <2>1, <3>1, <3>3
      <4>. QED  BY <4>1 DEF PendingRow, NoRow
    <3>. QED  BY <3>2, <3>3
  <2>. QED  BY <2>2, <2>3 DEF LaunchTelling
<1>3. CASE LaunchRoot
  <2>. DEFINE s == First(launch.todo)[1]
              reused == Reusable(launch.rows, s, launch.claimed)
              needed == SlotsNeeded(launch.rows, s, launch.claimed)
  <2>1. PICK up, sent : launch' = [launch EXCEPT
                !.rows = SpawnStep(launch.rows, s, reused, up, sent),
                !.todo = @ \ Copies(s), !.budget = @ - needed]
    BY <1>3 DEF LaunchRoot
  <2>2. launch \in LaunchType /\ s \in Step
    BY <1>3, LaunchTurn DEF VInv, SInv, TInv, LaunchRoot
  <2>. DEFINE rows == SpawnStep(launch.rows, s, reused, up, sent)
  <2>3. /\ launch'.rows = rows
        /\ launch'.todo = launch.todo \ Copies(s) /\ launch'.run = launch.run
    BY <2>1, <2>2 DEF LaunchType
  <2>4. ASSUME NEW c \in Copy
        PROVE  /\ c[1] # s => rows[c] = launch.rows[c]
               /\ c[1] = s => rows[c].state \in {"failed", "running"} /\ rows[c].attempts = 1
    BY AttemptRowFacts DEF SpawnStep
  <2>. HIDE DEF rows, s
  <2>5. ASSUME NEW c \in Copy, rows[c].state = "running", NEW d \in Copies(c[1])
        PROVE  rows[d].state # "absent"
    <3>1. d \in Copy /\ d[1] = c[1]
      BY CopyFacts DEF Copies
    <3>. QED  BY <1>1, <2>4, <2>5, <3>1 DEF LaunchTelling
  <2>6. ASSUME NEW t \in Step, launch.run # NoRun
        PROVE  \/ Placeholder(t) \in launch.todo \ Copies(s)
               \/ rows[Placeholder(t)].state # "absent"
    <3>1. Placeholder(t) \in Copy /\ Placeholder(t)[1] = t
      BY CopyFacts DEF Placeholder
    <3>2. CASE t = s
      BY <2>4, <3>1, <3>2
    <3>3. CASE t # s
      <4>1. Placeholder(t) \notin Copies(s)
        BY <3>1, <3>3 DEF Copies
      <4>. QED  BY <1>1, <2>4, <2>6, <3>1, <3>3, <4>1 DEF LaunchTelling
    <3>. QED  BY <3>2, <3>3
  <2>7. \A c \in Copy :
           /\ rows[c].state \in {"absent", "pending", "running", "failed"}
           /\ rows[c].state \in {"running", "failed"} => rows[c].attempts > 0
    BY <1>1, <2>4 DEF LaunchTelling
  <2>. QED  BY <2>3, <2>5, <2>6, <2>7 DEF LaunchTelling
<1>4. CASE LaunchDeferred
  <2>. DEFINE s == First(launch.todo)[1]
              row == [PendingRow EXCEPT !.waiting = TRUE]
  <2>1. launch' = [launch EXCEPT !.rows[Placeholder(s)] = row,
                                 !.todo = @ \ {Placeholder(s)}]
    BY <1>4 DEF LaunchDeferred
  <2>2. /\ launch \in LaunchType /\ s \in Step /\ launch.rows \in Rows
        /\ \A d \in Copies(s) : launch.rows[d].state = "absent"
    BY <1>4, LaunchTurn DEF VInv, SInv, TInv, LaunchDeferred
  <2>3. row.state = "pending"
    BY DEF PendingRow, NoRow
  <2>. HIDE DEF s, row
  <2>4. Placeholder(s) \in Copy
    BY <2>2, CopyFacts
  <2>5. /\ \A d \in Copy : launch'.rows[d] = IF d = Placeholder(s) THEN row
                                             ELSE launch.rows[d]
        /\ launch'.todo = launch.todo \ {Placeholder(s)} /\ launch'.run = launch.run
    BY <2>1, <2>2 DEF LaunchType, Rows
  <2>6. ASSUME NEW c \in Copy, launch'.rows[c].state = "running", NEW d \in Copies(c[1])
        PROVE  launch'.rows[d].state # "absent"
    <3>1. d \in Copy
      BY CopyFacts
    <3>. QED  BY <1>1, <2>3, <2>5, <2>6, <3>1 DEF LaunchTelling
  <2>7. ASSUME NEW t \in Step, launch'.run # NoRun
        PROVE  \/ Placeholder(t) \in launch'.todo
               \/ launch'.rows[Placeholder(t)].state # "absent"
    <3>1. Placeholder(t) \in Copy
      BY CopyFacts
    <3>. QED  BY <1>1, <2>3, <2>5, <2>7, <3>1 DEF LaunchTelling
  <2>8. \A c \in Copy :
           /\ launch'.rows[c].state \in {"absent", "pending", "running", "failed"}
           /\ launch'.rows[c].state \in {"running", "failed"} => launch'.rows[c].attempts > 0
    BY <1>1, <2>3, <2>5 DEF LaunchTelling
  <2>. QED  BY <2>6, <2>7, <2>8 DEF LaunchTelling
<1>. QED  BY <1>2, <1>3, <1>4

\* A run that is dead when it is launched is not green and nothing excuses it.
LEMMA LaunchEndExact ==
    ASSUME VInv, LaunchEnd
    PROVE  \A r \in Run : /\ Exact(reg'[r])
                          /\ reg'[r].state = "running" => AllEarned(reg'[r].rows)
<1>. DEFINE rows == launch.rows
            state == IF \E c \in Copy : rows[c].state \in {"running", "pending"}
                     THEN "running" ELSE "failed"
            entry == [state |-> state, rows |-> rows]
<1>1. /\ reg' = [reg EXCEPT ![launch.run] = entry]
      /\ launch.run # NoRun /\ launch.todo = {}
  BY DEF LaunchEnd
<1>2. LaunchTelling /\ Orderly(rows)
  BY DEF VInv, Telltale, SInv, TInv, OInv, Order
<1>3. AllEarned(rows)
  <2>. SUFFICES ASSUME NEW c \in Copy PROVE Earned(rows, c)
    BY DEF AllEarned
  <2>1. /\ rows[c].state \in {"absent", "pending", "running", "failed"}
        /\ rows[c].state \in {"running", "failed"} => rows[c].attempts > 0
        /\ rows[c].state = "running" => \A d \in Copies(c[1]) : rows[d].state # "absent"
    BY <1>2 DEF LaunchTelling
  <2>2. rows[c].attempts > 0 => DepsSatisfied(rows, c[1])
    BY <1>2 DEF Orderly, Cleared
  <2>. QED  BY <2>1, <2>2 DEF Earned
<1>4. ASSUME state = "failed"
      PROVE  \E s \in Step : ~DepSatisfied(rows, s) /\ ~Excused(rows, s)
  <2>1. \A c \in Copy : rows[c].state \in {"absent", "failed"}
    BY <1>2, <1>4 DEF LaunchTelling
  <2>2. PICK s \in Step : TRUE
    <3>1. 1 \in Step
      BY WorkflowAssumption DEF WorkflowAssumption, ValidWorkflow, Step
    <3>. QED  BY <3>1
  <2>3. ~DepSatisfied(rows, s)
    <3>1. \A c \in Copies(s) : c \in Copy
      BY CopyFacts
    <3>. QED  BY <2>1, <3>1, SatisfiedSucceeded
  <2>4. ASSUME NEW u \in DeclinedByCondition(rows) PROVE FALSE
    <3>1. u \in Step /\ rows[Placeholder(u)].state = "skipped"
      BY DepFacts DEF DeclinedByCondition
    <3>2. Placeholder(u) \in Copy
      BY <3>1, CopyFacts
    <3>. QED  BY <2>1, <3>1, <3>2
  <2>. QED  BY <2>3, <2>4 DEF Excused
<1>5. Exact(entry) /\ AllEarned(entry.rows)
  <2>1. entry.state = state /\ entry.rows = rows /\ state # "succeeded"
    OBVIOUS
  <2>. HIDE DEF entry, state, rows
  <2>2. entry.state = "failed" =>
            \E s \in Step : ~DepSatisfied(entry.rows, s) /\ ~Excused(entry.rows, s)
    BY <1>4, <2>1
  <2>. QED  BY <1>3, <2>1, <2>2 DEF Exact
<1>. HIDE DEF entry
<1>6. ASSUME NEW r \in Run PROVE reg'[r] = reg[r] \/ reg'[r] = entry
  <2>1. DOMAIN reg = Run
    BY DEF VInv, SInv, TInv, OInv, IInv, TypeOK
  <2>. QED  BY <1>1, <2>1
<1>7. \A r \in Run : /\ Exact(reg[r])
                     /\ reg[r].state = "running" => AllEarned(reg[r].rows)
  BY ExactEverywhere DEF VInv, Telltale
<1>. QED  BY <1>5, <1>6, <1>7

LEMMA NextVerdict == ASSUME CountsOnce, VInv, SInv', [Next]_vars PROVE VInv'
<1>1. /\ AllEarned(loc)
      /\ pc \in Counting => NoStragglers(loc)
      /\ LaunchTelling
      /\ \A r \in Run : /\ Exact(reg[r])
                        /\ reg[r].state = "running" => AllEarned(reg[r].rows)
  BY ExactEverywhere DEF VInv, Telltale
<1>2. ASSUME UNCHANGED reg
      PROVE  \A r \in Run : /\ Exact(reg'[r])
                            /\ reg'[r].state = "running" => AllEarned(reg'[r].rows)
  BY <1>1, <1>2
<1>3. ASSUME UNCHANGED launch PROVE LaunchTelling'
  BY <1>1, <1>3 DEF LaunchTelling
<1>. DEFINE Goal == /\ AllEarned(loc') /\ (pc' \in Counting => NoStragglers(loc'))
                    /\ LaunchTelling'
                    /\ \A r \in Run : /\ Exact(reg'[r])
                                      /\ reg'[r].state = "running"
                                            => AllEarned(reg'[r].rows)
<1>4. Goal => VInv'
  <2>1. (\A r \in Run : Exact(reg'[r])) => VerdictExact'
    BY DEF VerdictExact, Exact, Excused
  <2>. QED  BY <2>1 DEF VInv, Telltale
<1>. SUFFICES Goal
  BY <1>4
<1>5. ASSUME NEW r \in Run, Tick(r) PROVE Goal
  <2>1. /\ loc' = reg[r].rows /\ reg[r].state = "running" /\ pc' = "reply"
        /\ UNCHANGED <<reg, launch>>
    BY <1>5 DEF Tick, TickBegin
  <2>. QED  BY <1>1, <1>2, <1>3, <2>1 DEF Counting
<1>6. CASE (\E r \in Run : LaunchBegin(r)) \/ LaunchRoot \/ LaunchDeferred
  <2>1. UNCHANGED <<reg, loc, pc>>
    BY <1>6 DEF LaunchBegin, LaunchRoot, LaunchDeferred, driver
  <2>2. LaunchTelling'
    BY <1>6, LaunchStepTelling
  <2>. QED  BY <1>1, <1>2, <2>1, <2>2
<1>7. ASSUME NEW r \in Run, CancelRead(r) PROVE Goal
  <2>1. UNCHANGED <<reg, loc, pc, launch>>
    BY <1>7 DEF CancelRead, driver
  <2>. QED  BY <1>1, <1>2, <1>3, <2>1
<1>8. CASE Finish
  <2>1. UNCHANGED launch /\ loc' = NoRows /\ pc' \notin Counting
    BY <1>8 DEF Finish, Counting
  <2>2. LaunchTelling'
    BY <1>3, <2>1
  <2>3. AllEarned(loc')
    BY <2>1, NoRowsEarned
  <2>4. \A r \in Run : /\ Exact(reg'[r])
                       /\ reg'[r].state = "running" => AllEarned(reg'[r].rows)
    BY <1>8, FinishExact
  <2>. QED  BY <2>1, <2>2, <2>3, <2>4
<1>9. CASE DriverStep /\ ~Finish
  <2>1. UNCHANGED <<reg, launch>>
    BY <1>9, EveryPassAdvances DEF VInv, SInv
  <2>2. AllEarned(loc') /\ (pc' \in Counting => NoStragglers(loc'))
    BY <1>9, PassEarned
  <2>. QED  BY <1>2, <1>3, <2>1, <2>2
<1>10. CASE LaunchEnd
  <2>1. UNCHANGED <<loc, pc>> /\ launch'.rows = NoRows /\ launch'.run = NoRun
    BY <1>10 DEF LaunchEnd, driver
  <2>2. \A c \in Copy : NoRows[c].state = "absent"
    BY DEF NoRows, NoRow
  <2>3. LaunchTelling'
    BY <2>1, <2>2 DEF LaunchTelling
  <2>4. \A r \in Run : /\ Exact(reg'[r])
                       /\ reg'[r].state = "running" => AllEarned(reg'[r].rows)
    BY <1>10, LaunchEndExact
  <2>. QED  BY <1>1, <2>1, <2>3, <2>4
<1>11. CASE CancelWrite
  <2>1. UNCHANGED <<loc, pc, launch>>
    BY <1>11 DEF CancelWrite, driver
  <2>2. PICK rows : reg' = [reg EXCEPT ![snap.run] =
                               [state |-> "cancelled", rows |-> rows]]
    BY <1>11 DEF CancelWrite
  <2>3. DOMAIN reg = Run
    BY DEF VInv, SInv, TInv, OInv, IInv, TypeOK
  <2>4. \A r \in Run : reg'[r] = reg[r] \/ reg'[r].state = "cancelled"
    BY <2>2, <2>3
  <2>5. \A r \in Run : reg'[r].state = "cancelled" => Exact(reg'[r])
    BY DEF Exact
  <2>6. \A r \in Run : /\ Exact(reg'[r])
                       /\ reg'[r].state = "running" => AllEarned(reg'[r].rows)
    BY <1>1, <2>4, <2>5
  <2>. QED  BY <1>1, <1>3, <2>1, <2>6
<1>12. CASE Environment \/ UNCHANGED vars
  <2>1. UNCHANGED <<reg, loc, pc, launch>>
    BY <1>12 DEF Environment, Exit, Reap, AgentStatus, ClosePane, RestartPane, Reply,
       OpenPane, vars, driver
  <2>. QED  BY <1>1, <1>2, <1>3, <2>1
<1>. HIDE DEF Goal
<1>. QED  BY <1>5, <1>6, <1>7, <1>8, <1>9, <1>10, <1>11, <1>12 DEF Next

LEMMA InitVerdict == Init => Telltale /\ VerdictExact
<1>. SUFFICES ASSUME Init PROVE Telltale /\ VerdictExact
  OBVIOUS
<1>1. /\ \A r \in Run : reg[r].state = "absent"
      /\ loc = NoRows /\ launch.rows = NoRows /\ launch.run = NoRun /\ pc = "idle"
  BY DEF Init
<1>2. \A c \in Copy : NoRows[c].state = "absent"
  BY DEF NoRows, NoRow
<1>3. LaunchTelling
  BY <1>1, <1>2 DEF LaunchTelling
<1>4. VerdictExact
  BY <1>1 DEF VerdictExact
<1>. QED  BY <1>1, <1>3, <1>4, NoRowsEarned DEF Telltale, Counting

\* The colour of a finished run is exact: it is green if and only if every step's
\* join is satisfied or excused by a condition that declined, whatever the order of
\* replies, exits, timeouts, retries and cancels (finalize_state and mod verdict).
\* The assumption says that no join counts more than one copy of a retried step;
\* without it the property is false.
THEOREM VerdictIsExact ==
    ASSUME CountsOnce
    PROVE  Spec => []VerdictExact
<1>1. Init => VInv
  BY InitIInv, InitOrder, InitTold, InitJustified, InitVerdict DEF VInv, SInv, TInv, OInv
<1>2. SInv /\ [Next]_vars => SInv'
  BY NextIInv, NextOrder, NextTold, NextJustified DEF SInv, TInv, OInv
<1>3. VInv /\ [Next]_vars => VInv'
  BY <1>2, NextVerdict DEF VInv
<1>4. VInv => VerdictExact
  BY DEF VInv
<1>. QED  BY <1>1, <1>3, <1>4, PTL DEF Spec

-----------------------------------------------------------------------------
(* Whose pane it is.                                                       *)

\* The store refuses a kickoff only of steps that need none, or have no retry.
RefusalsAreFinal == \A s \in KickoffFails \cap ReplyJoin : RetryMax[s] = 0

\* A row that holds a pane, or will once the retry it has left is armed.
Claimant(s, row) ==
    \/ row.state = "running"
    \/ /\ row.state = "failed" /\ row.session # 0
       /\ row.armed \/ RetryAllowed(s, row.attempts)

\* A pane a row names was opened, and for an agent of that name.
Housed(panes, s, row) ==
    /\ row.session # 0 => /\ row.session \in DOMAIN panes
                          /\ panes[row.session].agent = Agent[s]
                          /\ row.attempts > 0
    /\ row.state = "pending" => row.session = 0

Apart(rows) ==
    \A c, d \in Copy :
        /\ c # d
        /\ Claimant(c[1], rows[c]) /\ Claimant(d[1], rows[d])
        /\ rows[c].session # 0
        => rows[c].session # rows[d].session

Owned(panes, rows) ==
    /\ \A c \in Copy : Housed(panes, c[1], rows[c])
    /\ Apart(rows)

\* Nobody is about to claim a pane it does not hold yet: what an adoption may
\* rely on when it looks at the rows that hold one.
InPlace(rows) == \A c \in Copy : Claimant(c[1], rows[c]) => HoldsPane(rows[c])

Owners ==
    /\ Owned(pane, loc) /\ Owned(pane, launch.rows) /\ Owned(pane, snap.rows)
    /\ \A r \in Run : Owned(pane, reg[r].rows)
    /\ pc = "spawn" => InPlace(loc)
    /\ InPlace(launch.rows)

WInv == OInv /\ Owners

\* Panes are only added, and none changes its agent.
Grows(old, new) ==
    \A p \in DOMAIN old : p \in DOMAIN new /\ new[p].agent = old[p].agent

LEMMA OwnedLasts ==
    ASSUME NEW old, NEW new, Grows(old, new), NEW rows, Owned(old, rows)
    PROVE  Owned(new, rows)
<1>1. \A c \in Copy : Housed(new, c[1], rows[c])
  BY DEF Owned, Housed, Grows
<1>. QED  BY <1>1 DEF Owned

\* Rows that claim no more than they did.
Yields(old, new) ==
    \A c \in Copy :
        \/ new[c].session = 0
        \/ /\ new[c].session = old[c].session
           /\ old[c].attempts > 0 => new[c].attempts > 0
           /\ Claimant(c[1], new[c]) => Claimant(c[1], old[c])
           /\ new[c].state = "pending" => old[c].state = "pending"

LEMMA YieldsOwned ==
    ASSUME NEW panes, NEW old, Owned(panes, old), NEW new, Yields(old, new)
    PROVE  Owned(panes, new)
<1>1. ASSUME NEW c \in Copy PROVE Housed(panes, c[1], new[c])
  <2>1. Housed(panes, c[1], old[c])
    BY DEF Owned
  <2>. QED  BY <2>1 DEF Yields, Housed
<1>2. ASSUME NEW c \in Copy, NEW d \in Copy, c # d,
             Claimant(c[1], new[c]), Claimant(d[1], new[d]), new[c].session # 0
      PROVE  new[c].session # new[d].session
  <2>1. CASE new[d].session = 0
    BY <1>2, <2>1
  <2>2. CASE new[d].session # 0
    <3>1. /\ new[c].session = old[c].session /\ Claimant(c[1], old[c])
          /\ new[d].session = old[d].session /\ Claimant(d[1], old[d])
      BY <1>2, <2>2 DEF Yields
    <3>. QED  BY <1>2, <3>1 DEF Owned, Apart
  <2>. QED  BY <2>1, <2>2
<1>. QED  BY <1>1, <1>2 DEF Owned, Apart

LEMMA YieldsReflexive == ASSUME NEW rows PROVE Yields(rows, rows)
BY DEF Yields

LEMMA YieldsTransitive ==
    ASSUME NEW a, NEW b, NEW c, Yields(a, b), Yields(b, c)
    PROVE  Yields(a, c)
<1>. SUFFICES ASSUME NEW e \in Copy, c[e].session # 0
              PROVE  /\ c[e].session = a[e].session
                     /\ a[e].attempts > 0 => c[e].attempts > 0
                     /\ Claimant(e[1], c[e]) => Claimant(e[1], a[e])
                     /\ c[e].state = "pending" => a[e].state = "pending"
  BY DEF Yields
<1>1. /\ c[e].session = b[e].session
      /\ b[e].attempts > 0 => c[e].attempts > 0
      /\ Claimant(e[1], c[e]) => Claimant(e[1], b[e])
      /\ c[e].state = "pending" => b[e].state = "pending"
  BY DEF Yields
<1>2. /\ b[e].session = a[e].session
      /\ a[e].attempts > 0 => b[e].attempts > 0
      /\ Claimant(e[1], b[e]) => Claimant(e[1], a[e])
      /\ b[e].state = "pending" => a[e].state = "pending"
  BY <1>1 DEF Yields
<1>. QED  BY <1>1, <1>2

LEMMA NoRowsOwned == ASSUME NEW panes PROVE Owned(panes, NoRows) /\ InPlace(NoRows)
BY DEF Owned, Housed, Apart, InPlace, Claimant, NoRows, NoRow

-----------------------------------------------------------------------------
(* The panes.                                                              *)

LEMMA KillGrows == ASSUME pane \in Seq(PaneRow), NEW panes PROVE Grows(pane, Kill(panes))
<1>1. \A p \in Panes : pane[p] \in PaneRow
  BY PaneFacts
<1>. QED  BY <1>1 DEF Grows, Kill, Panes, PaneRow

LEMMA SetPaneGrows ==
    ASSUME pane \in Seq(PaneRow), NEW p, NEW st PROVE Grows(pane, SetPane(p, st))
<1>1. \A q \in Panes : pane[q] \in PaneRow
  BY PaneFacts
<1>. QED  BY <1>1 DEF Grows, SetPane, Panes, PaneRow

LEMMA AppendGrows ==
    ASSUME pane \in Seq(PaneRow), NEW panes \in Seq(PaneRow), Grows(pane, panes),
           NEW row \in PaneRow
    PROVE  /\ Grows(pane, Append(panes, row))
           /\ Append(panes, row)[Len(panes) + 1] = row
           /\ Len(panes) + 1 \in DOMAIN Append(panes, row)
<1>1. /\ DOMAIN panes = 1 .. Len(panes) /\ Len(panes) \in Nat
      /\ DOMAIN Append(panes, row) = 1 .. Len(panes) + 1
      /\ \A i \in 1 .. Len(panes) : Append(panes, row)[i] = panes[i]
      /\ Append(panes, row)[Len(panes) + 1] = row
  BY AppendProperties
<1>2. \A i \in 1 .. Len(panes) : i \in 1 .. Len(panes) + 1
  BY <1>1
<1>. QED  BY <1>1, <1>2 DEF Grows

LEMMA AfterNoRestartGrows ==
    ASSUME pane \in Seq(PaneRow), NEW c, NEW panes \in AfterNoRestart(c)
    PROVE  /\ Grows(pane, panes) /\ Len(panes) = Len(pane)
           /\ panes \in Seq(PaneRow)
<1>1. panes \in {pane, SetPane(loc[c].session, "bad")}
  BY DEF AfterNoRestart
<1>2. Grows(pane, pane)
  BY DEF Grows
<1>. QED  BY <1>1, <1>2, SetPaneGrows, SetPaneType, AfterNoRestartType

LEMMA OpenedPanesGrows ==
    ASSUME pane \in Seq(PaneRow), NEW s \in Step, NEW reused, NEW up \in SUBSET Copies(s)
    PROVE  /\ Grows(pane, OpenedPanes(s, reused, up))
           /\ reused = 0 => \A k \in 1 .. Cardinality(up) :
                 /\ Len(pane) + k \in DOMAIN OpenedPanes(s, reused, up)
                 /\ OpenedPanes(s, reused, up)[Len(pane) + k].agent = Agent[s]
<1>. DEFINE opened == [i \in 1 .. Cardinality(up) |-> NewPane(Agent[s], FALSE)]
<1>1. opened \in Seq(PaneRow) /\ Len(opened) = Cardinality(up) /\ Cardinality(up) \in Nat
  BY CopiesFinite, NewPaneType, SeqFromFunction
<1>2. /\ pane \o opened \in Seq(PaneRow)
      /\ Len(pane \o opened) = Len(pane) + Len(opened)
      /\ \A i \in 1 .. Len(pane) + Len(opened) :
            (pane \o opened)[i] = IF i <= Len(pane) THEN pane[i] ELSE opened[i - Len(pane)]
  BY <1>1, ConcatProperties
<1>3. \A k \in 1 .. Cardinality(up) : opened[k].agent = Agent[s]
  BY DEF NewPane
<1>4. DOMAIN (pane \o opened) = 1 .. Len(pane) + Len(opened)
  BY <1>2, LenProperties
<1>. HIDE DEF opened
<1>5. Len(pane) \in Nat /\ Panes = 1 .. Len(pane)
  BY PaneFacts
<1>6. Grows(pane, pane \o opened)
  <2>1. ASSUME NEW p \in DOMAIN pane
        PROVE  p \in 1 .. Len(pane) + Len(opened) /\ p <= Len(pane)
    BY <1>1, <1>5 DEF Panes
  <2>. QED  BY <2>1, <1>2, <1>4 DEF Grows
<1>7. ASSUME NEW k \in 1 .. Cardinality(up)
      PROVE  /\ Len(pane) + k \in DOMAIN (pane \o opened)
             /\ (pane \o opened)[Len(pane) + k] = opened[k]
  <2>1. /\ Len(pane) + k \in 1 .. Len(pane) + Len(opened)
        /\ ~(Len(pane) + k <= Len(pane)) /\ (Len(pane) + k) - Len(pane) = k
    BY <1>1, <1>5
  <2>. QED  BY <1>2, <1>4, <2>1
<1>8. Grows(pane, pane)
  BY DEF Grows
<1>. QED  BY <1>3, <1>6, <1>7, <1>8 DEF OpenedPanes, opened

\* No step of anybody closes the list of panes.
LEMMA NextGrows == ASSUME IInv, [Next]_vars PROVE Grows(pane, pane')
<1>1. pane \in Seq(PaneRow)
  BY DEF IInv, TypeOK, PaneRow
<1>2. CASE UNCHANGED pane
  BY <1>2 DEF Grows
<1>3. CASE \E panes : pane' = Kill(panes)
  BY <1>1, <1>3, KillGrows
<1>4. CASE \E p, st : pane' = SetPane(p, st)
  BY <1>1, <1>4, SetPaneGrows
<1>5. CASE RespawnFresh
  <2>1. First(todo)[1] \in Step
    BY <1>5, RetryTurn DEF RespawnFresh
  <2>2. PICK panes \in AfterNoRestart(First(todo)) :
           pane' = panes \/ pane' = Append(panes, NewPane(Agent[First(todo)[1]], FALSE))
    BY <1>5 DEF RespawnFresh
  <2>. QED  BY <1>1, <2>1, <2>2, AfterNoRestartGrows, AppendGrows, NewPaneType
<1>6. CASE PostponeRetry
  <2>1. pane' \in AfterNoRestart(First(todo))
    BY <1>6 DEF PostponeRetry
  <2>. QED  BY <1>1, <2>1, AfterNoRestartGrows
<1>7. CASE SpawnReady
  <2>1. First(todo)[1] \in Step
    <3>1. First(todo) \in todo /\ todo \subseteq Copy
      BY <1>7, FirstMember DEF SpawnReady, IInv, TypeOK
    <3>. QED  BY <3>1, CopyFacts
  <2>2. \E reused : \E up \in SUBSET Copies(First(todo)[1]) :
           pane' = OpenedPanes(First(todo)[1], reused, up)
    BY <1>7 DEF SpawnReady, Successes
  <2>. QED  BY <1>1, <2>1, <2>2, OpenedPanesGrows
<1>8. CASE LaunchRoot
  <2>1. First(launch.todo)[1] \in Step
    <3>1. First(launch.todo) \in launch.todo /\ launch.todo \subseteq Copy
      BY <1>8, FirstMember DEF LaunchRoot, IInv, TypeOK
    <3>. QED  BY <3>1, CopyFacts
  <2>2. \E reused : \E up \in SUBSET Copies(First(launch.todo)[1]) :
           pane' = OpenedPanes(First(launch.todo)[1], reused, up)
    BY <1>8 DEF LaunchRoot, Successes
  <2>. QED  BY <1>1, <2>1, <2>2, OpenedPanesGrows
<1>9. ASSUME NEW agent \in AgentName, OpenPane(agent) PROVE Grows(pane, pane')
  <2>1. pane' = Append(pane, NewPane(agent, TRUE)) /\ NewPane(agent, TRUE) \in PaneRow
    BY <1>9 DEF OpenPane, NewPane, PaneRow
  <2>2. Grows(pane, pane)
    BY DEF Grows
  <2>. QED  BY <1>1, <2>1, <2>2, AppendGrows
<1>10. CASE CheckTimeouts \/ CancelStragglers \/ CancelWrite \/ \E p \in Panes : ClosePane(p)
  BY <1>3, <1>10 DEF CheckTimeouts, CancelStragglers, CancelWrite, ClosePane
<1>11. CASE RestartInPlace
          \/ \E p \in Panes : \/ \E st \in {"ok", "bad"} : Exit(p, st)
                              \/ Reap(p) \/ RestartPane(p)
  BY <1>4, <1>11 DEF RestartInPlace, Exit, Reap, RestartPane
<1>12. CASE (\E r \in Run : Tick(r) \/ LaunchBegin(r) \/ CancelRead(r))
           \/ LaunchDeferred \/ LaunchEnd \/ UNCHANGED vars
  BY <1>2, <1>12 DEF Tick, TickBegin, LaunchBegin, CancelRead, LaunchDeferred,
     LaunchEnd, vars
<1>13. CASE DetectReplyCompletions \/ DetectCompletions \/ FireDueRetries
           \/ DecidePasses \/ DeferStep \/ Finish
  BY <1>2, <1>13 DEF DetectReplyCompletions, DetectCompletions, FireDueRetries,
     DecidePasses, DeferStep, Finish
<1>14. CASE Environment
  <2>1. CASE \E p \in Panes : \E isDone \in BOOLEAN : AgentStatus(p, isDone)
    BY <1>2, <2>1 DEF AgentStatus
  <2>2. CASE \E r \in Run, c \in Copy, body \in {"match", "other"} : Reply(r, c, body)
    BY <1>2, <2>2 DEF Reply
  <2>. QED  BY <1>9, <1>10, <1>11, <1>14, <2>1, <2>2 DEF Environment
<1>. QED  BY <1>5, <1>6, <1>7, <1>8, <1>10, <1>11, <1>12, <1>13, <1>14 DEF Next, DriverStep

-----------------------------------------------------------------------------
(* The passes that claim nothing new.                                      *)

LEMMA DetectReplyCompletionsYields ==
    ASSUME WInv, DetectReplyCompletions PROVE Yields(loc, loc')
<1>1. ASSUME NEW c \in Copy
      PROVE  \/ loc'[c] = loc[c]
             \/ /\ loc[c].state = "running"
                /\ \E body : loc'[c] \in
                      {[loc[c] EXCEPT !.state = "succeeded", !.reply = body, !.armed = FALSE],
                       [loc[c] EXCEPT !.reply = body]}
  BY DEF DetectReplyCompletions
<1>2. \A c \in Copy : loc[c] \in Row
  BY RowFacts DEF WInv
<1>3. ASSUME NEW c \in Copy, loc'[c] # loc[c]
      PROVE  /\ loc[c].state = "running" /\ loc'[c].state # "pending"
             /\ loc'[c].session = loc[c].session
             /\ loc'[c].attempts = loc[c].attempts
  <2>1. PICK body : loc'[c] \in
           {[loc[c] EXCEPT !.state = "succeeded", !.reply = body, !.armed = FALSE],
            [loc[c] EXCEPT !.reply = body]}
    BY ONLY <1>1, <1>3
  <2>2. loc[c].state = "running"
    BY ONLY <1>1, <1>3
  <2>3. loc[c] \in Row
    BY ONLY <1>2
  <2>. QED  BY ONLY <2>1, <2>2, <2>3 DEF Row
<1>. QED  BY ONLY <1>3 DEF Yields, Claimant

LEMMA DetectCompletionsYields ==
    ASSUME WInv, DetectCompletions PROVE Yields(loc, loc')
<1>1. ASSUME NEW c \in Copy
      PROVE  \/ loc'[c] = loc[c]
             \/ /\ loc[c].state = "running"
                /\ \/ loc'[c] = [loc[c] EXCEPT !.state = "succeeded"]
                   \/ loc'[c] = [loc[c] EXCEPT !.state = "failed"]
  BY DEF DetectCompletions
<1>2. \A c \in Copy : loc[c] \in Row
  BY RowFacts DEF WInv
<1>. QED  BY ONLY <1>1, <1>2 DEF Yields, Claimant, Row

LEMMA CheckTimeoutsYields ==
    ASSUME WInv, CheckTimeouts PROVE Yields(loc, loc')
<1>1. ASSUME NEW c \in Copy
      PROVE  \/ loc'[c] = loc[c]
             \/ loc'[c] = [loc[c] EXCEPT !.state = "failed", !.session = 0]
  BY DEF CheckTimeouts
<1>2. \A c \in Copy : loc[c] \in Row
  BY RowFacts DEF WInv
<1>. QED  BY ONLY <1>1, <1>2 DEF Yields, Row

LEMMA CancelStragglersYields ==
    ASSUME WInv, CancelStragglers PROVE Yields(loc, loc')
<1>1. ASSUME NEW c \in Copy
      PROVE  \/ loc'[c] = loc[c]
             \/ loc'[c] = [loc[c] EXCEPT !.state = "cancelled", !.armed = FALSE,
                              !.waiting = FALSE,
                              !.session = IF loc[c].state = "running" THEN 0 ELSE @]
  BY DEF CancelStragglers
<1>2. \A c \in Copy : loc[c] \in Row
  BY RowFacts DEF WInv
<1>3. ASSUME NEW c \in Copy, loc'[c] # loc[c]
      PROVE  /\ loc'[c].state = "cancelled"
             /\ loc'[c].session \in {0, loc[c].session}
             /\ loc'[c].attempts = loc[c].attempts
  <2>. DEFINE session == IF loc[c].state = "running" THEN 0 ELSE loc[c].session
  <2>1. loc'[c] = [loc[c] EXCEPT !.state = "cancelled", !.armed = FALSE,
                      !.waiting = FALSE, !.session = session]
    BY <1>1, <1>3
  <2>2. session \in {0, loc[c].session} /\ loc[c] \in Row
    BY <1>2
  <2>. HIDE DEF session
  <2>. QED  BY ONLY <2>1, <2>2 DEF Row
<1>. QED  BY ONLY <1>3 DEF Yields, Claimant

\* One row claims no more than it did.
LEMMA RowYields ==
    ASSUME NEW rows \in Rows, NEW c \in Copy, NEW row,
           rows[c].attempts > 0 => row.attempts > 0,
           row.session = 0 \/ row.session = rows[c].session,
           Claimant(c[1], row) => Claimant(c[1], rows[c]),
           row.state # "pending" \/ rows[c].state = "pending"
    PROVE  Yields(rows, [rows EXCEPT ![c] = row])
<1>1. \A d \in Copy : [rows EXCEPT ![c] = row][d] = IF d = c THEN row ELSE rows[d]
  BY DEF Rows
<1>. QED  BY <1>1 DEF Yields

LEMMA RestartInPlaceYields ==
    ASSUME WInv, RestartInPlace PROVE Yields(loc, loc')
<1>. DEFINE c == First(todo)
<1>1. PICK sent : loc' = [loc EXCEPT ![c] =
                     [AttemptRow(c[1], loc[c].session, c[1] \in Kickoff /\ c \in sent,
                                 loc[c].attempts + 1)
                      EXCEPT !.escalated = loc[c].escalated]]
  BY DEF RestartInPlace
<1>2. pc = "retry" /\ todo # {} /\ loc[c].session \in Panes
  BY DEF RestartInPlace
<1>3. /\ c \in Copy /\ loc \in Rows /\ loc[c].armed /\ loc[c].state = "failed"
      /\ loc[c].attempts > 0 /\ loc[c].attempts \in Nat
  BY <1>2, RetryTurn, RetryAttempted, NumberFacts DEF WInv, OInv
<1>4. loc[c].session # 0
  <2>1. pane \in Seq(PaneRow)
    BY DEF WInv, OInv, IInv, TypeOK, PaneRow
  <2>. QED  BY <1>2, <2>1, PaneFacts
<1>. DEFINE row == AttemptRow(c[1], loc[c].session, c[1] \in Kickoff /\ c \in sent,
                              loc[c].attempts + 1)
            kept == [row EXCEPT !.escalated = loc[c].escalated]
<1>5. /\ kept.state \in {"failed", "running"}
      /\ kept.session = loc[c].session
      /\ kept.attempts = loc[c].attempts + 1
  BY <1>4 DEF AttemptRow, NoRow
<1>6. loc' = [loc EXCEPT ![c] = kept]
  BY <1>1
<1>. HIDE DEF kept, row, c
<1>7. kept.attempts > 0
  BY <1>3, <1>5
<1>8. Claimant(c[1], loc[c])
  BY <1>3, <1>4 DEF Claimant
<1>. QED  BY <1>3, <1>5, <1>6, <1>7, <1>8, RowYields

LEMMA PostponeRetryYields ==
    ASSUME WInv, PostponeRetry PROVE Yields(loc, loc')
<1>. DEFINE c == First(todo)
            row == IF c \in over
                   THEN [loc[c] EXCEPT !.armed = FALSE, !.waiting = FALSE,
                                       !.attempts = @ + 1]
                   ELSE [loc[c] EXCEPT !.waiting = TRUE]
<1>1. loc' = [loc EXCEPT ![c] = row] /\ pc = "retry" /\ todo # {}
  BY DEF PostponeRetry
<1>2. /\ c \in Copy /\ loc \in Rows /\ loc[c].state = "failed" /\ loc[c].attempts > 0
      /\ loc[c].armed /\ loc[c] \in Row
  BY <1>1, RetryTurn, RetryAttempted DEF WInv, OInv
<1>3. /\ row.state = "failed" /\ row.session = loc[c].session
      /\ row.attempts \in {loc[c].attempts, loc[c].attempts + 1}
  <2>. HIDE DEF c
  <2>. QED  BY <1>2 DEF Row
<1>. HIDE DEF row, c
<1>4. row.attempts > 0
  <2>1. loc[c].attempts \in Nat
    BY <1>2, NumberFacts
  <2>. QED  BY <1>2, <1>3, <2>1
<1>5. Claimant(c[1], row) => Claimant(c[1], loc[c])
  BY <1>2, <1>3 DEF Claimant
<1>. QED  BY <1>1, <1>2, <1>3, <1>4, <1>5, RowYields

LEMMA DeferStepYields ==
    ASSUME WInv, DeferStep PROVE Yields(loc, loc')
<1>. DEFINE c == Placeholder(First(todo)[1])
            row == IF c \in over
                   THEN [loc[c] EXCEPT !.state = "failed", !.waiting = FALSE,
                                       !.attempts = 1]
                   ELSE [loc[c] EXCEPT !.waiting = TRUE]
<1>1. loc' = [loc EXCEPT ![c] = row] /\ pc = "spawn" /\ todo # {}
  BY DEF DeferStep
<1>2. c \in Copy /\ loc[c].state = "pending"
  BY <1>1, SpawnTurn DEF Placeholder, WInv
<1>3. loc \in Rows /\ loc[c] \in Row
  BY <1>2, NumberFacts DEF WInv, OInv, IInv, TypeOK
<1>4. loc[c].session = 0
  BY <1>2 DEF WInv, Owners, Owned, Housed
<1>5. row.session = 0
  <2>. HIDE DEF c
  <2>. QED  BY <1>3, <1>4 DEF Row
<1>6. \A d \in Copy : loc'[d] = IF d = c THEN row ELSE loc[d]
  <2>. HIDE DEF row, c
  <2>. QED  BY <1>1, <1>3 DEF Rows
<1>. HIDE DEF row, c
<1>. QED  BY <1>5, <1>6 DEF Yields

LEMMA ArmYields ==
    ASSUME NEW rows \in Rows
    PROVE  Yields(rows, ArmRetryBackoff(rows))
<1>. DEFINE a == ArmRetryBackoff(rows)
<1>1. ASSUME NEW c \in Copy, a[c] # rows[c]
      PROVE  /\ a[c].state = "failed" /\ rows[c].state = "failed"
             /\ a[c].session = rows[c].session /\ a[c].attempts = rows[c].attempts
             /\ RetryAllowed(c[1], rows[c].attempts)
  <2>1. /\ a[c] = [rows[c] EXCEPT !.armed = TRUE] /\ rows[c].state = "failed"
        /\ RetryAllowed(c[1], rows[c].attempts)
    BY <1>1 DEF ArmRetryBackoff
  <2>2. rows[c] \in Row
    BY NumberFacts
  <2>. HIDE DEF a
  <2>. QED  BY ONLY <2>1, <2>2 DEF Row
<1>. HIDE DEF a
<1>2. Yields(rows, a)
  BY ONLY <1>1 DEF Yields, Claimant
<1>. QED  BY <1>2 DEF a

\* After the arming pass nobody is about to claim a pane.
LEMMA ArmInPlace ==
    ASSUME NEW panes, NEW rows \in Rows, Owned(panes, rows)
    PROVE  InPlace(ArmRetryBackoff(rows))
<1>. DEFINE a == ArmRetryBackoff(rows)
<1>. SUFFICES ASSUME NEW c \in Copy, Claimant(c[1], a[c]), a[c].state # "running"
              PROVE  HoldsPane(a[c])
  BY DEF InPlace, HoldsPane
<1>1. /\ a[c].state = "failed" /\ a[c].session # 0
      /\ a[c].armed \/ RetryAllowed(c[1], a[c].attempts)
  BY DEF Claimant
<1>2. CASE a[c] = rows[c]
  <2>1. rows[c].attempts > 0
    BY <1>1, <1>2 DEF Owned, Housed
  <2>2. a[c].armed
    <3>1. CASE rows[c].armed
      BY <1>2, <3>1
    <3>2. CASE ~rows[c].armed
      <4>1. a[c] = [rows[c] EXCEPT !.armed = TRUE] /\ rows[c] \in Row
        BY <1>1, <1>2, <2>1, <3>2, NumberFacts DEF ArmRetryBackoff
      <4>. QED  BY ONLY <4>1 DEF Row
    <3>. QED  BY <3>1, <3>2
  <2>. QED  BY <1>1, <2>2 DEF HoldsPane
<1>3. CASE a[c] # rows[c]
  <2>1. a[c] = [rows[c] EXCEPT !.armed = TRUE] /\ rows[c] \in Row
    BY <1>3, NumberFacts DEF ArmRetryBackoff
  <2>2. a[c].armed
    BY ONLY <2>1 DEF Row
  <2>. QED  BY <1>1, <2>2 DEF HoldsPane
<1>. QED  BY <1>2, <1>3

\* A step that waits names no pane, whatever is decided about it.
LEMMA SetStepStateYields ==
    ASSUME NEW rows \in Rows, \A c \in Copy : rows[c].state = "pending" => rows[c].session = 0,
           NEW steps, NEW state \in {"skipped", "failed"},
           \A s \in steps \cap Step : rows[Placeholder(s)].state = "pending"
    PROVE  LET new == SetStepState(rows, steps, state)
           IN  /\ Yields(rows, new)
               /\ InPlace(rows) => InPlace(new)
               /\ \A c \in Copy : new[c].state = "pending" => new[c].session = 0
<1>. DEFINE new == SetStepState(rows, steps, state)
<1>1. ASSUME NEW c \in Copy
      PROVE  new[c] = rows[c] \/ (new[c].session = 0 /\ new[c].state = state)
  <2>1. CASE c[1] \in steps /\ c = Placeholder(c[1])
    <3>1. rows[c].state = "pending" /\ rows[c].session = 0 /\ rows[c] \in Row
      BY <2>1, CopyFacts, NumberFacts
    <3>2. new[c] = [rows[c] EXCEPT !.state = state, !.waiting = FALSE]
      BY <2>1 DEF SetStepState
    <3>. HIDE DEF new
    <3>. QED  BY ONLY <3>1, <3>2 DEF Row
  <2>2. CASE ~(c[1] \in steps /\ c = Placeholder(c[1]))
    BY <2>2 DEF SetStepState
  <2>. QED  BY <2>1, <2>2
<1>. HIDE DEF new
<1>2. Yields(rows, new)
  BY <1>1 DEF Yields
<1>3. InPlace(rows) => InPlace(new)
  BY <1>1 DEF InPlace, Claimant
<1>4. \A c \in Copy : new[c].state = "pending" => new[c].session = 0
  BY <1>1
<1>. QED  BY <1>2, <1>3, <1>4 DEF new

LEMMA PendingYields ==
    ASSUME NEW old, NEW new, Yields(old, new),
           \A c \in Copy : old[c].state = "pending" => old[c].session = 0
    PROVE  \A c \in Copy : new[c].state = "pending" => new[c].session = 0
BY DEF Yields

LEMMA DecideYields ==
    ASSUME NEW panes, NEW rows, Sound(rows), Owned(panes, rows)
    PROVE  Yields(rows, Decide(rows)) /\ InPlace(Decide(rows))
<1>. DEFINE a == ArmRetryBackoff(rows)
            b == SetStepState(a, ConditionTargets(a, "other"), "skipped")
            c == SetStepState(b, ConditionTargets(a, "none"), "failed")
            d == SetStepState(c, FailfastTargets(c), "skipped")
            Idle(r) == \A e \in Copy : r[e].state = "pending" => r[e].session = 0
<1>1. /\ Sound(a) /\ Sound(b) /\ Sound(c)
      /\ \A s \in ConditionTargets(a, "other") \cap Step : a[Placeholder(s)].state = "pending"
      /\ \A s \in ConditionTargets(a, "none") \cap Step : b[Placeholder(s)].state = "pending"
      /\ \A s \in FailfastTargets(c) \cap Step : c[Placeholder(s)].state = "pending"
  BY DecidedWait
<1>2. Decide(rows) = d
  BY DEF Decide, Failfast, ApplyConditions
<1>3. rows \in Rows /\ a \in Rows /\ b \in Rows /\ c \in Rows
  BY <1>1 DEF Sound
<1>4. Yields(rows, a) /\ InPlace(a) /\ Idle(a)
  <2>1. Yields(rows, a) /\ InPlace(a)
    BY <1>3, ArmYields, ArmInPlace
  <2>2. Idle(rows)
    BY DEF Owned, Housed
  <2>. HIDE DEF a
  <2>. QED  BY <2>1, <2>2, PendingYields
<1>5. Yields(a, b) /\ InPlace(b) /\ Idle(b)
  <2>. HIDE DEF a
  <2>. QED  BY <1>1, <1>3, <1>4, SetStepStateYields
<1>6. Yields(b, c) /\ InPlace(c) /\ Idle(c)
  <2>. HIDE DEF a, b
  <2>. QED  BY <1>1, <1>3, <1>5, SetStepStateYields
<1>7. Yields(c, d) /\ InPlace(d)
  <2>. HIDE DEF c
  <2>. QED  BY <1>1, <1>3, <1>6, SetStepStateYields
<1>. HIDE DEF a, b, c, d
<1>8. Yields(rows, d)
  BY <1>4, <1>5, <1>6, <1>7, YieldsTransitive
<1>. QED  BY <1>2, <1>7, <1>8

LEMMA WriteBackYields ==
    ASSUME NEW rows, Sound(rows)
    PROVE  LET armed == ArmRetryBackoff(rows)
           IN  Yields(rows, MarkEscalated(armed, Exhausted(armed)))
<1>. DEFINE armed == ArmRetryBackoff(rows)
            new == MarkEscalated(armed, Exhausted(armed))
<1>1. armed \in Rows /\ Yields(rows, armed)
  BY ArmRetryBackoffSound, ArmYields DEF Sound
<1>. HIDE DEF armed
<1>2. ASSUME NEW c \in Copy
      PROVE  /\ new[c].state = armed[c].state /\ new[c].session = armed[c].session
             /\ new[c].attempts = armed[c].attempts
             /\ new[c].armed = armed[c].armed
  <2>1. armed[c] \in Row
    BY <1>1, NumberFacts
  <2>2. new[c] = armed[c] \/ new[c] = [armed[c] EXCEPT !.escalated = TRUE]
    BY DEF MarkEscalated
  <2>. HIDE DEF new
  <2>. QED  BY ONLY <2>1, <2>2 DEF Row
<1>. HIDE DEF new
<1>3. Yields(armed, new)
  BY <1>2 DEF Yields, Claimant
<1>4. Yields(rows, new)
  BY <1>1, <1>3, YieldsTransitive
<1>. QED  BY <1>4 DEF new, armed

-----------------------------------------------------------------------------
(* The passes that claim panes.                                            *)

\* The copies that came up are numbered without a tie.
LEMMA RankRises ==
    ASSUME NEW s \in Step, NEW up \in SUBSET Copies(s), NEW c \in up, NEW e \in up,
           c[2] < e[2]
    PROVE  Cardinality({d \in up : d[2] <= c[2]}) < Cardinality({d \in up : d[2] <= e[2]})
<1>. DEFINE C == {d \in up : d[2] <= c[2]}
            E == {d \in up : d[2] <= e[2]}
<1>1. IsFiniteSet(C) /\ IsFiniteSet(E) /\ Cardinality(C) \in Nat /\ Cardinality(E) \in Nat
  BY CopiesFinite, C \in SUBSET Copies(s), E \in SUBSET Copies(s)
<1>2. \A d \in up : d[2] \in Nat
  BY StepFacts DEF Copies
<1>3. C \subseteq E
  BY <1>2
<1>4. e \in E /\ e \notin C
  BY <1>2
<1>. HIDE DEF C, E
<1>5. IsFiniteSet(C \cup {e}) /\ Cardinality(C \cup {e}) = Cardinality(C) + 1
  BY <1>1, <1>4, FS_AddElement
<1>6. Cardinality(C \cup {e}) <= Cardinality(E)
  BY <1>1, <1>3, <1>4, FS_Subset
<1>7. Cardinality(C) < Cardinality(E)
  BY <1>1, <1>5, <1>6
<1>. QED  BY <1>7 DEF C, E

LEMMA RankFacts ==
    ASSUME NEW s \in Step, NEW up \in SUBSET Copies(s), NEW c \in up
    PROVE  /\ Cardinality({d \in up : d[2] <= c[2]}) \in 1 .. Cardinality(up)
           /\ \A e \in up : e # c =>
                 Cardinality({d \in up : d[2] <= e[2]})
                    # Cardinality({d \in up : d[2] <= c[2]})
<1>. DEFINE Rank(e) == Cardinality({d \in up : d[2] <= e[2]})
<1>1. \A d \in up : d[2] \in Nat /\ d = <<s, d[2]>>
  BY StepFacts DEF Copies
<1>2. Rank(c) \in 1 .. Cardinality(up)
  <2>. DEFINE C == {d \in up : d[2] <= c[2]}
  <2>1. C \subseteq up /\ C \in SUBSET Copies(s) /\ c \in C
    BY <1>1
  <2>. HIDE DEF C
  <2>2. /\ IsFiniteSet(up) /\ IsFiniteSet(C)
        /\ Cardinality(C) \in Nat /\ Cardinality(up) \in Nat
    BY <2>1, CopiesFinite
  <2>3. Cardinality(C) <= Cardinality(up)
    BY <2>1, <2>2, FS_Subset
  <2>4. Cardinality(C) # 0
    BY <2>1, <2>2, FS_EmptySet
  <2>5. Cardinality(C) \in 1 .. Cardinality(up)
    BY <2>2, <2>3, <2>4
  <2>. QED  BY <2>5 DEF C
<1>3. ASSUME NEW e \in up, e # c PROVE Rank(e) # Rank(c)
  <2>1. Rank(e) \in Nat /\ Rank(c) \in Nat
    BY CopiesFinite, {d \in up : d[2] <= e[2]} \in SUBSET Copies(s),
       {d \in up : d[2] <= c[2]} \in SUBSET Copies(s)
  <2>2. e[2] < c[2] \/ c[2] < e[2]
    BY <1>1, <1>3
  <2>3. Rank(e) < Rank(c) \/ Rank(c) < Rank(e)
    BY <2>2, RankRises
  <2>. HIDE DEF Rank
  <2>. QED  BY <2>1, <2>3
<1>. QED  BY <1>2, <1>3

\* What is known of a pane that is taken over.
LEMMA ReusableFacts ==
    ASSUME pane \in Seq(PaneRow), NEW rows, NEW s \in Step, NEW taken,
           Reusable(rows, s, taken) # 0
    PROVE  /\ Fan[s] = 1 /\ ~AgentClaimedByOtherStep(rows, s)
           /\ Reusable(rows, s, taken) \in Panes
           /\ pane[Reusable(rows, s, taken)].agent = Agent[s]
<1>. DEFINE found == Adoptable(Agent[s], taken)
            lowest == CHOOSE p \in found : \A q \in found : p <= q
<1>1. /\ Fan[s] = 1 /\ ~AgentClaimedByOtherStep(rows, s) /\ found # {}
      /\ Reusable(rows, s, taken) = lowest
  BY DEF Reusable
<1>2. found \subseteq Nat
  BY PaneFacts DEF Adoptable
<1>3. \E p \in found : \A q \in found : p <= q
  BY <1>1, <1>2, SmallestNumber
<1>4. lowest \in found
  BY <1>3
<1>. HIDE DEF lowest
<1>5. Reusable(rows, s, taken) \in found
  BY <1>1, <1>4
<1>. QED  BY <1>1, <1>5 DEF Adoptable

\* A first attempt claims no pane but the one it holds.
LEMMA AttemptClaims ==
    ASSUME RefusalsAreFinal, NEW s \in Step,
           NEW sent \in Successes(Copies(s), s \in KickoffFails),
           NEW c \in Copies(s), NEW p
    PROVE  LET row == AttemptRow(s, p, s \in Kickoff /\ c \in sent, 1)
           IN  /\ row.session = p /\ row.attempts = 1 /\ row.state # "pending"
               /\ Claimant(s, row) => HoldsPane(row)
<1>. DEFINE thread == s \in Kickoff /\ c \in sent
            row == AttemptRow(s, p, thread, 1)
<1>1. row.session = p /\ row.attempts = 1 /\ row.state # "pending" /\ row.armed = FALSE
  BY DEF AttemptRow, NoRow
<1>2. ASSUME Claimant(s, row), row.state # "running" PROVE FALSE
  <2>1. row.state = "failed" /\ p # 0 /\ RetryAllowed(s, row.attempts)
    BY <1>1, <1>2 DEF Claimant
  <2>2. s \in ReplyJoin /\ ~thread
    BY <2>1 DEF AttemptRow, NoRow
  <2>3. s \in Kickoff
    BY <2>2, WorkflowAssumption DEF WorkflowAssumption, ValidWorkflow
  <2>4. s \in KickoffFails
    BY <2>2, <2>3 DEF Successes
  <2>5. RetryMax[s] = 0
    BY <2>2, <2>4 DEF RefusalsAreFinal
  <2>. QED  BY <2>1, <2>5 DEF RetryAllowed
<1>. HIDE DEF row, thread
<1>3. Claimant(s, row) => HoldsPane(row)
  BY <1>2 DEF HoldsPane
<1>. QED  BY <1>1, <1>3 DEF row, thread

\* A step that is spawned, by the driver or by a launch, takes only panes that
\* nobody of its run claims: the one it adopts, or new ones.
LEMMA SpawnOwned ==
    ASSUME RefusalsAreFinal, pane \in Seq(PaneRow),
           NEW rows, Owned(pane, rows), InPlace(rows), NEW s \in Step, NEW taken,
           NEW up \in SUBSET Copies(s),
           NEW sent \in Successes(Copies(s), s \in KickoffFails)
    PROVE  LET reused == Reusable(rows, s, taken)
               new == SpawnStep(rows, s, reused, up, sent)
           IN  Owned(OpenedPanes(s, reused, up), new) /\ InPlace(new)
<1>. DEFINE reused == Reusable(rows, s, taken)
            panes == OpenedPanes(s, reused, up)
            new == SpawnStep(rows, s, reused, up, sent)
            Of(c) == PaneFor(c, reused, up)
<1>1. ASSUME NEW c \in Copy, c[1] = s
      PROVE  /\ new[c].session = Of(c) /\ new[c].attempts = 1 /\ new[c].state # "pending"
             /\ Claimant(s, new[c]) => HoldsPane(new[c])
  <2>1. c \in Copies(s)
    BY <1>1, CopyFacts
  <2>2. new[c] = AttemptRow(s, Of(c), s \in Kickoff /\ c \in sent, 1)
    BY <1>1 DEF SpawnStep
  <2>. HIDE DEF new, Of
  <2>. QED  BY <2>1, <2>2, AttemptClaims
<1>2. \A c \in Copy : c[1] # s => new[c] = rows[c]
  BY DEF SpawnStep
<1>3. /\ Grows(pane, panes)
      /\ reused = 0 => \A k \in 1 .. Cardinality(up) :
            Len(pane) + k \in DOMAIN panes /\ panes[Len(pane) + k].agent = Agent[s]
  BY OpenedPanesGrows
<1>4. reused # 0 => /\ Fan[s] = 1 /\ ~AgentClaimedByOtherStep(rows, s)
                    /\ reused \in Panes /\ pane[reused].agent = Agent[s]
  BY ReusableFacts
<1>5. reused # 0 => \A c \in Copy : Of(c) = reused
  BY DEF PaneFor
<1>6. ASSUME reused = 0, NEW c \in Copy
      PROVE  /\ c \notin up => Of(c) = 0
             /\ c \in up => \E k \in 1 .. Cardinality(up) :
                   /\ Of(c) = Len(pane) + k
                   /\ k = Cardinality({d \in up : d[2] <= c[2]})
  BY <1>6, RankFacts DEF PaneFor
<1>7. /\ Len(pane) \in Nat /\ Panes = 1 .. Len(pane) /\ Panes \subseteq Nat \ {0}
      /\ Cardinality(up) \in Nat
  BY PaneFacts, CopiesFinite
<1>. HIDE DEF new, panes, Of, reused
<1>8. ASSUME NEW c \in Copy PROVE Housed(panes, c[1], new[c])
  <2>1. CASE c[1] # s
    BY <1>2, <1>3, <2>1, OwnedLasts DEF Owned
  <2>2. CASE c[1] = s /\ reused # 0
    BY <1>1, <1>3, <1>4, <1>5, <2>2 DEF Housed, Grows, Panes
  <2>3. CASE c[1] = s /\ reused = 0
    <3>1. Of(c) # 0 => Of(c) \in DOMAIN panes /\ panes[Of(c)].agent = Agent[s]
      BY <1>3, <1>6, <2>3
    <3>. QED  BY <1>1, <2>3, <3>1 DEF Housed
  <2>. QED  BY <2>1, <2>2, <2>3
<1>9. ASSUME NEW c \in Copy, NEW d \in Copy, c[1] = s, d[1] # s,
             Claimant(d[1], new[d]), new[c].session # 0
      PROVE  new[c].session # new[d].session
  <2>1. /\ new[d] = rows[d] /\ Housed(pane, d[1], rows[d]) /\ HoldsPane(rows[d])
    BY <1>2, <1>9 DEF Owned, InPlace
  <2>2. CASE reused # 0
    <3>1. Agent[d[1]] # Agent[s]
      BY <1>4, <1>9, <2>1, <2>2 DEF AgentClaimedByOtherStep
    <3>2. rows[d].session # 0 => pane[rows[d].session].agent = Agent[d[1]]
      BY <2>1 DEF Housed
    <3>3. new[c].session = reused /\ pane[reused].agent = Agent[s]
      BY <1>1, <1>4, <1>5, <1>9, <2>2
    <3>. QED  BY <1>9, <2>1, <3>1, <3>2, <3>3
  <2>3. CASE reused = 0
    <3>1. PICK k \in 1 .. Cardinality(up) : new[c].session = Len(pane) + k
      BY <1>1, <1>6, <1>9, <2>3
    <3>2. rows[d].session = 0 \/ rows[d].session \in 1 .. Len(pane)
      BY <1>7, <2>1 DEF Housed, Panes
    <3>. QED  BY <1>7, <2>1, <3>1, <3>2
  <2>. QED  BY <2>2, <2>3
<1>10. ASSUME NEW c \in Copy, NEW d \in Copy, c # d, c[1] = s, d[1] = s,
              new[c].session # 0
       PROVE  new[c].session # new[d].session
  <2>1. reused = 0
    <3>1. Fan[s] = 1 => c = d
      BY <1>10, CopyFacts
    <3>. QED  BY <1>4, <1>10, <3>1
  <2>2. PICK k \in 1 .. Cardinality(up) :
           new[c].session = Len(pane) + k /\ k = Cardinality({e \in up : e[2] <= c[2]})
    BY <1>1, <1>6, <1>10, <2>1
  <2>3. c \in up
    BY <1>1, <1>6, <1>10, <2>1
  <2>4. CASE d \notin up
    BY <1>1, <1>6, <1>10, <2>1, <2>4
  <2>5. CASE d \in up
    <3>1. PICK j \in 1 .. Cardinality(up) :
             new[d].session = Len(pane) + j /\ j = Cardinality({e \in up : e[2] <= d[2]})
      BY <1>1, <1>6, <1>10, <2>1, <2>5
    <3>2. j # k
      BY <1>10, <2>2, <2>3, <2>5, <3>1, RankFacts
    <3>. QED  BY <1>7, <2>2, <3>1, <3>2
  <2>. QED  BY <2>4, <2>5
<1>11. Apart(new)
  <2>. SUFFICES ASSUME NEW c \in Copy, NEW d \in Copy, c # d,
                       Claimant(c[1], new[c]), Claimant(d[1], new[d]),
                       new[c].session # 0
                PROVE  new[c].session # new[d].session
    BY DEF Apart
  <2>1. CASE c[1] = s /\ d[1] = s
    BY <1>10, <2>1
  <2>2. CASE c[1] = s /\ d[1] # s
    BY <1>9, <2>2
  <2>3. CASE c[1] # s /\ d[1] = s
    BY <1>9, <2>3
  <2>4. CASE c[1] # s /\ d[1] # s
    BY <1>2, <2>4 DEF Owned, Apart
  <2>. QED  BY <2>1, <2>2, <2>3, <2>4
<1>12. InPlace(new)
  BY <1>1, <1>2 DEF InPlace
<1>13. Owned(panes, new) /\ InPlace(new)
  BY <1>8, <1>11, <1>12 DEF Owned
<1>. QED  BY <1>13 DEF panes, new, reused

LEMMA RespawnFreshOwned ==
    ASSUME WInv, RespawnFresh PROVE Owned(pane', loc')
<1>. DEFINE c == First(todo)
<1>1. pane \in Seq(PaneRow) /\ loc \in Rows /\ Owned(pane, loc)
  BY DEF WInv, OInv, IInv, TypeOK, PaneRow, Owners
<1>2. PICK panes \in AfterNoRestart(c), up \in SUBSET {c},
          sent \in Successes({c}, c[1] \in KickoffFails) :
         /\ loc' = [loc EXCEPT ![c] =
                        AttemptRow(c[1], PaneFor(c, 0, up),
                                   c[1] \in Kickoff /\ c \in sent,
                                   loc[c].attempts + 1)]
         /\ pane' = IF up = {} THEN panes
                    ELSE Append(panes, NewPane(Agent[c[1]], FALSE))
  BY DEF RespawnFresh, Successes
<1>3. /\ c \in Copy /\ c[1] \in Step /\ loc[c].attempts + 1 \in Nat
      /\ loc[c].attempts > 0 /\ loc[c].attempts \in Nat
  BY RetryTurn, RetryAttempted, NumberFacts DEF RespawnFresh, WInv, OInv
<1>. DEFINE row == AttemptRow(c[1], PaneFor(c, 0, up), c[1] \in Kickoff /\ c \in sent,
                              loc[c].attempts + 1)
<1>4. /\ row.session = PaneFor(c, 0, up) /\ row.state # "pending"
      /\ row.attempts = loc[c].attempts + 1
  BY DEF AttemptRow, NoRow
<1>5. \A d \in Copy : loc'[d] = IF d = c THEN row ELSE loc[d]
  <2>. HIDE DEF row, c
  <2>. QED  BY <1>1, <1>2 DEF row, Rows
<1>6. /\ Grows(pane, panes) /\ Len(panes) = Len(pane) /\ panes \in Seq(PaneRow)
  BY <1>1, AfterNoRestartGrows
<1>7. CASE up = {}
  <2>1. row.session = 0
    BY <1>4, <1>7 DEF PaneFor
  <2>. HIDE DEF row, c
  <2>2. Yields(loc, loc')
    BY <1>5, <2>1 DEF Yields
  <2>3. Owned(pane, loc')
    BY <1>1, <2>2, YieldsOwned
  <2>. QED  BY <1>2, <1>6, <1>7, <2>3, OwnedLasts
<1>8. CASE up # {}
  <2>1. Len(pane) \in Nat /\ Panes = 1 .. Len(pane)
    BY <1>1, PaneFacts
  <2>2. row.session = Len(pane) + 1
    <3>1. up = {c}
      BY <1>8
    <3>2. {d \in up : d[2] <= c[2]} = {c}
      <4>1. c[2] \in Nat
        BY <1>3, CopyFacts, StepFacts
      <4>2. c[2] <= c[2]
        BY <4>1
      <4>. QED  BY <3>1, <4>2
    <3>3. Cardinality({c}) = 1
      BY FS_Singleton
    <3>. QED  BY <1>4, <3>1, <3>2, <3>3 DEF PaneFor
  <2>3. /\ pane' = Append(panes, NewPane(Agent[c[1]], FALSE))
        /\ NewPane(Agent[c[1]], FALSE) \in PaneRow
    BY <1>2, <1>3, <1>8, NewPaneType
  <2>4. /\ Grows(pane, pane') /\ Len(pane) + 1 \in DOMAIN pane'
        /\ pane'[Len(pane) + 1].agent = Agent[c[1]]
    BY <1>1, <1>6, <2>3, AppendGrows DEF NewPane
  <2>. HIDE DEF row, c
  <2>5. Owned(pane', loc)
    BY <1>1, <2>4, OwnedLasts
  <2>6. row.attempts > 0
    BY <1>3, <1>4
  <2>7. \A d \in Copy : Housed(pane', d[1], loc'[d])
    BY <1>4, <1>5, <2>2, <2>4, <2>5, <2>6 DEF Owned, Housed
  <2>8. \A d \in Copy : loc[d].session # Len(pane) + 1
    <3>1. \A d \in Copy : loc[d].session # 0 => loc[d].session \in 1 .. Len(pane)
      BY <1>1, <2>1 DEF Owned, Housed, Panes
    <3>. QED  BY <2>1, <3>1
  <2>9. Apart(loc')
    BY <1>1, <1>5, <2>2, <2>8 DEF Owned, Apart
  <2>. QED  BY <2>7, <2>9 DEF Owned
<1>. QED  BY <1>7, <1>8

-----------------------------------------------------------------------------
(* Every step.                                                             *)

\* Every pass of the driver before the write-back.
LEMMA PassOwned ==
    ASSUME RefusalsAreFinal, WInv, [Next]_vars, DriverStep, ~Finish
    PROVE  Owned(pane', loc') /\ (pc' = "spawn" => InPlace(loc'))
<1>1. /\ pane \in Seq(PaneRow) /\ Owned(pane, loc) /\ Grows(pane, pane')
      /\ Sound(loc)
  BY NextGrows DEF WInv, OInv, IInv, TypeOK, PaneRow, Owners, SoundEverywhere
<1>2. ASSUME Yields(loc, loc') PROVE Owned(pane', loc')
  BY <1>1, <1>2, YieldsOwned, OwnedLasts
<1>3. CASE DetectReplyCompletions
  BY <1>2, <1>3, DetectReplyCompletionsYields DEF DetectReplyCompletions
<1>4. CASE DetectCompletions
  BY <1>2, <1>4, DetectCompletionsYields DEF DetectCompletions
<1>5. CASE CheckTimeouts
  BY <1>2, <1>5, CheckTimeoutsYields DEF CheckTimeouts
<1>6. CASE CancelStragglers
  BY <1>2, <1>6, CancelStragglersYields DEF CancelStragglers
<1>7. CASE FireDueRetries
  BY <1>2, <1>7, YieldsReflexive DEF FireDueRetries
<1>8. CASE RestartInPlace
  BY <1>2, <1>8, RestartInPlaceYields DEF RestartInPlace
<1>9. CASE RespawnFresh
  BY <1>9, RespawnFreshOwned DEF RespawnFresh
<1>10. CASE PostponeRetry
  BY <1>2, <1>10, PostponeRetryYields DEF PostponeRetry
<1>11. CASE DecidePasses
  <2>1. loc' = Decide(loc)
    BY <1>11 DEF DecidePasses
  <2>. QED  BY <1>1, <1>2, <2>1, DecideYields
<1>12. CASE SpawnReady
  <2>. DEFINE s == First(todo)[1]
              reused == Reusable(loc, s, claimed)
  <2>1. PICK up \in SUBSET Copies(s), sent \in Successes(Copies(s), s \in KickoffFails) :
           loc' = SpawnStep(loc, s, reused, up, sent) /\ pane' = OpenedPanes(s, reused, up)
    BY <1>12 DEF SpawnReady, Successes
  <2>2. pc = "spawn" /\ todo # {}
    BY <1>12 DEF SpawnReady
  <2>3. s \in Step /\ InPlace(loc)
    BY <2>2, SpawnTurn DEF WInv, Owners
  <2>. QED  BY <1>1, <2>1, <2>3, SpawnOwned
<1>13. CASE DeferStep
  <2>1. pc = "spawn" /\ InPlace(loc) /\ Yields(loc, loc')
    BY <1>13, DeferStepYields DEF WInv, Owners, DeferStep
  <2>2. InPlace(loc')
    <3>. DEFINE c == Placeholder(First(todo)[1])
                row == IF c \in over
                       THEN [loc[c] EXCEPT !.state = "failed", !.waiting = FALSE,
                                           !.attempts = 1]
                       ELSE [loc[c] EXCEPT !.waiting = TRUE]
    <3>1. loc' = [loc EXCEPT ![c] = row] /\ todo # {}
      BY <1>13 DEF DeferStep
    <3>2. c \in Copy /\ loc[c].state = "pending"
      BY <2>1, <3>1, SpawnTurn DEF Placeholder, WInv
    <3>3. loc[c].session = 0
      BY <1>1, <3>2 DEF Owned, Housed
    <3>4. loc \in Rows /\ loc[c] \in Row
      BY <1>1, <3>2, NumberFacts DEF Sound
    <3>5. row.session = 0 /\ row.state # "running"
      <4>. HIDE DEF c
      <4>. QED  BY <3>2, <3>3, <3>4 DEF Row
    <3>. HIDE DEF row, c
    <3>6. \A d \in Copy : loc'[d] = IF d = c THEN row ELSE loc[d]
      BY <3>1, <3>4 DEF Rows
    <3>. QED  BY <2>1, <3>5, <3>6 DEF InPlace, Claimant
  <2>. QED  BY <1>2, <2>1, <2>2
<1>. QED  BY <1>3, <1>4, <1>5, <1>6, <1>7, <1>8, <1>9, <1>10, <1>11, <1>12, <1>13
          DEF DriverStep

LEMMA CancelWriteYields ==
    ASSUME WInv, CancelWrite
    PROVE  \A r \in Run : reg'[r].rows = reg[r].rows \/ Yields(snap.rows, reg'[r].rows)
<1>. DEFINE running == {c \in Copy : snap.rows[c].state = "running"}
            pending == {c \in Copy : snap.rows[c].state = "pending"}
            rows == [c \in Copy |->
                      IF c \in running \cup pending
                      THEN [snap.rows[c] EXCEPT !.state = "cancelled", !.waiting = FALSE]
                      ELSE snap.rows[c]]
<1>1. reg' = [reg EXCEPT ![snap.run] = [state |-> "cancelled", rows |-> rows]]
  BY DEF CancelWrite
<1>2. ASSUME NEW c \in Copy
      PROVE  \/ rows[c] = snap.rows[c]
             \/ /\ rows[c].state = "cancelled" /\ rows[c].session = snap.rows[c].session
                /\ rows[c].attempts = snap.rows[c].attempts
  <2>1. snap.rows[c] \in Row
    BY RowFacts, NumberFacts DEF WInv
  <2>2. \/ rows[c] = snap.rows[c]
        \/ rows[c] = [snap.rows[c] EXCEPT !.state = "cancelled", !.waiting = FALSE]
    OBVIOUS
  <2>. HIDE DEF rows
  <2>. QED  BY ONLY <2>1, <2>2 DEF Row
<1>. HIDE DEF rows
<1>3. Yields(snap.rows, rows)
  BY <1>2 DEF Yields, Claimant
<1>4. DOMAIN reg = Run
  BY DEF WInv, OInv, IInv, TypeOK
<1>5. \A r \in Run : reg'[r].rows \in {reg[r].rows, rows}
  BY ONLY <1>1, <1>4
<1>. QED  BY <1>3, <1>5

LEMMA LaunchRootOwned ==
    ASSUME RefusalsAreFinal, WInv, LaunchRoot
    PROVE  Owned(pane', launch'.rows) /\ InPlace(launch'.rows)
<1>. DEFINE s == First(launch.todo)[1]
            reused == Reusable(launch.rows, s, launch.claimed)
            needed == SlotsNeeded(launch.rows, s, launch.claimed)
<1>1. PICK up \in SUBSET Copies(s), sent \in Successes(Copies(s), s \in KickoffFails) :
         /\ launch' = [launch EXCEPT
                        !.rows = SpawnStep(launch.rows, s, reused, up, sent),
                        !.todo = @ \ Copies(s), !.budget = @ - needed]
         /\ pane' = OpenedPanes(s, reused, up)
  BY DEF LaunchRoot, Successes
<1>2. launch.todo # {}
  BY DEF LaunchRoot
<1>3. s \in Step /\ launch \in LaunchType
  BY <1>2, LaunchTurn DEF WInv
<1>4. pane \in Seq(PaneRow) /\ Owned(pane, launch.rows) /\ InPlace(launch.rows)
  BY DEF WInv, OInv, IInv, TypeOK, PaneRow, Owners
<1>. HIDE DEF s, reused, needed
<1>5. launch'.rows = SpawnStep(launch.rows, s, reused, up, sent)
  BY <1>1, <1>3 DEF LaunchType
<1>. QED  BY <1>1, <1>3, <1>4, <1>5, SpawnOwned DEF reused

LEMMA LaunchDeferredYields ==
    ASSUME WInv, LaunchDeferred
    PROVE  /\ Yields(launch.rows, launch'.rows) /\ InPlace(launch'.rows)
<1>. DEFINE c == Placeholder(First(launch.todo)[1])
            row == [PendingRow EXCEPT !.waiting = TRUE]
<1>1. /\ launch.todo # {}
      /\ launch' = [launch EXCEPT !.rows[c] = row, !.todo = @ \ {c}]
  BY DEF LaunchDeferred
<1>2. launch \in LaunchType /\ launch.rows \in Rows /\ InPlace(launch.rows)
  BY <1>1, LaunchTurn DEF WInv, Owners
<1>3. row.state = "pending" /\ row.session = 0
  BY DEF PendingRow, NoRow
<1>. HIDE DEF row, c
<1>4. \A d \in Copy : launch'.rows[d] = IF d = c THEN row ELSE launch.rows[d]
  BY <1>1, <1>2 DEF LaunchType, Rows
<1>. QED  BY <1>2, <1>3, <1>4 DEF Yields, InPlace, Claimant

LEMMA NextOwners == ASSUME RefusalsAreFinal, WInv, [Next]_vars PROVE Owners'
<1>1. /\ pane \in Seq(PaneRow) /\ Grows(pane, pane')
      /\ \A rows : Owned(pane, rows) => Owned(pane', rows)
  BY NextGrows, OwnedLasts DEF WInv, OInv, IInv, TypeOK, PaneRow
<1>2. /\ Owned(pane', loc) /\ Owned(pane', launch.rows) /\ Owned(pane', snap.rows)
      /\ \A r \in Run : Owned(pane', reg[r].rows)
      /\ InPlace(launch.rows)
  BY <1>1 DEF WInv, Owners
<1>3. Owned(pane', NoRows) /\ InPlace(NoRows)
  BY NoRowsOwned
<1>4. ASSUME NEW r \in Run, Tick(r) PROVE Owners'
  <2>1. loc' = reg[r].rows /\ pc' = "reply" /\ UNCHANGED <<reg, launch, snap>>
    BY <1>4 DEF Tick, TickBegin
  <2>. QED  BY <1>2, <2>1 DEF Owners
<1>5. ASSUME NEW r \in Run, LaunchBegin(r) PROVE Owners'
  <2>1. /\ launch'.rows = [c \in Copy |->
              IF c = Placeholder(c[1]) /\ c[1] \notin RootSteps
              THEN PendingRow ELSE NoRow]
        /\ UNCHANGED <<reg, loc, snap, pc>>
    BY <1>5 DEF LaunchBegin, driver
  <2>2. \A c \in Copy : launch'.rows[c] \in {PendingRow, NoRow}
    BY <2>1
  <2>3. Owned(pane', launch'.rows) /\ InPlace(launch'.rows)
    <3>1. \A c \in Copy : launch'.rows[c].session = 0
                          /\ launch'.rows[c].state \in {"pending", "absent"}
      BY <2>2 DEF PendingRow, NoRow
    <3>. QED  BY <3>1 DEF Owned, Housed, Apart, InPlace, Claimant
  <2>. QED  BY <1>2, <2>1, <2>3 DEF Owners, WInv
<1>6. ASSUME NEW r \in Run, CancelRead(r) PROVE Owners'
  <2>1. snap'.rows = reg[r].rows /\ UNCHANGED <<reg, loc, launch, pc>>
    BY <1>6 DEF CancelRead, driver
  <2>. QED  BY <1>2, <2>1 DEF Owners, WInv
<1>7. CASE DriverStep /\ ~Finish
  <2>1. UNCHANGED <<reg, launch, snap>>
    <3>1. CASE DetectReplyCompletions \/ DetectCompletions \/ CheckTimeouts
                  \/ CancelStragglers \/ FireDueRetries
      BY <3>1 DEF DetectReplyCompletions, DetectCompletions, CheckTimeouts,
         CancelStragglers, FireDueRetries
    <3>2. CASE RestartInPlace \/ RespawnFresh \/ PostponeRetry \/ DecidePasses
                  \/ SpawnReady \/ DeferStep
      BY <3>2 DEF RestartInPlace, RespawnFresh, PostponeRetry, DecidePasses,
         SpawnReady, DeferStep
    <3>. QED  BY <1>7, <3>1, <3>2 DEF DriverStep
  <2>. QED  BY <1>2, <1>7, <2>1, PassOwned DEF Owners
<1>8. CASE Finish
  <2>. DEFINE armed == ArmRetryBackoff(loc)
              rows == MarkEscalated(armed, Exhausted(armed))
              state == FinalizeState(rows)
  <2>1. \/ reg' = reg
        \/ reg' = [reg EXCEPT ![cur] = [state |-> state, rows |-> rows]]
    BY <1>8 DEF Finish
  <2>2. loc' = NoRows /\ pc' = "idle" /\ UNCHANGED <<launch, snap>>
    BY <1>8 DEF Finish
  <2>3. Yields(loc, rows)
    BY WriteBackYields DEF WInv, OInv, IInv, SoundEverywhere
  <2>4. DOMAIN reg = Run
    BY DEF WInv, OInv, IInv, TypeOK
  <2>. HIDE DEF rows, state
  <2>5. \A r \in Run : reg'[r].rows \in {rows, reg[r].rows}
    BY ONLY <2>1, <2>4
  <2>6. Owned(pane', rows)
    BY <1>2, <2>3, YieldsOwned
  <2>. QED  BY <1>2, <1>3, <2>2, <2>5, <2>6 DEF Owners
<1>9. CASE LaunchRoot
  <2>1. UNCHANGED <<reg, loc, snap, pc>>
    BY <1>9 DEF LaunchRoot, driver
  <2>. QED  BY <1>2, <1>9, <2>1, LaunchRootOwned DEF Owners, WInv
<1>10. CASE LaunchDeferred
  <2>1. UNCHANGED <<reg, loc, snap, pc>>
    BY <1>10 DEF LaunchDeferred, driver
  <2>2. Owned(pane', launch'.rows) /\ InPlace(launch'.rows)
    BY <1>2, <1>10, LaunchDeferredYields, YieldsOwned
  <2>. QED  BY <1>2, <2>1, <2>2 DEF Owners, WInv
<1>11. CASE LaunchEnd
  <2>1. PICK state : reg' = [reg EXCEPT ![launch.run] =
                                [state |-> state, rows |-> launch.rows]]
    BY <1>11 DEF LaunchEnd
  <2>2. launch'.rows = NoRows /\ UNCHANGED <<loc, snap, pc>>
    BY <1>11 DEF LaunchEnd, driver
  <2>3. \A r \in Run : reg'[r].rows \in {launch.rows, reg[r].rows}
    BY <2>1 DEF WInv, OInv, IInv, TypeOK
  <2>. QED  BY <1>2, <1>3, <2>2, <2>3 DEF Owners, WInv
<1>12. CASE CancelWrite
  <2>1. snap'.rows = NoRows /\ UNCHANGED <<loc, launch, pc>>
    BY <1>12 DEF CancelWrite, driver
  <2>2. \A r \in Run : Owned(pane', reg'[r].rows)
    BY <1>2, <1>12, CancelWriteYields, YieldsOwned
  <2>. QED  BY <1>2, <1>3, <2>1, <2>2 DEF Owners, WInv
<1>13. CASE Environment \/ UNCHANGED vars
  <2>1. UNCHANGED <<reg, loc, launch, snap, pc>>
    BY <1>13 DEF Environment, Exit, Reap, AgentStatus, ClosePane, RestartPane, Reply,
       OpenPane, vars, driver
  <2>. QED  BY <1>2, <2>1 DEF Owners, WInv
<1>. QED  BY <1>4, <1>5, <1>6, <1>7, <1>8, <1>9, <1>10, <1>11, <1>12, <1>13 DEF Next

LEMMA InitOwners == Init => Owners
<1>. SUFFICES ASSUME Init PROVE Owners
  OBVIOUS
<1>1. /\ \A r \in Run : reg[r].rows = NoRows
      /\ loc = NoRows /\ launch.rows = NoRows /\ snap.rows = NoRows
      /\ pc = "idle"
  BY DEF Init
<1>. QED  BY <1>1, NoRowsOwned DEF Owners

\* No two steps of a run ever hold one pane, through adoptions, restarts in
\* place, respawns and stale clones (agent_claimed_by_other_step, holds_a_pane,
\* adoptable_session).  The assumption says that the store refuses no kickoff of a
\* reply step that has retries; without it the property is false.
THEOREM EveryPaneHasOneOwner ==
    ASSUME RefusalsAreFinal
    PROVE  Spec => []OneOwner
<1>1. Init => WInv
  BY InitIInv, InitOrder, InitOwners DEF WInv, OInv
<1>2. WInv /\ [Next]_vars => WInv'
  BY NextIInv, NextOrder, NextOwners DEF WInv, OInv
<1>3. WInv => OneOwner
  <2>. SUFFICES ASSUME WInv, NEW rows \in Clones, NEW c \in Copy, NEW d \in Copy,
                       c # d, HoldsPane(rows[c]), HoldsPane(rows[d]),
                       rows[c].session # 0
                PROVE  rows[c].session # rows[d].session
    BY DEF OneOwner
  <2>1. Owned(pane, rows)
    BY DEF WInv, Owners, Clones
  <2>2. Claimant(c[1], rows[c]) /\ Claimant(d[1], rows[d])
    BY DEF HoldsPane, Claimant
  <2>. QED  BY <2>1, <2>2 DEF Owned, Apart
<1>. QED  BY <1>1, <1>2, <1>3, PTL DEF Spec

-----------------------------------------------------------------------------
(* Without cancels the registry only advances: nobody but the driver writes *)
(* a run that is being ticked, and the driver's clone is ahead of it.       *)

Ahead ==
    /\ snap.run = NoRun
    /\ pc # "idle" => /\ reg[cur].state = "running"
                      /\ \A c \in Copy : Forth(reg[cur].rows[c], loc[c])

LEMMA RegRows ==
    ASSUME TInv PROVE \A r \in Run : \A c \in Copy : reg[r].rows[c] \in Row
BY RowFacts, NumberFacts DEF TInv

LEMMA PassAhead ==
    ASSUME TInv, Ahead, IInv', pc # "idle", Advances(loc, loc'),
           UNCHANGED <<reg, notified, launch, snap, cur>>
    PROVE  Ahead'
<1>1. cur \in Run /\ \A c \in Copy : loc'[c] \in Row
  BY DEF TInv, OInv, IInv, TypeOK, Rows
<1>2. ASSUME NEW c \in Copy PROVE Forth(reg[cur].rows[c], loc'[c])
  <2>1. Forth(reg[cur].rows[c], loc[c]) /\ Forth(loc[c], loc'[c])
    BY DEF Ahead, Advances, Moves
  <2>2. reg[cur].rows[c] \in Row /\ loc[c] \in Row
    BY <1>1, RegRows, RowFacts DEF TInv
  <2>. QED  BY <1>1, <2>1, <2>2, ForthTransitive
<1>. QED  BY <1>2 DEF Ahead

\* What the driver writes back is ahead of its clone.
LEMMA FinishForth ==
    ASSUME TInv, Finish
    PROVE  \/ reg' = reg
           \/ \E state : \E rows \in Rows :
                 /\ reg' = [reg EXCEPT ![cur] = [state |-> state, rows |-> rows]]
                 /\ \A c \in Copy : Forth(loc[c], rows[c])
<1>. DEFINE armed == ArmRetryBackoff(loc)
            rows == MarkEscalated(armed, Exhausted(armed))
            state == FinalizeState(rows)
<1>1. \/ reg' = reg
      \/ reg' = [reg EXCEPT ![cur] = [state |-> state, rows |-> rows]]
  BY DEF Finish
<1>2. loc \in Rows /\ Sound(loc)
  BY RowFacts DEF TInv, OInv, IInv, SoundEverywhere
<1>3. Advances(loc, armed) /\ Sound(armed)
  BY <1>2, ArmAdvances, ArmRetryBackoffSound
<1>. HIDE DEF armed
<1>4. Sound(rows)
  BY <1>3, MarkEscalatedSound
<1>5. ASSUME NEW c \in Copy PROVE Forth(loc[c], rows[c])
  <2>1. loc[c] \in Row /\ armed[c] \in Row
    BY <1>2, <1>3, NumberFacts DEF Sound
  <2>2. rows[c] = armed[c] \/ rows[c] = [armed[c] EXCEPT !.escalated = TRUE]
    BY DEF MarkEscalated
  <2>. HIDE DEF rows
  <2>3. /\ rows[c].state = armed[c].state /\ rows[c].attempts = armed[c].attempts
        /\ rows[c].armed = armed[c].armed
    BY <2>1, <2>2 DEF Row
  <2>4. Forth(loc[c], armed[c])
    BY <1>3 DEF Advances, Moves
  <2>. QED  BY <2>3, <2>4 DEF Forth
<1>. HIDE DEF rows, state
<1>. QED  BY <1>1, <1>4, <1>5 DEF Sound

LEMMA RegAdvances ==
    ASSUME TInv, Ahead, [Next]_vars, NEW r \in Run, NEW c \in Copy
    PROVE  Forth(reg[r].rows[c], reg'[r].rows[c])
<1>1. reg[r].rows[c] \in Row /\ DOMAIN reg = Run
  BY RegRows DEF TInv, OInv, IInv, TypeOK
<1>2. CASE reg'[r] = reg[r]
  BY <1>1, <1>2, ForthReflexive
<1>3. CASE Finish
  <2>1. PICK state : \E rows \in Rows :
           /\ reg' = reg \/ reg' = [reg EXCEPT ![cur] = [state |-> state, rows |-> rows]]
           /\ reg' = reg \/ \A d \in Copy : Forth(loc[d], rows[d])
    <3>1. NoRows \in Rows
      BY NoRowsSound DEF Sound
    <3>. QED  BY <1>3, <3>1, FinishForth
  <2>2. PICK rows \in Rows :
           /\ reg' = reg \/ reg' = [reg EXCEPT ![cur] = [state |-> state, rows |-> rows]]
           /\ reg' = reg \/ \A d \in Copy : Forth(loc[d], rows[d])
    BY <2>1
  <2>3. CASE reg' # reg /\ r = cur
    <3>1. reg'[r].rows = rows
      BY <1>1, <2>2, <2>3
    <3>2. Forth(loc[c], rows[c]) /\ Forth(reg[r].rows[c], loc[c])
      BY <1>3, <2>2, <2>3 DEF Finish, Ahead
    <3>3. loc[c] \in Row /\ rows[c] \in Row
      BY RowFacts, NumberFacts DEF TInv
    <3>. QED  BY <1>1, <3>1, <3>2, <3>3, ForthTransitive
  <2>4. CASE reg' = reg \/ r # cur
    BY <1>1, <1>2, <2>2, <2>4
  <2>. QED  BY <2>3, <2>4
<1>4. CASE LaunchEnd
  <2>1. PICK state : reg' = [reg EXCEPT ![launch.run] =
                                [state |-> state, rows |-> launch.rows]]
    BY <1>4 DEF LaunchEnd
  <2>2. CASE r = launch.run
    <3>1. launch.run # NoRun
      BY <1>4 DEF LaunchEnd
    <3>2. reg[r].rows = NoRows
      BY <2>2, <3>1 DEF TInv, Told
    <3>3. reg[r].rows[c] = NoRow
      BY <3>2 DEF NoRows
    <3>4. launch.rows[c].attempts \in Nat /\ reg'[r].rows = launch.rows
      BY <1>1, <2>1, <2>2, RowFacts, NumberFacts DEF TInv
    <3>. QED  BY <3>3, <3>4 DEF Forth, NoRow
  <2>3. CASE r # launch.run
    BY <1>1, <1>2, <2>1, <2>3
  <2>. QED  BY <2>2, <2>3
<1>5. CASE CancelWrite
  BY <1>5 DEF CancelWrite, Ahead
<1>6. CASE reg' = reg
  BY <1>2, <1>6
<1>7. CASE \E q \in Run : Tick(q) \/ LaunchBegin(q) \/ CancelRead(q)
  BY <1>6, <1>7 DEF Tick, TickBegin, LaunchBegin, CancelRead
<1>8. CASE LaunchRoot \/ LaunchDeferred
  BY <1>6, <1>8 DEF LaunchRoot, LaunchDeferred
<1>9. CASE Environment
  BY <1>6, <1>9 DEF Environment, Exit, Reap, AgentStatus, ClosePane, RestartPane, Reply,
                    OpenPane
<1>10. CASE DriverStep /\ ~Finish
  <2>1. reg' = reg
    BY <1>10, EveryPassAdvances
  <2>. QED  BY <1>6, <2>1
<1>11. CASE UNCHANGED vars
  BY <1>6, <1>11 DEF vars
<1>. QED  BY <1>3, <1>4, <1>5, <1>7, <1>8, <1>9, <1>10, <1>11 DEF Next

LEMMA NextAhead ==
    ASSUME ~Cancels, TInv, Ahead, [Next]_vars
    PROVE  Ahead'
<1>1. IInv'
  BY NextIInv DEF TInv, OInv
<1>2. CASE DriverStep /\ ~Finish
  BY <1>1, <1>2, EveryPassAdvances, PassAhead
<1>3. CASE Finish
  BY <1>3 DEF Finish, Ahead
<1>4. ASSUME UNCHANGED <<reg, driver, snap>> PROVE Ahead'
  BY <1>4 DEF Ahead, driver
<1>5. ASSUME NEW r \in Run, Tick(r) PROVE Ahead'
  <2>1. /\ UNCHANGED <<reg, snap>>
        /\ cur' = r /\ loc' = reg[r].rows /\ reg[r].state = "running"
    BY <1>5 DEF Tick, TickBegin
  <2>2. \A c \in Copy : Forth(reg[r].rows[c], reg[r].rows[c])
    BY RegRows, ForthReflexive
  <2>. QED  BY <2>1, <2>2 DEF Ahead
<1>6. ASSUME NEW r \in Run, LaunchBegin(r) \/ CancelRead(r) PROVE Ahead'
  BY <1>4, <1>6 DEF LaunchBegin, CancelRead
<1>7. CASE LaunchRoot \/ LaunchDeferred
  BY <1>4, <1>7 DEF LaunchRoot, LaunchDeferred
<1>8. CASE LaunchEnd
  <2>1. PICK state : reg' = [reg EXCEPT ![launch.run] =
                                [state |-> state, rows |-> launch.rows]]
    BY <1>8 DEF LaunchEnd
  <2>2. UNCHANGED <<driver, snap>> /\ launch.run # NoRun
    BY <1>8 DEF LaunchEnd
  <2>3. pc # "idle" => cur # launch.run
    BY <2>2 DEF TInv, Told
  <2>4. pc # "idle" => reg'[cur] = reg[cur]
    BY <2>1, <2>3 DEF TInv, OInv, IInv, TypeOK
  <2>. QED  BY <2>2, <2>4 DEF Ahead, driver
<1>9. CASE CancelWrite
  BY <1>9 DEF CancelWrite, Ahead
<1>10. CASE Environment
  BY <1>4, <1>10 DEF Environment, Exit, Reap, AgentStatus, ClosePane, RestartPane, Reply,
                     OpenPane
<1>11. CASE UNCHANGED vars
  BY <1>4, <1>11 DEF vars
<1>. QED  BY <1>2, <1>3, <1>5, <1>6, <1>7, <1>8, <1>9, <1>10, <1>11 DEF Next

\* While no operator cancels a run, its rows as the registry shows them only
\* advance: a step that ended otherwise than by failing stays as it is, attempts
\* are never forgotten, and an armed retry is lost only to the attempt it stands
\* for or to a join decided without it (advance_run's clone and write-back).  A
\* cancel writes back a snapshot that a tick may have overtaken, so the condition
\* is needed.
THEOREM OutcomesOnlyAdvance ==
    ASSUME ~Cancels
    PROVE  Spec => RowsAdvance
<1>. DEFINE Forward ==
         \A r \in Run, c \in Copy :
             LET old == reg[r].rows[c]
                 new == reg'[r].rows[c]
             IN  /\ new.attempts >= old.attempts
                 /\ old.state \in {"succeeded", "skipped", "cancelled"}
                       => new.state = old.state
                 /\ old.armed /\ ~new.armed
                       => new.attempts > old.attempts \/ new.state = "cancelled"
<1>1. Init => TInv /\ Ahead
  BY InitIInv, InitOrder, InitTold DEF TInv, OInv, Ahead, Init
<1>2. TInv /\ Ahead /\ [Next]_vars => TInv' /\ Ahead'
  BY NextIInv, NextOrder, NextTold, NextAhead DEF TInv, OInv
<1>3. ASSUME TInv, Ahead, [Next]_vars PROVE [Forward]_vars
  BY <1>3, RegAdvances DEF Forth
<1>4. RowsAdvance <=> [][Forward]_vars
  BY DEF RowsAdvance
<1>5. Spec => [][Forward]_vars
  BY <1>1, <1>2, <1>3, PTL DEF Spec
<1>. QED  BY <1>4, <1>5

-----------------------------------------------------------------------------
(* Stops and resumes: what the table holds is as sound as what the registry *)
(* holds, and every run of the registry is in the table or on its way.      *)

Durable ==
    /\ RecoveryTypeOK
    /\ \A r \in Run : Sound(db[r].rows)
    /\ \A t \in Thread : Sound(writing[t].record.rows)

\* A run that has come to its end and that no tick has hold of.
Settled(r) == reg[r].state \in Ended /\ ~(pc # "idle" /\ cur = r)

\* A run is launched before the table knows it, and is in the table or about to
\* be written from then on; the table calls a run succeeded or failed only when
\* nothing can put it back.
Backed ==
    /\ pc # "idle" => reg[cur].state \in {"running", "cancelled"}
    /\ snap.run # NoRun => reg[snap.run].state # "absent"
    /\ launch.run # NoRun => /\ launch.run \in minted
                             /\ reg[launch.run].state = "absent"
                             /\ db[launch.run].state = "absent"
    /\ \A r \in Run \ minted : reg[r].state = "absent" /\ db[r].state = "absent"
    /\ \A r \in offered : db[r].state # "absent"
    /\ \A t \in Thread : writing[t].run # NoRun =>
           /\ reg[writing[t].run].state # "absent"
           /\ writing[t].record.state # "absent"
           /\ writing[t].record.state \in {"succeeded", "failed"}
                 => Settled(writing[t].run)
    /\ \A r \in Run : reg[r].state # "absent" =>
           /\ db[r].state # "absent" \/ \E t \in Thread : writing[t].run = r
           /\ db[r].state \in {"succeeded", "failed"} => Settled(r)

RInv == IInv /\ Durable /\ Backed

LEMMA SerializedSound ==
    ASSUME NEW rows, Sound(rows) PROVE Sound(Serialized(rows))
<1>1. ASSUME NEW c \in Copy
      PROVE  LET row == Serialized(rows)[c]
             IN  /\ row \in Row
                 /\ RowWithinBudget(c[1], row)
                 /\ row.state = rows[c].state
  <2>. DEFINE row == [rows[c] EXCEPT !.armed = FALSE, !.waiting = FALSE,
                         !.thread = FALSE, !.reply = "none", !.escalated = FALSE]
  <2>1. rows[c] \in Row /\ RowWithinBudget(c[1], rows[c])
    BY DEF Sound, Rows
  <2>2. /\ row \in Row /\ row.state = rows[c].state /\ row.attempts = rows[c].attempts
        /\ row.armed = FALSE
    BY ONLY <2>1 DEF Row, Body
  <2>3. Serialized(rows)[c] = row
    BY DEF Serialized
  <2>. HIDE DEF row
  <2>4. RowWithinBudget(c[1], row)
    BY ONLY <2>1, <2>2 DEF RowWithinBudget
  <2>. QED  BY <2>2, <2>3, <2>4
<1>2. Serialized(rows) = [c \in Copy |-> Serialized(rows)[c]]
  BY DEF Serialized
<1>. QED  BY <1>1, <1>2 DEF Sound, Rows

LEMMA CollapseSound ==
    ASSUME NEW rows, Sound(rows) PROVE Sound(Collapse(rows))
<1>1. /\ NoRow \in Row /\ NoRow.state = "absent"
      /\ \A c \in Copy : RowWithinBudget(c[1], NoRow)
  BY CopyFacts, StepFacts DEF NoRow, Row, StepState, Body, RowWithinBudget
<1>2. /\ PendingRow \in Row /\ PendingRow.state = "pending"
      /\ \A c \in Copy : RowWithinBudget(c[1], PendingRow)
  BY <1>1, CopyFacts, StepFacts DEF PendingRow, NoRow, Row, StepState, Body,
     RowWithinBudget
<1>3. ASSUME NEW c \in Copy
      PROVE  /\ Collapse(rows)[c] \in Row
             /\ RowWithinBudget(c[1], Collapse(rows)[c])
             /\ Collapse(rows)[c].state = "pending" => c = Placeholder(c[1])
  <2>1. \/ Collapse(rows)[c] = rows[c]
        \/ Collapse(rows)[c] = PendingRow /\ c = Placeholder(c[1])
        \/ Collapse(rows)[c] = NoRow
    BY DEF Collapse
  <2>2. /\ rows[c] \in Row /\ RowWithinBudget(c[1], rows[c])
        /\ rows[c].state = "pending" => c = Placeholder(c[1])
    BY DEF Sound, Rows
  <2>. QED  BY ONLY <1>1, <1>2, <2>1, <2>2
<1>4. Collapse(rows) = [c \in Copy |-> Collapse(rows)[c]]
  BY DEF Collapse
<1>. QED  BY <1>3, <1>4 DEF Sound, Rows

\* The steps of Workflow are taken as they are there.
LEMMA WorkflowSteps ==
    ASSUME \/ Others \/ FinishAndPut \/ LaunchAndPut \/ CancelAndPut
           \/ \E r \in Run : LaunchNew(r)
    PROVE  Next
<1>1. CASE Others
  BY <1>1 DEF Others, Next, DriverStep
<1>. QED  BY <1>1 DEF Next, DriverStep, FinishAndPut, LaunchAndPut, CancelAndPut, LaunchNew

LEMMA PutsDurable ==
    ASSUME Durable, IInv', NEW t \in Thread, NEW r \in Run, Puts(t, r)
    PROVE  /\ writing' \in [Thread -> [run : Run \cup {NoRun}, record : Record]]
           /\ \A x \in Thread : Sound(writing'[x].record.rows)
<1>1. reg'[r] \in [state : RunState, rows : Rows] /\ Sound(reg'[r].rows)
  BY DEF IInv, TypeOK, SoundEverywhere
<1>2. /\ writing \in [Thread -> [run : Run \cup {NoRun}, record : Record]]
      /\ \A x \in Thread : Sound(writing[x].record.rows)
  BY DEF Durable, RecoveryTypeOK
<1>3. writing' = [writing EXCEPT ![t] = [run |-> r, record |-> reg'[r]]]
  BY DEF Puts
<1>4. [run |-> r, record |-> reg'[r]] \in [run : Run \cup {NoRun}, record : Record]
  BY <1>1 DEF Record
<1>5. \A x \in Thread : writing'[x] = IF x = t THEN [run |-> r, record |-> reg'[r]]
                                              ELSE writing[x]
  BY <1>2, <1>3
<1>6. \A x \in Thread : Sound(writing'[x].record.rows)
  BY <1>1, <1>2, <1>5
<1>. QED  BY <1>2, <1>3, <1>4, <1>6

LEMMA InitDurable == RecoveryInit => IInv /\ Durable
<1>. SUFFICES ASSUME RecoveryInit PROVE IInv /\ Durable
  OBVIOUS
<1>1. Sound(NoRows) /\ NoRows \in Rows
  BY NoRowsSound DEF Sound
<1>2. IInv
  BY InitIInv DEF RecoveryInit
<1>3. NoRecord \in Record /\ Nothing \in [run : Run \cup {NoRun}, record : Record]
  BY <1>1 DEF NoRecord, Nothing, Record, RunState
<1>4. RecoveryTypeOK
  BY <1>1, <1>3, RecoveryAssumption DEF RecoveryInit, RecoveryTypeOK, Record
<1>5. /\ \A r \in Run : Sound(db[r].rows)
      /\ \A t \in Thread : Sound(writing[t].record.rows)
  BY <1>1 DEF RecoveryInit, NoRecord, Nothing
<1>. QED  BY <1>2, <1>4, <1>5 DEF Durable

LEMMA PersistDurable == ASSUME IInv, Durable, NEW t \in Thread, PersistRun(t)
                        PROVE  IInv' /\ Durable'
<1>. DEFINE w == writing[t]
            record == [state |-> w.record.state, rows |-> Serialized(w.record.rows)]
<1>1. /\ db' = [db EXCEPT ![w.run] = record]
      /\ writing' = [writing EXCEPT ![t] = Nothing]
      /\ UNCHANGED <<vars, offered, crashes, minted, spoke>>
  BY DEF PersistRun
<1>2. w \in [run : Run \cup {NoRun}, record : Record] /\ Sound(w.record.rows)
  BY DEF Durable, RecoveryTypeOK
<1>3. Sound(record.rows) /\ record \in Record
  BY <1>2, SerializedSound DEF Record, Sound
<1>4. Sound(NoRows) /\ Nothing \in [run : Run \cup {NoRun}, record : Record]
      /\ Nothing.record.rows = NoRows
  BY NoRowsSound DEF Nothing, NoRecord, Record, RunState, Sound
<1>5. /\ db \in [Run -> [state : RunState \cup {"abandoned"}, rows : Rows]]
      /\ writing \in [Thread -> [run : Run \cup {NoRun}, record : Record]]
  BY DEF Durable, RecoveryTypeOK
<1>. HIDE DEF record, w
<1>6. db' \in [Run -> [state : RunState \cup {"abandoned"}, rows : Rows]]
  BY <1>1, <1>3, <1>5 DEF Record
<1>7. writing' \in [Thread -> [run : Run \cup {NoRun}, record : Record]]
  BY <1>1, <1>4, <1>5
<1>8. \A r \in Run : Sound(db'[r].rows)
  BY <1>1, <1>3, <1>5 DEF Durable
<1>9. \A x \in Thread : Sound(writing'[x].record.rows)
  BY <1>1, <1>4, <1>5 DEF Durable
<1>10. IInv'
  BY <1>1, StutterIInv
<1>11. RecoveryTypeOK'
  BY <1>1, <1>6, <1>7 DEF Durable, RecoveryTypeOK
<1>. QED  BY <1>8, <1>9, <1>10, <1>11 DEF Durable

LEMMA WorkflowStepsDurable ==
    ASSUME IInv, Durable,
           \/ Others \/ FinishAndPut \/ LaunchAndPut \/ CancelAndPut
           \/ \E r \in Run : LaunchNew(r)
    PROVE  IInv' /\ Durable'
<1>1. IInv'
  BY WorkflowSteps, NextIInv
<1>2. minted \subseteq Run /\ spoke \subseteq Run \X Step
  BY DEF Durable, RecoveryTypeOK
<1>3. /\ UNCHANGED <<db, offered, crashes>>
      /\ minted' \subseteq Run /\ spoke' \subseteq Run \X Step
  <2>1. CASE Others
    BY <1>2, <2>1 DEF Others, durable
  <2>2. CASE FinishAndPut
    <3>1. cur \in Run
      BY <2>2 DEF FinishAndPut, Finish, IInv, TypeOK
    <3>2. spoke' \subseteq Run \X Step
      BY <1>2, <2>2, <3>1 DEF FinishAndPut, Spoke
    <3>3. UNCHANGED <<db, offered, crashes, minted>>
      BY <2>2 DEF FinishAndPut
    <3>. QED  BY <1>2, <3>2, <3>3
  <2>3. CASE LaunchAndPut \/ CancelAndPut
    <3>1. UNCHANGED <<db, offered, crashes, minted, spoke>>
      BY <2>3 DEF LaunchAndPut, CancelAndPut
    <3>. QED  BY <1>2, <3>1
  <2>4. CASE \E r \in Run : LaunchNew(r)
    <3>1. PICK r \in Run : minted' = minted \cup {r}
      BY <2>4 DEF LaunchNew
    <3>2. UNCHANGED <<db, offered, crashes, spoke>>
      BY <2>4 DEF LaunchNew
    <3>. QED  BY <1>2, <3>1, <3>2
  <2>. QED  BY <2>1, <2>2, <2>3, <2>4
<1>4. /\ writing' \in [Thread -> [run : Run \cup {NoRun}, record : Record]]
      /\ \A x \in Thread : Sound(writing'[x].record.rows)
  <2>1. CASE writing' = writing
    BY <2>1 DEF Durable, RecoveryTypeOK
  <2>2. ASSUME NEW t \in Thread, NEW r \in Run, Puts(t, r)
        PROVE  /\ writing' \in [Thread -> [run : Run \cup {NoRun}, record : Record]]
               /\ \A x \in Thread : Sound(writing'[x].record.rows)
    BY <1>1, <2>2, PutsDurable
  <2>3. CASE FinishAndPut
    <3>1. cur \in Run
      BY <2>3 DEF FinishAndPut, Finish, IInv, TypeOK
    <3>2. writing' = writing \/ Puts("driver", cur)
      BY <2>3 DEF FinishAndPut
    <3>. QED  BY <2>1, <2>2, <3>1, <3>2 DEF Thread
  <2>4. CASE LaunchAndPut
    <3>1. launch.run \in Run
      BY <2>4 DEF LaunchAndPut, LaunchEnd, IInv, TypeOK
    <3>2. Puts("launch", launch.run)
      BY <2>4 DEF LaunchAndPut
    <3>. QED  BY <2>2, <3>1, <3>2 DEF Thread
  <2>5. CASE CancelAndPut
    <3>1. snap.run \in Run
      BY <2>5 DEF CancelAndPut, CancelWrite, IInv, TypeOK
    <3>2. Puts("cancel", snap.run)
      BY <2>5 DEF CancelAndPut
    <3>. QED  BY <2>2, <3>1, <3>2 DEF Thread
  <2>6. CASE Others \/ \E r \in Run : LaunchNew(r)
    BY <2>1, <2>6 DEF Others, durable, LaunchNew
  <2>. QED  BY <2>3, <2>4, <2>5, <2>6
<1>5. Durable'
  BY <1>3, <1>4 DEF Durable, RecoveryTypeOK
<1>. QED  BY <1>1, <1>5

LEMMA CrashDurable == ASSUME IInv, Durable, Crash PROVE IInv' /\ Durable'
<1>1. Sound(NoRows) /\ NoRows \in Rows
  BY NoRowsSound DEF Sound
<1>2. /\ reg' = [r \in Run |-> NoRecord] /\ pane' = << >> /\ done' = {}
      /\ pc' = "idle" /\ cur' = NoRun /\ loc' = NoRows /\ changed' = FALSE
      /\ due' = {} /\ over' = {} /\ todo' = {} /\ budget' = 0 /\ claimed' = {}
      /\ launch' = [run |-> NoRun, rows |-> NoRows, todo |-> {},
                    budget |-> 0, claimed |-> {}]
      /\ snap' = [run |-> NoRun, rows |-> NoRows]
      /\ UNCHANGED <<mail, notified>>
  BY DEF Crash
<1>3. /\ writing' = [t \in Thread |-> Nothing] /\ offered' = {}
      /\ crashes < MaxCrash /\ crashes' = crashes + 1
      /\ UNCHANGED <<db, minted, spoke>>
  BY DEF Crash
<1>4. mail' \in [Run -> [Copy -> {"closed", "open", "match", "other"}]]
      /\ notified' \in [Run -> [Copy \cup {RunItself} -> Nat]]
  BY <1>2 DEF IInv, TypeOK
<1>5. TypeOK'
  BY <1>1, <1>2, <1>4, EmptySeq DEF TypeOK, NoRecord, RunState, Pass
<1>6. SoundEverywhere' /\ StillArmed'
  BY <1>1, <1>2 DEF SoundEverywhere, StillArmed, NoRecord
<1>7. Nothing \in [run : Run \cup {NoRun}, record : Record] /\ Nothing.record.rows = NoRows
  BY <1>1 DEF Nothing, NoRecord, Record, RunState
<1>8. crashes' \in 0 .. MaxCrash
  BY <1>3, RecoveryAssumption DEF Durable, RecoveryTypeOK
<1>9. RecoveryTypeOK'
  BY <1>3, <1>7, <1>8 DEF Durable, RecoveryTypeOK
<1>10. Durable'
  BY <1>1, <1>3, <1>7, <1>9 DEF Durable
<1>. QED  BY <1>5, <1>6, <1>10 DEF IInv

LEMMA LoadConfigDurable == ASSUME IInv, Durable, LoadConfig PROVE IInv' /\ Durable'
<1>1. IInv'
  BY StutterIInv DEF LoadConfig
<1>2. Durable'
  BY DEF LoadConfig, Durable, RecoveryTypeOK
<1>. QED  BY <1>1, <1>2

LEMMA ResumeDurable == ASSUME IInv, Durable, NEW r \in Run, ResumeWorkflow(r)
                       PROVE  IInv' /\ Durable'
<1>. DEFINE rows == Collapse(db[r].rows)
            record == [state |-> "running", rows |-> rows]
<1>1. UNCHANGED <<pane, done, mail, notified, driver, launch, snap, db, crashes, minted>>
      /\ offered' = offered \ {r}
  BY DEF ResumeWorkflow
<1>2. Sound(rows)
  BY CollapseSound DEF Durable
<1>3. \/ reg' = reg /\ writing' = writing /\ spoke' = spoke
      \/ /\ reg' = [reg EXCEPT ![r] = record]
         /\ Puts("resume", r)
         /\ spoke' \subseteq spoke
  BY DEF ResumeWorkflow
<1>4. record \in [state : RunState, rows : Rows] /\ record.rows = rows
  BY <1>2 DEF RunState, Sound
<1>. HIDE DEF rows, record
<1>5. reg \in [Run -> [state : RunState, rows : Rows]]
      /\ \A q \in Run : Sound(reg[q].rows)
  BY DEF IInv, TypeOK, SoundEverywhere
<1>6. reg' \in [Run -> [state : RunState, rows : Rows]]
      /\ \A q \in Run : Sound(reg'[q].rows)
  BY <1>2, <1>3, <1>4, <1>5
<1>7. TypeOK'
  BY <1>1, <1>6 DEF IInv, TypeOK, driver
<1>8. SoundEverywhere' /\ StillArmed'
  BY <1>1, <1>6 DEF IInv, SoundEverywhere, StillArmed, driver
<1>9. IInv'
  BY <1>7, <1>8 DEF IInv
<1>10. /\ writing' \in [Thread -> [run : Run \cup {NoRun}, record : Record]]
       /\ \A x \in Thread : Sound(writing'[x].record.rows)
  BY <1>3, <1>9, PutsDurable DEF Thread, Durable, RecoveryTypeOK
<1>11. Durable'
  BY <1>1, <1>3, <1>10 DEF Durable, RecoveryTypeOK
<1>. QED  BY <1>9, <1>11

LEMMA AbandonDurable == ASSUME IInv, Durable, NEW r \in Run, AbandonWorkflow(r)
                        PROVE  IInv' /\ Durable'
<1>1. /\ UNCHANGED <<reg, pane, done, notified, driver, launch, snap,
                     writing, crashes, minted, spoke>>
      /\ offered' = offered \ {r}
      /\ db' = [db EXCEPT ![r].state = "abandoned"]
      /\ mail' = mail \/ mail' = [mail EXCEPT ![r] = [c \in Copy |-> "closed"]]
  BY DEF AbandonWorkflow
<1>2. mail' \in [Run -> [Copy -> {"closed", "open", "match", "other"}]]
  <2>1. mail \in [Run -> [Copy -> {"closed", "open", "match", "other"}]]
    BY DEF IInv, TypeOK
  <2>2. [c \in Copy |-> "closed"] \in [Copy -> {"closed", "open", "match", "other"}]
    OBVIOUS
  <2>. QED  BY ONLY <1>1, <2>1, <2>2
<1>3. TypeOK'
  BY <1>1, <1>2 DEF IInv, TypeOK, driver
<1>4. IInv'
  BY <1>1, <1>3 DEF IInv, SoundEverywhere, StillArmed, driver
<1>5. db \in [Run -> [state : RunState \cup {"abandoned"}, rows : Rows]]
      /\ \A q \in Run : Sound(db[q].rows)
  BY DEF Durable, RecoveryTypeOK
<1>6. db' \in [Run -> [state : RunState \cup {"abandoned"}, rows : Rows]]
      /\ \A q \in Run : db'[q].rows = db[q].rows
  BY <1>1, <1>5
<1>7. Durable'
  BY <1>1, <1>5, <1>6 DEF Durable, RecoveryTypeOK
<1>. QED  BY <1>4, <1>7

-----------------------------------------------------------------------------
(* Every run of the registry is in the table or on its way there.          *)

LEMMA DurableFacts ==
    ASSUME RInv
    PROVE  /\ NoRun \notin Run /\ DOMAIN reg = Run /\ DOMAIN db = Run
           /\ DOMAIN writing = Thread
           /\ launch.run \in Run \cup {NoRun} /\ snap.run \in Run \cup {NoRun}
           /\ \A t \in Thread : writing[t].run \in Run \cup {NoRun}
           /\ pc # "idle" => cur \in Run
           /\ minted \subseteq Run /\ offered \subseteq Run
<1>1. NoRun \notin Run
  BY RunAssumption DEF NoRun
<1>. QED  BY <1>1 DEF RInv, IInv, TypeOK, Durable, RecoveryTypeOK

\* No tick takes hold of a run that has ended.
LEMMA SettledLasts ==
    ASSUME NEW r, Settled(r), reg'[r].state \in Ended,
           \/ pc' = "idle"
           \/ pc # "idle" /\ cur' = cur
           \/ reg[cur'].state = "running"
    PROVE  Settled(r)'
BY DEF Settled, Ended

\* The steps that leave registry, table and writes alone.
LEMMA AsideBacked ==
    ASSUME RInv, UNCHANGED <<reg, db, writing, minted>>,
           \A r \in offered' : db[r].state # "absent",
           launch'.run # NoRun => /\ launch'.run \in minted
                                  /\ reg[launch'.run].state = "absent"
                                  /\ db[launch'.run].state = "absent",
           snap'.run # NoRun => reg[snap'.run].state # "absent",
           \/ pc' = "idle"
           \/ pc # "idle" /\ cur' = cur
           \/ reg[cur'].state = "running"
    PROVE  Backed'
<1>1. \A r \in Run : Settled(r) => Settled(r)'
  BY SettledLasts DEF Settled
<1>2. ASSUME NEW t \in Thread, writing'[t].run # NoRun
      PROVE  /\ reg'[writing'[t].run].state # "absent"
             /\ writing'[t].record.state # "absent"
             /\ writing'[t].record.state \in {"succeeded", "failed"}
                   => Settled(writing[t].run)'
  <2>1. /\ writing[t].run \in Run
        /\ reg[writing[t].run].state # "absent"
        /\ writing[t].record.state # "absent"
        /\ writing[t].record.state \in {"succeeded", "failed"}
              => Settled(writing[t].run)
    BY <1>2, DurableFacts DEF RInv, Backed
  <2>2. writing[t].record.state \in {"succeeded", "failed"}
           => reg[writing[t].run].state \in Ended /\ ~(pc' # "idle" /\ cur' = writing[t].run)
    BY <1>1, <2>1 DEF Settled
  <2>. QED  BY <2>1, <2>2 DEF Settled
<1>3. ASSUME NEW r \in Run, reg'[r].state # "absent"
      PROVE  /\ db'[r].state # "absent" \/ \E t \in Thread : writing'[t].run = r
             /\ db'[r].state \in {"succeeded", "failed"} => Settled(r)'
  BY <1>1, <1>3 DEF RInv, Backed
<1>4. pc' # "idle" => reg'[cur'].state \in {"running", "cancelled"}
  BY DEF RInv, Backed
<1>5. \A r \in Run \ minted' : reg'[r].state = "absent" /\ db'[r].state = "absent"
  BY DEF RInv, Backed
<1>. QED  BY <1>2, <1>3, <1>4, <1>5 DEF Backed

LEMMA OthersBacked == ASSUME RInv, Others PROVE Backed'
<1>1. UNCHANGED <<db, writing, offered, minted>>
  BY DEF Others, durable
<1>2. /\ UNCHANGED reg
      /\ launch'.run = launch.run
      /\ snap' = snap \/ \E r \in Run : snap'.run = r /\ reg[r].state = "running"
      /\ \/ pc' = pc /\ cur' = cur
         \/ pc # "idle" /\ cur' = cur
         \/ reg[cur'].state = "running"
  <2>1. CASE \E r \in Run : Tick(r)
    BY <2>1 DEF Tick, TickBegin
  <2>2. CASE \/ DetectReplyCompletions \/ DetectCompletions \/ CheckTimeouts
             \/ CancelStragglers \/ FireDueRetries
    BY <2>2 DEF DetectReplyCompletions, DetectCompletions, CheckTimeouts,
       CancelStragglers, FireDueRetries
  <2>3. CASE RestartInPlace \/ RespawnFresh \/ PostponeRetry
    BY <2>3 DEF RestartInPlace, RespawnFresh, PostponeRetry
  <2>4. CASE DecidePasses \/ SpawnReady \/ DeferStep
    BY <2>4 DEF DecidePasses, SpawnReady, DeferStep
  <2>5. CASE LaunchRoot \/ LaunchDeferred
    <3>1. UNCHANGED <<reg, driver, snap>>
      BY <2>5 DEF LaunchRoot, LaunchDeferred
    <3>2. launch'.run = launch.run
      <4>1. launch \in LaunchType
        BY DEF RInv, IInv, TypeOK, LaunchType
      <4>2. CASE LaunchRoot
        <5>1. PICK rows, left, free :
                 launch' = [launch EXCEPT !.rows = rows, !.todo = left, !.budget = free]
          BY <4>2 DEF LaunchRoot
        <5>. QED  BY ONLY <4>1, <5>1 DEF LaunchType
      <4>3. CASE LaunchDeferred
        <5>1. PICK c, row, left : launch' = [launch EXCEPT !.rows[c] = row, !.todo = left]
          BY <4>3 DEF LaunchDeferred
        <5>. QED  BY ONLY <4>1, <5>1 DEF LaunchType
      <4>. QED  BY <2>5, <4>2, <4>3
    <3>. QED  BY <3>1, <3>2 DEF driver
  <2>6. CASE \E r \in Run : CancelRead(r)
    BY <2>6 DEF CancelRead, driver
  <2>7. CASE Environment
    <3>1. UNCHANGED <<reg, driver, launch, snap>>
      BY <2>7 DEF Environment, Exit, Reap, AgentStatus, ClosePane, RestartPane, Reply,
         OpenPane
    <3>. QED  BY <3>1 DEF driver
  <2>. QED  BY <2>1, <2>2, <2>3, <2>4, <2>5, <2>6, <2>7 DEF Others
<1>3. /\ \A r \in offered : db[r].state # "absent"
      /\ launch.run # NoRun => /\ launch.run \in minted
                               /\ reg[launch.run].state = "absent"
                               /\ db[launch.run].state = "absent"
      /\ snap.run # NoRun => reg[snap.run].state # "absent"
  BY DEF RInv, Backed
<1>4. snap'.run # NoRun => reg[snap'.run].state # "absent"
  BY <1>2, <1>3
<1>5. \/ pc' = "idle"
      \/ pc # "idle" /\ cur' = cur
      \/ reg[cur'].state = "running"
  BY <1>2
<1>. QED  BY <1>1, <1>2, <1>3, <1>4, <1>5, AsideBacked

LEMMA StutterBacked == ASSUME RInv, UNCHANGED recoveryVars PROVE Backed'
<1>1. /\ UNCHANGED <<reg, db, writing, minted, offered, launch, snap, pc, cur>>
  BY DEF recoveryVars, vars, driver, durable
<1>. QED  BY <1>1, AsideBacked DEF RInv, Backed

LEMMA LoadConfigBacked == ASSUME RInv, LoadConfig PROVE Backed'
<1>1. /\ UNCHANGED <<reg, db, writing, minted, launch, snap, pc, cur>>
      /\ offered' = {r \in Run : db[r].state = "running"}
  BY DEF LoadConfig, vars, driver
<1>. QED  BY <1>1, AsideBacked DEF RInv, Backed

LEMMA LaunchNewBacked == ASSUME RInv, NEW r \in Run, LaunchNew(r) PROVE Backed'
<1>1. /\ UNCHANGED <<reg, db, writing, offered, snap, pc, cur>>
      /\ r \notin minted /\ minted' = minted \cup {r}
      /\ launch'.run = r /\ reg[r].state = "absent"
  BY DEF LaunchNew, LaunchBegin, driver
<1>2. db[r].state = "absent"
  BY <1>1 DEF RInv, Backed
<1>3. \A q \in Run : Settled(q) => Settled(q)'
  BY <1>1, SettledLasts DEF Settled
<1>4. ASSUME NEW t \in Thread, writing'[t].run # NoRun
      PROVE  /\ reg'[writing'[t].run].state # "absent"
             /\ writing'[t].record.state # "absent"
             /\ writing'[t].record.state \in {"succeeded", "failed"}
                   => Settled(writing[t].run)'
  BY <1>1, <1>4 DEF RInv, Backed, Settled
<1>5. ASSUME NEW q \in Run, reg'[q].state # "absent"
      PROVE  /\ db'[q].state # "absent" \/ \E t \in Thread : writing'[t].run = q
             /\ db'[q].state \in {"succeeded", "failed"} => Settled(q)'
  BY <1>1, <1>3, <1>5 DEF RInv, Backed
<1>6. /\ pc' # "idle" => reg'[cur'].state \in {"running", "cancelled"}
      /\ snap'.run # NoRun => reg'[snap'.run].state # "absent"
      /\ \A q \in Run \ minted' : reg'[q].state = "absent" /\ db'[q].state = "absent"
      /\ \A q \in offered' : db'[q].state # "absent"
  BY <1>1 DEF RInv, Backed
<1>. QED  BY <1>1, <1>2, <1>4, <1>5, <1>6 DEF Backed

LEMMA AbandonBacked == ASSUME RInv, NEW r \in Run, AbandonWorkflow(r) PROVE Backed'
<1>1. /\ UNCHANGED <<reg, launch, snap, writing, minted, pc, cur>>
      /\ r \in offered /\ offered' = offered \ {r}
      /\ db' = [db EXCEPT ![r].state = "abandoned"]
  BY DEF AbandonWorkflow, driver
<1>2. db[r].state # "absent" /\ r \in minted
  BY <1>1 DEF RInv, Backed
<1>3. \A q \in Run : db'[q].state = IF q = r THEN "abandoned" ELSE db[q].state
  <2>1. db \in [Run -> [state : RunState \cup {"abandoned"}, rows : Rows]]
    BY DEF RInv, Durable, RecoveryTypeOK
  <2>. QED  BY ONLY <1>1, <2>1
<1>4. \A q \in Run : Settled(q) => Settled(q)'
  BY <1>1, SettledLasts DEF Settled
<1>5. ASSUME NEW t \in Thread, writing'[t].run # NoRun
      PROVE  /\ reg'[writing'[t].run].state # "absent"
             /\ writing'[t].record.state # "absent"
             /\ writing'[t].record.state \in {"succeeded", "failed"}
                   => Settled(writing[t].run)'
  BY <1>1, <1>5 DEF RInv, Backed, Settled
<1>6. ASSUME NEW q \in Run, reg'[q].state # "absent"
      PROVE  /\ db'[q].state # "absent" \/ \E t \in Thread : writing'[t].run = q
             /\ db'[q].state \in {"succeeded", "failed"} => Settled(q)'
  BY <1>1, <1>3, <1>4, <1>6 DEF RInv, Backed
<1>7. launch'.run # NoRun => /\ launch'.run \in minted'
                             /\ reg'[launch'.run].state = "absent"
                             /\ db'[launch'.run].state = "absent"
  <2>1. launch.run # NoRun => launch.run \in Run /\ launch.run # r
    BY <1>2, DurableFacts DEF RInv, Backed
  <2>. QED  BY <1>1, <1>3, <2>1 DEF RInv, Backed
<1>8. /\ pc' # "idle" => reg'[cur'].state \in {"running", "cancelled"}
      /\ snap'.run # NoRun => reg'[snap'.run].state # "absent"
      /\ \A q \in Run \ minted' : reg'[q].state = "absent" /\ db'[q].state = "absent"
      /\ \A q \in offered' : db'[q].state # "absent"
  BY <1>1, <1>2, <1>3, DurableFacts DEF RInv, Backed
<1>. QED  BY <1>5, <1>6, <1>7, <1>8 DEF Backed

LEMMA PersistBacked == ASSUME RInv, NEW t \in Thread, PersistRun(t) PROVE Backed'
<1>. DEFINE w == writing[t]
            record == [state |-> w.record.state, rows |-> Serialized(w.record.rows)]
<1>1. /\ db' = [db EXCEPT ![w.run] = record]
      /\ writing' = [writing EXCEPT ![t] = Nothing]
      /\ UNCHANGED <<reg, launch, snap, pc, cur, offered, minted>> /\ w.run # NoRun
  BY DEF PersistRun, vars, driver
<1>2. /\ w.run \in Run /\ reg[w.run].state # "absent" /\ w.record.state # "absent"
      /\ w.record.state \in {"succeeded", "failed"} => Settled(w.run)
  BY <1>1, DurableFacts DEF RInv, Backed
<1>3. record.state = w.record.state
  OBVIOUS
<1>. HIDE DEF w, record
<1>4. \A q \in Run : db'[q].state = IF q = w.run THEN w.record.state ELSE db[q].state
  BY <1>1, <1>2, <1>3, DurableFacts
<1>5. \A x \in Thread : writing'[x] = IF x = t THEN Nothing ELSE writing[x]
  BY <1>1, DurableFacts
<1>6. \A q \in Run : Settled(q) => Settled(q)'
  BY <1>1, SettledLasts DEF Settled
<1>7. ASSUME NEW x \in Thread, writing'[x].run # NoRun
      PROVE  /\ reg'[writing'[x].run].state # "absent"
             /\ writing'[x].record.state # "absent"
             /\ writing'[x].record.state \in {"succeeded", "failed"}
                   => Settled(writing[x].run)'
  <2>1. writing'[x] = writing[x]
    BY <1>5, <1>7 DEF Nothing
  <2>. QED  BY <1>1, <1>7, <2>1 DEF RInv, Backed, Settled
<1>8. ASSUME NEW q \in Run, reg'[q].state # "absent"
      PROVE  /\ db'[q].state # "absent" \/ \E x \in Thread : writing'[x].run = q
             /\ db'[q].state \in {"succeeded", "failed"} => Settled(q)'
  <2>1. CASE q = w.run
    BY <1>2, <1>4, <1>6, <2>1
  <2>2. CASE q # w.run
    <3>1. /\ db[q].state # "absent" \/ \E x \in Thread : writing[x].run = q
          /\ db[q].state \in {"succeeded", "failed"} => Settled(q)
      BY <1>1, <1>8 DEF RInv, Backed
    <3>2. \A x \in Thread : writing[x].run = q => writing'[x].run = q
      BY <1>5, <2>2 DEF w
    <3>. QED  BY <1>4, <1>6, <2>2, <3>1, <3>2
  <2>. QED  BY <2>1, <2>2
<1>9. launch'.run # NoRun => /\ launch'.run \in minted'
                             /\ reg'[launch'.run].state = "absent"
                             /\ db'[launch'.run].state = "absent"
  <2>1. launch.run # NoRun => launch.run \in Run /\ launch.run # w.run
    BY <1>2, DurableFacts DEF RInv, Backed
  <2>. QED  BY <1>1, <1>4, <2>1 DEF RInv, Backed
<1>10. \A q \in Run \ minted' : reg'[q].state = "absent" /\ db'[q].state = "absent"
  <2>1. w.run \in minted
    BY <1>2 DEF RInv, Backed
  <2>. QED  BY <1>1, <1>4, <2>1 DEF RInv, Backed
<1>11. /\ pc' # "idle" => reg'[cur'].state \in {"running", "cancelled"}
       /\ snap'.run # NoRun => reg'[snap'.run].state # "absent"
       /\ \A q \in offered' : db'[q].state # "absent"
  BY <1>1, <1>2, <1>4, DurableFacts DEF RInv, Backed
<1>. QED  BY <1>7, <1>8, <1>9, <1>10, <1>11 DEF Backed

LEMMA CrashBacked == ASSUME RInv, Crash PROVE Backed'
<1>1. /\ reg' = [r \in Run |-> NoRecord] /\ pc' = "idle"
      /\ launch'.run = NoRun /\ snap'.run = NoRun
      /\ writing' = [t \in Thread |-> Nothing] /\ offered' = {}
      /\ UNCHANGED <<db, minted>>
  BY DEF Crash
<1>2. /\ \A r \in Run : reg'[r].state = "absent"
      /\ \A t \in Thread : writing'[t].run = NoRun
  BY <1>1 DEF NoRecord, Nothing
<1>. QED  BY <1>1, <1>2 DEF RInv, Backed

LEMMA InitBacked == RecoveryInit => Backed
<1>. SUFFICES ASSUME RecoveryInit PROVE Backed
  OBVIOUS
<1>1. /\ \A r \in Run : reg[r].state = "absent" /\ db[r].state = "absent"
      /\ \A t \in Thread : writing[t].run = NoRun
      /\ pc = "idle" /\ launch.run = NoRun /\ snap.run = NoRun /\ offered = {}
  BY DEF RecoveryInit, Init, NoRecord, Nothing
<1>. QED  BY <1>1 DEF Backed

\* A thread puts run r and goes on to persist it: nothing in the table, and no
\* write under way, may say that r is through while it is not.
LEMMA PutBacked ==
    ASSUME RInv, NEW t \in Thread, NEW r \in Run, NEW state, NEW rows,
           reg' = [reg EXCEPT ![r] = [state |-> state, rows |-> rows]],
           Puts(t, r), UNCHANGED <<db, minted>>,
           state # "absent", r \in minted,
           offered' \subseteq offered,
           launch'.run = NoRun \/ (launch'.run = launch.run /\ launch.run # r),
           snap'.run \in {NoRun, snap.run},
           \/ pc' = "idle"
           \/ /\ pc' = pc /\ cur' = cur
              /\ pc # "idle" /\ cur = r => state \in {"running", "cancelled"},
           \/ Settled(r)'
           \/ /\ state \notin {"succeeded", "failed"}
              /\ db[r].state \notin {"succeeded", "failed"}
              /\ \A x \in Thread : writing[x].run = r =>
                    writing[x].record.state \notin {"succeeded", "failed"}
    PROVE  Backed'
<1>1. /\ writing' = [writing EXCEPT ![t] = [run |-> r, record |-> reg'[r]]]
      /\ writing[t] = Nothing
  BY DEF Puts
<1>2. /\ reg'[r].state = state
      /\ \A q \in Run \ {r} : reg'[q] = reg[q]
  BY DurableFacts
<1>3. \A x \in Thread : writing'[x] = IF x = t THEN [run |-> r, record |-> reg'[r]]
                                               ELSE writing[x]
  BY <1>1, DurableFacts
<1>4. \A q \in Run \ {r} : Settled(q) => Settled(q)'
  <2>1. \A q \in Run \ {r} : Settled(q) => reg'[q].state \in Ended
    BY <1>2 DEF Settled
  <2>2. pc' = "idle" \/ (pc' = pc /\ cur' = cur)
    OBVIOUS
  <2>. QED  BY <2>1, <2>2 DEF Settled
<1>5. ASSUME NEW x \in Thread, writing'[x].run # NoRun
      PROVE  /\ reg'[writing'[x].run].state # "absent"
             /\ writing'[x].record.state # "absent"
             /\ writing'[x].record.state \in {"succeeded", "failed"}
                   => Settled(writing[x].run)'
  <2>1. CASE x = t
    <3>1. writing'[x].run = r /\ writing'[x].record.state = state
      BY <1>2, <1>3, <2>1
    <3>2. state \in {"succeeded", "failed"}
             => reg'[r].state \in Ended /\ ~(pc' # "idle" /\ cur' = r)
      BY DEF Settled
    <3>. QED  BY <1>2, <3>1, <3>2 DEF Settled
  <2>2. CASE x # t
    <3>1. writing'[x] = writing[x]
      BY <1>3, <2>2
    <3>2. /\ writing[x].run \in Run
          /\ reg[writing[x].run].state # "absent"
          /\ writing[x].record.state # "absent"
          /\ writing[x].record.state \in {"succeeded", "failed"} => Settled(writing[x].run)
      BY <1>5, <3>1, DurableFacts DEF RInv, Backed
    <3>3. CASE writing[x].run = r
      <4>1. writing[x].record.state \in {"succeeded", "failed"}
               => reg'[r].state \in Ended /\ ~(pc' # "idle" /\ cur' = r)
        BY <3>3 DEF Settled
      <4>. QED  BY <1>2, <3>1, <3>2, <3>3, <4>1 DEF Settled
    <3>4. CASE writing[x].run # r
      <4>1. writing[x].record.state \in {"succeeded", "failed"}
               => /\ reg'[writing[x].run].state \in Ended
                  /\ ~(pc' # "idle" /\ cur' = writing[x].run)
        BY <1>4, <3>2, <3>4 DEF Settled
      <4>2. reg'[writing[x].run] = reg[writing[x].run]
        BY <1>2, <3>2, <3>4
      <4>. QED  BY <3>1, <3>2, <4>1, <4>2 DEF Settled
    <3>. QED  BY <3>3, <3>4
  <2>. QED  BY <2>1, <2>2
<1>6. ASSUME NEW q \in Run, reg'[q].state # "absent"
      PROVE  /\ db'[q].state # "absent" \/ \E x \in Thread : writing'[x].run = q
             /\ db'[q].state \in {"succeeded", "failed"} => Settled(q)'
  <2>1. CASE q = r
    <3>1. writing'[t].run = r
      BY <1>3
    <3>. QED  BY <2>1, <3>1
  <2>2. CASE q # r
    <3>1. /\ db[q].state # "absent" \/ \E x \in Thread : writing[x].run = q
          /\ db[q].state \in {"succeeded", "failed"} => Settled(q)
      BY <1>2, <1>6, <2>2 DEF RInv, Backed
    <3>2. \A x \in Thread : writing[x].run = q => writing'[x].run = q
      BY <1>1, <1>3, DurableFacts DEF Nothing
    <3>. QED  BY <1>4, <2>2, <3>1, <3>2
  <2>. QED  BY <2>1, <2>2
<1>7. launch'.run # NoRun => /\ launch'.run \in minted'
                             /\ reg'[launch'.run].state = "absent"
                             /\ db'[launch'.run].state = "absent"
  <2>1. launch'.run # NoRun => launch.run \in Run \ {r} /\ launch'.run = launch.run
    BY DurableFacts
  <2>. QED  BY <1>2, <2>1 DEF RInv, Backed
<1>8. \A q \in Run \ minted' : reg'[q].state = "absent" /\ db'[q].state = "absent"
  BY <1>2 DEF RInv, Backed
<1>9. snap'.run # NoRun => reg'[snap'.run].state # "absent"
  <2>1. snap'.run # NoRun => snap.run \in Run /\ snap'.run = snap.run
                             /\ reg[snap.run].state # "absent"
    BY DurableFacts DEF RInv, Backed
  <2>. QED  BY <1>2, <2>1
<1>10. pc' # "idle" => reg'[cur'].state \in {"running", "cancelled"}
  <2>1. pc' # "idle" => /\ pc # "idle" /\ cur' = cur /\ cur \in Run
                        /\ reg[cur].state \in {"running", "cancelled"}
                        /\ cur = r => state \in {"running", "cancelled"}
    BY DurableFacts DEF RInv, Backed
  <2>. QED  BY <1>2, <2>1
<1>11. \A q \in offered' : db'[q].state # "absent"
  BY DEF RInv, Backed
<1>. QED  BY <1>5, <1>6, <1>7, <1>8, <1>9, <1>10, <1>11 DEF Backed

LEMMA ResumeBacked == ASSUME RInv, NEW r \in Run, ResumeWorkflow(r) PROVE Backed'
<1>. DEFINE rows == Collapse(db[r].rows)
<1>1. /\ UNCHANGED <<pc, cur, launch, snap, db, minted>>
      /\ r \in offered /\ offered' = offered \ {r}
  BY DEF ResumeWorkflow, driver
<1>2. CASE UNCHANGED <<reg, writing>>
  BY <1>1, <1>2, AsideBacked DEF RInv, Backed
<1>3. CASE /\ reg' = [reg EXCEPT ![r] = [state |-> "running", rows |-> rows]]
           /\ Puts("resume", r) /\ reg[r].state = "absent" /\ db[r].state = "running"
  <2>1. \A x \in Thread : writing[x].run # r
    BY <1>3, DurableFacts DEF RInv, Backed
  <2>2. r \in minted
    BY <1>3 DEF RInv, Backed
  <2>3. launch.run # r
    BY <1>3, DurableFacts DEF RInv, Backed
  <2>4. pc # "idle" => cur # r
    BY <1>3 DEF RInv, Backed
  <2>. HIDE DEF rows
  <2>. QED  BY <1>1, <1>3, <2>1, <2>2, <2>3, <2>4, PutBacked DEF Thread
<1>. QED  BY <1>2, <1>3 DEF ResumeWorkflow

LEMMA LaunchAndPutBacked == ASSUME RInv, LaunchAndPut PROVE Backed'
<1>1. PICK state \in {"running", "failed"} :
         reg' = [reg EXCEPT ![launch.run] = [state |-> state, rows |-> launch.rows]]
  BY DEF LaunchAndPut, LaunchEnd
<1>2. /\ launch'.run = NoRun /\ UNCHANGED <<pc, cur, snap, db, minted, offered>>
      /\ launch.run # NoRun /\ Puts("launch", launch.run)
  BY DEF LaunchAndPut, LaunchEnd, driver
<1>3. /\ launch.run \in Run /\ launch.run \in minted
      /\ reg[launch.run].state = "absent" /\ db[launch.run].state = "absent"
  BY <1>2, DurableFacts DEF RInv, Backed
<1>4. pc # "idle" => cur # launch.run
  BY <1>3 DEF RInv, Backed
<1>5. \A x \in Thread : writing[x].run # launch.run
  BY <1>3, DurableFacts DEF RInv, Backed
<1>6. ASSUME NEW r \in Run, r = launch.run PROVE Backed'
  <2>1. state = "failed" => Settled(r)'
    <3>1. reg'[r].state = state
      BY <1>1, <1>6, DurableFacts
    <3>. QED  BY <1>2, <1>4, <1>6, <3>1 DEF Settled, Ended
  <2>2. \/ Settled(r)'
        \/ /\ state \notin {"succeeded", "failed"}
           /\ db[r].state \notin {"succeeded", "failed"}
           /\ \A x \in Thread : writing[x].run = r =>
                 writing[x].record.state \notin {"succeeded", "failed"}
    BY <1>3, <1>5, <1>6, <2>1
  <2>3. state # "absent" /\ "launch" \in Thread
    BY DEF Thread
  <2>. QED  BY <1>1, <1>2, <1>3, <1>4, <1>6, <2>2, <2>3, PutBacked
<1>. QED  BY <1>3, <1>6

LEMMA CancelAndPutBacked == ASSUME RInv, CancelAndPut PROVE Backed'
<1>1. PICK rows :
         reg' = [reg EXCEPT ![snap.run] = [state |-> "cancelled", rows |-> rows]]
  BY DEF CancelAndPut, CancelWrite
<1>2. /\ snap'.run = NoRun /\ UNCHANGED <<pc, cur, launch, db, minted, offered>>
      /\ snap.run # NoRun /\ Puts("cancel", snap.run)
  BY DEF CancelAndPut, CancelWrite, driver
<1>3. snap.run \in Run /\ snap.run \in minted /\ reg[snap.run].state # "absent"
  BY <1>2, DurableFacts DEF RInv, Backed
<1>4. launch.run # NoRun => launch.run # snap.run
  BY <1>3 DEF RInv, Backed
<1>5. ASSUME NEW r \in Run, r = snap.run PROVE Backed'
  <2>1. reg'[r].state = "cancelled"
    BY <1>1, <1>5, DurableFacts
  <2>2. Settled(r) => Settled(r)'
    BY <1>2, <2>1 DEF Settled, Ended
  <2>3. \/ Settled(r)
        \/ /\ db[r].state \notin {"succeeded", "failed"}
           /\ \A x \in Thread : writing[x].run = r =>
                 writing[x].record.state \notin {"succeeded", "failed"}
    <3>1. db[r].state \in {"succeeded", "failed"} => Settled(r)
      BY <1>3, <1>5 DEF RInv, Backed
    <3>2. \A x \in Thread : writing[x].run = r
             /\ writing[x].record.state \in {"succeeded", "failed"} => Settled(r)
      BY DurableFacts DEF RInv, Backed
    <3>. QED  BY <3>1, <3>2
  <2>4. "cancel" \in Thread
    BY DEF Thread
  <2>5. launch'.run = NoRun \/ (launch'.run = launch.run /\ launch.run # r)
    BY <1>2, <1>4, <1>5
  <2>. QED  BY <1>1, <1>2, <1>3, <1>5, <2>2, <2>3, <2>4, <2>5, PutBacked
<1>. QED  BY <1>3, <1>5

LEMMA FinishAndPutBacked == ASSUME RInv, FinishAndPut PROVE Backed'
<1>1. /\ pc' = "idle" /\ UNCHANGED <<launch, snap, db, minted, offered>>
      /\ pc # "idle"
  BY DEF FinishAndPut, Finish
<1>2. /\ cur \in Run /\ reg[cur].state \in {"running", "cancelled"} /\ ~Settled(cur)
  BY <1>1, DurableFacts DEF RInv, Backed, Settled
<1>3. CASE UNCHANGED <<reg, writing>>
  BY <1>1, <1>3, AsideBacked DEF RInv, Backed
<1>4. CASE reg' # reg \/ changed
  <2>1. Puts("driver", cur)
    BY <1>4 DEF FinishAndPut
  <2>2. PICK state, rows :
           /\ reg' = [reg EXCEPT ![cur] = [state |-> state, rows |-> rows]]
           /\ state \in {"running", "succeeded", "failed"}
    <3>. DEFINE armed == ArmRetryBackoff(loc)
                rows == MarkEscalated(armed, Exhausted(armed))
                state == FinalizeState(rows)
    <3>1. reg' = [reg EXCEPT ![cur] = [state |-> state, rows |-> rows]]
      BY <1>4 DEF FinishAndPut, Finish
    <3>. HIDE DEF rows
    <3>2. state \in {"running", "succeeded", "failed"}
      BY DEF FinalizeState
    <3>. HIDE DEF state
    <3>. QED  BY <3>1, <3>2
  <2>3. ASSUME NEW r \in Run, r = cur PROVE Backed'
    <3>1. reg'[r].state = state
      BY <2>2, <2>3, DurableFacts
    <3>2. state \in {"succeeded", "failed"} => Settled(r)'
      BY <1>1, <3>1 DEF Settled, Ended
    <3>3. r \in minted
      BY <1>2, <2>3 DEF RInv, Backed
    <3>4. launch.run # NoRun => launch.run # r
      BY <1>2, <2>3 DEF RInv, Backed
    <3>5. /\ db[r].state \notin {"succeeded", "failed"}
          /\ \A x \in Thread : writing[x].run = r =>
                writing[x].record.state \notin {"succeeded", "failed"}
      BY <1>2, <2>3, DurableFacts DEF RInv, Backed
    <3>6. "driver" \in Thread
      BY DEF Thread
    <3>. QED  BY <1>1, <2>1, <2>2, <2>3, <3>2, <3>3, <3>4, <3>5, <3>6, PutBacked
  <2>. QED  BY <1>2, <2>3
<1>5. UNCHANGED <<reg, writing>> \/ reg' # reg \/ changed
  BY DEF FinishAndPut
<1>. QED  BY <1>3, <1>4, <1>5

LEMMA NextRInv == RInv /\ [RecoveryNext]_recoveryVars => RInv'
<1>. SUFFICES ASSUME RInv, [RecoveryNext]_recoveryVars PROVE RInv'
  OBVIOUS
<1>0. IInv /\ Durable
  BY DEF RInv
<1>1. CASE Others
  BY <1>0, <1>1, WorkflowStepsDurable, OthersBacked DEF RInv
<1>2. CASE FinishAndPut
  BY <1>0, <1>2, WorkflowStepsDurable, FinishAndPutBacked DEF RInv
<1>3. CASE LaunchAndPut
  BY <1>0, <1>3, WorkflowStepsDurable, LaunchAndPutBacked DEF RInv
<1>4. CASE CancelAndPut
  BY <1>0, <1>4, WorkflowStepsDurable, CancelAndPutBacked DEF RInv
<1>5. ASSUME NEW t \in Thread, PersistRun(t) PROVE RInv'
  BY <1>0, <1>5, PersistDurable, PersistBacked DEF RInv
<1>6. CASE Crash
  BY <1>0, <1>6, CrashDurable, CrashBacked DEF RInv
<1>7. CASE LoadConfig
  BY <1>0, <1>7, LoadConfigDurable, LoadConfigBacked DEF RInv
<1>8. ASSUME NEW r \in Run, LaunchNew(r) PROVE RInv'
  BY <1>0, <1>8, WorkflowStepsDurable, LaunchNewBacked DEF RInv
<1>9. ASSUME NEW r \in Run, ResumeWorkflow(r) PROVE RInv'
  BY <1>0, <1>9, ResumeDurable, ResumeBacked DEF RInv
<1>10. ASSUME NEW r \in Run, AbandonWorkflow(r) PROVE RInv'
  BY <1>0, <1>10, AbandonDurable, AbandonBacked DEF RInv
<1>11. CASE UNCHANGED recoveryVars
  <2>1. IInv'
    BY <1>0, <1>11, StutterIInv DEF recoveryVars
  <2>2. Durable'
    BY <1>0, <1>11 DEF recoveryVars, durable, Durable, RecoveryTypeOK
  <2>. QED  BY <1>11, <2>1, <2>2, StutterBacked DEF RInv
<1>. QED  BY <1>1, <1>2, <1>3, <1>4, <1>5, <1>6, <1>7, <1>8, <1>9, <1>10, <1>11
          DEF RecoveryNext

LEMMA RecoveryInvariant == RecoverySpec => []RInv
<1>1. RecoveryInit => RInv
  BY InitDurable, InitBacked DEF RInv
<1>. QED  BY <1>1, NextRInv, PTL DEF RecoverySpec

\* Wherever the application stops, for every workflow and whatever the threads of
\* the driver, the launch, the cancel and the resume put in which order: a run
\* under way whose writes are through is in the table as one the next start will
\* offer, or was called off (persist_run after every put, load_config).
THEOREM NoRunIsLost == RecoverySpec => []Recoverable
<1>1. RInv => Recoverable
  <2>. SUFFICES ASSUME RInv, NEW r \in Run, reg[r].state = "running",
                       \A t \in Thread : writing[t].run # r
                PROVE  db[r].state \in {"running", "cancelled", "abandoned"}
    BY DEF Recoverable
  <2>1. db[r].state \in RunState \cup {"abandoned"}
    BY DEF RInv, Durable, RecoveryTypeOK
  <2>2. db[r].state # "absent" /\ db[r].state \notin {"succeeded", "failed"}
    BY DEF RInv, Backed, Settled, Ended
  <2>. QED  BY <2>1, <2>2 DEF RunState
<1>. QED  BY <1>1, RecoveryInvariant, PTL

\* A stop and a resume do not give a step more attempts than it declares: for
\* every workflow, the attempts a row counts stay within retry.max + 1 and a
\* backoff is armed only within them, in the registry, in every clone and in what
\* a resume takes back from the table (WorkflowStepOutcome, resume_workflow).
THEOREM RetriesBoundedAcrossStops == RecoverySpec => []RetryBudget
<1>1. RInv => RetryBudget
  BY DEF RInv, IInv, SoundEverywhere, Sound, RetryBudget, Clones
<1>. QED  BY <1>1, RecoveryInvariant, PTL
===============================================================================
