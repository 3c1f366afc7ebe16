----------------------------- MODULE ConfigProof -----------------------------
(***************************************************************************)
(* The configuration, the window that reloads it, the Queen server that    *)
(* every load reconfigures and what the validation lets a load take in,    *)
(* for all constants.                                                      *)
(***************************************************************************)
EXTENDS Config, FiniteSetTheorems, SequenceTheorems, WellFoundedInduction, TLAPS

(***************************************************************************)
(* The server.  Whatever the settings ask for and whenever: a task that    *)
(* nobody has cancelled is the current one, and apply holds the token that *)
(* cancels it.  As long as none was overtaken, the status says of it what  *)
(* is true.                                                                *)
(***************************************************************************)

HubOK ==
    /\ hub \in [enabled : BOOLEAN, running : BOOLEAN, port : Nat, error : BOOLEAN,
                desired : Nat \ {0}, epoch : Epoch, token : BOOLEAN]
    /\ task \in [Epoch -> [phase : {"none", "binding", "bound", "serving", "draining", "over"},
                           base : Nat, port : Nat, cancelled : BOOLEAN]]
    /\ overtaken \in BOOLEAN

\* Epochs to come have no task.
Unborn == \A e \in Epoch : e > hub.epoch => task[e].phase = "none"

\* Whoever could still serve is the current task of an enabled hub, which has its token.
Active == {"binding", "bound", "serving"}
Tokened ==
    \A e \in Epoch : task[e].phase \in Active /\ ~task[e].cancelled =>
        e = hub.epoch /\ hub.enabled /\ hub.token

\* The status is true of the current task.
StatusTrue ==
    LET t == task[hub.epoch] IN
    ~overtaken =>
        /\ t.phase \in {"binding", "bound"} => ~t.cancelled
        /\ hub.running => t.phase = "serving" /\ hub.port = t.port /\ ~t.cancelled
        /\ hub.enabled => hub.error \/ t.phase \in {"binding", "bound"} \/ hub.running

HubInv == HubOK /\ Unborn /\ Tokened /\ StatusTrue

LEMMA TaskBegins ==
    /\ TaskOf(DefaultPort) \in [phase : {"none", "binding", "bound", "serving", "draining", "over"},
                                base : Nat, port : Nat, cancelled : BOOLEAN]
    /\ TaskOf(DefaultPort).phase = "binding" /\ ~TaskOf(DefaultPort).cancelled
    /\ NoTask \in [phase : {"none", "binding", "bound", "serving", "draining", "over"},
                   base : Nat, port : Nat, cancelled : BOOLEAN]
    /\ NoTask.phase = "none"
<1>1. DefaultPort \in Nat
  BY HubAssumption
<1>2. QED BY <1>1 DEF TaskOf, NoTask, NoPort

\* With one task, the first, the invariant asks only what the status says of it.
LEMMA FirstTask ==
    ASSUME HubOK, hub.epoch = 1, hub.enabled, hub.token, ~overtaken, ~task[1].cancelled,
           \A e \in Epoch : e # 1 => task[e].phase = "none",
           hub.running => task[1].phase = "serving" /\ hub.port = task[1].port,
           task[1].phase = "binding" \/ hub.running
    PROVE  HubInv
<1>1. Unborn
  BY DEF Unborn
<1>2. Tokened
  BY DEF Tokened, Active
<1>3. StatusTrue
  BY DEF StatusTrue
<1>4. QED BY <1>1, <1>2, <1>3 DEF HubInv

LEMMA HubStart == HubInit \/ HubServed => HubInv
<1>1. DefaultPort \in Nat \ {0} /\ 1 \in Epoch
  BY HubAssumption DEF Epoch
<1>2. ASSUME HubInit PROVE HubInv
  <2>1. /\ hub = [enabled |-> TRUE, running |-> FALSE, port |-> 0, error |-> FALSE,
                  desired |-> DefaultPort, epoch |-> 1, token |-> TRUE]
        /\ overtaken = FALSE
        /\ task = [e \in Epoch |-> IF e = 1 THEN TaskOf(DefaultPort) ELSE NoTask]
    BY <1>2 DEF HubInit, NoPort
  <2>2. hub \in [enabled : BOOLEAN, running : BOOLEAN, port : Nat, error : BOOLEAN,
                 desired : Nat \ {0}, epoch : Epoch, token : BOOLEAN]
    BY <1>1, <2>1
  <2>3. hub.epoch = 1 /\ hub.enabled /\ hub.token /\ ~hub.running
    BY <2>1
  <2>4. /\ task[1] = TaskOf(DefaultPort)
        /\ \A e \in Epoch : e # 1 => task[e] = NoTask
    BY <1>1, <2>1
  <2>5. HubOK
    BY <2>1, <2>2, TaskBegins DEF HubOK
  <2>6. QED BY <2>1, <2>3, <2>4, <2>5, TaskBegins, FirstTask
<1>3. ASSUME HubServed PROVE HubInv
  <2> DEFINE up == [TaskOf(DefaultPort) EXCEPT !.phase = "serving"]
             served == [up EXCEPT !.port = DefaultPort]
  <2>1. /\ hub = [enabled |-> TRUE, running |-> TRUE, port |-> DefaultPort, error |-> FALSE,
                  desired |-> DefaultPort, epoch |-> 1, token |-> TRUE]
        /\ overtaken = FALSE
        /\ task = [e \in Epoch |-> IF e = 1 THEN served ELSE NoTask]
    BY <1>3 DEF HubServed
  <2>2. hub \in [enabled : BOOLEAN, running : BOOLEAN, port : Nat, error : BOOLEAN,
                 desired : Nat \ {0}, epoch : Epoch, token : BOOLEAN]
    BY <1>1, <2>1
  <2>3. hub.epoch = 1 /\ hub.enabled /\ hub.token /\ hub.running /\ hub.port = DefaultPort
    BY <2>1
  <2>4. /\ up \in [phase : {"none", "binding", "bound", "serving", "draining", "over"},
                   base : Nat, port : Nat, cancelled : BOOLEAN]
        /\ up.phase = "serving" /\ ~up.cancelled
    BY TaskBegins
  <2>5. /\ served \in [phase : {"none", "binding", "bound", "serving", "draining", "over"},
                       base : Nat, port : Nat, cancelled : BOOLEAN]
        /\ served.phase = "serving" /\ ~served.cancelled /\ served.port = DefaultPort
    <3> HIDE DEF up
    <3>1. QED BY <1>1, <2>4
  <2> HIDE DEF served
  <2>6. /\ task[1] = served
        /\ \A e \in Epoch : e # 1 => task[e] = NoTask
    BY <1>1, <2>1
  <2>7. HubOK
    BY <2>1, <2>2, <2>5, TaskBegins DEF HubOK
  <2>8. QED BY <2>1, <2>3, <2>5, <2>6, <2>7, TaskBegins, FirstTask
<1>4. QED BY <1>2, <1>3

\* Cancelling through the token changes nothing else of a task.
LEMMA HaltedTasks ==
    ASSUME HubInv
    PROVE  /\ Halted(task, hub) \in [Epoch -> [phase : {"none", "binding", "bound", "serving", "draining", "over"},
                                               base : Nat, port : Nat, cancelled : BOOLEAN]]
           /\ \A e \in Epoch : /\ Halted(task, hub)[e].phase = task[e].phase
                               /\ e # hub.epoch => Halted(task, hub)[e] = task[e]
                               /\ Halted(task, hub)[e].phase \in Active => Halted(task, hub)[e].cancelled
  BY ZenonT(40) DEF HubInv, HubOK, Halted, Tokened

LEMMA ApplyKeepsHub ==
    ASSUME HubInv, NEW enabled \in BOOLEAN, NEW port \in Nat \ {0}, Apply(enabled, port)
    PROVE  HubInv'
<1>1. hub.epoch \in Epoch /\ \A e \in Epoch : e \in Nat
  BY DEF HubInv, HubOK, Epoch
<1>2. CASE ApplyStop
  <2>1. /\ hub' = [hub EXCEPT !.enabled = FALSE, !.running = FALSE, !.port = NoPort,
                              !.error = FALSE, !.token = FALSE]
        /\ hub'.epoch = hub.epoch /\ ~hub'.enabled /\ ~hub'.running
        /\ task' = Halted(task, hub)
        /\ overtaken' = (overtaken \/ task[hub.epoch].phase \in {"binding", "bound"})
    BY <1>2 DEF ApplyStop, HubInv, HubOK
  <2>2. HubOK'
    BY <2>1, HaltedTasks DEF HubInv, HubOK, NoPort
  <2>3. Unborn'
    BY <2>1, HaltedTasks DEF HubInv, Unborn
  <2>4. Tokened'
    BY <2>1, HaltedTasks DEF Tokened
  <2>5. StatusTrue'
    BY <1>1, <2>1, HaltedTasks DEF StatusTrue
  <2>6. QED BY <2>2, <2>3, <2>4, <2>5 DEF HubInv
<1>3. CASE ApplyKeep(port)
  <2>1. /\ hub' = [hub EXCEPT !.enabled = TRUE] /\ hub.running
        /\ hub'.epoch = hub.epoch /\ hub'.token = hub.token /\ hub'.running = hub.running
        /\ hub'.port = hub.port /\ hub'.error = hub.error /\ hub'.enabled
        /\ UNCHANGED <<task, overtaken>>
    BY <1>3 DEF ApplyKeep, HubInv, HubOK
  <2>2. HubOK'
    BY <2>1 DEF HubInv, HubOK
  <2>3. Unborn' /\ Tokened'
    BY <2>1 DEF HubInv, Unborn, Tokened
  <2>4. StatusTrue'
    BY <2>1 DEF HubInv, StatusTrue
  <2>5. QED BY <2>2, <2>3, <2>4 DEF HubInv
<1>4. CASE ApplyStart(port)
  <2> DEFINE next == hub.epoch + 1
  <2>1. next \in Epoch /\ next > hub.epoch /\ next # hub.epoch
    BY <1>1, <1>4, HubAssumption DEF ApplyStart, Epoch
  <2>2. /\ hub' = [enabled |-> TRUE, running |-> FALSE, port |-> NoPort, error |-> FALSE,
                   desired |-> port, epoch |-> next, token |-> TRUE]
        /\ task' = [Halted(task, hub) EXCEPT ![next] = TaskOf(port)]
        /\ UNCHANGED overtaken
    BY <1>4 DEF ApplyStart
  <2>3. /\ TaskOf(port) \in [phase : {"none", "binding", "bound", "serving", "draining", "over"},
                             base : Nat, port : Nat, cancelled : BOOLEAN]
        /\ TaskOf(port).phase = "binding" /\ ~TaskOf(port).cancelled
    BY DEF TaskOf, NoTask, NoPort
  <2>4. /\ task'[next] = TaskOf(port)
        /\ \A e \in Epoch : e # next => task'[e] = Halted(task, hub)[e]
    BY <2>1, <2>2, HaltedTasks
  <2>5. HubOK'
    BY <2>1, <2>2, <2>3, HaltedTasks DEF HubInv, HubOK, NoPort
  <2>6. Unborn'
    <3>1. \A e \in Epoch : e > next => e > hub.epoch /\ e # next
      BY <1>1, <2>1
    <3>2. QED BY <2>2, <2>4, <3>1, HaltedTasks DEF HubInv, Unborn
  <2>7. Tokened'
    BY <2>2, <2>4, HaltedTasks DEF Tokened
  <2>8. StatusTrue'
    BY <2>2, <2>3, <2>4 DEF StatusTrue
  <2>9. QED BY <2>5, <2>6, <2>7, <2>8 DEF HubInv
<1>5. QED BY <1>2, <1>3, <1>4 DEF Apply

\* A task moves to another phase, and reports if it is the current one.
LEMMA TaskKeepsHub ==
    ASSUME HubInv, NEW e \in Epoch, Bind(e) \/ NoFreePort(e) \/ Serve(e) \/ Drain(e) \/ ServeEnds(e)
    PROVE  HubInv'
<1> DEFINE Phases == {"none", "binding", "bound", "serving", "draining", "over"}
<1> DEFINE Tasks == [phase : Phases, base : Nat, port : Nat, cancelled : BOOLEAN]
<1>1. /\ hub.epoch \in Epoch /\ task[e] \in Tasks /\ task \in [Epoch -> Tasks]
      /\ hub \in [enabled : BOOLEAN, running : BOOLEAN, port : Nat, error : BOOLEAN,
                  desired : Nat \ {0}, epoch : Epoch, token : BOOLEAN]
  BY DEF HubInv, HubOK
<1>2. ASSUME NEW t \in Tasks, task' = [task EXCEPT ![e] = t], t.cancelled = task[e].cancelled,
             task[e].phase # "none", t.phase \in Active => task[e].phase \in Active,
             hub' \in [enabled : BOOLEAN, running : BOOLEAN, port : Nat, error : BOOLEAN,
                       desired : Nat \ {0}, epoch : Epoch, token : BOOLEAN],
             hub'.epoch = hub.epoch, hub'.enabled = hub.enabled, hub'.token = hub.token,
             UNCHANGED overtaken, StatusTrue'
      PROVE  HubInv'
  <2>1. task' \in [Epoch -> Tasks] /\ task'[e] = t /\ \A f \in Epoch : f # e => task'[f] = task[f]
    BY <1>1, <1>2
  <2>2. HubOK'
    BY <1>2, <2>1 DEF HubInv, HubOK
  <2>3. Unborn'
    BY <1>2, <2>1 DEF HubInv, Unborn
  <2>4. Tokened'
    BY <1>2, <2>1 DEF HubInv, Tokened
  <2>5. QED BY <1>2, <2>2, <2>3, <2>4 DEF HubInv
<1>3. ASSUME e # hub.epoch, NEW t, task' = [task EXCEPT ![e] = t], UNCHANGED <<hub, overtaken>>
      PROVE  StatusTrue'
  <2>1. task'[hub.epoch] = task[hub.epoch]
    BY <1>1, <1>3
  <2>2. QED BY <1>3, <2>1 DEF HubInv, StatusTrue
<1>4. CASE Bind(e)
  <2>1. PICK port \in Tries(task[e].base) \ InUse :
            task' = [task EXCEPT ![e].phase = "bound", ![e].port = port]
    BY <1>4 DEF Bind
  <2>2. port \in Nat
    BY <1>1, HubAssumption DEF Tries
  <2> DEFINE t == [[task[e] EXCEPT !.phase = "bound"] EXCEPT !.port = port]
  <2>3. t \in Tasks /\ t.phase = "bound" /\ t.cancelled = task[e].cancelled /\ task[e].phase = "binding"
    BY <1>1, <1>4, <2>2 DEF Bind
  <2>4. task' = [task EXCEPT ![e] = t] /\ UNCHANGED <<hub, overtaken>>
    BY <1>4, <2>1 DEF Bind
  <2> HIDE DEF t
  <2>5. StatusTrue'
    <3>1. CASE e # hub.epoch
      BY <1>3, <2>4, <3>1
    <3>2. CASE e = hub.epoch
      <4>1. task'[e] = t
        BY <1>1, <2>4
      <4>2. QED BY <2>3, <2>4, <3>2, <4>1 DEF HubInv, StatusTrue
    <3>3. QED BY <3>1, <3>2
  <2>6. QED BY <1>1, <1>2, <2>3, <2>4, <2>5 DEF Active
<1>5. CASE Drain(e)
  <2> DEFINE t == [task[e] EXCEPT !.phase = "draining"]
  <2>1. /\ t \in Tasks /\ t.phase = "draining" /\ t.cancelled = task[e].cancelled
        /\ task[e].phase = "serving" /\ task[e].cancelled
        /\ task' = [task EXCEPT ![e] = t] /\ UNCHANGED <<hub, overtaken>>
    BY <1>1, <1>5 DEF Drain
  <2> HIDE DEF t
  <2>2. StatusTrue'
    <3>1. CASE e # hub.epoch
      BY <1>3, <2>1, <3>1
    <3>2. CASE e = hub.epoch
      <4>1. task'[e] = t
        BY <1>1, <2>1
      <4>2. QED BY <2>1, <3>2, <4>1 DEF HubInv, StatusTrue
    <3>3. QED BY <3>1, <3>2
  <2>3. QED BY <1>1, <1>2, <2>1, <2>2 DEF Active
<1>6. ASSUME NEW t \in Tasks, task' = [task EXCEPT ![e] = t], t.cancelled = task[e].cancelled,
             NEW running \in BOOLEAN, NEW port \in Nat, NEW error \in BOOLEAN,
             Report(e, [[[hub EXCEPT !.running = running] EXCEPT !.port = port] EXCEPT !.error = error]),
             task[e].phase # "none", t.phase \in Active => task[e].phase \in Active,
             UNCHANGED overtaken,
             /\ t.phase \notin {"binding", "bound"}
             /\ running => t.phase = "serving" /\ port = t.port
                           /\ (e = hub.epoch => overtaken \/ ~t.cancelled)
             /\ e = hub.epoch /\ hub.enabled /\ ~overtaken => error \/ running
      PROVE  HubInv'
  <2>1. CASE e # hub.epoch
    <3>1. UNCHANGED hub
      BY <1>6, <2>1 DEF Report
    <3>2. StatusTrue'
      BY <1>3, <1>6, <2>1, <3>1
    <3>3. QED BY <1>1, <1>2, <1>6, <3>1, <3>2
  <2>2. CASE e = hub.epoch
    <3>1. hub' = [[[hub EXCEPT !.running = running] EXCEPT !.port = port] EXCEPT !.error = error]
      BY <1>6, <2>2 DEF Report
    <3>2. /\ hub' \in [enabled : BOOLEAN, running : BOOLEAN, port : Nat, error : BOOLEAN,
                       desired : Nat \ {0}, epoch : Epoch, token : BOOLEAN]
          /\ hub'.epoch = hub.epoch /\ hub'.enabled = hub.enabled /\ hub'.token = hub.token
          /\ hub'.running = running /\ hub'.port = port /\ hub'.error = error
      BY <1>1, <1>6, <3>1
    <3>3. task'[e] = t
      BY <1>1, <1>6
    <3>4. StatusTrue'
      BY <1>6, <2>2, <3>2, <3>3 DEF StatusTrue
    <3>5. QED BY <1>2, <1>6, <3>2, <3>4
  <2>3. QED BY <2>1, <2>2
<1>7. CASE NoFreePort(e)
  <2> DEFINE t == [task[e] EXCEPT !.phase = "over"]
  <2>1. /\ t \in Tasks /\ t.phase = "over" /\ t.cancelled = task[e].cancelled
        /\ task[e].phase = "binding" /\ task' = [task EXCEPT ![e] = t] /\ UNCHANGED overtaken
        /\ Report(e, [hub EXCEPT !.running = FALSE, !.error = TRUE])
    BY <1>1, <1>7 DEF NoFreePort
  <2>2. [hub EXCEPT !.running = FALSE, !.error = TRUE]
            = [[[hub EXCEPT !.running = FALSE] EXCEPT !.port = hub.port] EXCEPT !.error = TRUE]
    BY <1>1
  <2> HIDE DEF t
  <2>3. hub.port \in Nat /\ FALSE \in BOOLEAN /\ TRUE \in BOOLEAN
    BY <1>1
  <2>4. Report(e, [[[hub EXCEPT !.running = FALSE] EXCEPT !.port = hub.port] EXCEPT !.error = TRUE])
    BY <2>1, <2>2 DEF Report
  <2>5. QED BY <1>6, <2>1, <2>3, <2>4 DEF Active
<1>8. CASE ServeEnds(e)
  <2> DEFINE t == [task[e] EXCEPT !.phase = "over"]
  <2>1. /\ t \in Tasks /\ t.phase = "over" /\ t.cancelled = task[e].cancelled
        /\ task[e].phase = "draining" /\ task' = [task EXCEPT ![e] = t] /\ UNCHANGED overtaken
        /\ Report(e, [hub EXCEPT !.running = FALSE])
    BY <1>1, <1>8 DEF ServeEnds
  <2>2. [hub EXCEPT !.running = FALSE]
            = [[[hub EXCEPT !.running = FALSE] EXCEPT !.port = hub.port] EXCEPT !.error = hub.error]
    BY <1>1
  <2>3. e = hub.epoch /\ hub.enabled /\ ~overtaken => hub.error
    BY <2>1 DEF HubInv, StatusTrue
  <2> HIDE DEF t
  <2>4. hub.port \in Nat /\ hub.error \in BOOLEAN
    BY <1>1
  <2>5. Report(e, [[[hub EXCEPT !.running = FALSE] EXCEPT !.port = hub.port] EXCEPT !.error = hub.error])
    BY <2>1, <2>2 DEF Report
  <2>6. QED BY <1>6, <2>1, <2>3, <2>4, <2>5 DEF Active
<1>9. CASE Serve(e)
  <2> DEFINE t == [task[e] EXCEPT !.phase = "serving"]
  <2>1. /\ t \in Tasks /\ t.phase = "serving" /\ t.cancelled = task[e].cancelled /\ t.port = task[e].port
        /\ task[e].phase = "bound" /\ task' = [task EXCEPT ![e] = t] /\ UNCHANGED overtaken
        /\ Report(e, [hub EXCEPT !.running = TRUE, !.port = task[e].port, !.error = FALSE])
    BY <1>1, <1>9 DEF Serve
  <2>2. [hub EXCEPT !.running = TRUE, !.port = task[e].port, !.error = FALSE]
            = [[[hub EXCEPT !.running = TRUE] EXCEPT !.port = task[e].port] EXCEPT !.error = FALSE]
    OBVIOUS
  <2>3. e = hub.epoch => overtaken \/ ~task[e].cancelled
    BY <2>1 DEF HubInv, StatusTrue
  <2> HIDE DEF t
  <2>4. task[e].port \in Nat /\ TRUE \in BOOLEAN /\ FALSE \in BOOLEAN
    BY <1>1
  <2>5. Report(e, [[[hub EXCEPT !.running = TRUE] EXCEPT !.port = task[e].port] EXCEPT !.error = FALSE])
    BY <2>1, <2>2 DEF Report
  <2>6. QED BY <1>6, <2>1, <2>3, <2>4, <2>5 DEF Active
<1>10. QED BY <1>4, <1>5, <1>7, <1>8, <1>9

LEMMA HubHolds == HubSpec => []HubInv
<1>1. HubInv /\ [HubNext]_hubVars => HubInv'
  <2> SUFFICES ASSUME HubInv, [HubNext]_hubVars PROVE HubInv'
    OBVIOUS
  <2>1. CASE UNCHANGED hubVars
    BY <2>1 DEF hubVars, HubInv, HubOK, Unborn, Tokened, StatusTrue
  <2>2. CASE TaskStep
    BY <2>2, TaskKeepsHub DEF TaskStep
  <2>3. CASE \E enabled \in BOOLEAN, port \in Nat \ {0} : Apply(enabled, port)
    BY <2>3, ApplyKeepsHub
  <2>4. QED BY <2>1, <2>2, <2>3 DEF HubNext
<1>2. QED BY <1>1, HubStart, PTL DEF HubSpec

-----------------------------------------------------------------------------
(***************************************************************************)
(* The configuration.  It drives the hub as the hub expects to be driven:  *)
(* what a load applies is what some file said, and a file says a port.     *)
(***************************************************************************)

Given == Text \cup Corpus \cup {DefaultText}
Contents == Given \cup {Parsed(text) : text \in Given}
File == [text : Contents, n : Nat]
LoadPhase == {"idle", "asked", "writing", "wrote", "read", "watching", "stored", "done", "failed"}

ConfigOK ==
    /\ disk \in [Places -> File] /\ edits \in Nat
    /\ loaded \in [place : Places \cup {Nowhere}, file : File]
    /\ load \in [phase : LoadPhase, by : {"nobody", "startup", "manual", "reload", "init"},
                 place : Places \cup {Nowhere}, file : File]
    /\ load.phase \in {"writing", "wrote", "read", "watching"} => load.place \in Places
    /\ \A p \in Places : disk[p].text \in Given
    /\ load.file.text \in Given

LEMMA FileFacts ==
    /\ Places # {} /\ Nowhere \notin Places /\ Place[1] \in Places
    /\ NoFile \in File /\ NoFile.text \in Given /\ Generated \in Given
    /\ \A text \in Contents : text.enabled \in BOOLEAN /\ text.port \in Nat \ {0}
<1>1. Place \in Seq(STRING) /\ Place # <<>> /\ Nowhere \notin Places
  BY ConfigAssumption
<1>2. 1 \in DOMAIN Place
  BY <1>1
<1>3. Place[1] \in Places
  BY <1>2 DEF Places, ToSet
<1>4. \A text \in Given : /\ {"enabled", "port"} \subseteq DOMAIN text
                           /\ text.enabled \in BOOLEAN /\ text.port \in Nat \ {0}
  BY ConfigAssumption DEF Given
<1>5. \A text \in Given : Parsed(text).enabled \in BOOLEAN /\ Parsed(text).port \in Nat \ {0}
  BY <1>4 DEF Parsed
<1>6. NoFile \in File /\ NoFile.text \in Given /\ Generated \in Given
  BY ConfigAssumption DEF NoFile, File, Contents, Given
<1>7. QED BY <1>1, <1>3, <1>4, <1>5, <1>6 DEF Contents

LEMMA SmallestNumber ==
    ASSUME NEW T, T \subseteq Nat, T # {}
    PROVE  \E x \in T : \A y \in T : x <= y
<1>1. PICK x \in T : \A y \in T : ~(<<y, x>> \in OpToRel(<, Nat))
  BY NatLessThanWellFounded, WFMin
<1>2. \A y \in T : ~(y < x)
  BY <1>1 DEF OpToRel
<1>3. QED BY <1>2

\* The first place with a file is a place.
LEMMA ResolvedIsAPlace ==
    ASSUME NEW allow \in BOOLEAN
    PROVE  Resolved(allow) \in Places \cup {Nowhere}
<1>1. DOMAIN Place \subseteq Nat
  <2>1. Place \in Seq(STRING)
    BY ConfigAssumption
  <2>2. QED BY <2>1
<1>2. CASE Existing # {}
  <2>1. Existing \subseteq DOMAIN Place
    BY DEF Existing
  <2>2. PICK x \in Existing : \A y \in Existing : x <= y
    BY <1>1, <1>2, <2>1, SmallestNumber
  <2>4. Min(Existing) \in Existing
    BY <2>2 DEF Min
  <2>5. Place[Min(Existing)] \in Places
    BY <2>1, <2>4 DEF Places, ToSet
  <2>6. QED BY <1>2, <2>5 DEF Resolved
<1>3. CASE Existing = {}
  BY <1>3, FileFacts DEF Resolved
<1>4. QED BY <1>2, <1>3

LEMMA ConfigStart == Init => ConfigOK
<1>1. SUFFICES ASSUME Init PROVE ConfigOK
  OBVIOUS
<1>2. /\ loaded = NotLoaded /\ load = [NoLoad EXCEPT !.phase = "asked", !.by = "startup"]
      /\ edits \in Nat
  BY <1>1, ConfigAssumption DEF Init
<1>3. /\ disk \in [Places -> File]
      /\ \A p \in Places : disk[p].text \in Given
  <2>1. ASSUME NEW texts, texts \subseteq Given, StartsWith(texts)
        PROVE  disk \in [Places -> File] /\ \A p \in Places : disk[p].text \in Given
    <3>1. PICK p \in Places, text \in texts :
              disk = [q \in Places |-> IF q = p THEN [text |-> text, n |-> 1] ELSE NoFile]
      BY <2>1 DEF StartsWith
    <3>2. [text |-> text, n |-> 1] \in File
      BY <2>1 DEF File, Contents
    <3>3. QED BY <2>1, <3>1, <3>2, FileFacts
  <2>2. CASE disk = [p \in Places |-> NoFile]
    BY <2>2, FileFacts
  <2>3. {Generated} \subseteq Given /\ Corpus \subseteq Given
    BY FileFacts DEF Given
  <2>4. QED BY <1>1, <2>1, <2>2, <2>3 DEF Init
<1>4. load.phase = "asked" /\ load.file = NoFile
  BY <1>2 DEF NoLoad
<1>5. load \in [phase : LoadPhase, by : {"nobody", "startup", "manual", "reload", "init"},
                place : Places \cup {Nowhere}, file : File]
  BY <1>2, FileFacts DEF NoLoad, LoadPhase
<1>6. loaded \in [place : Places \cup {Nowhere}, file : File]
  BY <1>2, FileFacts DEF NotLoaded
<1>7. QED BY <1>2, <1>3, <1>4, <1>5, <1>6, FileFacts DEF ConfigOK

LEMMA PutKeeps ==
    ASSUME ConfigOK, NEW p \in Places, NEW text \in Given, Put(p, text)
    PROVE  /\ disk' \in [Places -> File] /\ edits' \in Nat
           /\ \A q \in Places : disk'[q].text \in Given
<1>1. [text |-> text, n |-> edits + 1] \in File
  BY DEF ConfigOK, File, Contents
<1>2. QED BY <1>1 DEF Put, ConfigOK

LEMMA ConfigKeeps == ConfigOK /\ [Next]_vars => ConfigOK'
<1> SUFFICES ASSUME ConfigOK, [Next]_vars PROVE ConfigOK'
  OBVIOUS
<1> DEFINE Loads == [phase : LoadPhase, by : {"nobody", "startup", "manual", "reload", "init"},
                     place : Places \cup {Nowhere}, file : File]
\* A step on the load.
<1>1. ASSUME load' \in Loads, UNCHANGED <<disk, edits, loaded>>,
             load'.phase \in {"writing", "wrote", "read", "watching"} => load'.place \in Places,
             load'.file.text \in Given
      PROVE  ConfigOK'
  BY <1>1 DEF ConfigOK
<1>2. load \in Loads /\ load.file.text \in Given
  BY DEF ConfigOK
<1>3. ASSUME UNCHANGED <<disk, edits, loaded, load>> PROVE ConfigOK'
  BY <1>3 DEF ConfigOK
<1>4. ASSUME NEW p \in Places, Edit(p) PROVE ConfigOK'
  <2>1. PICK text \in Text : Put(p, text)
    BY <1>4 DEF Edit
  <2>2. text \in Given
    BY DEF Given
  <2>3. QED BY <1>4, <2>1, <2>2, PutKeeps DEF Edit, ConfigOK
<1>5. CASE \/ \E p \in Places : Emit(p) \/ Hear(p)
           \/ \E w \in {"kept", "fresh"} : Deliver(w)
           \/ EchoExpires \/ Dismiss
           \/ (TaskStep /\ UNCHANGED configVars)
           \/ UNCHANGED vars
  BY <1>3, <1>5 DEF Emit, Hear, Deliver, EchoExpires, Dismiss, fileVars, configVars, vars
<1>6. ASSUME NEW p \in Places, InitCheck(p) PROVE ConfigOK'
  <2>1. load' = [NoLoad EXCEPT !.phase = "writing", !.by = "init", !.place = p] /\ UNCHANGED <<fileVars, loaded>>
    BY <1>6 DEF InitCheck
  <2>2. load' \in Loads /\ load'.place = p /\ load'.file = NoFile
    BY <2>1, FileFacts DEF NoLoad, LoadPhase
  <2>3. QED BY <1>1, <2>1, <2>2, FileFacts DEF fileVars
<1>7. CASE InitPut
  <2>1. /\ load.place \in Places /\ Put(load.place, Generated) /\ Generated \in Given
        /\ load' = [load EXCEPT !.phase = "wrote"] /\ UNCHANGED loaded
    BY <1>7, FileFacts DEF InitPut, ConfigOK
  <2>2. /\ disk' \in [Places -> File] /\ edits' \in Nat
        /\ \A q \in Places : disk'[q].text \in Given
    BY <2>1, PutKeeps
  <2>3. /\ load' \in Loads /\ load'.place = load.place /\ load'.file = load.file
    BY <1>2, <2>1 DEF LoadPhase
  <2>4. QED BY <1>2, <2>1, <2>2, <2>3 DEF ConfigOK
<1>8. CASE InitWritten
  <2>1. load' = [load EXCEPT !.phase = "asked", !.place = Nowhere] /\ UNCHANGED <<fileVars, loaded>>
    BY <1>8 DEF InitWritten
  <2>2. load' \in Loads /\ load'.phase = "asked" /\ load'.file = load.file
    BY <1>2, <2>1 DEF LoadPhase
  <2>3. QED BY <1>1, <1>2, <2>1, <2>2 DEF fileVars
<1>9. CASE Return
  <2>1. load' = NoLoad /\ UNCHANGED <<fileVars, loaded>>
    BY <1>9 DEF Return
  <2>2. load' \in Loads /\ load'.phase = "idle" /\ load'.file = NoFile
    BY <2>1, FileFacts DEF NoLoad, LoadPhase
  <2>3. QED BY <1>1, <2>1, <2>2, FileFacts DEF fileVars
<1>10. ASSUME NEW by \in {"manual", "reload"}, Ask(by) PROVE ConfigOK'
  <2>1. load' = [NoLoad EXCEPT !.phase = "asked", !.by = by] /\ UNCHANGED <<fileVars, loaded>>
    BY <1>10 DEF Ask
  <2>2. load' \in Loads /\ load'.phase = "asked" /\ load'.file = NoFile
    BY <2>1, FileFacts DEF NoLoad, LoadPhase
  <2>3. QED BY <1>1, <2>1, <2>2, FileFacts DEF fileVars
<1>11. CASE LoadRead
  <2> DEFINE p == Resolved(load.by = "manual")
             ok == p # Nowhere /\ ParseOk(disk[p].text)
             file == IF ok THEN disk[p] ELSE NoFile
             phase == IF ok THEN "read" ELSE "failed"
  <2>1. load' = [load EXCEPT !.phase = phase, !.place = p, !.file = file] /\ UNCHANGED <<fileVars, loaded>>
    BY <1>11 DEF LoadRead
  <2>2. p \in Places \cup {Nowhere} /\ (ok => p \in Places) /\ phase \in {"read", "failed"}
        /\ (phase = "read" => ok)
    BY ResolvedIsAPlace
  <2>3. file \in File /\ file.text \in Given
    BY <2>2, FileFacts DEF ConfigOK
  <2> HIDE DEF p, ok, file, phase
  <2>4. /\ load' \in Loads /\ load'.phase = phase /\ load'.place = p /\ load'.file = file
    BY <1>2, <2>1, <2>2, <2>3 DEF LoadPhase
  <2>5. QED BY <1>1, <2>1, <2>2, <2>3, <2>4 DEF fileVars
<1>12. CASE LoadWatch
  <2>1. PICK next \in {"watching", "failed"} : load' = [load EXCEPT !.phase = next]
    BY <1>12 DEF LoadWatch
  <2>2. /\ load' \in Loads /\ load'.place = load.place /\ load'.file = load.file
        /\ load.place \in Places /\ UNCHANGED <<fileVars, loaded>>
    BY <1>2, <1>12, <2>1 DEF LoadPhase, LoadWatch, ConfigOK
  <2>3. QED BY <1>1, <1>2, <2>2 DEF fileVars
<1>13. CASE LoadStore
  <2>1. /\ loaded' = [place |-> load.place,
                      file |-> [load.file EXCEPT !.text = Parsed(load.file.text)]]
        /\ load' = [load EXCEPT !.phase = "stored"] /\ UNCHANGED fileVars
    BY <1>13 DEF LoadStore
  <2>2. [load.file EXCEPT !.text = Parsed(load.file.text)] \in File
    BY <1>2 DEF File, Contents
  <2>3. load' \in Loads /\ load'.phase = "stored" /\ load'.file = load.file
    BY <1>2, <2>1 DEF LoadPhase
  <2>4. QED BY <1>2, <2>1, <2>2, <2>3 DEF ConfigOK, fileVars
<1>14. CASE LoadApply
  <2>1. load' = [load EXCEPT !.phase = "done"] /\ UNCHANGED <<fileVars, loaded>>
    BY <1>14 DEF LoadApply
  <2>2. load' \in Loads /\ load'.phase = "done" /\ load'.file = load.file
    BY <1>2, <2>1 DEF LoadPhase
  <2>3. QED BY <1>1, <1>2, <2>1, <2>2 DEF fileVars
<1>15. QED BY <1>4, <1>5, <1>6, <1>7, <1>8, <1>9, <1>10, <1>11, <1>12, <1>13, <1>14
           DEF Next, Window, Manager

LEMMA ConfigHolds == Spec => []ConfigOK
  BY ConfigStart, ConfigKeeps, PTL DEF Spec

-----------------------------------------------------------------------------
(* The hub under its configuration.                                        *)

\* reconfigure, at the end of every load: whatever files come and go and whatever loads
\* fail, the hub is only ever driven the way Hub says it may be, so what holds of the hub
\* by itself holds of it here.
THEOREM ConfigDrivesTheHub == Spec => HubSpec
<1>1. Init => HubInit \/ HubServed
  BY DEF Init
<1>2. ConfigOK /\ [Next]_vars => [HubNext]_hubVars
  <2> SUFFICES ASSUME ConfigOK, [Next]_vars PROVE HubNext \/ UNCHANGED hubVars
    OBVIOUS
  <2>1. CASE LoadApply
    <3>1. loaded.file.text \in Contents
      BY DEF ConfigOK, File
    <3>2. loaded.file.text.enabled \in BOOLEAN /\ loaded.file.text.port \in Nat \ {0}
      BY <3>1, FileFacts
    <3>3. QED BY <2>1, <3>2 DEF LoadApply, HubNext
  <2>2. CASE TaskStep
    BY <2>2 DEF HubNext
  <2>3. CASE \/ \E p \in Places : Edit(p) \/ Emit(p) \/ Hear(p) \/ InitCheck(p)
             \/ \E w \in {"kept", "fresh"} : Deliver(w)
           \/ EchoExpires \/ Dismiss \/ InitPut \/ InitWritten \/ Return
             \/ \E by \in {"manual", "reload"} : Ask(by)
             \/ LoadRead \/ LoadWatch \/ LoadStore \/ UNCHANGED vars
    BY <2>3 DEF Edit, Emit, Hear, InitCheck, Deliver, EchoExpires, Dismiss, InitPut, InitWritten,
                Return, Ask, LoadRead, LoadWatch, LoadStore, vars
  <2>4. QED BY <2>1, <2>2, <2>3 DEF Next, Window, Manager
<1>3. QED BY <1>1, <1>2, ConfigHolds, PTL DEF Spec, HubSpec

\* apply and run_server: a server that nobody has cancelled is the one the status speaks
\* of, and a disabled hub has none.
THEOREM NoServerIsLost == Spec => []NoStrayServer
<1>1. HubInv => NoStrayServer
  BY DEF HubInv, Tokened, NoStrayServer, Active
<1>2. QED BY <1>1, ConfigDrivesTheHub, HubHolds, PTL

\* apply and run_server: an enabled hub whose server was never stopped while it came up is
\* served where it says, or has said why not, or is still coming up.
THEOREM EnabledMeansServed == Spec => []ServedUnlessOvertaken
<1>1. HubInv => ServedUnlessOvertaken
  BY DEF HubInv, StatusTrue, ServedUnlessOvertaken, EnabledIsServed
<1>2. QED BY <1>1, ConfigDrivesTheHub, HubHolds, PTL

-----------------------------------------------------------------------------
(***************************************************************************)
(* The edits.  The file in force is the one that is watched; and the new   *)
(* watcher of a load that has yet to be put in force has, for its own      *)
(* file, the same to answer for from the moment it began, or the word of   *)
(* a change would go with the watcher it replaces.                         *)
(***************************************************************************)

NewIsOnItsWay ==
    load.phase = "watching" /\ disk[load.place].n # since =>
        "fresh" \in raw \/ load.place \in stirring \cup events

HeardInv ==
    /\ watch = loaded.place
    /\ ChangeIsOnItsWay
    /\ NewIsOnItsWay

LEMMA HeardStart == Init => HeardInv
  BY DEF Init, HeardInv, NotLoaded, NoLoad, ChangeIsOnItsWay, NewIsOnItsWay

\* A write to a file reaches whoever watches it.
LEMMA PutIsSeen ==
    ASSUME ConfigOK, HeardInv, NEW p \in Places, NEW text \in Given, Put(p, text),
           UNCHANGED <<loaded, watch, stirring, events, heardVars>>,
           load'.phase = "watching" => load' = load
    PROVE  HeardInv'
<1>1. /\ \A q \in Places \ {p} : disk'[q] = disk[q]
      /\ raw' = raw \cup Seen(p)
  BY DEF Put, ConfigOK
<1>2. /\ watch = p => "kept" \in raw'
      /\ load.phase = "watching" /\ load.place = p => "fresh" \in raw'
  BY <1>1 DEF Seen
<1>3. UNCHANGED <<loaded, watch, stirring, events, known, since>>
  BY DEF heardVars
<1>4. ChangeIsOnItsWay'
  <2>1. CASE loaded.place = p
    BY <1>2, <1>3, <2>1 DEF HeardInv, ChangeIsOnItsWay
  <2>2. CASE loaded.place # p
    BY <1>1, <1>3, <2>2 DEF ConfigOK, HeardInv, ChangeIsOnItsWay
  <2>3. QED BY <2>1, <2>2
<1>5. NewIsOnItsWay'
  <2> SUFFICES ASSUME load'.phase = "watching", disk'[load'.place].n # since'
               PROVE  "fresh" \in raw' \/ load'.place \in stirring' \cup events'
    BY DEF NewIsOnItsWay
  <2>1. load' = load /\ load.place \in Places
    BY DEF ConfigOK
  <2>2. CASE load.place = p
    BY <1>2, <2>1, <2>2
  <2>3. CASE load.place # p
    BY <1>1, <1>3, <2>1, <2>3 DEF HeardInv, NewIsOnItsWay
  <2>4. QED BY <2>2, <2>3
<1>6. QED BY <1>3, <1>4, <1>5 DEF HeardInv

LEMMA HeardKeeps == ConfigOK /\ HeardInv /\ [Next]_vars => HeardInv'
<1> SUFFICES ASSUME ConfigOK, HeardInv, [Next]_vars PROVE HeardInv'
  OBVIOUS
<1>1. Nowhere \notin Places
  BY FileFacts
<1>2. ASSUME UNCHANGED <<disk, loaded, watch, raw, stirring, events, known, since>>,
             load'.phase = "watching" => load' = load
      PROVE  HeardInv'
  BY <1>2 DEF HeardInv, ChangeIsOnItsWay, NewIsOnItsWay
<1>3. ASSUME NEW p \in Places, Edit(p) PROVE HeardInv'
  <2>1. PICK text \in Text : Put(p, text)
    BY <1>3 DEF Edit
  <2>2. text \in Given
    BY DEF Given
  <2>3. UNCHANGED <<loaded, watch, stirring, events, load, heardVars>>
    BY <1>3 DEF Edit
  <2>4. QED BY <2>1, <2>2, <2>3, PutIsSeen
<1>4. CASE InitPut
  <2>1. /\ load.phase = "writing" /\ Put(load.place, Generated)
        /\ load' = [load EXCEPT !.phase = "wrote"]
        /\ UNCHANGED <<loaded, watch, stirring, events, heardVars>>
    BY <1>4 DEF InitPut
  <2>2. load.place \in Places /\ Generated \in Given /\ load'.phase = "wrote"
    BY <2>1, FileFacts DEF ConfigOK
  <2>3. QED BY <2>1, <2>2, PutIsSeen
<1>5. ASSUME NEW w \in {"kept", "fresh"}, Deliver(w) PROVE HeardInv'
  <2>1. /\ raw' = raw \ {w}
        /\ stirring' = stirring \cup {IF w = "kept" THEN watch ELSE load.place}
        /\ UNCHANGED <<disk, loaded, watch, events, load, known, since>>
    BY <1>5 DEF Deliver, fileVars, heardVars
  <2>2. ChangeIsOnItsWay'
    BY <2>1 DEF HeardInv, ChangeIsOnItsWay
  <2>3. NewIsOnItsWay'
    BY <2>1 DEF HeardInv, NewIsOnItsWay
  <2>4. QED BY <2>1, <2>2, <2>3 DEF HeardInv
<1>6. ASSUME NEW p \in Places, Emit(p) PROVE HeardInv'
  <2>1. /\ stirring' = stirring \ {p} /\ events' = events \cup {p}
        /\ UNCHANGED <<disk, loaded, watch, raw, load, known, since>>
    BY <1>6 DEF Emit, fileVars, heardVars
  <2>2. QED BY <2>1 DEF HeardInv, ChangeIsOnItsWay, NewIsOnItsWay
<1>7. ASSUME NEW p \in Places, Hear(p) PROVE HeardInv'
  <2>1. Settled(p)
    BY DEF Settled, IsEcho
  <2>2. /\ events' = events \ {p}
        /\ known' = IF loaded.place = p THEN disk[p].n ELSE known
        /\ since' = IF load.phase = "watching" /\ load.place = p THEN disk[p].n ELSE since
        /\ UNCHANGED <<disk, loaded, watch, raw, stirring, load>>
    BY <1>7, <2>1 DEF Hear, fileVars
  <2>3. ChangeIsOnItsWay'
    BY <2>2 DEF HeardInv, ChangeIsOnItsWay
  <2>4. NewIsOnItsWay'
    BY <2>2 DEF HeardInv, NewIsOnItsWay
  <2>5. QED BY <2>2, <2>3, <2>4 DEF HeardInv
<1>8. CASE LoadWatch
  <2>1. UNCHANGED <<disk, loaded, watch, raw, stirring, events, known>>
    BY <1>8 DEF LoadWatch, fileVars, watchVars
  <2>2. \/ load' = [load EXCEPT !.phase = "watching"] /\ since' = disk[load.place].n
        \/ load' = [load EXCEPT !.phase = "failed"]
    BY <1>8 DEF LoadWatch
  <2>3. load'.place = load.place /\ (load'.phase = "watching" => since' = disk[load.place].n)
    BY <2>2 DEF ConfigOK
  <2>4. QED BY <2>1, <2>3 DEF HeardInv, ChangeIsOnItsWay, NewIsOnItsWay
\* What the old watcher still had to tell goes with it; what the new one has is kept.
<1>9. CASE LoadStore
  <2>1. /\ load.phase = "watching" /\ load' = [load EXCEPT !.phase = "stored"]
        /\ loaded'.place = load.place /\ watch' = load.place /\ known' = since
        /\ "fresh" \in raw => "kept" \in raw'
        /\ UNCHANGED <<disk, stirring, events>>
    BY <1>9 DEF LoadStore, fileVars
  <2>2. load'.phase = "stored"
    BY <2>1 DEF ConfigOK
  <2>3. ChangeIsOnItsWay'
    BY <2>1 DEF HeardInv, NewIsOnItsWay, ChangeIsOnItsWay
  <2>4. QED BY <2>1, <2>2, <2>3 DEF HeardInv, NewIsOnItsWay
\* A step on a load that is not waiting to be put in force.
<1>10. ASSUME NEW phase \in LoadPhase \ {"watching"}, load'.phase = phase,
              UNCHANGED <<disk, loaded, watch, raw, stirring, events, known, since>>
       PROVE  HeardInv'
  BY <1>2, <1>10
<1>11. ASSUME NEW p \in Places, InitCheck(p) PROVE HeardInv'
  <2>1. load'.phase = "writing"
    BY <1>11 DEF InitCheck, NoLoad
  <2>2. QED BY <1>10, <1>11, <2>1 DEF InitCheck, LoadPhase, fileVars, watchVars, heardVars
<1>12. ASSUME NEW by \in {"manual", "reload"}, Ask(by) PROVE HeardInv'
  <2>1. load'.phase = "asked"
    BY <1>12 DEF Ask, NoLoad
  <2>2. QED BY <1>10, <1>12, <2>1 DEF Ask, LoadPhase, fileVars, watchVars, heardVars
<1>13. CASE InitWritten \/ Return
  <2>1. load'.phase \in {"asked", "idle"}
    <3>1. CASE Return
      BY <3>1 DEF Return, NoLoad
    <3>2. CASE InitWritten
      <4>1. load' = [load EXCEPT !.phase = "asked", !.place = Nowhere]
        BY <3>2 DEF InitWritten
      <4>2. QED BY <4>1 DEF ConfigOK
    <3>3. QED BY <1>13, <3>1, <3>2
  <2>2. QED BY <1>10, <1>13, <2>1 DEF InitWritten, Return, LoadPhase, fileVars, watchVars, heardVars
<1>14. CASE LoadRead
  <2>1. load'.phase \in {"read", "failed"}
    BY <1>14 DEF LoadRead, ConfigOK
  <2>2. QED BY <1>10, <1>14, <2>1 DEF LoadRead, LoadPhase, fileVars, watchVars, heardVars
<1>15. CASE LoadApply
  <2>1. load'.phase = "done"
    BY <1>15 DEF LoadApply, ConfigOK
  <2>2. QED BY <1>10, <1>15, <2>1 DEF LoadApply, LoadPhase, fileVars, watchVars, heardVars
<1>16. CASE EchoExpires \/ Dismiss \/ (TaskStep /\ UNCHANGED configVars) \/ UNCHANGED vars
  BY <1>2, <1>16 DEF EchoExpires, Dismiss, fileVars, watchVars, heardVars, configVars, vars
<1>17. CASE Window
  <2>1. ASSUME NEW p \in Places, Hear(p) \/ InitCheck(p) PROVE HeardInv'
    BY <2>1, <1>7, <1>11
  <2>2. ASSUME NEW by \in {"manual", "reload"}, Ask(by) PROVE HeardInv'
    BY <2>2, <1>12
  <2>3. CASE EchoExpires \/ Dismiss \/ InitPut \/ InitWritten \/ Return
    BY <2>3, <1>4, <1>13, <1>16
  <2>4. QED BY ONLY <1>17, <2>1, <2>2, <2>3 DEF Window
<1>18. CASE Manager
  BY <1>18, <1>8, <1>9, <1>14, <1>15 DEF Manager
<1>19. ASSUME NEW p \in Places, Edit(p) \/ Emit(p) PROVE HeardInv'
  BY <1>19, <1>3, <1>6
<1>20. QED BY <1>5, <1>16, <1>17, <1>18, <1>19 DEF Next

\* The file watcher and the window's config-changed listener: as long as the file in force
\* is not as the operator last heard of it, word of it is on its way, whatever loads are
\* under way, fail or replace the watcher.
THEOREM ChangesAreAnnounced == Spec => []ChangeIsOnItsWay
<1>1. HeardInv => ChangeIsOnItsWay
  BY DEF HeardInv
<1>2. QED BY <1>1, ConfigHolds, HeardStart, HeardKeeps, PTL DEF Spec

-----------------------------------------------------------------------------
(***************************************************************************)
(* The search of detect_cycle, over any finite set of ids, each with the   *)
(* sequence of those it waits for.                                         *)
(***************************************************************************)

Color == {"white", "gray", "black"}
Colors(Id) == [color : [Id -> Color], cycle : BOOLEAN]
Searches(Id) == Seq(Id) \X Colors(Id)

Gray(st, id) == [st EXCEPT !.color[id] = "gray"]

\* What the search f makes of one id.
After(D, f, st, id) ==
    LET under == f[<<D[id], Gray(st, id)>>] IN
    CASE st.color[id] = "gray" -> [st EXCEPT !.cycle = TRUE]
      [] st.color[id] = "black" -> st
      [] OTHER -> IF under.cycle THEN under ELSE [under EXCEPT !.color[id] = "black"]

\* One unfolding of the search f.
Unfolded(Id, D, f) ==
    [at \in Searches(Id) |->
        IF at[1] = <<>> \/ at[2].cycle THEN at[2]
        ELSE f[<<Tail(at[1]), After(D, f, at[2], Head(at[1]))>>]]

In(Id, st, color) == {id \in Id : st.color[id] = color}

Graph(Id, D) == IsFiniteSet(Id) /\ D \in [Id -> Seq(Id)]

\* K bounds the number of ids any waits for; what is left to do is counted by it.
Left(Id, K, at) == Cardinality(In(Id, at[2], "white")) * (K + 1) + Len(at[1])

LEMMA BoundedNumbers ==
    ASSUME NEW S, IsFiniteSet(S), S \subseteq Nat
    PROVE  \E k \in Nat : \A n \in S : n <= k
<1> DEFINE Unbounded == {T \in SUBSET S : ~ \E k \in Nat : \A n \in T : n <= k}
           Sizes == {Cardinality(T) : T \in Unbounded}
<1>1. \A T \in SUBSET S : IsFiniteSet(T) /\ Cardinality(T) \in Nat
  BY FS_Subset, FS_CardinalityType
<1>2. ASSUME Unbounded # {} PROVE FALSE
  <2>1. Sizes # {} /\ Sizes \subseteq Nat
    BY <1>1, <1>2
  <2>2. PICK m \in Sizes : \A k \in Sizes : m <= k
    BY <2>1, SmallestNumber
  <2>3. PICK T \in Unbounded : m = Cardinality(T)
    BY <2>2
  <2>4. T # {}
    BY <2>3
  <2>5. PICK t : t \in T
    BY <2>4
  <2>6. T \ {t} \in SUBSET S /\ Cardinality(T \ {t}) = m - 1 /\ m \in Nat
    BY <1>1, <2>3, <2>5, FS_RemoveElement
  <2>7. T \ {t} \notin Unbounded
    <3>1. ASSUME T \ {t} \in Unbounded PROVE FALSE
      <4>1. Cardinality(T \ {t}) \in Sizes
        BY <3>1
      <4>2. m <= m - 1
        BY <2>2, <2>6, <4>1
      <4>3. QED BY <2>6, <4>2
    <3>2. QED BY <3>1
  <2>8. PICK k \in Nat : \A n \in T \ {t} : n <= k
    BY <2>6, <2>7
  <2>9. t \in Nat
    BY <2>3, <2>5
  <2>10. PICK b : b = IF k < t THEN t ELSE k
    OBVIOUS
  <2>11. b \in Nat /\ k <= b /\ t <= b
    BY <2>9, <2>10
  <2>12. \A n \in T : n <= b
    <3> SUFFICES ASSUME NEW n \in T PROVE n <= b
      OBVIOUS
    <3>1. n \in Nat
      BY <2>3
    <3>2. CASE n = t
      BY <2>11, <3>2
    <3>3. CASE n # t
      BY <2>8, <2>11, <3>1, <3>3
    <3>4. QED BY <3>2, <3>3
  <2>13. QED BY <2>3, <2>11, <2>12
<1>3. S \in SUBSET S
  OBVIOUS
<1>4. QED BY <1>2, <1>3

LEMMA WaitsBounded ==
    ASSUME NEW Id, NEW D, Graph(Id, D)
    PROVE  \E k \in Nat : \A id \in Id : Len(D[id]) <= k
<1> DEFINE S == {Len(D[id]) : id \in Id}
<1>1. \A id \in Id : D[id] \in Seq(Id)
  BY DEF Graph
<1>2. S \subseteq Nat
  BY <1>1
<1>3. IsFiniteSet(S)
  <2> DEFINE L == [id \in Id |-> Len(D[id])]
  <2>1. L \in Surjection(Id, S)
    BY DEF Surjection
  <2>2. IsFiniteSet(Id)
    BY DEF Graph
  <2> HIDE DEF L, S
  <2>3. QED BY <2>1, <2>2, FS_Surjection
<1>4. PICK k \in Nat : \A n \in S : n <= k
  BY <1>2, <1>3, BoundedNumbers
<1>5. QED BY <1>4

LEMMA Painted ==
    ASSUME NEW Id, NEW st \in Colors(Id), NEW id \in Id, NEW c \in Color
    PROVE  LET p == [st EXCEPT !.color[id] = c]
           IN  /\ p \in Colors(Id) /\ p.cycle = st.cycle
               /\ p.color[id] = c /\ \A i \in Id : i # id => p.color[i] = st.color[i]
<1> DEFINE p == [st EXCEPT !.color[id] = c]
           q == [st.color EXCEPT ![id] = c]
<1>1. st = [color |-> st.color, cycle |-> st.cycle] /\ st.color \in [Id -> Color] /\ st.cycle \in BOOLEAN
  BY DEF Colors
<1>2. q \in [Id -> Color] /\ q[id] = c /\ \A i \in Id : i # id => q[i] = st.color[i]
  BY <1>1
<1>3. p = [color |-> q, cycle |-> st.cycle]
  <2>1. ASSUME NEW col, NEW cy, st = [color |-> col, cycle |-> cy]
        PROVE  [st EXCEPT !.color[id] = c] = [color |-> [col EXCEPT ![id] = c], cycle |-> cy]
    BY ONLY <2>1
  <2>2. QED BY <1>1, <2>1
<1> HIDE DEF p, q
<1>4. p.color = q /\ p.cycle = st.cycle /\ p \in Colors(Id)
  BY <1>1, <1>2, <1>3 DEF Colors
<1>5. QED BY <1>2, <1>4 DEF p

LEMMA CycleFound ==
    ASSUME NEW Id, NEW st \in Colors(Id)
    PROVE  LET p == [st EXCEPT !.cycle = TRUE]
           IN  p \in Colors(Id) /\ p.cycle /\ p.color = st.color
<1>1. st = [color |-> st.color, cycle |-> st.cycle] /\ st.color \in [Id -> Color]
  BY DEF Colors
<1>2. ASSUME NEW col, NEW cy, NEW c, st = [color |-> col, cycle |-> cy]
      PROVE  [st EXCEPT !.cycle = c] = [color |-> col, cycle |-> c]
  BY ONLY <1>2
<1>3. [st EXCEPT !.cycle = TRUE] = [color |-> st.color, cycle |-> TRUE]
  BY <1>1, <1>2
<1>4. QED BY <1>1, <1>3 DEF Colors

LEMMA Counts ==
    ASSUME NEW Id, IsFiniteSet(Id), NEW K \in Nat, NEW at \in Searches(Id)
    PROVE  /\ at = <<at[1], at[2]>> /\ at[1] \in Seq(Id) /\ at[2] \in Colors(Id)
           /\ IsFiniteSet(In(Id, at[2], "white")) /\ Cardinality(In(Id, at[2], "white")) \in Nat
           /\ Left(Id, K, at) \in Nat
<1>1. at = <<at[1], at[2]>> /\ at[1] \in Seq(Id) /\ at[2] \in Colors(Id)
  BY DEF Searches
<1>2. In(Id, at[2], "white") \in SUBSET Id
  BY DEF In
<1>3. IsFiniteSet(In(Id, at[2], "white")) /\ Cardinality(In(Id, at[2], "white")) \in Nat
  BY <1>2, FS_Subset, FS_CardinalityType
<1>4. Len(at[1]) \in Nat
  BY <1>1
<1>5. Left(Id, K, at) \in Nat
  BY <1>3, <1>4 DEF Left
<1>6. QED BY <1>1, <1>3, <1>5

\* The search under a white step, and the search of what is left after one, are shorter.
LEMMA ShorterUnder ==
    ASSUME NEW Id, NEW D, Graph(Id, D), NEW K \in Nat, \A i \in Id : Len(D[i]) <= K,
           NEW at \in Searches(Id), NEW id \in Id, at[2].color[id] = "white"
    PROVE  /\ <<D[id], Gray(at[2], id)>> \in Searches(Id)
           /\ Left(Id, K, <<D[id], Gray(at[2], id)>>) < Left(Id, K, at)
<1> DEFINE g == Gray(at[2], id)
           W == In(Id, at[2], "white")
           w == Cardinality(W)
<1>1. at[2] \in Colors(Id) /\ IsFiniteSet(W) /\ w \in Nat /\ Len(at[1]) \in Nat
  BY Counts DEF Graph
<1>2. "gray" \in Color
  BY DEF Color
<1>3. g \in Colors(Id) /\ g.color[id] = "gray" /\ \A i \in Id : i # id => g.color[i] = at[2].color[i]
  BY <1>1, <1>2, Painted DEF Gray
<1>4. D[id] \in Seq(Id) /\ Len(D[id]) \in Nat /\ Len(D[id]) <= K
  BY DEF Graph
<1>5. In(Id, g, "white") = W \ {id} /\ id \in W
  BY <1>3 DEF In
<1>6. Cardinality(In(Id, g, "white")) = w - 1
  BY <1>1, <1>5, FS_RemoveElement
<1> HIDE DEF g, W, w
<1>7. <<D[id], g>> \in Searches(Id)
  BY <1>3, <1>4 DEF Searches
<1>8. Left(Id, K, <<D[id], g>>) = (w - 1) * (K + 1) + Len(D[id])
  BY <1>6 DEF Left
<1>9. Left(Id, K, at) = w * (K + 1) + Len(at[1])
  BY DEF Left, W, w
<1> DEFINE less == (w - 1) * (K + 1)
           more == w * (K + 1)
<1>10. less = more - (K + 1) /\ more \in Nat /\ less \in Int
  BY <1>1
<1> HIDE DEF less, more
<1>11. less + Len(D[id]) < more + Len(at[1])
  BY <1>1, <1>4, <1>10
<1>12. QED BY <1>7, <1>8, <1>9, <1>11 DEF g, less, more

LEMMA ShorterRest ==
    ASSUME NEW Id, IsFiniteSet(Id), NEW K \in Nat,
           NEW at \in Searches(Id), at[1] # <<>>,
           NEW st \in Colors(Id), In(Id, st, "white") \subseteq In(Id, at[2], "white")
    PROVE  /\ <<Tail(at[1]), st>> \in Searches(Id)
           /\ Left(Id, K, <<Tail(at[1]), st>>) < Left(Id, K, at)
<1> DEFINE W == In(Id, at[2], "white")
           V == In(Id, st, "white")
           w == Cardinality(W)
           v == Cardinality(V)
<1>1. at[1] \in Seq(Id) /\ IsFiniteSet(W) /\ w \in Nat
  BY Counts
<1>2. v \in Nat /\ v <= w
  <2>1. V \in SUBSET W
    OBVIOUS
  <2>2. QED BY <1>1, <2>1, FS_Subset, FS_CardinalityType
<1>3. Tail(at[1]) \in Seq(Id) /\ Len(Tail(at[1])) = Len(at[1]) - 1 /\ Len(at[1]) \in Nat
  BY <1>1, HeadTailProperties
<1>4. <<Tail(at[1]), st>> \in Searches(Id)
  BY <1>3 DEF Searches
<1> HIDE DEF W, V, w, v
<1>5. Left(Id, K, <<Tail(at[1]), st>>) = v * (K + 1) + Len(Tail(at[1]))
  BY DEF Left, V, v
<1>6. Left(Id, K, at) = w * (K + 1) + Len(at[1])
  BY DEF Left, W, w
<1>7. v * (K + 1) <= w * (K + 1) /\ v * (K + 1) \in Nat /\ w * (K + 1) \in Nat
  <2>1. w - v \in Nat /\ K + 1 \in Nat
    BY <1>1, <1>2
  <2>2. (w - v) * (K + 1) \in Nat
    BY <2>1
  <2>3. (w - v) * (K + 1) = w * (K + 1) - v * (K + 1)
    BY <1>1, <1>2
  <2>4. v * (K + 1) \in Nat /\ w * (K + 1) \in Nat
    BY <1>1, <1>2
  <2>5. QED BY <2>2, <2>3, <2>4
<1> DEFINE less == v * (K + 1)
           more == w * (K + 1)
<1>8. less <= more /\ less \in Nat /\ more \in Nat
  BY <1>7
<1>9. Left(Id, K, <<Tail(at[1]), st>>) = less + Len(Tail(at[1])) /\ Left(Id, K, at) = more + Len(at[1])
  BY <1>5, <1>6
<1> HIDE DEF less, more
<1>10. QED BY <1>3, <1>4, <1>8, <1>9

-----------------------------------------------------------------------------
(*************************************************************************)
(* What the search says.  It comes back with fewer steps to visit, and when *)
(* it found no cycle then what is black is closed under waiting and there *)
(* is no cycle among it; every step it was sent for is black.            *)
(*************************************************************************)

\* What is black is done with: nothing waits for anything else, and there is no cycle.
Well(Id, D, st) ==
    LET black == In(Id, st, "black")
    IN  /\ \A id \in black : ToSet(D[id]) \subseteq black
        /\ \A T \in SUBSET black : T # {} => \E t \in T : ToSet(D[t]) \cap T = {}

\* A search of the ids in S that begins at st and comes back with res.
Went(Id, D, S, st, res) ==
    /\ res \in Colors(Id)
    /\ In(Id, res, "white") \subseteq In(Id, st, "white")
    /\ st.cycle => res.cycle
    /\ Well(Id, D, st) /\ ~res.cycle =>
          /\ Well(Id, D, res)
          /\ In(Id, st, "black") \subseteq In(Id, res, "black")
          /\ In(Id, st, "gray") \subseteq In(Id, res, "gray")
          /\ S \subseteq In(Id, res, "black")

Tells(Id, D, f, at) == Went(Id, D, ToSet(at[1]), at[2], f[at])

LEMMA ColorOf ==
    ASSUME NEW Id, NEW st \in Colors(Id), NEW id \in Id
    PROVE  st.color[id] \in Color /\ st.cycle \in BOOLEAN
<1>1. st.color \in [Id -> Color] /\ st.cycle \in BOOLEAN
  BY DEF Colors
<1>2. QED BY <1>1

\* One more step is done with, whose dependencies all are.
LEMMA WellGrows ==
    ASSUME NEW Id, NEW D, NEW st, NEW res, NEW id \in Id,
           Well(Id, D, st), id \notin In(Id, st, "black"),
           ToSet(D[id]) \subseteq In(Id, st, "black"),
           In(Id, res, "black") = In(Id, st, "black") \cup {id}
    PROVE  Well(Id, D, res)
<1> DEFINE B == In(Id, st, "black")
<1>1. /\ \A i \in B : ToSet(D[i]) \subseteq B
      /\ \A T \in SUBSET B : T # {} => \E t \in T : ToSet(D[t]) \cap T = {}
  BY DEF Well
<1>2. id \notin B /\ ToSet(D[id]) \subseteq B /\ In(Id, res, "black") = B \cup {id}
  OBVIOUS
<1> HIDE DEF B
<1>3. \A i \in B \cup {id} : ToSet(D[i]) \subseteq B \cup {id}
  BY <1>1, <1>2
<1>4. ASSUME NEW T \in SUBSET (B \cup {id}), T # {} PROVE \E t \in T : ToSet(D[t]) \cap T = {}
  <2>1. CASE T \cap B = {}
    <3>1. id \in T /\ ToSet(D[id]) \cap T = {}
      BY <1>2, <1>4, <2>1
    <3>2. QED BY <3>1
  <2>2. CASE T \cap B # {}
    <3>1. PICK t \in T \cap B : ToSet(D[t]) \cap (T \cap B) = {}
      <4>1. T \cap B \in SUBSET B
        OBVIOUS
      <4>2. QED BY <1>1, <2>2, <4>1
    <3>2. ToSet(D[t]) \subseteq B
      BY <1>1, <3>1
    <3>3. ToSet(D[t]) \cap T = {} /\ t \in T
      BY <3>1, <3>2
    <3>4. QED BY <3>3
  <2>3. QED BY <2>1, <2>2
<1>5. QED BY <1>2, <1>3, <1>4 DEF Well

LEMMA AfterWent ==
    ASSUME NEW Id, NEW D, Graph(Id, D), NEW f, NEW st \in Colors(Id), ~st.cycle, NEW id \in Id,
           st.color[id] = "white" => Tells(Id, D, f, <<D[id], Gray(st, id)>>)
    PROVE  Went(Id, D, {id}, st, After(D, f, st, id))
<1> DEFINE res == After(D, f, st, id)
           g == Gray(st, id)
           under == f[<<D[id], g>>]
           done == [under EXCEPT !.color[id] = "black"]
<1>1. st.color[id] \in {"white", "gray", "black"}
  BY ColorOf DEF Color
<1>2. CASE st.color[id] = "gray"
  <2>1. res = [st EXCEPT !.cycle = TRUE]
    BY <1>2 DEF After
  <2>2. res \in Colors(Id) /\ res.cycle /\ res.color = st.color
    BY <2>1, CycleFound
  <2> HIDE DEF res
  <2>3. Went(Id, D, {id}, st, res)
    BY <2>2 DEF Went, In
  <2>4. QED BY <2>3 DEF res
<1>3. CASE st.color[id] = "black"
  <2>1. res = st
    BY <1>3 DEF After
  <2>2. id \in In(Id, st, "black")
    BY <1>3 DEF In
  <2> HIDE DEF res
  <2>3. Went(Id, D, {id}, st, res)
    BY <2>1, <2>2 DEF Went
  <2>4. QED BY <2>3 DEF res
<1>4. CASE st.color[id] = "white"
  <2>1. res = IF under.cycle THEN under ELSE done
    BY <1>4 DEF After
  <2>2. Went(Id, D, ToSet(D[id]), g, under)
    BY <1>4 DEF Tells
  <2>3. /\ g \in Colors(Id) /\ g.cycle = st.cycle
        /\ g.color[id] = "gray" /\ \A i \in Id : i # id => g.color[i] = st.color[i]
    <3>1. "gray" \in Color
      BY DEF Color
    <3>2. QED BY <3>1, Painted DEF Gray
  <2>4. /\ In(Id, g, "white") = In(Id, st, "white") \ {id}
        /\ In(Id, g, "black") = In(Id, st, "black")
        /\ In(Id, st, "gray") \subseteq In(Id, g, "gray")
        /\ id \in In(Id, g, "gray")
    BY <1>4, <2>3 DEF In
  <2>5. Well(Id, D, st) => Well(Id, D, g)
    BY <2>4 DEF Well
  <2>6. under \in Colors(Id)
    BY <2>2 DEF Went
  <2> DEFINE p == done
  <2>7. /\ p \in Colors(Id) /\ p.cycle = under.cycle
        /\ p.color[id] = "black" /\ \A i \in Id : i # id => p.color[i] = under.color[i]
    <3>1. "black" \in Color
      BY DEF Color
    <3>2. QED BY <2>6, <3>1, Painted
  <2> HIDE DEF res, g, under, p
  <2>8. /\ In(Id, under, "white") \subseteq In(Id, st, "white")
        /\ Well(Id, D, st) /\ ~under.cycle =>
             /\ Well(Id, D, under)
             /\ In(Id, st, "black") \subseteq In(Id, under, "black")
             /\ In(Id, st, "gray") \cup {id} \subseteq In(Id, under, "gray")
             /\ ToSet(D[id]) \subseteq In(Id, under, "black")
    BY <2>2, <2>4, <2>5 DEF Went
  <2>9. CASE under.cycle
    <3>1. res = under
      BY <2>1, <2>9
    <3>2. Went(Id, D, {id}, st, res)
      BY <2>6, <2>8, <2>9, <3>1 DEF Went
    <3>3. QED BY <3>2 DEF res
  <2>10. CASE ~under.cycle
    <3>1. res = p
      BY <2>1, <2>10 DEF p
    <3>2. /\ In(Id, p, "black") = In(Id, under, "black") \cup {id}
          /\ In(Id, p, "white") \subseteq In(Id, under, "white")
          /\ In(Id, under, "gray") \ {id} \subseteq In(Id, p, "gray")
      BY <2>7 DEF In
    <3>3. id \notin In(Id, st, "gray")
      BY <1>4 DEF In
    <3>4. ASSUME Well(Id, D, st)
          PROVE  /\ Well(Id, D, p)
                 /\ In(Id, st, "black") \subseteq In(Id, p, "black")
                 /\ In(Id, st, "gray") \subseteq In(Id, p, "gray")
                 /\ {id} \subseteq In(Id, p, "black")
      <4>1. /\ Well(Id, D, under)
            /\ In(Id, st, "black") \subseteq In(Id, under, "black")
            /\ In(Id, st, "gray") \cup {id} \subseteq In(Id, under, "gray")
            /\ ToSet(D[id]) \subseteq In(Id, under, "black")
        BY <2>8, <2>10, <3>4
      <4>2. id \notin In(Id, under, "black")
        BY <4>1 DEF In
      <4>3. Well(Id, D, p)
        BY <3>2, <4>1, <4>2, WellGrows
      <4>4. QED BY <3>2, <3>3, <4>1, <4>3
    <3>5. Went(Id, D, {id}, st, p)
      BY <2>7, <2>8, <3>2, <3>4 DEF Went
    <3>6. QED BY <3>1, <3>5 DEF res
  <2>11. QED BY <2>9, <2>10
<1>5. QED BY <1>1, <1>2, <1>3, <1>4

LEMMA WentOn ==
    ASSUME NEW Id, NEW D, NEW S, NEW T, NEW a, NEW b, NEW c,
           Went(Id, D, S, a, b), Went(Id, D, T, b, c)
    PROVE  Went(Id, D, S \cup T, a, c)
BY DEF Went

LEMMA HeadAndTail ==
    ASSUME NEW S, NEW s \in Seq(S), s # <<>>
    PROVE  /\ Head(s) \in S /\ Tail(s) \in Seq(S)
           /\ ToSet(s) = {Head(s)} \cup ToSet(Tail(s))
<1>1. /\ Head(s) \in S /\ Tail(s) \in Seq(S) /\ Len(s) \in Nat /\ Len(s) # 0
      /\ Len(Tail(s)) = Len(s) - 1 /\ Head(s) = s[1]
      /\ \A i \in 1 .. Len(Tail(s)) : Tail(s)[i] = s[i + 1]
  BY HeadTailProperties
<1>2. ToSet(s) = {s[i] : i \in 1 .. Len(s)} /\ ToSet(Tail(s)) = {Tail(s)[i] : i \in 1 .. Len(Tail(s))}
  <2>1. DOMAIN s = 1 .. Len(s)
    OBVIOUS
  <2>2. DOMAIN Tail(s) = 1 .. Len(Tail(s))
    <3> DEFINE r == Tail(s)
    <3>1. r \in Seq(S)
      BY <1>1
    <3> HIDE DEF r
    <3>2. DOMAIN r = 1 .. Len(r)
      BY <3>1
    <3>3. QED BY <3>2 DEF r
  <2>3. QED BY <2>1, <2>2 DEF ToSet
<1>3. ASSUME NEW x \in ToSet(s) PROVE x \in {Head(s)} \cup ToSet(Tail(s))
  <2>1. PICK i \in 1 .. Len(s) : x = s[i]
    BY <1>2
  <2>2. CASE i = 1
    BY <1>1, <2>1, <2>2
  <2>3. CASE i # 1
    <3>1. i - 1 \in 1 .. Len(Tail(s)) /\ (i - 1) + 1 = i
      BY <1>1, <2>1, <2>3
    <3>2. Tail(s)[i - 1] = x
      BY <1>1, <2>1, <3>1
    <3>3. QED BY <1>2, <3>1, <3>2
  <2>4. QED BY <2>2, <2>3
<1>4. Head(s) \in ToSet(s)
  BY <1>1, <1>2
<1>5. ASSUME NEW x \in ToSet(Tail(s)) PROVE x \in ToSet(s)
  <2>1. PICK i \in 1 .. Len(Tail(s)) : x = Tail(s)[i]
    BY <1>2
  <2>2. i + 1 \in 1 .. Len(s) /\ s[i + 1] = x
    BY <1>1, <2>1
  <2>3. QED BY <1>2, <2>2
<1>6. QED BY <1>1, <1>3, <1>4, <1>5

LEMMA TellsStep ==
    ASSUME NEW Id, NEW D, Graph(Id, D), NEW K \in Nat, \A i \in Id : Len(D[i]) <= K,
           NEW f, NEW at \in Searches(Id), f[at] = Unfolded(Id, D, f)[at],
           \A x \in Searches(Id) : Left(Id, K, x) < Left(Id, K, at) => Tells(Id, D, f, x)
    PROVE  Tells(Id, D, f, at)
<1> DEFINE st == at[2]
           id == Head(at[1])
           after == After(D, f, st, id)
<1>1. at[1] \in Seq(Id) /\ st \in Colors(Id) /\ IsFiniteSet(Id)
  BY Counts DEF Graph
<1>2. f[at] = IF at[1] = <<>> \/ st.cycle THEN st ELSE f[<<Tail(at[1]), after>>]
  BY DEF Unfolded
<1>3. CASE at[1] = <<>>
  <2>1. f[at] = st /\ ToSet(at[1]) = {}
    BY <1>2, <1>3 DEF ToSet
  <2> HIDE DEF st
  <2>2. Went(Id, D, {}, st, st)
    BY <1>1 DEF Went
  <2>3. QED BY <2>1, <2>2 DEF Tells, st
<1>4. CASE st.cycle
  <2>1. f[at] = st
    BY <1>2, <1>4
  <2> HIDE DEF st
  <2>2. Went(Id, D, ToSet(at[1]), st, st)
    BY <1>1, <1>4 DEF Went
  <2>3. QED BY <2>1, <2>2 DEF Tells, st
<1>5. CASE at[1] # <<>> /\ ~st.cycle
  <2>1. /\ id \in Id /\ Tail(at[1]) \in Seq(Id)
        /\ ToSet(at[1]) = {id} \cup ToSet(Tail(at[1]))
    BY <1>1, <1>5, HeadAndTail
  <2>2. st.color[id] = "white" => Tells(Id, D, f, <<D[id], Gray(st, id)>>)
    <3> SUFFICES ASSUME st.color[id] = "white" PROVE Tells(Id, D, f, <<D[id], Gray(st, id)>>)
      OBVIOUS
    <3> HIDE DEF id
    <3>1. /\ <<D[id], Gray(st, id)>> \in Searches(Id)
          /\ Left(Id, K, <<D[id], Gray(st, id)>>) < Left(Id, K, at)
      BY <2>1, ShorterUnder
    <3>2. QED BY <3>1
  <2>3. Went(Id, D, {id}, st, after)
    BY <1>1, <1>5, <2>1, <2>2, AfterWent
  <2> HIDE DEF after, id, st
  <2>4. after \in Colors(Id) /\ In(Id, after, "white") \subseteq In(Id, st, "white")
    BY <2>3 DEF Went
  <2>5. /\ <<Tail(at[1]), after>> \in Searches(Id)
        /\ Left(Id, K, <<Tail(at[1]), after>>) < Left(Id, K, at)
    BY <1>1, <1>5, <2>4, ShorterRest DEF st
  <2>6. Went(Id, D, ToSet(Tail(at[1])), after, f[<<Tail(at[1]), after>>])
    BY <2>5 DEF Tells
  <2>7. f[at] = f[<<Tail(at[1]), after>>]
    BY <1>2, <1>5
  <2>8. Went(Id, D, {id} \cup ToSet(Tail(at[1])), st, f[at])
    BY <2>3, <2>6, <2>7, WentOn
  <2>9. QED BY <2>1, <2>8 DEF Tells, st
<1>6. QED BY <1>3, <1>4, <1>5

-----------------------------------------------------------------------------
(*************************************************************************)
(* That there is such a search.  A step of it looks only at searches with *)
(* less left to do, so that it is approximated from below: what solves the *)
(* shorter ones can be unfolded once more, any two solutions agree, and  *)
(* the search takes each of its values from one that goes far enough.    *)
(*************************************************************************)

\* The function f is the search wherever fewer than n steps are left to do.
Solves(Id, D, K, f, n) ==
    \A x \in Searches(Id) : Left(Id, K, x) < n => f[x] = Unfolded(Id, D, f)[x]

LEMMA SolvesTell ==
    ASSUME NEW Id, NEW D, Graph(Id, D), NEW K \in Nat, \A i \in Id : Len(D[i]) <= K,
           NEW f, NEW n \in Nat, Solves(Id, D, K, f, n)
    PROVE  \A x \in Searches(Id) : Left(Id, K, x) < n => Tells(Id, D, f, x)
<1> DEFINE Bad == {x \in Searches(Id) : Left(Id, K, x) < n /\ ~Tells(Id, D, f, x)}
           Sizes == {Left(Id, K, x) : x \in Bad}
<1>1. ASSUME Bad # {} PROVE FALSE
  <2>1. Sizes # {} /\ Sizes \subseteq Nat
    BY <1>1, Counts DEF Graph
  <2>2. PICK m \in Sizes : \A k \in Sizes : m <= k
    BY <2>1, SmallestNumber
  <2>3. PICK at \in Bad : m = Left(Id, K, at)
    BY <2>2
  <2>4. ASSUME NEW x \in Searches(Id), Left(Id, K, x) < Left(Id, K, at)
        PROVE  Tells(Id, D, f, x)
    <3>1. Left(Id, K, x) \in Nat /\ Left(Id, K, at) \in Nat /\ Left(Id, K, at) < n
      BY <2>3, Counts DEF Graph
    <3>2. Left(Id, K, x) \notin Sizes
      <4>1. ~(Left(Id, K, at) <= Left(Id, K, x))
        BY <2>4, <3>1
      <4> HIDE DEF Sizes
      <4>2. QED BY <2>2, <2>3, <4>1
    <3>3. Left(Id, K, x) < n
      BY <2>4, <3>1
    <3>4. QED BY <3>2, <3>3
  <2>5. f[at] = Unfolded(Id, D, f)[at] /\ at \in Searches(Id)
    BY <2>3 DEF Solves
  <2>6. Tells(Id, D, f, at)
    BY <2>4, <2>5, TellsStep
  <2>7. QED BY <2>3, <2>6
<1>2. QED BY <1>1

\* A step of the search looks at shorter searches only.
LEMMA Local ==
    ASSUME NEW Id, NEW D, Graph(Id, D), NEW K \in Nat, \A i \in Id : Len(D[i]) <= K,
           NEW f, NEW g, NEW at \in Searches(Id),
           \A x \in Searches(Id) : Left(Id, K, x) < Left(Id, K, at) => f[x] = g[x] /\ Tells(Id, D, f, x)
    PROVE  Unfolded(Id, D, f)[at] = Unfolded(Id, D, g)[at]
<1> DEFINE st == at[2]
           id == Head(at[1])
           after == After(D, f, st, id)
<1>1. at[1] \in Seq(Id) /\ st \in Colors(Id) /\ IsFiniteSet(Id)
  BY Counts DEF Graph
<1>2. /\ Unfolded(Id, D, f)[at] = IF at[1] = <<>> \/ st.cycle THEN st ELSE f[<<Tail(at[1]), after>>]
      /\ Unfolded(Id, D, g)[at] = IF at[1] = <<>> \/ st.cycle THEN st
                                  ELSE g[<<Tail(at[1]), After(D, g, st, id)>>]
  BY DEF Unfolded
<1>3. CASE at[1] = <<>> \/ st.cycle
  BY <1>2, <1>3
<1>4. CASE at[1] # <<>> /\ ~st.cycle
  <2>1. id \in Id
    BY <1>1, <1>4, HeadAndTail
  <2> HIDE DEF id, st
  <2>2. ASSUME st.color[id] = "white"
        PROVE  /\ f[<<D[id], Gray(st, id)>>] = g[<<D[id], Gray(st, id)>>]
               /\ Tells(Id, D, f, <<D[id], Gray(st, id)>>)
    <3>1. /\ <<D[id], Gray(st, id)>> \in Searches(Id)
          /\ Left(Id, K, <<D[id], Gray(st, id)>>) < Left(Id, K, at)
      BY <2>1, <2>2, ShorterUnder DEF st
    <3>2. QED BY <3>1
  <2>3. after = After(D, g, st, id)
    <3>1. st.color[id] \in {"white", "gray", "black"}
      BY <1>1, <2>1, ColorOf DEF Color
    <3>2. CASE st.color[id] = "white"
      BY <2>2, <3>2 DEF After
    <3>3. CASE st.color[id] # "white"
      BY <3>1, <3>3 DEF After
    <3>4. QED BY <3>2, <3>3
  <2>4. Went(Id, D, {id}, st, after)
    BY <1>1, <1>4, <2>1, <2>2, AfterWent
  <2> HIDE DEF after
  <2>5. after \in Colors(Id) /\ In(Id, after, "white") \subseteq In(Id, st, "white")
    BY <2>4 DEF Went
  <2>6. /\ <<Tail(at[1]), after>> \in Searches(Id)
        /\ Left(Id, K, <<Tail(at[1]), after>>) < Left(Id, K, at)
    BY <1>1, <1>4, <2>5, ShorterRest DEF st
  <2>7. f[<<Tail(at[1]), after>>] = g[<<Tail(at[1]), after>>]
    BY <2>6
  <2>8. QED BY <1>2, <1>4, <2>3, <2>7
<1>5. QED BY <1>3, <1>4

LEMMA Coherent ==
    ASSUME NEW Id, NEW D, Graph(Id, D), NEW K \in Nat, \A i \in Id : Len(D[i]) <= K,
           NEW f, NEW g, NEW n \in Nat, Solves(Id, D, K, f, n), Solves(Id, D, K, g, n)
    PROVE  \A x \in Searches(Id) : Left(Id, K, x) < n => f[x] = g[x]
<1> DEFINE Bad == {x \in Searches(Id) : Left(Id, K, x) < n /\ f[x] # g[x]}
           Sizes == {Left(Id, K, x) : x \in Bad}
<1>1. ASSUME Bad # {} PROVE FALSE
  <2>1. Sizes # {} /\ Sizes \subseteq Nat
    BY <1>1, Counts DEF Graph
  <2>2. PICK m \in Sizes : \A k \in Sizes : m <= k
    BY <2>1, SmallestNumber
  <2>3. PICK at \in Bad : m = Left(Id, K, at)
    BY <2>2
  <2>4. ASSUME NEW x \in Searches(Id), Left(Id, K, x) < Left(Id, K, at)
        PROVE  f[x] = g[x] /\ Tells(Id, D, f, x)
    <3>1. Left(Id, K, x) \in Nat /\ Left(Id, K, at) \in Nat /\ Left(Id, K, at) < n
      BY <2>3, Counts DEF Graph
    <3>2. Left(Id, K, x) \notin Sizes
      <4>1. ~(Left(Id, K, at) <= Left(Id, K, x))
        BY <2>4, <3>1
      <4> HIDE DEF Sizes
      <4>2. QED BY <2>2, <2>3, <4>1
    <3>3. Left(Id, K, x) < n
      BY <2>4, <3>1
    <3>4. Tells(Id, D, f, x)
      BY <3>3, SolvesTell
    <3>5. QED BY <3>2, <3>3, <3>4
  <2>5. /\ f[at] = Unfolded(Id, D, f)[at] /\ g[at] = Unfolded(Id, D, g)[at]
        /\ at \in Searches(Id) /\ f[at] # g[at]
    BY <2>3 DEF Solves
  <2>6. Unfolded(Id, D, f)[at] = Unfolded(Id, D, g)[at]
    BY <2>4, <2>5, Local
  <2>7. QED BY <2>5, <2>6
<1>2. QED BY <1>1

LEMMA Solvable ==
    ASSUME NEW Id, NEW D, Graph(Id, D), NEW K \in Nat, \A i \in Id : Len(D[i]) <= K
    PROVE  \A n \in Nat : \E f : Solves(Id, D, K, f, n)
<1> DEFINE Hard == {n \in Nat : ~ \E f : Solves(Id, D, K, f, n)}
<1>1. ASSUME Hard # {} PROVE FALSE
  <2>1. PICK n \in Hard : \A k \in Hard : n <= k
    <3>1. Hard \subseteq Nat
      OBVIOUS
    <3>2. QED BY <1>1, <3>1, SmallestNumber
  <2>2. CASE n = 0
    <3>1. Solves(Id, D, K, <<>>, 0)
      <4> SUFFICES ASSUME NEW x \in Searches(Id), Left(Id, K, x) < 0 PROVE FALSE
        BY DEF Solves
      <4>1. Left(Id, K, x) \in Nat
        BY Counts DEF Graph
      <4>2. QED BY <4>1
    <3>2. QED BY <2>1, <2>2, <3>1
  <2>3. CASE n # 0
    <3>1. n - 1 \in Nat /\ ~(n <= n - 1)
      BY <2>1, <2>3
    <3>2. PICK f : Solves(Id, D, K, f, n - 1)
      <4>1. n - 1 \notin Hard
        BY <2>1, <3>1
      <4>2. QED BY <3>1, <4>1
    <3> DEFINE g == Unfolded(Id, D, f)
    <3>3. ASSUME NEW x \in Searches(Id), Left(Id, K, x) < n
          PROVE  g[x] = Unfolded(Id, D, g)[x]
      <4>1. ASSUME NEW y \in Searches(Id), Left(Id, K, y) < Left(Id, K, x)
            PROVE  f[y] = g[y] /\ Tells(Id, D, f, y)
        <5>1. Left(Id, K, x) \in Nat /\ Left(Id, K, y) \in Nat
          BY Counts DEF Graph
        <5>2. Left(Id, K, y) < n - 1
          BY <2>1, <3>3, <4>1, <5>1
        <5>3. Tells(Id, D, f, y)
          BY <3>1, <3>2, <5>2, SolvesTell
        <5>4. f[y] = g[y]
          BY <3>2, <5>2 DEF Solves
        <5>5. QED BY <5>3, <5>4
      <4> HIDE DEF g
      <4>2. Unfolded(Id, D, f)[x] = Unfolded(Id, D, g)[x]
        BY <4>1, Local
      <4>3. QED BY <4>2 DEF g
    <3> HIDE DEF g
    <3>4. Solves(Id, D, K, g, n)
      BY <3>3 DEF Solves
    <3>5. QED BY <2>1, <3>4
  <2>4. QED BY <2>2, <2>3
<1>2. QED BY <1>1

\* There is a search that unfolds into itself, and it tells the truth.
LEMMA SearchExists ==
    ASSUME NEW Id, NEW D, Graph(Id, D)
    PROVE  \E f : f = Unfolded(Id, D, f)
<1>1. PICK K \in Nat : \A i \in Id : Len(D[i]) <= K
  BY WaitsBounded
<1> DEFINE At(x) == CHOOSE f : Solves(Id, D, K, f, Left(Id, K, x) + 1)
           F == [x \in Searches(Id) |-> At(x)[x]]
<1>2. \A x \in Searches(Id) : Left(Id, K, x) \in Nat /\ Left(Id, K, x) + 1 \in Nat
  BY <1>1, Counts DEF Graph
<1>3. \A x \in Searches(Id) : Solves(Id, D, K, At(x), Left(Id, K, x) + 1)
  <2> SUFFICES ASSUME NEW x \in Searches(Id) PROVE Solves(Id, D, K, At(x), Left(Id, K, x) + 1)
    OBVIOUS
  <2>1. \E f : Solves(Id, D, K, f, Left(Id, K, x) + 1)
    BY <1>1, <1>2, Solvable
  <2>2. QED BY <2>1
<1>4. \A x \in Searches(Id) : F[x] = At(x)[x]
  OBVIOUS
<1>5. DOMAIN F = Searches(Id) /\ F = [x \in Searches(Id) |-> F[x]]
  OBVIOUS
<1> HIDE DEF At, F
<1>6. ASSUME NEW x \in Searches(Id) PROVE F[x] = Unfolded(Id, D, F)[x]
  <2>1. ASSUME NEW y \in Searches(Id), Left(Id, K, y) < Left(Id, K, x)
        PROVE  At(x)[y] = F[y] /\ Tells(Id, D, At(x), y)
    <3>1. /\ Left(Id, K, y) < Left(Id, K, x) + 1 /\ Left(Id, K, y) < Left(Id, K, y) + 1
          /\ \A k \in Nat : k < Left(Id, K, y) + 1 => k < Left(Id, K, x) + 1
      BY <1>2, <2>1
    <3>2. Tells(Id, D, At(x), y)
      BY <1>1, <1>2, <1>3, <3>1, SolvesTell
    <3>3. Solves(Id, D, K, At(x), Left(Id, K, y) + 1)
      <4>1. \A z \in Searches(Id) : Left(Id, K, z) < Left(Id, K, y) + 1 => Left(Id, K, z) < Left(Id, K, x) + 1
        BY <1>2, <3>1
      <4>2. QED BY <1>3, <4>1 DEF Solves
    <3>4. At(x)[y] = At(y)[y]
      BY <1>1, <1>2, <1>3, <3>1, <3>3, Coherent
    <3>5. QED BY <1>4, <3>2, <3>4
  <2>2. Unfolded(Id, D, At(x))[x] = Unfolded(Id, D, F)[x]
    <3>1. PICK f : f = At(x)
      OBVIOUS
    <3>2. \A y \in Searches(Id) : Left(Id, K, y) < Left(Id, K, x) => f[y] = F[y] /\ Tells(Id, D, f, y)
      BY <2>1, <3>1
    <3>3. Unfolded(Id, D, f)[x] = Unfolded(Id, D, F)[x]
      BY <1>1, <3>2, Local
    <3>4. QED BY <3>1, <3>3
  <2>3. At(x)[x] = Unfolded(Id, D, At(x))[x]
    <3>1. Left(Id, K, x) < Left(Id, K, x) + 1
      BY <1>2
    <3>2. QED BY <1>3, <3>1 DEF Solves
  <2>4. QED BY <1>4, <2>2, <2>3
<1>7. F = Unfolded(Id, D, F)
  <2>1. DOMAIN Unfolded(Id, D, F) = Searches(Id)
    BY DEF Unfolded
  <2>2. Unfolded(Id, D, F) = [x \in Searches(Id) |-> Unfolded(Id, D, F)[x]]
    BY DEF Unfolded
  <2>3. QED BY <1>5, <1>6, <2>2
<1>8. QED BY <1>7

LEMMA SearchTells ==
    ASSUME NEW Id, NEW D, Graph(Id, D), NEW f, f = Unfolded(Id, D, f), NEW at \in Searches(Id)
    PROVE  Tells(Id, D, f, at)
<1>1. PICK K \in Nat : \A i \in Id : Len(D[i]) <= K
  BY WaitsBounded
<1>2. Left(Id, K, at) \in Nat /\ Left(Id, K, at) + 1 \in Nat /\ Left(Id, K, at) < Left(Id, K, at) + 1
  BY <1>1, Counts DEF Graph
<1>3. Solves(Id, D, K, f, Left(Id, K, at) + 1)
  BY DEF Solves
<1>4. QED BY <1>1, <1>2, <1>3, SolvesTell

-----------------------------------------------------------------------------
(*************************************************************************)
(* The declarations.  Ids that are each their own name positions, and what *)
(* detect_cycle searches is the graph of what waits for what.            *)
(*************************************************************************)

Ids(d) == {s.id : s \in Declared(d)}
Waits(d) == [id \in Ids(d) |-> StepOf(d, id).deps]

\* Declarations whose ids name steps, each its own.
Named(d) == d \in WorkflowDecl /\ UniqueIds(d)

LEMMA DeclFacts ==
    ASSUME NEW d \in WorkflowDecl
    PROVE  /\ d.steps \in Seq(StepDecl) /\ d.pattern \in Pattern
           /\ Len(d.steps) \in Nat /\ DOMAIN d.steps = 1 .. Len(d.steps)
           /\ Declared(d) = {d.steps[i] : i \in 1 .. Len(d.steps)}
           /\ \A i \in 1 .. Len(d.steps) : d.steps[i] \in Declared(d) /\ d.steps[i] \in StepDecl
           /\ \A s \in Declared(d) : s \in StepDecl /\ \E i \in 1 .. Len(d.steps) : s = d.steps[i]
<1>1. d.steps \in Seq(StepDecl) /\ d.pattern \in Pattern
  BY DEF WorkflowDecl
<1>2. Len(d.steps) \in Nat /\ DOMAIN d.steps = 1 .. Len(d.steps)
  BY <1>1
<1>3. \A i \in 1 .. Len(d.steps) : d.steps[i] \in StepDecl
  BY <1>1
<1>4. Declared(d) = {d.steps[i] : i \in 1 .. Len(d.steps)}
  BY <1>2 DEF Declared, ToSet
<1>5. QED BY <1>1, <1>2, <1>3, <1>4

LEMMA IndexFacts ==
    ASSUME NEW d \in WorkflowDecl, NEW id
    PROVE  /\ IndexOf(d, id) \in 0 .. Len(d.steps)
           /\ Declares(d, id) => /\ IndexOf(d, id) \in 1 .. Len(d.steps)
                                 /\ d.steps[IndexOf(d, id)].id = id
                                 /\ StepOf(d, id) = d.steps[IndexOf(d, id)]
                                 /\ StepOf(d, id) \in Declared(d)
                                 /\ id \in Ids(d)
           /\ id \in Ids(d) => Declares(d, id)
<1> DEFINE I == {i \in 1 .. Len(d.steps) : d.steps[i].id = id}
<1>1. IndexOf(d, id) = IF I # {} THEN Min(I) ELSE 0
  BY DEF IndexOf, SelectInSeq
<1>2. Len(d.steps) \in Nat /\ \A i \in 1 .. Len(d.steps) : d.steps[i] \in Declared(d)
  BY DeclFacts
<1>3. CASE I # {}
  <2>1. I \subseteq Nat
    BY <1>2
  <2> HIDE DEF I
  <2>2. \E x \in I : \A y \in I : x <= y
    BY <1>3, <2>1, SmallestNumber
  <2>3. Min(I) \in I
    BY <2>2 DEF Min
  <2>4. IndexOf(d, id) \in I
    BY <1>1, <1>3, <2>3
  <2>5. IndexOf(d, id) \in 1 .. Len(d.steps) /\ d.steps[IndexOf(d, id)].id = id
    BY <2>4 DEF I
  <2>6. Declares(d, id) /\ IndexOf(d, id) \in 0 .. Len(d.steps)
    BY <1>2, <2>5 DEF Declares
  <2>7. StepOf(d, id) = d.steps[IndexOf(d, id)] /\ StepOf(d, id) \in Declared(d)
    BY <1>2, <2>5 DEF StepOf
  <2>8. id \in Ids(d)
    BY <2>5, <2>7 DEF Ids
  <2>9. QED BY <2>5, <2>6, <2>7, <2>8
<1>4. CASE I = {}
  <2>1. IndexOf(d, id) = 0 /\ ~Declares(d, id)
    BY <1>1, <1>4 DEF Declares
  <2>2. id \notin Ids(d)
    <3>1. ASSUME id \in Ids(d) PROVE FALSE
      <4>1. PICK s \in Declared(d) : s.id = id
        BY <3>1 DEF Ids
      <4>2. PICK i \in 1 .. Len(d.steps) : s = d.steps[i]
        BY DeclFacts
      <4>3. i \in I
        BY <4>1, <4>2
      <4>4. QED BY <1>4, <4>3
    <3>2. QED BY <3>1
  <2>3. QED BY <1>2, <2>1, <2>2
<1>5. QED BY <1>3, <1>4

\* Each id names one position.
LEMMA OwnIndex ==
    ASSUME NEW d, Named(d)
    PROVE  /\ \A i \in 1 .. Len(d.steps) : IndexOf(d, d.steps[i].id) = i /\ d.steps[i].id \in Ids(d)
           /\ IsFiniteSet(Ids(d)) /\ Cardinality(Ids(d)) = Len(d.steps)
<1> DEFINE N == Len(d.steps)
           f == [i \in 1 .. N |-> d.steps[i].id]
<1>1. d \in WorkflowDecl /\ Cardinality(Ids(d)) = N
  BY DEF Named, UniqueIds, Ids
<1>2. N \in Nat /\ \A i \in 1 .. N : d.steps[i] \in Declared(d)
  BY <1>1, DeclFacts
<1>3. \A i \in 1 .. N : d.steps[i].id \in Ids(d)
  BY <1>2 DEF Ids
<1>4. f \in Surjection(1 .. N, Ids(d))
  <2>1. f \in [1 .. N -> Ids(d)]
    BY <1>3
  <2>2. ASSUME NEW id \in Ids(d) PROVE \E i \in 1 .. N : f[i] = id
    <3>1. IndexOf(d, id) \in 1 .. N /\ d.steps[IndexOf(d, id)].id = id
      BY <1>1, IndexFacts
    <3>2. QED BY <3>1
  <2> HIDE DEF f
  <2>3. QED BY <2>1, <2>2 DEF Surjection
<1>5. IsFiniteSet(1 .. N) /\ Cardinality(1 .. N) = N
  BY <1>2, FS_Interval
<1>6. \A i \in 1 .. N : f[i] = d.steps[i].id
  OBVIOUS
<1> HIDE DEF f, N
<1>7. f \in Injection(1 .. N, Ids(d)) /\ IsFiniteSet(Ids(d))
  BY <1>1, <1>4, <1>5, FS_Surjection
<1>8. \A i, j \in 1 .. N : f[i] = f[j] => i = j
  BY <1>7 DEF Injection, IsInjective
<1>9. ASSUME NEW i \in 1 .. N PROVE IndexOf(d, d.steps[i].id) = i
  <2> DEFINE j == IndexOf(d, d.steps[i].id)
  <2>1. j \in 1 .. N /\ d.steps[j].id = d.steps[i].id
    BY <1>1, <1>3, IndexFacts DEF N
  <2> HIDE DEF j
  <2>2. i = j
    BY <1>6, <1>8, <2>1
  <2>3. QED BY <2>2 DEF j
<1>10. QED BY <1>1, <1>3, <1>7, <1>9 DEF N

LEMMA WaitsFacts ==
    ASSUME NEW d, Named(d), RefsOk(d)
    PROVE  /\ Graph(Ids(d), Waits(d))
           /\ \A id \in Ids(d) : Waits(d)[id] = StepOf(d, id).deps
<1>1. d \in WorkflowDecl /\ IsFiniteSet(Ids(d))
  BY OwnIndex DEF Named
<1>2. \A id \in Ids(d) : Waits(d)[id] = StepOf(d, id).deps
  BY DEF Waits
<1>3. ASSUME NEW id \in Ids(d) PROVE StepOf(d, id).deps \in Seq(Ids(d))
  <2> DEFINE s == StepOf(d, id)
             q == s.deps
  <2>1. s \in Declared(d) /\ s \in StepDecl
    BY <1>1, IndexFacts, DeclFacts
  <2>2. q \in Seq(Nat \ {0})
    BY <2>1 DEF StepDecl
  <2>3. \A e \in ToSet(q) : e \in Ids(d)
    BY <1>1, <2>1, IndexFacts DEF RefsOk
  <2> HIDE DEF q
  <2>4. \A i \in 1 .. Len(q) : q[i] \in Ids(d)
    BY <2>2, <2>3 DEF ToSet
  <2>5. q \in Seq(Ids(d))
    BY <2>2, <2>4
  <2>6. QED BY <2>5 DEF q
<1>4. QED BY <1>1, <1>2, <1>3 DEF Graph, Waits

\* The search of detect_cycle is the one above.
LEMMA VisitIsASearch ==
    ASSUME NEW d, Named(d), RefsOk(d)
    PROVE  Visit(d) = Unfolded(Ids(d), Waits(d), Visit(d))
<1> DEFINE B(f) == [at \in Seq({s.id : s \in Declared(d)}) \X Colouring(d) |->
            LET ids == at[1]
                st == at[2]
                id == Head(ids)
                under == f[<<StepOf(d, id).deps, [st EXCEPT !.color[id] = "gray"]>>]
            IN  IF ids = <<>> \/ st.cycle THEN st
                ELSE f[<<Tail(ids),
                            CASE st.color[id] = "gray" -> [st EXCEPT !.cycle = TRUE]
                              [] st.color[id] = "black" -> st
                              [] OTHER -> IF under.cycle THEN under
                                          ELSE [under EXCEPT !.color[id] = "black"]>>]]
<1>1. Visit(d) = CHOOSE f : f = B(f)
  BY DEF Visit
<1>2. Seq({s.id : s \in Declared(d)}) \X Colouring(d) = Searches(Ids(d))
  BY DEF Searches, Colouring, Colors, Color, Ids
<1>3. ASSUME NEW f PROVE B(f) = Unfolded(Ids(d), Waits(d), f)
  <2>1. ASSUME NEW at \in Searches(Ids(d)), at[1] # <<>>
        PROVE  Waits(d)[Head(at[1])] = StepOf(d, Head(at[1])).deps
    <3>1. at[1] \in Seq(Ids(d))
      BY DEF Searches
    <3>2. Head(at[1]) \in Ids(d)
      BY <2>1, <3>1, HeadAndTail
    <3>3. QED BY <3>2, WaitsFacts
  <2>2. ASSUME NEW at \in Searches(Ids(d))
        PROVE  B(f)[at] = Unfolded(Ids(d), Waits(d), f)[at]
    <3>1. CASE at[1] = <<>>
      BY <1>2, <3>1 DEF Unfolded
    <3>2. CASE at[1] # <<>>
      BY <1>2, <2>1, <3>2 DEF Unfolded, After, Gray
    <3>3. QED BY <3>1, <3>2
  <2>3. Unfolded(Ids(d), Waits(d), f) = [at \in Searches(Ids(d)) |-> Unfolded(Ids(d), Waits(d), f)[at]]
    BY DEF Unfolded
  <2>4. B(f) = [at \in Searches(Ids(d)) |-> B(f)[at]]
    BY <1>2
  <2> HIDE DEF B
  <2>5. QED BY <2>2, <2>3, <2>4
<1> HIDE DEF B
<1>4. \E f : f = B(f)
  <2>1. \E f : f = Unfolded(Ids(d), Waits(d), f)
    BY WaitsFacts, SearchExists
  <2>2. QED BY <1>3, <2>1
<1>5. Visit(d) = B(Visit(d))
  BY <1>1, <1>4
<1>6. QED BY <1>3, <1>5

\* What detect_cycle lets through has no cycle: of any steps there is one that waits
\* for none of the others.
LEMMA NoCycle ==
    ASSUME NEW d, Named(d), RefsOk(d), ~DetectCycle(d)
    PROVE  \A T \in SUBSET Ids(d) : T # {} => \E t \in T : ToSet(StepOf(d, t).deps) \cap T = {}
<1> DEFINE all == [i \in DOMAIN d.steps |-> d.steps[i].id]
           st == Unvisited(d)
           at == <<all, st>>
           res == Visit(d)[at]
<1>1. /\ d \in WorkflowDecl /\ Len(d.steps) \in Nat /\ DOMAIN d.steps = 1 .. Len(d.steps)
      /\ \A i \in 1 .. Len(d.steps) : d.steps[i].id \in Ids(d)
  BY DeclFacts, OwnIndex DEF Named
<1>2. all \in Seq(Ids(d)) /\ ToSet(all) = Ids(d)
  <2>1. all \in [1 .. Len(d.steps) -> Ids(d)]
    BY <1>1
  <2>2. all \in Seq(Ids(d))
    BY <1>1, <2>1
  <2>3. DOMAIN all = 1 .. Len(d.steps) /\ \A i \in 1 .. Len(d.steps) : all[i] = d.steps[i].id
    BY <1>1
  <2> HIDE DEF all
  <2>4. ASSUME NEW id \in Ids(d) PROVE id \in ToSet(all)
    <3>1. IndexOf(d, id) \in 1 .. Len(d.steps) /\ d.steps[IndexOf(d, id)].id = id
      BY <1>1, IndexFacts
    <3>2. QED BY <2>3, <3>1 DEF ToSet
  <2>5. ToSet(all) \subseteq Ids(d)
    BY <1>1, <2>3 DEF ToSet
  <2>6. QED BY <2>2, <2>4, <2>5
<1>3. /\ st \in Colors(Ids(d)) /\ ~st.cycle
      /\ \A id \in Ids(d) : st.color[id] = "white"
  BY DEF Unvisited, Colors, Color, Ids
<1>4. ~res.cycle
  BY DEF DetectCycle
<1> HIDE DEF all, st
<1>5. at \in Searches(Ids(d))
  BY <1>2, <1>3 DEF Searches
<1>6. Went(Ids(d), Waits(d), Ids(d), st, res)
  <2>1. Tells(Ids(d), Waits(d), Visit(d), at)
    BY <1>5, WaitsFacts, VisitIsASearch, SearchTells
  <2>2. at[1] = all /\ at[2] = st
    OBVIOUS
  <2> HIDE DEF at
  <2>3. QED BY <1>2, <2>1, <2>2 DEF Tells
<1>7. Well(Ids(d), Waits(d), st)
  <2>1. In(Ids(d), st, "black") = {}
    BY <1>3 DEF In
  <2>2. QED BY <2>1 DEF Well
<1> HIDE DEF res
<1>8. Well(Ids(d), Waits(d), res) /\ Ids(d) \subseteq In(Ids(d), res, "black")
  BY <1>4, <1>6, <1>7 DEF Went
<1>9. QED BY <1>8, WaitsFacts DEF Well

-----------------------------------------------------------------------------
(*************************************************************************)
(* Ranks.  Steps without a cycle can be numbered so that each comes after *)
(* what it waits for, and then what is upstream of a step is well defined. *)
(*************************************************************************)

\* Of any steps there is one that waits for none of the others.
Acyclic(n, dep) == \A T \in SUBSET (1 .. n) : T # {} => \E t \in T : dep[t] \cap T = {}

\* Such steps can be ranked.
LEMMA RankExists ==
    ASSUME NEW n \in Nat, NEW dep \in [1 .. n -> SUBSET (1 .. n)], Acyclic(n, dep)
    PROVE  \E rank \in [1 .. n -> 1 .. n] : \A s \in 1 .. n : \A e \in dep[s] : rank[e] < rank[s]
<1> DEFINE Ranked(k, S, r) == /\ S \subseteq 1 .. n /\ Cardinality(S) = k
                              /\ r \in [S -> 1 .. k]
                              /\ \A s \in S : dep[s] \subseteq S
                              /\ \A s \in S : \A e \in dep[s] : r[e] < r[s]
           Hard == {k \in 0 .. n : ~ \E S, r : Ranked(k, S, r)}
<1>1. IsFiniteSet(1 .. n) /\ Cardinality(1 .. n) = n
  BY FS_Interval
<1>2. ASSUME Hard # {} PROVE FALSE
  <2>1. PICK k \in Hard : \A m \in Hard : k <= m
    <3>1. Hard \subseteq Nat
      OBVIOUS
    <3> HIDE DEF Hard
    <3>2. QED BY <1>2, <3>1, SmallestNumber
  <2>2. k \in 0 .. n /\ ~ \E S, r : Ranked(k, S, r)
    BY <2>1
  <2>3. CASE k = 0
    <3>1. Ranked(0, {}, <<>>)
      BY FS_EmptySet
    <3>2. QED BY <2>2, <2>3, <3>1
  <2>4. CASE k # 0
    <3> DEFINE j == k - 1
    <3>1. j \in 0 .. n /\ ~(k <= j) /\ j < n /\ k = j + 1 /\ j \in Nat
      BY <2>2, <2>4
    <3>2. \E S, r : Ranked(j, S, r)
      <4>1. j \notin Hard
        <5> HIDE DEF j, Hard
        <5>1. QED BY <2>1, <3>1
      <4>2. QED BY <3>1, <4>1
    <3> HIDE DEF j, Hard
    <3>3. PICK S, r : Ranked(j, S, r)
      BY <3>2
    <3>4. /\ S \subseteq 1 .. n /\ Cardinality(S) = j
          /\ r \in [S -> 1 .. j]
          /\ \A s \in S : dep[s] \subseteq S
          /\ \A s \in S : \A e \in dep[s] : r[e] < r[s]
      BY <3>3
    <3>5. PICK t \in (1 .. n) \ S : dep[t] \cap ((1 .. n) \ S) = {}
      <4>1. (1 .. n) \ S # {}
        <5>1. ASSUME (1 .. n) \ S = {} PROVE FALSE
          <6>1. S = 1 .. n
            BY <3>4, <5>1
          <6>2. j = n
            BY <1>1, <3>4, <6>1
          <6>3. QED BY <3>1, <6>2
        <5>2. QED BY <5>1
      <4>2. QED BY <4>1 DEF Acyclic
    <3>6. dep[t] \subseteq S /\ t \in 1 .. n /\ t \notin S
      BY <3>5
    <3> DEFINE S2 == S \cup {t}
               r2 == [s \in S2 |-> IF s = t THEN k ELSE r[s]]
    <3>7. Cardinality(S2) = k
      <4>1. IsFiniteSet(S)
        BY <1>1, <3>4, FS_Subset
      <4>2. QED BY <3>1, <3>4, <3>6, <4>1, FS_AddElement
    <3>8. \A s \in S : r[s] \in 1 .. j /\ r2[s] = r[s]
      BY <3>4, <3>6
    <3>9. r2[t] = k
      OBVIOUS
    <3>10. r2 \in [S2 -> 1 .. k]
      <4>1. \A s \in S2 : (IF s = t THEN k ELSE r[s]) \in 1 .. k
        BY <3>1, <3>4
      <4>2. QED BY <4>1
    <3>11. \A s \in S2 : dep[s] \subseteq S
      BY <3>4, <3>6
    <3> HIDE DEF r2
    <3>12. \A s \in S2 : \A e \in dep[s] : r2[e] < r2[s]
      <4> SUFFICES ASSUME NEW s \in S2, NEW e \in dep[s] PROVE r2[e] < r2[s]
        OBVIOUS
      <4>1. e \in S /\ r2[e] = r[e] /\ r[e] \in 1 .. j
        BY <3>8, <3>11
      <4>2. CASE s = t
        BY <3>1, <3>9, <4>1, <4>2
      <4>3. CASE s \in S
        BY <3>4, <3>8, <4>1, <4>3
      <4>4. QED BY <4>2, <4>3
    <3>13. S2 \subseteq 1 .. n /\ \A s \in S2 : dep[s] \subseteq S2
      BY <3>4, <3>6, <3>11
    <3> HIDE DEF S2
    <3>14. Ranked(k, S2, r2)
      BY <3>7, <3>10, <3>12, <3>13
    <3>15. QED BY <2>2, <3>14
  <2>5. QED BY <2>3, <2>4
<1>3. PICK S, r : Ranked(n, S, r)
  <2>1. n \in 0 .. n
    OBVIOUS
  <2>2. QED BY <1>2, <2>1
<1>4. S = 1 .. n
  BY <1>1, <1>3, FS_Subset
<1>5. QED BY <1>3, <1>4

\* What the recursion that defines Upstream yields.
LEMMA UpstreamExists ==
    ASSUME NEW n \in Nat, NEW dep \in [1 .. n -> SUBSET (1 .. n)],
           NEW rank \in [1 .. n -> 1 .. n], \A s \in 1 .. n : \A e \in dep[s] : rank[e] < rank[s]
    PROVE  \E f : f = [s \in 1 .. n |-> dep[s] \cup UNION {f[e] : e \in dep[s]}]
<1>2. \A s \in 1 .. n : rank[s] \in Nat /\ rank[s] > 0 /\ rank[s] <= n /\ dep[s] \subseteq 1 .. n
  OBVIOUS
<1> DEFINE Below(k) == {s \in 1 .. n : rank[s] <= k}
           Fits(k) == \E f : DOMAIN f = Below(k) /\ f = [s \in Below(k) |-> f[s]] /\ \A s \in Below(k) :
                          f[s] = dep[s] \cup UNION {f[e] : e \in dep[s]}
           Bad == {k \in Nat : ~Fits(k)}
<1>3. ASSUME Bad # {} PROVE FALSE
  <2>1. PICK k \in Bad : \A m \in Bad : k <= m
    <3>1. Bad \subseteq Nat
      OBVIOUS
    <3> HIDE DEF Bad
    <3>2. QED BY <1>3, <3>1, SmallestNumber
  <2>2. k \in Nat /\ ~Fits(k)
    BY <2>1
  <2>3. k # 0
    <3>1. Below(0) = {}
      BY <1>2
    <3>2. DOMAIN [s \in {} |-> {}] = Below(0)
      BY <3>1
    <3>3. Fits(0)
      BY <3>1, <3>2
    <3> HIDE DEF Fits
    <3>4. QED BY <2>2, <3>3
  <2>4. k - 1 \in Nat /\ Fits(k - 1)
    <3>1. k - 1 \in Nat /\ ~(k <= k - 1)
      BY <2>2, <2>3
    <3>2. k - 1 \notin Bad
      <4> HIDE DEF Bad
      <4>1. QED BY <2>1, <3>1
    <3>3. QED BY <3>1, <3>2
  <2>5. PICK f : \A s \in Below(k - 1) : f[s] = dep[s] \cup UNION {f[e] : e \in dep[s]}
    BY <2>4
  <2> DEFINE g == [s \in Below(k) |-> dep[s] \cup UNION {f[e] : e \in dep[s]}]
  <2>6. ASSUME NEW s \in Below(k), NEW e \in dep[s] PROVE e \in Below(k - 1)
    BY <1>2, <2>2, <2>4
  <2>7. ASSUME NEW e \in Below(k - 1) PROVE e \in Below(k) /\ g[e] = f[e]
    <3>1. e \in Below(k)
      BY <1>2, <2>2, <2>4
    <3>2. QED BY <2>5, <3>1
  <2>8. ASSUME NEW s \in Below(k)
        PROVE  g[s] = dep[s] \cup UNION {g[e] : e \in dep[s]}
    <3>1. \A e \in dep[s] : g[e] = f[e]
      BY <2>6, <2>7
    <3>2. g[s] = dep[s] \cup UNION {f[e] : e \in dep[s]}
      OBVIOUS
    <3> HIDE DEF g, Below
    <3>3. QED BY <3>1, <3>2
  <2>9. DOMAIN g = Below(k) /\ g = [s \in Below(k) |-> g[s]]
    OBVIOUS
  <2>10. Fits(k)
    <3> HIDE DEF g, Below
    <3>1. QED BY <2>8, <2>9
  <2>11. QED BY <2>2, <2>10
<1>4. Fits(n)
  BY <1>3
<1>5. Below(n) = 1 .. n
  BY <1>2
<1> HIDE DEF Below
<1>6. PICK f : f = [s \in 1 .. n |-> f[s]] /\ \A s \in 1 .. n : f[s] = dep[s] \cup UNION {f[e] : e \in dep[s]}
  BY <1>4, <1>5
<1>7. f = [s \in 1 .. n |-> dep[s] \cup UNION {f[e] : e \in dep[s]}]
  BY <1>6
<1>8. QED BY <1>7

-----------------------------------------------------------------------------
(*************************************************************************)
(* What the driver is handed.                                            *)
(*************************************************************************)

DepsOf(d) == [i \in DOMAIN d.steps |-> {IndexOf(d, id) : id \in ToSet(d.steps[i].deps)}]
FanOf(d) == [i \in DOMAIN d.steps |-> CopiesFor(d.pattern, d.steps[i])]
QuotaOf(d) == [i \in DOMAIN d.steps |-> CASE d.steps[i].join = "any" -> 1
                                          [] d.steps[i].join = "count" -> d.steps[i].count
                                          [] OTHER -> 0]
RetryOf(d) == [i \in DOMAIN d.steps |-> IF d.steps[i].retry = -1 THEN 0 ELSE d.steps[i].retry]

Climbs(n, dep, rank) == \A s \in 1 .. n : \A e \in dep[s] : rank[e] < rank[s]

\* What the validation establishes.  detect_cycle is here by what it lets through.
Accepted(d) ==
    /\ Named(d)
    /\ d.steps # <<>>
    /\ \A s \in Declared(d) : StepOk(d, s)
    /\ StreamsRead(d)
    /\ RefsOk(d)
    /\ Acyclic(Len(d.steps), DepsOf(d))
    /\ PatternOk(d)

LEMMA DrivenMeans ==
    ASSUME NEW d, DOMAIN d.steps = 1 .. Len(d.steps),
           Len(d.steps) \in Nat \ {0},
           DepsOf(d) \in [1 .. Len(d.steps) -> SUBSET (1 .. Len(d.steps))],
           \E rank \in [1 .. Len(d.steps) -> 1 .. Len(d.steps)] : Climbs(Len(d.steps), DepsOf(d), rank),
           FanOf(d) \in [1 .. Len(d.steps) -> Nat \ {0}],
           QuotaOf(d) \in [1 .. Len(d.steps) -> Nat],
           \A i \in 1 .. Len(d.steps) : QuotaOf(d)[i] <= FanOf(d)[i],
           \A i \in 1 .. Len(d.steps) :
               d.steps[i].join = "reply" => d.steps[i].kickoff /\ QuotaOf(d)[i] = 0,
           RetryOf(d) \in [1 .. Len(d.steps) -> Nat],
           \A i \in 1 .. Len(d.steps) : d.steps[i].condition # "unset" =>
               FanOf(d)[i] = 1 /\ \E e \in 1 .. Len(d.steps) : DepsOf(d)[i] = {e} /\ FanOf(d)[e] = 1
    PROVE  Driven(d)!ValidWorkflow
<1> DEFINE N == Len(d.steps)
           ReplyAt == {i \in DOMAIN d.steps : d.steps[i].join = "reply"}
           TimeoutAt == {i \in DOMAIN d.steps : d.steps[i].timeout # 0}
           KickoffAt == {i \in DOMAIN d.steps : d.steps[i].kickoff}
           ConditionAt == {i \in DOMAIN d.steps : d.steps[i].condition # "unset"}
           AgentAt == [i \in DOMAIN d.steps |-> d.steps[i].agent]
<1>1. Driven(d)!Step = 1 .. N
  BY DEF Driven!Step
<1>2. ReplyAt = Where(d, LAMBDA s : s.join = "reply") /\ TimeoutAt = Where(d, LAMBDA s : s.timeout # 0)
  BY DEF Where
<1>3. KickoffAt = Where(d, LAMBDA s : s.kickoff) /\ ConditionAt = Where(d, LAMBDA s : s.condition # "unset")
  BY DEF Where
<1>4. /\ ReplyAt \subseteq KickoffAt /\ KickoffAt \subseteq 1 .. N
      /\ TimeoutAt \subseteq 1 .. N /\ ConditionAt \subseteq 1 .. N
      /\ DOMAIN AgentAt = 1 .. N
      /\ \A i \in ReplyAt : QuotaOf(d)[i] = 0
      /\ \A i \in ConditionAt : FanOf(d)[i] = 1 /\ \E e \in 1 .. N : DepsOf(d)[i] = {e} /\ FanOf(d)[e] = 1
  OBVIOUS
<1>5. \E rank \in [1 .. N -> 1 .. N] : \A s \in 1 .. N : \A e \in DepsOf(d)[s] : rank[e] < rank[s]
  BY DEF Climbs
<1> HIDE DEF ReplyAt, TimeoutAt, KickoffAt, ConditionAt, AgentAt
<1>6. Driven(d)!ValidWorkflow =
        (/\ N \in Nat \ {0}
         /\ DepsOf(d) \in [Driven(d)!Step -> SUBSET Driven(d)!Step]
         /\ \E rank \in [Driven(d)!Step -> Driven(d)!Step] :
                \A s \in Driven(d)!Step : \A e \in DepsOf(d)[s] : rank[e] < rank[s]
         /\ FanOf(d) \in [Driven(d)!Step -> Nat \ {0}]
         /\ QuotaOf(d) \in [Driven(d)!Step -> Nat]
         /\ \A s \in Driven(d)!Step : QuotaOf(d)[s] <= FanOf(d)[s]
         /\ Where(d, LAMBDA s : s.kickoff) \subseteq Driven(d)!Step
         /\ Where(d, LAMBDA s : s.join = "reply") \subseteq Where(d, LAMBDA s : s.kickoff)
         /\ \A s \in Where(d, LAMBDA s : s.join = "reply") : QuotaOf(d)[s] = 0
         /\ RetryOf(d) \in [Driven(d)!Step -> Nat]
         /\ Where(d, LAMBDA s : s.timeout # 0) \subseteq Driven(d)!Step
         /\ Where(d, LAMBDA s : s.condition # "unset") \subseteq Driven(d)!Step
         /\ \A s \in Where(d, LAMBDA s : s.condition # "unset") :
                FanOf(d)[s] = 1 /\ \E e \in Driven(d)!Step : DepsOf(d)[s] = {e} /\ FanOf(d)[e] = 1
         /\ DOMAIN AgentAt = Driven(d)!Step)
  BY DEF Driven!ValidWorkflow, DepsOf, FanOf, QuotaOf, RetryOf, AgentAt
<1>7. QED BY <1>1, <1>2, <1>3, <1>4, <1>5, <1>6

LEMMA UpstreamIs ==
    ASSUME NEW d, DOMAIN d.steps = 1 .. Len(d.steps)
    PROVE  Driven(d)!Upstream =
               CHOOSE f : f = [s \in 1 .. Len(d.steps) |-> DepsOf(d)[s] \cup UNION {f[e] : e \in DepsOf(d)[s]}]
BY DEF Driven!Upstream, Driven!Step, DepsOf

LEMMA DepsFacts ==
    ASSUME NEW d, Named(d), RefsOk(d)
    PROVE  /\ DepsOf(d) \in [1 .. Len(d.steps) -> SUBSET (1 .. Len(d.steps))]
           /\ \A i \in 1 .. Len(d.steps) : \A id \in ToSet(d.steps[i].deps) :
                  /\ id \in Ids(d) /\ IndexOf(d, id) \in DepsOf(d)[i]
                  /\ d.steps[IndexOf(d, id)].id = id
           /\ \A i \in 1 .. Len(d.steps) : \A e \in DepsOf(d)[i] : d.steps[e].id \in ToSet(d.steps[i].deps)
           /\ ~DetectCycle(d) => Acyclic(Len(d.steps), DepsOf(d))
<1> DEFINE N == Len(d.steps)
<1>1. d \in WorkflowDecl /\ N \in Nat /\ DOMAIN d.steps = 1 .. N
  BY DeclFacts DEF Named
<1>2. ASSUME NEW i \in 1 .. N, NEW id \in ToSet(d.steps[i].deps)
      PROVE  id \in Ids(d) /\ IndexOf(d, id) \in 1 .. N /\ d.steps[IndexOf(d, id)].id = id
  <2>1. d.steps[i] \in Declared(d)
    BY <1>1, DeclFacts
  <2>2. Declares(d, id)
    BY <2>1 DEF RefsOk
  <2>3. QED BY <1>1, <2>2, IndexFacts
<1>3. \A i \in 1 .. N : DepsOf(d)[i] = {IndexOf(d, id) : id \in ToSet(d.steps[i].deps)}
  BY <1>1 DEF DepsOf
<1>4. DepsOf(d) \in [1 .. N -> SUBSET (1 .. N)]
  <2>1. DOMAIN DepsOf(d) = 1 .. N /\ DepsOf(d) = [i \in 1 .. N |-> DepsOf(d)[i]]
    BY <1>1 DEF DepsOf
  <2>2. \A i \in 1 .. N : DepsOf(d)[i] \in SUBSET (1 .. N)
    BY <1>2, <1>3
  <2>3. QED BY <2>1, <2>2
<1>5. \A i \in 1 .. N : \A e \in DepsOf(d)[i] : d.steps[e].id \in ToSet(d.steps[i].deps)
  BY <1>2, <1>3
<1>6. ASSUME ~DetectCycle(d) PROVE Acyclic(N, DepsOf(d))
  <2> SUFFICES ASSUME NEW T \in SUBSET (1 .. N), T # {}
               PROVE  \E t \in T : DepsOf(d)[t] \cap T = {}
    BY DEF Acyclic
  <2> DEFINE I == {d.steps[i].id : i \in T}
  <2>1. I \in SUBSET Ids(d) /\ I # {}
    BY OwnIndex
  <2>2. PICK id \in I : ToSet(StepOf(d, id).deps) \cap I = {}
    <3> HIDE DEF I
    <3>1. QED BY <1>6, <2>1, NoCycle
  <2>3. PICK t \in T : id = d.steps[t].id
    BY <2>2
  <2>4. StepOf(d, id) = d.steps[t]
    BY <2>3, OwnIndex DEF StepOf
  <2>5. ASSUME NEW e \in DepsOf(d)[t], e \in T PROVE FALSE
    <3>1. d.steps[e].id \in ToSet(d.steps[t].deps)
      BY <1>5
    <3>2. d.steps[e].id \in I
      BY <2>5
    <3>3. QED BY <2>2, <2>4, <3>1, <3>2
  <2>6. QED BY <2>5
<1>7. QED BY <1>2, <1>3, <1>4, <1>5, <1>6

LEMMA StepFacts ==
    ASSUME NEW d \in WorkflowDecl, NEW i \in 1 .. Len(d.steps)
    PROVE  LET s == d.steps[i]
           IN  /\ s \in Declared(d)
               /\ s.fan \in Nat /\ s.count \in Nat /\ s.retry \in Nat \cup {-1}
               /\ s.deps \in Seq(Nat \ {0}) /\ s.join \in JoinOn /\ s.handoff \in Nat
               /\ DOMAIN s.deps = 1 .. Len(s.deps) /\ Len(s.deps) \in Nat
               /\ s.kickoff \in BOOLEAN /\ s.onEach \in BOOLEAN
<1> DEFINE s == d.steps[i]
           q == s.deps
<1>1. s \in Declared(d) /\ s \in StepDecl
  BY DeclFacts
<1> HIDE DEF s
<1>2. /\ s.fan \in Nat /\ s.count \in Nat /\ s.retry \in Nat \cup {-1}
      /\ q \in Seq(Nat \ {0}) /\ s.join \in JoinOn /\ s.handoff \in Nat
  BY <1>1 DEF StepDecl
<1>3. s.kickoff \in BOOLEAN /\ s.onEach \in BOOLEAN
  BY <1>1 DEF StepDecl
<1> HIDE DEF q
<1>4. DOMAIN q = 1 .. Len(q) /\ Len(q) \in Nat
  BY <1>2
<1>5. QED BY <1>1, <1>2, <1>3, <1>4 DEF s, q

\* One dependency is the only one.
LEMMA SoleDep ==
    ASSUME NEW d, Named(d), RefsOk(d), NEW i \in 1 .. Len(d.steps), Len(d.steps[i].deps) = 1
    PROVE  LET s == d.steps[i]
           IN  /\ ToSet(s.deps) = {OnlyDep(s)} /\ s.deps = <<OnlyDep(s)>>
               /\ DepsOf(d)[i] = {IndexOf(d, OnlyDep(s))}
               /\ Declares(d, OnlyDep(s)) /\ IndexOf(d, OnlyDep(s)) \in 1 .. Len(d.steps)
<1> DEFINE q == d.steps[i].deps
<1>1. d \in WorkflowDecl /\ DOMAIN d.steps = 1 .. Len(d.steps)
  BY DeclFacts DEF Named
<1>2. q \in Seq(Nat \ {0}) /\ DOMAIN q = 1 .. Len(q) /\ Len(q) = 1 /\ d.steps[i] \in Declared(d)
  BY <1>1, StepFacts
<1>3. q[1] = OnlyDep(d.steps[i])
  BY DEF OnlyDep
<1>4. DepsOf(d)[i] = {IndexOf(d, id) : id \in ToSet(q)}
  BY <1>1 DEF DepsOf
<1>5. \A id \in ToSet(q) : Declares(d, id)
  BY <1>2 DEF RefsOk
<1> HIDE DEF q
<1>6. DOMAIN q = {1}
  BY <1>2
<1>7. ToSet(q) = {q[1]}
  BY <1>6 DEF ToSet
<1>8. q = <<q[1]>>
  BY <1>2
<1>9. QED BY <1>1, <1>3, <1>4, <1>5, <1>7, <1>8, IndexFacts DEF q

LEMMA FanFacts ==
    ASSUME NEW d, Accepted(d), NEW i \in 1 .. Len(d.steps)
    PROVE  /\ FanOf(d)[i] \in Nat \ {0} /\ QuotaOf(d)[i] \in Nat /\ RetryOf(d)[i] \in Nat
           /\ QuotaOf(d)[i] <= FanOf(d)[i]
           /\ FanOf(d)[i] = CopiesFor(d.pattern, d.steps[i])
           /\ d.steps[i].fan = 0 => FanOf(d)[i] = 1
           /\ d.steps[i].join = "reply" => QuotaOf(d)[i] = 0
<1> DEFINE s == d.steps[i]
<1>1. /\ d \in WorkflowDecl /\ DOMAIN d.steps = 1 .. Len(d.steps)
  BY DeclFacts DEF Accepted, Named
<1>2. s \in Declared(d) /\ s.fan \in Nat /\ s.count \in Nat /\ s.retry \in Nat \cup {-1}
  BY <1>1, StepFacts
<1>3. NumbersOk(d.pattern, s) /\ (d.pattern = "fan-out" => s.fan # 1)
  BY <1>2 DEF Accepted, StepOk, PatternOk
<1>4. /\ FanOf(d)[i] = CopiesFor(d.pattern, s)
      /\ QuotaOf(d)[i] = CASE s.join = "any" -> 1 [] s.join = "count" -> s.count [] OTHER -> 0
      /\ RetryOf(d)[i] = IF s.retry = -1 THEN 0 ELSE s.retry
  BY <1>1 DEF FanOf, QuotaOf, RetryOf
<1> HIDE DEF s
<1>5. CopiesFor(d.pattern, s) \in Nat \ {0} /\ (s.fan = 0 => CopiesFor(d.pattern, s) = 1)
  BY <1>2 DEF CopiesFor
<1>6. s.join = "count" => s.count <= CopiesFor(d.pattern, s)
  BY <1>2, <1>3 DEF NumbersOk, Within, CountLimit, CopiesFor
<1>7. QuotaOf(d)[i] \in Nat /\ QuotaOf(d)[i] <= FanOf(d)[i] /\ (s.join = "reply" => QuotaOf(d)[i] = 0)
  <2>1. CASE s.join = "any"
    BY <1>4, <1>5, <2>1
  <2>2. CASE s.join = "count"
    BY <1>2, <1>4, <1>5, <1>6, <2>2
  <2>3. CASE s.join # "any" /\ s.join # "count"
    BY <1>4, <1>5, <2>3
  <2>4. QED BY <2>1, <2>2, <2>3
<1>8. RetryOf(d)[i] \in Nat
  BY <1>2, <1>4
<1>9. QED BY <1>4, <1>5, <1>7, <1>8 DEF s

LEMMA DeclaredRank ==
    ASSUME NEW d, Accepted(d)
    PROVE  \E rank \in [1 .. Len(d.steps) -> 1 .. Len(d.steps)] : Climbs(Len(d.steps), DepsOf(d), rank)
<1>1. Named(d) /\ RefsOk(d) /\ Acyclic(Len(d.steps), DepsOf(d)) /\ Len(d.steps) \in Nat
  BY DeclFacts DEF Accepted, Named
<1>2. DepsOf(d) \in [1 .. Len(d.steps) -> SUBSET (1 .. Len(d.steps))]
  BY <1>1, DepsFacts
<1>3. QED BY <1>1, <1>2, RankExists DEF Climbs

\* What is accepted is what the model of the driver assumes.
LEMMA AcceptedIsValid ==
    ASSUME NEW d, Accepted(d)
    PROVE  Driven(d)!ValidWorkflow
<1> DEFINE N == Len(d.steps)
<1>1. /\ d \in WorkflowDecl /\ N \in Nat /\ DOMAIN d.steps = 1 .. N
      /\ Named(d) /\ RefsOk(d) /\ d.steps # <<>>
  BY DeclFacts DEF Accepted, Named
<1>2. N # 0
  BY <1>1, DeclFacts
<1>3. DepsOf(d) \in [1 .. N -> SUBSET (1 .. N)]
  BY <1>1, DepsFacts
<1>4. \E rank \in [1 .. N -> 1 .. N] : Climbs(N, DepsOf(d), rank)
  BY DeclaredRank
<1>5. /\ FanOf(d) = [i \in 1 .. N |-> FanOf(d)[i]] /\ QuotaOf(d) = [i \in 1 .. N |-> QuotaOf(d)[i]]
      /\ RetryOf(d) = [i \in 1 .. N |-> RetryOf(d)[i]]
  BY <1>1 DEF FanOf, QuotaOf, RetryOf
<1>6. FanOf(d) \in [1 .. N -> Nat \ {0}] /\ QuotaOf(d) \in [1 .. N -> Nat] /\ RetryOf(d) \in [1 .. N -> Nat]
  BY <1>5, FanFacts
<1>7. \A i \in 1 .. N : QuotaOf(d)[i] <= FanOf(d)[i]
  BY FanFacts
<1>8. ASSUME NEW i \in 1 .. N
      PROVE  StepOk(d, d.steps[i]) /\ d.steps[i] \in Declared(d)
  BY <1>1, StepFacts DEF Accepted
<1>9. \A i \in 1 .. N : d.steps[i].join = "reply" => d.steps[i].kickoff /\ QuotaOf(d)[i] = 0
  BY <1>8, FanFacts DEF StepOk, ReplyOk
<1>10. ASSUME NEW i \in 1 .. N, d.steps[i].condition # "unset"
       PROVE  FanOf(d)[i] = 1 /\ \E e \in 1 .. N : DepsOf(d)[i] = {e} /\ FanOf(d)[e] = 1
  <2> DEFINE s == d.steps[i]
             e == IndexOf(d, OnlyDep(s))
  <2>1. ConditionOk(d, s)
    BY <1>8 DEF StepOk
  <2>2. Len(s.deps) = 1 /\ s.fan = 0 /\ (Declares(d, OnlyDep(s)) => StepOf(d, OnlyDep(s)).fan = 0)
    BY <1>10, <2>1 DEF ConditionOk
  <2>3. DepsOf(d)[i] = {e} /\ Declares(d, OnlyDep(s)) /\ e \in 1 .. N
    BY <1>1, <2>2, SoleDep
  <2>4. d.steps[e].fan = 0
    BY <2>2, <2>3 DEF StepOf
  <2> HIDE DEF e
  <2>5. FanOf(d)[e] = 1 /\ FanOf(d)[i] = 1
    BY <2>2, <2>3, <2>4, FanFacts
  <2>6. QED BY <2>3, <2>5
<1>11. QED BY <1>1, <1>2, <1>3, <1>4, <1>6, <1>7, <1>9, <1>10, DrivenMeans

-----------------------------------------------------------------------------
(*************************************************************************)
(* What is carried, streamed and handed over.  Of a handoff, whose steps are *)
(* each handed to by the one step they wait for, any two can be compared. *)
(*************************************************************************)

\* U has what a step waits for, directly or not.
Above(n, dep, U) == \A s \in 1 .. n : U[s] = dep[s] \cup UNION {U[e] : e \in dep[s]}

\* A counterexample to anything about ranked steps has one of least rank.
LEMMA LeastRank ==
    ASSUME NEW n \in Nat, NEW rank \in [1 .. n -> 1 .. n], NEW T \in SUBSET (1 .. n), T # {}
    PROVE  \E t \in T : \A s \in T : ~(rank[s] < rank[t])
<1> DEFINE R == {rank[t] : t \in T}
<1>1. R \subseteq Nat /\ R # {}
  <2>1. \A t \in 1 .. n : rank[t] \in 1 .. n
    OBVIOUS
  <2>2. \A t \in 1 .. n : rank[t] \in Nat
    BY <2>1
  <2>3. QED BY <2>2
<1>2. PICK m \in R : \A k \in R : m <= k
  <2> HIDE DEF R
  <2>1. QED BY <1>1, SmallestNumber
<1>3. PICK t \in T : m = rank[t]
  BY <1>2
<1>4. ASSUME NEW s \in T PROVE ~(rank[s] < rank[t])
  <2>1. rank[s] \in R
    OBVIOUS
  <2>2. m <= rank[s]
    <3> HIDE DEF R
    <3>1. QED BY <1>2, <2>1
  <2>3. rank[s] \in Nat /\ rank[t] \in Nat
    BY <1>1, <1>3, <2>1
  <2>4. QED BY <1>3, <2>2, <2>3
<1>5. QED BY <1>4

LEMMA LineOfSteps ==
    ASSUME NEW n \in Nat, NEW dep \in [1 .. n -> SUBSET (1 .. n)],
           NEW rank \in [1 .. n -> 1 .. n], Climbs(n, dep, rank),
           NEW U, Above(n, dep, U),
           NEW r \in 1 .. n, dep[r] = {},
           \A i \in 1 .. n : i # r => \E h \in 1 .. n : dep[i] = {h},
           \A i, j \in 1 .. n : i # r /\ j # r /\ dep[i] = dep[j] => i = j
    PROVE  \A i, j \in 1 .. n : i # j => i \in U[j] \/ j \in U[i]
<1>1. \A s \in 1 .. n : /\ dep[s] \subseteq 1 .. n /\ dep[s] \subseteq U[s]
                        /\ \A e \in dep[s] : U[e] \subseteq U[s] /\ rank[e] < rank[s]
  <2> SUFFICES ASSUME NEW s \in 1 .. n
               PROVE  /\ dep[s] \subseteq 1 .. n /\ dep[s] \subseteq U[s]
                      /\ \A e \in dep[s] : U[e] \subseteq U[s] /\ rank[e] < rank[s]
    OBVIOUS
  <2>1. dep[s] \subseteq 1 .. n
    OBVIOUS
  <2>2. \A e \in dep[s] : rank[e] < rank[s]
    BY DEF Climbs
  <2>3. U[s] = dep[s] \cup UNION {U[e] : e \in dep[s]}
    BY DEF Above
  <2>4. dep[s] \subseteq U[s] /\ \A e \in dep[s] : U[e] \subseteq U[s]
    BY ONLY <2>3
  <2>5. QED BY <2>1, <2>2, <2>4
<1>2. \A j \in 1 .. n : j # r => r \in U[j]
  <2> DEFINE T == {j \in 1 .. n : j # r /\ r \notin U[j]}
  <2>1. ASSUME T # {} PROVE FALSE
    <3>1. PICK j \in T : \A s \in T : ~(rank[s] < rank[j])
      <4>1. T \in SUBSET (1 .. n)
        OBVIOUS
      <4> HIDE DEF T
      <4>2. QED BY <2>1, <4>1, LeastRank
    <3>2. PICK h \in 1 .. n : dep[j] = {h}
      BY <3>1
    <3>3. rank[h] < rank[j] /\ h \in U[j] /\ U[h] \subseteq U[j]
      BY <1>1, <3>1, <3>2
    <3>4. h # r
      BY <3>1, <3>3
    <3>5. h \notin T
      BY <3>1, <3>3
    <3>6. QED BY <3>1, <3>2, <3>3, <3>4, <3>5
  <2>2. QED BY <2>1
<1>3. \A j \in 1 .. n : \A p \in U[j] : \E c \in 1 .. n : p \in dep[c] /\ (c = j \/ c \in U[j])
  <2> DEFINE T == {j \in 1 .. n : \E p \in U[j] : ~ \E c \in 1 .. n : p \in dep[c] /\ (c = j \/ c \in U[j])}
  <2>1. ASSUME T # {} PROVE FALSE
    <3>1. PICK j \in T : \A s \in T : ~(rank[s] < rank[j])
      <4>1. T \in SUBSET (1 .. n)
        OBVIOUS
      <4> HIDE DEF T
      <4>2. QED BY <2>1, <4>1, LeastRank
    <3>2. PICK p \in U[j] : ~ \E c \in 1 .. n : p \in dep[c] /\ (c = j \/ c \in U[j])
      BY <3>1
    <3>3. j \in 1 .. n
      BY <3>1
    <3>4. p \notin dep[j]
      BY <3>2, <3>3
    <3>5. PICK e \in dep[j] : p \in U[e]
      <4>1. U[j] = dep[j] \cup UNION {U[e] : e \in dep[j]}
        BY <3>3 DEF Above
      <4>2. p \in UNION {U[e] : e \in dep[j]}
        BY <3>2, <3>4, <4>1
      <4>3. QED BY ONLY <4>2
    <3>6. e \in 1 .. n /\ rank[e] < rank[j] /\ U[e] \subseteq U[j] /\ e \in U[j]
      BY <1>1, <3>3
    <3>7. e \notin T
      BY <3>1, <3>6
    <3>8. PICK c \in 1 .. n : p \in dep[c] /\ (c = e \/ c \in U[e])
      BY <3>5, <3>6, <3>7
    <3>9. QED BY <3>2, <3>6, <3>8
  <2>2. QED BY <2>1
<1> DEFINE T == {i \in 1 .. n : \E j \in 1 .. n : i # j /\ i \notin U[j] /\ j \notin U[i]}
<1>4. ASSUME T # {} PROVE FALSE
  <2>1. PICK i \in T : \A s \in T : ~(rank[s] < rank[i])
    <3>1. T \in SUBSET (1 .. n)
      OBVIOUS
    <3> HIDE DEF T
    <3>2. QED BY <1>4, <3>1, LeastRank
  <2>2. PICK j \in 1 .. n : i # j /\ i \notin U[j] /\ j \notin U[i]
    BY <2>1
  <2>3. i \in 1 .. n /\ i # r /\ j # r
    BY <1>2, <2>1, <2>2
  <2>4. PICK h \in 1 .. n : dep[i] = {h}
    BY <2>3
  <2>5. rank[h] < rank[i] /\ h \in U[i] /\ U[h] \subseteq U[i]
    BY <1>1, <2>3, <2>4
  <2>6. h \notin T /\ h # j
    BY <2>1, <2>2, <2>5
  <2>7. h \in U[j] \/ j \in U[h]
    BY <2>6
  <2>8. h \in U[j]
    BY <2>2, <2>5, <2>7
  <2>9. PICK c \in 1 .. n : h \in dep[c] /\ (c = j \/ c \in U[j])
    BY <1>3, <2>8
  <2>10. c # r
    BY <2>9
  <2>11. dep[c] = dep[i]
    <3>1. PICK g \in 1 .. n : dep[c] = {g}
      BY <2>10
    <3>2. h = g
      BY <2>9, <3>1
    <3>3. QED BY <2>4, <3>1, <3>2
  <2>12. c = i
    BY <2>3, <2>10, <2>11
  <2>13. QED BY <2>2, <2>9, <2>12
<1>5. QED BY <1>4

LEMMA UpstreamLaw ==
    ASSUME NEW d, Accepted(d)
    PROVE  /\ Above(Len(d.steps), DepsOf(d), Driven(d)!Upstream)
           /\ \A i \in 1 .. Len(d.steps) : DepsOf(d)[i] \subseteq Driven(d)!Upstream[i]
<1> DEFINE N == Len(d.steps)
           U == Driven(d)!Upstream
<1>1. Named(d) /\ RefsOk(d) /\ N \in Nat /\ DOMAIN d.steps = 1 .. N
  BY DeclFacts DEF Accepted, Named
<1>2. DepsOf(d) \in [1 .. N -> SUBSET (1 .. N)]
  BY <1>1, DepsFacts
<1>3. PICK rank \in [1 .. N -> 1 .. N] : Climbs(N, DepsOf(d), rank)
  BY DeclaredRank
<1>4. U = CHOOSE f : f = [s \in 1 .. N |-> DepsOf(d)[s] \cup UNION {f[e] : e \in DepsOf(d)[s]}]
  BY <1>1, UpstreamIs
<1> HIDE DEF U, N
<1>5. \E f : f = [s \in 1 .. N |-> DepsOf(d)[s] \cup UNION {f[e] : e \in DepsOf(d)[s]}]
  <2>1. \A s \in 1 .. N : \A e \in DepsOf(d)[s] : rank[e] < rank[s]
    BY <1>3 DEF Climbs
  <2>2. QED BY <1>1, <1>2, <2>1, UpstreamExists
<1>6. U = [s \in 1 .. N |-> DepsOf(d)[s] \cup UNION {U[e] : e \in DepsOf(d)[s]}]
  <2> DEFINE F(f) == [s \in 1 .. N |-> DepsOf(d)[s] \cup UNION {f[e] : e \in DepsOf(d)[s]}]
  <2>1. U = CHOOSE f : f = F(f)
    BY <1>4
  <2>2. \E f : f = F(f)
    BY <1>5
  <2>3. U = F(U)
    <3> HIDE DEF F
    <3>1. QED BY ONLY <2>1, <2>2
  <2>4. QED BY <2>3
<1>7. \A s \in 1 .. N : U[s] = DepsOf(d)[s] \cup UNION {U[e] : e \in DepsOf(d)[s]}
  BY <1>6
<1>8. QED BY <1>7 DEF Above, U, N

LEMMA AcceptedCarriesForward ==
    ASSUME NEW d, Accepted(d)
    PROVE  CarriesForward(d)
<1>1. /\ d \in WorkflowDecl /\ Named(d) /\ RefsOk(d) /\ DOMAIN d.steps = 1 .. Len(d.steps)
  BY DeclFacts DEF Accepted, Named
<1>2. ASSUME NEW i \in 1 .. Len(d.steps), d.steps[i].handoff # 0
      PROVE  /\ i \in Driven(d)!Upstream[IndexOf(d, d.steps[i].handoff)]
             /\ CopiesFor(d.pattern, d.steps[i]) = 1
  <2> DEFINE s == d.steps[i]
             j == IndexOf(d, s.handoff)
  <2>1. StepOk(d, s)
    BY <1>1, StepFacts DEF Accepted
  <2>2. Declares(d, s.handoff) /\ s.fan = 0 /\ s.id \in ToSet(StepOf(d, s.handoff).deps)
    BY <1>2, <2>1 DEF StepOk, HandoffOk
  <2>3. j \in 1 .. Len(d.steps) /\ StepOf(d, s.handoff) = d.steps[j]
    BY <1>1, <2>2, IndexFacts
  <2>4. IndexOf(d, s.id) = i
    BY <1>1, OwnIndex
  <2> HIDE DEF j
  <2>5. i \in DepsOf(d)[j]
    BY <1>1, <2>2, <2>3, <2>4, DepsFacts
  <2>6. i \in Driven(d)!Upstream[j]
    BY <2>3, <2>5, UpstreamLaw
  <2>7. CopiesFor(d.pattern, s) = 1
    BY <2>2 DEF CopiesFor
  <2>8. QED BY <2>6, <2>7 DEF j
<1>3. QED BY <1>1, <1>2 DEF CarriesForward

LEMMA AcceptedPairsStreams ==
    ASSUME NEW d, Accepted(d)
    PROVE  StreamsPaired(d)
<1>1. /\ d \in WorkflowDecl /\ Named(d) /\ RefsOk(d) /\ DOMAIN d.steps = 1 .. Len(d.steps)
  BY DeclFacts DEF Accepted, Named
<1>2. \A i \in 1 .. Len(d.steps) : StepOk(d, d.steps[i]) /\ d.steps[i] \in Declared(d)
  BY <1>1, StepFacts DEF Accepted
<1>3. ASSUME NEW i \in 1 .. Len(d.steps), d.steps[i].join = "stream"
      PROVE  /\ d.steps[i].kickoff
             /\ \E j \in 1 .. Len(d.steps) : d.steps[j].onEach /\ i \in Driven(d)!Upstream[j]
  <2>1. d.steps[i].kickoff
    BY <1>2, <1>3 DEF StepOk, StreamOk
  <2>2. PICK t \in Declared(d) : t.onEach /\ d.steps[i].id \in ToSet(t.deps)
    BY <1>2, <1>3 DEF Accepted, StreamsRead
  <2>3. PICK j \in 1 .. Len(d.steps) : t = d.steps[j]
    BY <1>1, DeclFacts
  <2>4. IndexOf(d, d.steps[i].id) = i
    BY <1>1, OwnIndex
  <2>5. i \in DepsOf(d)[j]
    BY <1>1, <2>2, <2>3, <2>4, DepsFacts
  <2>6. i \in Driven(d)!Upstream[j]
    BY <2>5, UpstreamLaw
  <2>7. QED BY <2>1, <2>2, <2>3, <2>6
<1>4. ASSUME NEW j \in 1 .. Len(d.steps), d.steps[j].onEach
      PROVE  \E i \in 1 .. Len(d.steps) : d.steps[j].deps = <<d.steps[i].id>> /\ d.steps[i].join = "stream"
  <2> DEFINE s == d.steps[j]
             i == IndexOf(d, OnlyDep(s))
  <2>1. Len(s.deps) = 1 /\ Declares(d, OnlyDep(s)) /\ StepOf(d, OnlyDep(s)).join = "stream"
    BY <1>2, <1>4 DEF StepOk, OnEachOk
  <2>2. s.deps = <<OnlyDep(s)>> /\ i \in 1 .. Len(d.steps)
    BY <1>1, <2>1, SoleDep
  <2>3. d.steps[i].id = OnlyDep(s) /\ StepOf(d, OnlyDep(s)) = d.steps[i]
    BY <1>1, <2>1, IndexFacts
  <2> HIDE DEF i
  <2>4. QED BY <2>1, <2>2, <2>3
<1>5. QED BY <1>1, <1>3, <1>4 DEF StreamsPaired

\* Every step of a handoff but its root is handed to by the one step it waits for.
LEMMA HandedTo ==
    ASSUME NEW d, Accepted(d), d.pattern = "handoff"
    PROVE  \E r \in 1 .. Len(d.steps) :
              /\ DepsOf(d)[r] = {}
              /\ \A i \in 1 .. Len(d.steps) : i # r =>
                    \E h \in 1 .. Len(d.steps) : DepsOf(d)[i] = {h} /\ d.steps[h].handoff = d.steps[i].id
<1>1. /\ d \in WorkflowDecl /\ Named(d) /\ RefsOk(d) /\ DOMAIN d.steps = 1 .. Len(d.steps)
  BY DeclFacts DEF Accepted, Named
<1>2. /\ \A s \in Declared(d) : s.handoff # 0 => StepOf(d, s.handoff).deps = <<s.id>>
      /\ ChainCovers(d)
  BY DEF Accepted, PatternOk
<1>3. \A s \in Declared(d) : s.handoff # 0 => Declares(d, s.handoff)
  BY DEF Accepted, StepOk, HandoffOk
<1>4. PICK root \in Roots(d) : Chain(d, root) = Ids(d)
  BY <1>2 DEF ChainCovers, Ids
<1>5. root \in Declared(d) /\ root.deps = <<>> /\ root.id \in Ids(d)
  BY DEF Roots, Ids
<1> DEFINE X == {id \in Ids(d) : id = root.id \/ \E s \in Declared(d) : s.handoff # 0 /\ s.handoff = id}
<1>6. Ids(d) \subseteq X
  <2>1. root.id \in X
    BY <1>5
  <2>2. ASSUME NEW id \in X PROVE StepOf(d, id).handoff \in X \cup {0}
    <3> DEFINE s == StepOf(d, id)
    <3>1. s \in Declared(d)
      BY <1>1, IndexFacts
    <3>2. CASE s.handoff = 0
      BY <3>2
    <3>3. CASE s.handoff # 0
      <4>1. s.handoff \in Ids(d)
        BY <1>1, <1>3, <3>1, <3>3, IndexFacts
      <4>2. s.handoff \in X
        BY <3>1, <3>3, <4>1
      <4>3. QED BY <4>2
    <3>4. QED BY <3>2, <3>3
  <2>3. X \in SUBSET Ids(d)
    OBVIOUS
  <2> HIDE DEF X
  <2>4. Chain(d, root) \subseteq X
    BY <2>1, <2>2, <2>3 DEF Chain, Ids
  <2>5. QED BY <1>4, <2>4
<1>7. PICK r \in 1 .. Len(d.steps) : root = d.steps[r]
  BY <1>1, <1>5, DeclFacts
<1>8. DepsOf(d)[r] = {}
  <2>1. ToSet(d.steps[r].deps) = {}
    BY <1>5, <1>7 DEF ToSet
  <2>2. QED BY <1>1, <2>1 DEF DepsOf
<1>9. ASSUME NEW i \in 1 .. Len(d.steps), i # r
      PROVE  \E h \in 1 .. Len(d.steps) : DepsOf(d)[i] = {h} /\ d.steps[h].handoff = d.steps[i].id
  <2>1. d.steps[i].id \in Ids(d) /\ IndexOf(d, d.steps[i].id) = i /\ IndexOf(d, root.id) = r
    BY <1>1, <1>7, OwnIndex
  <2>2. PICK s \in Declared(d) : s.handoff # 0 /\ s.handoff = d.steps[i].id
    <3>1. d.steps[i].id # root.id
      BY <1>9, <2>1
    <3>2. QED BY <1>6, <2>1, <3>1
  <2>3. PICK h \in 1 .. Len(d.steps) : s = d.steps[h]
    BY <1>1, DeclFacts
  <2>4. StepOf(d, d.steps[i].id) = d.steps[i]
    BY <2>1 DEF StepOf
  <2>5. d.steps[i].deps = <<d.steps[h].id>>
    BY <1>2, <2>2, <2>3, <2>4
  <2>6. Len(d.steps[i].deps) = 1 /\ OnlyDep(d.steps[i]) = d.steps[h].id
    BY <2>5 DEF OnlyDep
  <2>7. IndexOf(d, d.steps[h].id) = h
    BY <1>1, OwnIndex
  <2>8. DepsOf(d)[i] = {h}
    BY <1>1, <2>6, <2>7, SoleDep
  <2>9. QED BY <2>2, <2>3, <2>8
<1>10. QED BY <1>8, <1>9

LEMMA AcceptedIsALine ==
    ASSUME NEW d, Accepted(d)
    PROVE  ChainIsALine(d)
<1> DEFINE N == Len(d.steps)
           U == Driven(d)!Upstream
<1>1. /\ d \in WorkflowDecl /\ Named(d) /\ RefsOk(d) /\ DOMAIN d.steps = 1 .. N /\ N \in Nat
  BY DeclFacts DEF Accepted, Named
<1>2. SUFFICES ASSUME d.pattern = "handoff"
               PROVE  \A i, j \in 1 .. N : i # j => i \in U[j] \/ j \in U[i]
  BY <1>1 DEF ChainIsALine
<1>3. DepsOf(d) \in [1 .. N -> SUBSET (1 .. N)] /\ Above(N, DepsOf(d), U)
  BY <1>1, DepsFacts, UpstreamLaw
<1>4. PICK rank \in [1 .. N -> 1 .. N] : Climbs(N, DepsOf(d), rank)
  BY DeclaredRank
<1>5. PICK r \in 1 .. N :
              /\ DepsOf(d)[r] = {}
              /\ \A i \in 1 .. N : i # r =>
                    \E h \in 1 .. N : DepsOf(d)[i] = {h} /\ d.steps[h].handoff = d.steps[i].id
  BY <1>2, HandedTo
<1>6. ASSUME NEW i \in 1 .. N, NEW j \in 1 .. N, i # r, j # r, DepsOf(d)[i] = DepsOf(d)[j]
      PROVE  i = j
  <2>1. PICK g \in 1 .. N : DepsOf(d)[i] = {g} /\ d.steps[g].handoff = d.steps[i].id
    BY <1>5, <1>6
  <2>2. PICK h \in 1 .. N : DepsOf(d)[j] = {h} /\ d.steps[h].handoff = d.steps[j].id
    BY <1>5, <1>6
  <2>3. g = h
    BY <1>6, <2>1, <2>2
  <2>4. d.steps[i].id = d.steps[j].id
    BY <2>1, <2>2, <2>3
  <2>5. IndexOf(d, d.steps[i].id) = i /\ IndexOf(d, d.steps[j].id) = j
    BY <1>1, OwnIndex
  <2>6. QED BY <2>4, <2>5
<1>7. \A i \in 1 .. N : i # r => \E h \in 1 .. N : DepsOf(d)[i] = {h}
  BY <1>5
<1> HIDE DEF U, N
<1>8. DepsOf(d)[r] = {}
  BY <1>5
<1>9. \A i, j \in 1 .. N : i # r /\ j # r /\ DepsOf(d)[i] = DepsOf(d)[j] => i = j
  BY <1>6
<1>10. N \in Nat
  BY <1>1
<1>11. PICK dep : dep = DepsOf(d)
  OBVIOUS
<1>12. /\ dep \in [1 .. N -> SUBSET (1 .. N)] /\ Above(N, dep, U) /\ Climbs(N, dep, rank)
       /\ dep[r] = {} /\ r \in 1 .. N /\ rank \in [1 .. N -> 1 .. N]
       /\ \A i \in 1 .. N : i # r => \E h \in 1 .. N : dep[i] = {h}
       /\ \A i, j \in 1 .. N : i # r /\ j # r /\ dep[i] = dep[j] => i = j
  BY <1>3, <1>4, <1>7, <1>8, <1>9, <1>11
<1>13. QED BY ONLY <1>10, <1>12, LineOfSteps

-----------------------------------------------------------------------------
(*************************************************************************)
(* The load.                                                             *)
(*************************************************************************)

LEMMA AcceptedIsRunnable ==
    ASSUME NEW d, Accepted(d)
    PROVE  Runnable(d)
BY AcceptedIsValid, AcceptedCarriesForward, AcceptedPairsStreams, AcceptedIsALine DEF Runnable

LEMMA ValidationAccepts ==
    ASSUME NEW d \in WorkflowDecl, WorkflowOk(d)
    PROVE  Accepted(d)
<1>1. Named(d) /\ RefsOk(d) /\ ~DetectCycle(d)
  BY DEF Named, WorkflowOk
<1>2. Acyclic(Len(d.steps), DepsOf(d))
  BY <1>1, DepsFacts
<1>3. QED BY <1>1, <1>2 DEF Accepted, WorkflowOk, HeaderOk

\* A rule reads the steps and the pattern.
LEMMA SameSteps ==
    ASSUME NEW d, NEW e, e.steps = d.steps, e.pattern = d.pattern, d.pattern \in Pattern
    PROVE  /\ \A s : StepOk(e, s) <=> StepOk(d, s)
           /\ UniqueIds(e) <=> UniqueIds(d)
           /\ StreamsRead(e) <=> StreamsRead(d)
           /\ RefsOk(e) <=> RefsOk(d)
           /\ PatternOk(e) <=> PatternOk(d)
           /\ Declared(e) = Declared(d)
           /\ DepsOf(e) = DepsOf(d)
<1>1. Declared(e) = Declared(d)
  BY DEF Declared
<1>2. \A id : IndexOf(e, id) = IndexOf(d, id)
  BY DEF IndexOf, SelectInSeq
<1>3. \A id : (Declares(e, id) <=> Declares(d, id)) /\ StepOf(e, id) = StepOf(d, id)
  BY <1>2 DEF Declares, StepOf
<1>4. DepsOf(e) = DepsOf(d)
  BY <1>2 DEF DepsOf
<1>5. \A s : StepOk(e, s) <=> StepOk(d, s)
  <2> SUFFICES ASSUME NEW s PROVE StepOk(e, s) <=> StepOk(d, s)
    OBVIOUS
  <2>1. ConditionOk(e, s) <=> ConditionOk(d, s)
    BY <1>3 DEF ConditionOk
  <2>2. HandoffOk(e, s) <=> HandoffOk(d, s)
    BY <1>3 DEF HandoffOk
  <2>3. OnEachOk(e, s) <=> OnEachOk(d, s)
    BY <1>3 DEF OnEachOk
  <2>4. QED BY <2>1, <2>2, <2>3 DEF StepOk
<1>6. (UniqueIds(e) <=> UniqueIds(d)) /\ (StreamsRead(e) <=> StreamsRead(d)) /\ (RefsOk(e) <=> RefsOk(d))
  BY <1>1, <1>3 DEF UniqueIds, StreamsRead, RefsOk
<1>7. /\ Roots(e) = Roots(d) /\ (NoFanOut(e) <=> NoFanOut(d)) /\ (Linear(e) <=> Linear(d))
  BY <1>1 DEF Roots, NoFanOut, Linear
<1>8. \A root : Chain(e, root) = Chain(d, root)
  BY <1>1, <1>3 DEF Chain
<1>9. ChainCovers(e) <=> ChainCovers(d)
  BY <1>1, <1>3, <1>7, <1>8 DEF ChainCovers
<1>10. PatternOk(e) <=> PatternOk(d)
  <2>1. CASE d.pattern = "pipeline"
    BY <1>7, <2>1 DEF PatternOk
  <2>2. CASE d.pattern = "fan-out"
    BY <1>1, <1>7, <2>2 DEF PatternOk
  <2>3. CASE d.pattern = "supervisor"
    BY <1>1, <1>7, <2>3 DEF PatternOk
  <2>4. CASE d.pattern = "handoff"
    <3>1. PatternOk(d) <=>
            /\ Linear(d) /\ NoFanOut(d)
            /\ \A s \in Declared(d) : ~s.onEach /\ s.join # "stream"
            /\ \A s \in Declared(d) : s.handoff # 0 => StepOf(d, s.handoff).deps = <<s.id>>
            /\ Cardinality(Roots(d)) = 1
            /\ ChainCovers(d)
      BY <2>4 DEF PatternOk
    <3>2. PatternOk(e) <=>
            /\ Linear(e) /\ NoFanOut(e)
            /\ \A s \in Declared(e) : ~s.onEach /\ s.join # "stream"
            /\ \A s \in Declared(e) : s.handoff # 0 => StepOf(e, s.handoff).deps = <<s.id>>
            /\ Cardinality(Roots(e)) = 1
            /\ ChainCovers(e)
      BY <2>4 DEF PatternOk
    <3>3. QED BY <1>1, <1>3, <1>7, <1>9, <3>1, <3>2
  <2>5. QED BY <2>1, <2>2, <2>3, <2>4 DEF Pattern
<1>11. QED BY <1>1, <1>4, <1>5, <1>6, <1>10

\* The defaults of a schedule take nothing back.
LEMMA DefaultsKeep ==
    ASSUME NEW d \in WorkflowDecl, Accepted(d)
    PROVE  Accepted(WithScheduleDefaults(d))
<1> DEFINE e == WithScheduleDefaults(d)
<1>1. /\ e \in WorkflowDecl /\ e.steps = d.steps /\ e.pattern = d.pattern
  <2>1. CASE e = d
    BY <2>1
  <2>2. CASE e = [d EXCEPT !.autoClose = "success"]
    <3>1. d = [name |-> d.name, pattern |-> d.pattern, steps |-> d.steps,
               schedule |-> d.schedule, autoClose |-> d.autoClose]
      BY DEF WorkflowDecl
    <3>2. /\ d.name \in Nat /\ d.pattern \in Pattern /\ d.steps \in Seq(StepDecl)
          /\ d.schedule \in [every : STRING, parses : BOOLEAN, max : Nat]
      BY DEF WorkflowDecl
    <3>3. e = [name |-> d.name, pattern |-> d.pattern, steps |-> d.steps,
               schedule |-> d.schedule, autoClose |-> "success"]
      BY <2>2, <3>1
    <3> HIDE DEF e
    <3>4. e.steps = d.steps /\ e.pattern = d.pattern
      BY <3>3
    <3>6. e \in WorkflowDecl
      BY <3>2, <3>3 DEF WorkflowDecl
    <3>7. QED BY <3>4, <3>6
  <2>3. QED BY <2>1, <2>2 DEF WithScheduleDefaults
<1> HIDE DEF e
<1>2. Accepted(e)
  <2>1. d.pattern \in Pattern
    BY DeclFacts
  <2>2. QED BY <1>1, <2>1, SameSteps DEF Accepted, Named
<1>3. QED BY <1>2 DEF e

LEMMA PresetStarts ==
    ASSUME NEW p \in PresetDecl, PresetOk(p)
    PROVE  Startable(p)
<1> DEFINE I == NonStandby(p)
<1>1. I # {} /\ (p.lead # "unset" => \E i \in I : p.members[i].agent = p.lead)
  BY DEF PresetOk
<1>2. CASE p.lead # "unset"
  BY <1>1, <1>2 DEF Startable, EffectiveLead
<1>3. CASE p.lead = "unset"
  <2>1. I \subseteq Nat
    <3>1. p.members \in Seq([agent : STRING, standby : BOOLEAN])
      BY DEF PresetDecl
    <3>2. DOMAIN p.members \subseteq Nat
      BY <3>1
    <3>3. QED BY <3>2 DEF NonStandby
  <2> HIDE DEF I
  <2>2. \E x \in I : \A y \in I : x <= y
    BY <1>1, <2>1, SmallestNumber
  <2>3. Min(I) \in I
    BY <2>2 DEF Min
  <2>4. EffectiveLead(p) = p.members[Min(I)].agent
    BY <1>3 DEF EffectiveLead, I
  <2>5. EffectiveLead(p) \in {p.members[i].agent : i \in I}
    BY <2>3, <2>4
  <2>6. QED BY <2>5 DEF Startable, I
<1>4. QED BY <1>2, <1>3

\* What can be run of a text.
RunnableText(text) ==
    (\A d \in text.flows : Runnable(d)) /\ (\A p \in text.presets : Startable(p))

LEMMA ParsedRuns ==
    ASSUME NEW text, {"flows", "presets"} \subseteq DOMAIN text,
           text.flows \subseteq WorkflowDecl, text.presets \subseteq PresetDecl, ParseOk(text)
    PROVE  RunnableText(Parsed(text))
<1>1. ASSUME NEW d \in text.flows PROVE Runnable(WithScheduleDefaults(d))
  <2>1. d \in WorkflowDecl /\ WorkflowOk(d)
    BY DEF ParseOk
  <2>2. QED BY <2>1, ValidationAccepts, DefaultsKeep, AcceptedIsRunnable
<1>2. ASSUME NEW p \in text.presets PROVE Startable(p)
  <2>1. p \in PresetDecl /\ PresetOk(p)
    BY DEF ParseOk
  <2>2. QED BY <2>1, PresetStarts
<1> DEFINE F == {WithScheduleDefaults(d) : d \in text.flows}
<1>3. \A d \in F : Runnable(d)
  BY <1>1
<1> HIDE DEF F
<1>4. Parsed(text).flows = F /\ Parsed(text).presets = text.presets
  BY DEF Parsed, F
<1>5. QED BY <1>2, <1>3, <1>4 DEF RunnableText

\* The texts to be run are those that were accepted.
Readied == load.phase \in {"read", "watching"} => ParseOk(load.file.text)

LEMMA ReadiedStart == Init => Readied /\ LoadedIsRunnable
<1>1. DefaultText.flows = {} /\ DefaultText.presets = {}
  BY ConfigAssumption
<1>2. SUFFICES ASSUME Init PROVE Readied /\ LoadedIsRunnable
  OBVIOUS
<1>3. load.phase = "asked" /\ loaded.file.text = DefaultText
  BY <1>2 DEF Init, NoLoad, NotLoaded, NoFile
<1>4. QED BY <1>1, <1>3 DEF Readied, LoadedIsRunnable

LEMMA ReadiedKeeps == ConfigOK /\ Readied /\ LoadedIsRunnable /\ [Next]_vars => Readied' /\ LoadedIsRunnable'
<1> SUFFICES ASSUME ConfigOK, Readied, LoadedIsRunnable, [Next]_vars PROVE Readied' /\ LoadedIsRunnable'
  OBVIOUS
<1>1. ASSUME loaded' = loaded PROVE LoadedIsRunnable'
  BY <1>1 DEF LoadedIsRunnable
<1>2. /\ load \in [phase : LoadPhase, by : {"nobody", "startup", "manual", "reload", "init"},
                   place : Places \cup {Nowhere}, file : File]
      /\ loaded \in [place : Places \cup {Nowhere}, file : File]
      /\ load.file \in File /\ load.file.text \in Given
  BY DEF ConfigOK
<1>3. CASE LoadRead
  <2> DEFINE p == Resolved(load.by = "manual")
             ok == p # Nowhere /\ ParseOk(disk[p].text)
             file == IF ok THEN disk[p] ELSE NoFile
             phase == IF ok THEN "read" ELSE "failed"
  <2>1. load' = [load EXCEPT !.phase = phase, !.place = p, !.file = file] /\ loaded' = loaded
    BY <1>3 DEF LoadRead
  <2>2. phase = "read" => ParseOk(file.text)
    OBVIOUS
  <2>3. phase \in {"read", "failed"}
    OBVIOUS
  <2> HIDE DEF p, ok, file, phase
  <2>4. load'.phase = phase /\ load'.file = file
    BY <1>2, <2>1
  <2>5. QED BY <1>1, <2>1, <2>2, <2>3, <2>4 DEF Readied
<1>4. CASE LoadWatch
  <2>1. PICK next \in {"watching", "failed"} : load' = [load EXCEPT !.phase = next]
    BY <1>4 DEF LoadWatch
  <2>2. load'.file = load.file /\ load.phase = "read" /\ loaded' = loaded
    BY <1>2, <1>4, <2>1 DEF LoadWatch
  <2>3. QED BY <1>1, <2>2 DEF Readied
<1>5. CASE LoadStore
  <2> DEFINE text == load.file.text
  <2>1. /\ loaded' = [place |-> load.place, file |-> [load.file EXCEPT !.text = Parsed(text)]]
        /\ load' = [load EXCEPT !.phase = "stored"] /\ ParseOk(text)
    BY <1>5 DEF LoadStore, Readied
  <2>2. load'.phase = "stored"
    BY <1>2, <2>1
  <2>3. loaded'.file.text = Parsed(text)
    <3>1. load.file \in [text : Contents, n : Nat]
      BY <1>2 DEF File
    <3>2. QED BY <2>1, <3>1
  <2>4. /\ {"flows", "presets"} \subseteq DOMAIN text
        /\ text.flows \subseteq WorkflowDecl /\ text.presets \subseteq PresetDecl
    BY <1>2, ConfigAssumption DEF Given
  <2> HIDE DEF text
  <2>5. RunnableText(Parsed(text))
    BY <2>1, <2>4, ParsedRuns
  <2>6. LoadedIsRunnable'
    BY <2>3, <2>5 DEF LoadedIsRunnable, RunnableText
  <2>7. QED BY <2>2, <2>6 DEF Readied
<1>6. CASE LoadApply
  <2>1. load'.phase = "done" /\ loaded' = loaded
    BY <1>2, <1>6 DEF LoadApply
  <2>2. QED BY <1>1, <2>1 DEF Readied
<1>7. ASSUME UNCHANGED <<load, loaded>> PROVE Readied' /\ LoadedIsRunnable'
  BY <1>1, <1>7 DEF Readied
<1>8. CASE \/ \E p \in Places : Edit(p) \/ Emit(p) \/ Hear(p)
           \/ \E w \in {"kept", "fresh"} : Deliver(w)
           \/ EchoExpires \/ Dismiss
           \/ (TaskStep /\ UNCHANGED configVars)
           \/ UNCHANGED vars
  BY <1>7, <1>8 DEF Edit, Emit, Hear, Deliver, EchoExpires, Dismiss, configVars, vars
<1>9. ASSUME load'.phase \in {"idle", "asked", "writing", "wrote"}, loaded' = loaded
      PROVE  Readied' /\ LoadedIsRunnable'
  BY <1>1, <1>9 DEF Readied
<1>10. CASE \/ \E p \in Places : InitCheck(p)
            \/ InitPut \/ InitWritten \/ Return
            \/ \E by \in {"manual", "reload"} : Ask(by)
  <2>1. load'.phase \in {"idle", "asked", "writing", "wrote"}
    <3>1. ASSUME NEW p \in Places, InitCheck(p) PROVE load'.phase = "writing"
      BY <3>1 DEF InitCheck, NoLoad
    <3>2. CASE InitPut
      BY <1>2, <3>2 DEF InitPut
    <3>3. CASE InitWritten
      BY <1>2, <3>3 DEF InitWritten
    <3>4. CASE Return
      BY <3>4 DEF Return, NoLoad
    <3>5. ASSUME NEW by \in {"manual", "reload"}, Ask(by) PROVE load'.phase = "asked"
      BY <3>5 DEF Ask, NoLoad
    <3>6. QED BY <1>10, <3>1, <3>2, <3>3, <3>4, <3>5
  <2>2. loaded' = loaded
    BY <1>10 DEF InitCheck, InitPut, InitWritten, Return, Ask
  <2>3. QED BY <1>9, <2>1, <2>2
<1>11. QED BY <1>3, <1>4, <1>5, <1>6, <1>8, <1>10 DEF Next, Window, Manager

\* validate_workflows, detect_cycle and validate_team_presets: whatever is loaded, its
\* workflows are ones the driver can run - a graph without a cycle, joins that can be met,
\* replies and handoffs carried forwards, streams with a reader, one line where it says
\* handoff - and its presets have a lead to kick off.
THEOREM WhatIsLoadedRuns == Spec => []LoadedIsRunnable
  BY ConfigHolds, ReadiedStart, ReadiedKeeps, PTL DEF Spec
=============================================================================
