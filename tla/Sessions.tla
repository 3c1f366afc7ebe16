------------------------------- MODULE Sessions -------------------------------
(***************************************************************************)
(* The session manager of session.rs: the slots of the grid, the threads   *)
(* that work on them and the processes behind them.                        *)
(*                                                                         *)
(* One mutex guards the map of slots, but nothing slow is done under it: a *)
(* process is started, waited for and announced with the map unlocked.  A  *)
(* slot carries the generation of its current process, and a thread that   *)
(* comes back to the map writes only if the slot still has the generation  *)
(* it left with.  Every lock section is one action here, and whatever a    *)
(* thread took out of the map stays in its hand until it returns.          *)
(*                                                                         *)
(* Generations come from one counter.  The one a spawn draws right after   *)
(* open_and_spawn names its process, so gen is also the process's name.    *)
(***************************************************************************)
EXTENDS Integers, FiniteSets

CONSTANTS
    Pane,               \* session ids
    MaxGen,             \* bound: generations drawn in all
    MaxAutorestarts,    \* MAX_AUTORESTARTS
    ReconnectCap,       \* max_reconnects of the ssh panes; 0 is no limit
    Remotes,            \* the panes whose definition has an .ssh block
    Policy              \* autorestart of each pane

ASSUME SessionsAssumption ==
    /\ MaxGen \in Nat /\ MaxAutorestarts \in Nat /\ ReconnectCap \in Nat
    /\ Remotes \subseteq Pane
    /\ Policy \in [Pane -> {"never", "always", "on_failure"}]

Gen == 1 .. MaxGen
Expected == 0 .. MaxGen     \* what a spawn finds in the slot; 0 in a new one
NoProcess == 0
Code == {"ok", "failed", "lost"}   \* exit 0, another exit, ssh's 255
Thread == Pane \X Expected

SlotState == {"starting", "running", "restarting", "exited"}
Slot == [gen : Expected, state : SlotState, killed : BOOLEAN,
         live : Expected, restarts : 0 .. MaxAutorestarts, reconnects : Nat]

NewSlot == [gen |-> 0, state |-> "starting", killed |-> FALSE,
            live |-> NoProcess, restarts |-> 0, reconnects |-> 0]

VARIABLES
    opened,     \* ids handed out
    present,    \* ids in the map
    slot,       \* the slot of each id, a new one while the id is not present
    nextGen,    \* the generation counter
    process,    \* what became of each process
    spawner,    \* phase of the thread <<p, e>> that fills p, last seen with generation e
    hand,       \* the process that thread holds
    reader,     \* phase of the thread <<p, g>> that reads process g for p
    told,       \* the last session-state the frontend heard of each pane
    unstable,   \* history: automatic respawns since the last stable run
    dropped     \* history: processes dropped with the slot of a failed creation

world == <<nextGen, process>>
threads == <<spawner, hand, reader>>
vars == <<opened, present, slot, world, threads, told, unstable, dropped>>

ProcessState == {"none", "running", "hungup", "signalled", "dead", "reaped"}
SpawnPhase == {"idle", "reap", "delay", "check", "fork", "install", "failed", "mourn"}
ReaderPhase == {"none", "announce", "reading", "waiting", "decide", "tell_exit",
                "tell_restart", "done"}

Init ==
    /\ opened = {} /\ present = {}
    /\ slot = [p \in Pane |-> NewSlot]
    /\ nextGen = 1
    /\ process = [g \in Gen |-> "none"]
    /\ spawner = [t \in Thread |-> "idle"]
    /\ hand = [t \in Thread |-> NoProcess]
    /\ reader = [t \in Thread |-> "none"]
    /\ told = [p \in Pane |-> "none"]
    /\ unstable = [p \in Pane |-> 0]
    /\ dropped = {}

Current(p, e) == p \in present /\ slot[p].gen = e
Remove(p) == present' = present \ {p} /\ slot' = [slot EXCEPT ![p] = NewSlot]
Alive(g) == process[g] \in {"running", "hungup", "signalled"}

-------------------------------------------------------------------------------
(* Operations on the map.                                                  *)

\* create_session_with_id, for a shell, an agent or a host teammate: the slot
\* enters the map before anything runs in it.
OpenPane(p) ==
    /\ p \notin opened
    /\ opened' = opened \cup {p}
    /\ present' = present \cup {p}
    /\ slot' = [slot EXCEPT ![p] = NewSlot]
    /\ spawner' = [spawner EXCEPT ![<<p, 0>>] = "check"]
    /\ UNCHANGED <<world, hand, reader, told, unstable, dropped>>

\* kill_pty.  With no process in the slot the pane goes at once; otherwise its
\* reader is to see the process end.  The signal may be refused.
KillEmpty(p) ==
    /\ p \in present /\ slot[p].live = NoProcess
    /\ Remove(p)
    /\ UNCHANGED <<opened, world, threads, told, unstable, dropped>>

KillLive(p) ==
    /\ p \in present /\ slot[p].live # NoProcess
    /\ slot' = [slot EXCEPT ![p].killed = TRUE]
    /\ LET g == slot[p].live IN
       process' \in {process, IF Alive(g) THEN [process EXCEPT ![g] = "signalled"] ELSE process}
    /\ UNCHANGED <<opened, present, nextGen, threads, told, unstable, dropped>>

\* Mutant: a restarted slot keeps its state.
RestartKeepsState(p) ==
    /\ p \in present /\ nextGen \in Gen
    /\ nextGen' = nextGen + 1
    /\ slot' = [slot EXCEPT ![p] = [NewSlot EXCEPT !.gen = nextGen, !.state = slot[p].state]]
    /\ hand' = [hand EXCEPT ![<<p, nextGen>>] = slot[p].live]
    /\ spawner' = [spawner EXCEPT ![<<p, nextGen>>] = "reap"]
    /\ unstable' = [unstable EXCEPT ![p] = 0]
    /\ UNCHANGED <<opened, present, process, reader, told, dropped>>

\* restart_session up to the unlock.
Restart(p) ==
    /\ p \in present /\ nextGen \in Gen
    /\ nextGen' = nextGen + 1
    /\ slot' = [slot EXCEPT ![p] = [NewSlot EXCEPT !.gen = nextGen, !.state = "restarting"]]
    /\ hand' = [hand EXCEPT ![<<p, nextGen>>] = slot[p].live]
    /\ spawner' = [spawner EXCEPT ![<<p, nextGen>>] = "reap"]
    /\ unstable' = [unstable EXCEPT ![p] = 0]
    /\ UNCHANGED <<opened, present, process, reader, told, dropped>>

-------------------------------------------------------------------------------
(* Threads that put a process into a slot.                                 *)

Spawner(p, e, from, to) ==
    /\ spawner[<<p, e>>] = from
    /\ spawner' = [spawner EXCEPT ![<<p, e>>] = to]

\* The old process of a restarted pane is killed and waited for outside the lock.
Reap(p, e) ==
    /\ Spawner(p, e, "reap", "check")
    /\ LET g == hand[<<p, e>>] IN
       process' = IF g = NoProcess THEN process ELSE [process EXCEPT ![g] = "reaped"]
    /\ hand' = [hand EXCEPT ![<<p, e>>] = NoProcess]
    /\ told' = [told EXCEPT ![p] = "restarting"]
    /\ UNCHANGED <<opened, present, slot, nextGen, reader, unstable, dropped>>

\* schedule_autorestart after its sleep.
Delay(p, e) ==
    /\ Spawner(p, e, "delay",
               IF Current(p, e) /\ slot[p].state = "restarting" /\ ~slot[p].killed
               THEN "check" ELSE "idle")
    /\ UNCHANGED <<opened, present, slot, world, hand, reader, told, unstable, dropped>>

\* spawn_into_slot: look, start the process, look again.
Check(p, e) ==
    /\ Spawner(p, e, "check", IF Current(p, e) THEN "fork" ELSE "failed")
    /\ UNCHANGED <<opened, present, slot, world, hand, reader, told, unstable, dropped>>

Fork(p, e) ==
    /\ nextGen \in Gen
    /\ Spawner(p, e, "fork", "install")
    /\ process' = [process EXCEPT ![nextGen] = "running"]
    /\ hand' = [hand EXCEPT ![<<p, e>>] = nextGen]
    /\ nextGen' = nextGen + 1
    /\ UNCHANGED <<opened, present, slot, reader, told, unstable, dropped>>

ForkFails(p, e) ==
    /\ Spawner(p, e, "fork", "failed")
    /\ UNCHANGED <<opened, present, slot, world, hand, reader, told, unstable, dropped>>

Install(p, e) ==
    LET g == hand[<<p, e>>] IN
    /\ Current(p, e)
    /\ Spawner(p, e, "install", "idle")
    /\ slot' = [slot EXCEPT ![p] = [@ EXCEPT !.gen = g, !.live = g, !.state = "running"]]
    /\ hand' = [hand EXCEPT ![<<p, e>>] = NoProcess]
    /\ reader' = [reader EXCEPT ![<<p, g>>] = "announce"]
    /\ UNCHANGED <<opened, present, world, told, unstable, dropped>>

\* Mutant: the process that came too late is let go.
SupersededLetsGo(p, e) ==
    /\ ~Current(p, e)
    /\ Spawner(p, e, "install", "failed")
    /\ hand' = [hand EXCEPT ![<<p, e>>] = NoProcess]
    /\ UNCHANGED <<opened, present, slot, world, reader, told, unstable, dropped>>

\* The slot went away or moved on: the new process is killed and waited for.
Superseded(p, e) ==
    /\ ~Current(p, e)
    /\ Spawner(p, e, "install", "failed")
    /\ process' = [process EXCEPT ![hand[<<p, e>>]] = "reaped"]
    /\ hand' = [hand EXCEPT ![<<p, e>>] = NoProcess]
    /\ UNCHANGED <<opened, present, slot, nextGen, reader, told, unstable, dropped>>

\* The creator of a pane removes the slot, whatever is in it by now.
CreationFails(p) ==
    /\ Spawner(p, 0, "failed", "idle")
    /\ Remove(p)
    /\ dropped' = IF p \in present /\ slot[p].live # NoProcess
                  THEN dropped \cup {slot[p].live} ELSE dropped
    /\ UNCHANGED <<opened, world, hand, reader, told, unstable>>

\* Mutant: a respawn that fails says nothing.
RespawnFailsSilently(p, e) ==
    /\ e # 0
    /\ Spawner(p, e, "failed", "idle")
    /\ UNCHANGED <<opened, present, slot, world, hand, reader, told, unstable, dropped>>

\* mark_exited_if_current, of a restart or of a delayed respawn.
RespawnFails(p, e) ==
    /\ e # 0
    /\ Spawner(p, e, "failed", IF Current(p, e) THEN "mourn" ELSE "idle")
    /\ slot' = IF Current(p, e)
               THEN [slot EXCEPT ![p].state = "exited"] ELSE slot
    /\ UNCHANGED <<opened, present, world, hand, reader, told, unstable, dropped>>

Mourn(p, e) ==
    /\ Spawner(p, e, "mourn", "idle")
    /\ told' = [told EXCEPT ![p] = "exited"]
    /\ UNCHANGED <<opened, present, slot, world, hand, reader, unstable, dropped>>

SpawnerStep(p, e) ==
    \/ Reap(p, e)
    \/ Delay(p, e)
    \/ Check(p, e)
    \/ Fork(p, e)
    \/ ForkFails(p, e)
    \/ Install(p, e)
    \/ Superseded(p, e)
    \/ e = 0 /\ CreationFails(p)
    \/ RespawnFails(p, e)
    \/ Mourn(p, e)

-------------------------------------------------------------------------------
(* The reader of each process: spawn_reader_thread and handle_eof.         *)

Reader(p, g, from, to) ==
    /\ reader[<<p, g>>] = from
    /\ reader' = [reader EXCEPT ![<<p, g>>] = to]

\* The tail end of spawn_into_slot: tell the frontend, then start reading.
Announce(p, g) ==
    /\ Reader(p, g, "announce", "reading")
    /\ told' = [told EXCEPT ![p] = "running"]
    /\ UNCHANGED <<opened, present, slot, world, spawner, hand, unstable, dropped>>

\* A reader whose slot moved on goes silent at its next chunk or at EOF.
GoSilent(p, g) ==
    /\ ~Current(p, g)
    /\ Reader(p, g, "reading", "done")
    /\ UNCHANGED <<opened, present, slot, world, spawner, hand, told, unstable, dropped>>

\* Mutant: a reader takes whatever the slot holds.
TakeLiveOfAnyone(p, g) ==
    /\ p \in present
    /\ process[g] \notin {"running", "signalled"}
    /\ Reader(p, g, "reading", "waiting")
    /\ slot' = [slot EXCEPT ![p].live = NoProcess]
    /\ UNCHANGED <<opened, present, world, spawner, hand, told, unstable, dropped>>

\* Phase 1 of handle_eof: the live parts leave the slot.
TakeLive(p, g) ==
    /\ Current(p, g)
    /\ process[g] \notin {"running", "signalled"}
    /\ Reader(p, g, "reading", "waiting")
    /\ slot' = [slot EXCEPT ![p].live = NoProcess]
    /\ UNCHANGED <<opened, present, world, spawner, hand, told, unstable, dropped>>

\* Phase 2, unlocked.
Wait(p, g) ==
    /\ process[g] = "dead"
    /\ Reader(p, g, "waiting", "decide")
    /\ process' = [process EXCEPT ![g] = "reaped"]
    /\ UNCHANGED <<opened, present, slot, nextGen, spawner, hand, told, unstable, dropped>>

\* Mutant: one reconnection past the cap.
ReconnectsOnceMore(p, code, count) ==
    /\ p \in Remotes /\ ~slot[p].killed /\ code = "lost"
    /\ ReconnectCap = 0 \/ count <= ReconnectCap

\* decide_reconnect: only a lost ssh link, up to the cap if there is one.
Reconnects(p, code, count) ==
    /\ p \in Remotes /\ ~slot[p].killed /\ code = "lost"
    /\ ReconnectCap = 0 \/ count < ReconnectCap

\* decide_eof.
Autorestarts(p, code, count) ==
    /\ ~slot[p].killed /\ count < MaxAutorestarts
    /\ \/ Policy[p] = "always"
       \/ Policy[p] = "on_failure" /\ code # "ok"

\* Phase 3.
DecideStale(p, g) ==
    /\ ~Current(p, g)
    /\ Reader(p, g, "decide", "done")
    /\ UNCHANGED <<opened, present, slot, world, spawner, hand, told, unstable, dropped>>

\* A stable run starts the counters again at zero.
Since(stable, n) == IF stable THEN 0 ELSE n

Respawn(p, g, stable, s) ==
    /\ Reader(p, g, "decide", "tell_restart")
    /\ slot' = [slot EXCEPT ![p] = [s EXCEPT !.state = "restarting"]]
    /\ unstable' = [unstable EXCEPT ![p] = Since(stable, @) + 1]
    /\ UNCHANGED present

StayDown(p, g) ==
    /\ Reader(p, g, "decide", "tell_exit")
    /\ IF slot[p].killed THEN Remove(p)
       ELSE slot' = [slot EXCEPT ![p].state = "exited"] /\ UNCHANGED present
    /\ UNCHANGED unstable

Decide(p, g) ==
    /\ Current(p, g)
    /\ \E stable \in BOOLEAN, code \in Code :
        LET up == Since(stable, slot[p].reconnects)
            restarts == Since(stable, slot[p].restarts)
        IN
        \/ /\ Reconnects(p, code, up)
           /\ Respawn(p, g, stable, [slot[p] EXCEPT !.reconnects = up + 1])
        \/ /\ ~Reconnects(p, code, up) /\ Autorestarts(p, code, restarts)
           /\ Respawn(p, g, stable, [slot[p] EXCEPT !.restarts = restarts + 1])
        \/ /\ ~Reconnects(p, code, up) /\ ~Autorestarts(p, code, restarts)
           /\ StayDown(p, g)
    /\ UNCHANGED <<opened, world, spawner, hand, told, dropped>>

TellExit(p, g) ==
    /\ Reader(p, g, "tell_exit", "done")
    /\ told' = [told EXCEPT ![p] = "exited"]
    /\ UNCHANGED <<opened, present, slot, world, spawner, hand, unstable, dropped>>

TellRestart(p, g) ==
    /\ Reader(p, g, "tell_restart", "done")
    /\ told' = [told EXCEPT ![p] = "restarting"]
    /\ spawner' = [spawner EXCEPT ![<<p, g>>] = "delay"]
    /\ UNCHANGED <<opened, present, slot, world, hand, unstable, dropped>>

ReaderStep(p, g) ==
    \/ Announce(p, g)
    \/ GoSilent(p, g)
    \/ TakeLive(p, g)
    \/ Wait(p, g)
    \/ DecideStale(p, g)
    \/ Decide(p, g)
    \/ TellExit(p, g)
    \/ TellRestart(p, g)

-------------------------------------------------------------------------------
(* The processes.                                                          *)

\* A process may give up its terminal and run on.
Hangup(g) ==
    /\ process[g] = "running"
    /\ process' = [process EXCEPT ![g] = "hungup"]
    /\ UNCHANGED <<opened, present, slot, nextGen, threads, told, unstable, dropped>>

Die(g) ==
    /\ Alive(g)
    /\ process' = [process EXCEPT ![g] = "dead"]
    /\ UNCHANGED <<opened, present, slot, nextGen, threads, told, unstable, dropped>>

-------------------------------------------------------------------------------

Next ==
    \/ \E p \in Pane :
        \/ OpenPane(p)
        \/ KillEmpty(p)
        \/ KillLive(p)
        \/ Restart(p)
        \/ \E e \in Expected : SpawnerStep(p, e)
        \/ \E g \in Gen : ReaderStep(p, g)
    \/ \E g \in Gen : Hangup(g) \/ Die(g)

Spec == Init /\ [][Next]_vars

\* Threads go on, sleeps end, and a process that was sent the kill signal dies.
Fairness ==
    /\ \A p \in Pane :
        /\ WF_vars(\E e \in Expected : SpawnerStep(p, e))
        /\ WF_vars(\E g \in Gen : ReaderStep(p, g))
    /\ WF_vars(\E g \in Gen : process[g] = "signalled" /\ Die(g))

FairSpec == Spec /\ Fairness

-------------------------------------------------------------------------------
(* Properties.                                                             *)

TypeOK ==
    /\ present \subseteq opened /\ opened \subseteq Pane
    /\ slot \in [Pane -> Slot]
    /\ nextGen \in 1 .. MaxGen + 1
    /\ process \in [Gen -> ProcessState]
    /\ spawner \in [Thread -> SpawnPhase]
    /\ hand \in [Thread -> Expected]
    /\ reader \in [Thread -> ReaderPhase]
    /\ told \in [Pane -> SlotState \cup {"none"}]
    /\ unstable \in [Pane -> Nat]
    /\ dropped \subseteq Gen

\* Somebody is going to wait for process g: its slot, a thread, or its reader.
Held(g) ==
    \/ \E p \in present : slot[p].live = g
    \/ \E t \in Thread : hand[t] = g
    \/ \E p \in Pane : reader[<<p, g>>] = "waiting"

\* No process is ever forgotten: while handle_eof, a restart, a kill and a delayed
\* respawn race for a slot, every process that has not been waited for is held by
\* exactly the slot or thread that will (session.rs, three-phase handle_eof and the
\* orphan branch of spawn_into_slot).  Excepted is the process of a pane that was
\* restarted while it was being created.
NoOrphan == \A g \in Gen : process[g] \notin {"none", "reaped"} => Held(g) \/ g \in dropped

\* A pane is never stranded: starting or restarting means a thread with the slot's
\* generation is on its way to it, running without live parts means the reader is
\* between its phases, and running with live parts means they are of the slot's
\* generation and are being read (fixes #3 and #4 of session.rs).
NotStranded ==
    \A p \in present :
        LET t == <<p, slot[p].gen>> IN
        CASE slot[p].state \in {"starting", "restarting"} ->
                slot[p].live = NoProcess
                /\ (spawner[t] \notin {"idle", "mourn"} \/ reader[t] = "tell_restart")
          [] slot[p].state = "running" ->
                IF slot[p].live = NoProcess THEN reader[t] \in {"waiting", "decide"}
                ELSE slot[p].live = slot[p].gen /\ reader[t] \in {"announce", "reading"}
          [] slot[p].state = "exited" -> slot[p].live = NoProcess

Unlimited(p) == p \in Remotes /\ ReconnectCap = 0
CapOf(p) == IF p \in Remotes THEN ReconnectCap ELSE 0
Limit(p) == MaxAutorestarts + CapOf(p)

\* Automatic respawns end: between two stable runs a pane is brought back at most as
\* often as both of its counters together allow, however ssh losses and other failures
\* alternate (decide_reconnect before decide_eof).  Excepted is an ssh pane without a
\* limit on its reconnections, which is tried for ever on purpose.
RespawnsBounded == \A p \in Pane : ~Unlimited(p) => unstable[p] <= Limit(p)

\* A pane that is starting or restarting comes to rest: it runs, it has exited, or
\* it is gone (fix #3: a failed respawn must not strand the slot in restarting).
Settles ==
    \A p \in Pane :
        p \in present /\ slot[p].state \in {"starting", "restarting"}
            ~> (p \in present => slot[p].state \in {"running", "exited"})

\* A pane whose process took the kill signal frees its cell, unless its owner
\* restarts it first (kill_pty: the reader removes the slot).
KilledCloses ==
    \A p \in Pane :
        p \in present /\ slot[p].killed /\ slot[p].live \in Gen /\ process[slot[p].live] = "signalled"
            ~> (p \in present => ~slot[p].killed)

Seen ==
    [p \in Pane |->
        IF p \notin opened THEN "unopened"
        ELSE IF p \notin present THEN "closed"
        ELSE IF slot[p].killed THEN "closing"
        ELSE slot[p].state]

Table == INSTANCE PaneTable WITH status <- Seen

\* Seen from outside, the threads keep the contract of PaneTable: whatever they
\* do under and between their locks, the slot of a pane goes along its arrows only.
KeepsTheTable == Table!Spec

\* kill_pty's comment: "The reader thread reaps the child, emits `pty-exit` +
\* `session-state`(exited) and removes the slot."  So a closed pane leaves no
\* process behind that nobody has told to end.
NoGhost ==
    \A p \in opened \ present : \A g \in Gen :
        reader[<<p, g>>] = "waiting" => process[g] \notin {"running", "hungup"}

Busy(p) ==
    \/ \E e \in Expected : spawner[<<p, e>>] # "idle"
    \/ \E g \in Gen : reader[<<p, g>>] \notin {"none", "reading", "done"}

\* restart_session's comment: "The old reader thread is staled via the generation
\* bump and emits nothing."  So once all threads of a pane are done, the state the
\* frontend was told last is the state of the slot.
ToldTruth == \A p \in present : ~Busy(p) => told[p] = slot[p].state

\* spawn_into_slot is called with "expected_gen 0: nothing else can have
\* re-generated a brand new slot", so no creation ever drops a live process.
NothingDropped == dropped = {}
=============================================================================
