----------------------------- MODULE SessionsProof -----------------------------
(***************************************************************************)
(* For every number of panes and generations, and every policy of respawn: *)
(* no process is forgotten, no pane is stranded, respawns end, and what    *)
(* the threads do to a slot is what PaneTable allows.                      *)
(*                                                                         *)
(* The argument is about the thread <<p, g>>, g being the generation of    *)
(* the slot.  Its phase and the phase of the reader of g say what state    *)
(* the slot is in (Slots), because one generation has one thread at a time *)
(* (OneThread) and numbers not drawn yet have none (Fresh).  A thread of   *)
(* another generation finds the slot not Current and leaves it alone.      *)
(***************************************************************************)
EXTENDS Sessions, TLAPS

\* A generation not drawn yet names no process and no thread.
Fresh ==
    \A g \in Gen : g >= nextGen =>
        /\ process[g] = "none"
        /\ \A p \in Pane : spawner[<<p, g>>] = "idle" /\ reader[<<p, g>>] = "none"

\* What the creator of a pane does, and nothing before it.
Creator ==
    \A p \in Pane :
        /\ reader[<<p, 0>>] = "none"
        /\ spawner[<<p, 0>>] \in {"idle", "check", "fork", "install", "failed"}
        /\ p \notin opened => spawner[<<p, 0>>] = "idle" /\ unstable[p] = 0

\* A generation that named a process respawns only when its reader is through.
OneThread ==
    \A p \in Pane, g \in Gen :
        /\ reader[<<p, g>>] # "none" => process[g] # "none"
        /\ process[g] # "none" /\ spawner[<<p, g>>] # "idle" => reader[<<p, g>>] = "done"

\* A thread holds a process while it reaps it or has yet to install it, and a
\* process that is to be installed is held by one thread and read by nobody.
Hands ==
    \A t \in Thread :
        /\ hand[t] # NoProcess => spawner[t] \in {"reap", "install"} /\ process[hand[t]] # "none"
        /\ spawner[t] = "install" =>
            /\ hand[t] # NoProcess
            /\ \A p \in Pane : reader[<<p, hand[t]>>] = "none"
            /\ \A u \in Thread : spawner[u] = "install" /\ hand[u] = hand[t] => u = t

Running(s, r) ==
    \/ s.live = NoProcess /\ r \in {"waiting", "decide"}
    \/ s.live = s.gen /\ r \in {"announce", "reading"}

Revived(spawn, r) == spawn \notin {"idle", "mourn"} \/ r = "tell_restart"

\* A slot, and the phases of the spawner and the reader of its generation.
SlotOk(s, spawn, r) ==
    /\ s.gen < nextGen
    /\ s.killed => s.state = "running"
    /\ s.state = "starting" <=> s.gen = 0
    /\ s.state = "running" => Running(s, r) /\ spawn = "idle"
    /\ s.state # "running" =>
        s.live = NoProcess /\ r \notin {"announce", "reading", "waiting", "decide"}
    /\ s.state \in {"starting", "restarting"} => Revived(spawn, r)
    /\ s.state = "exited" => ~Revived(spawn, r)

SlotHolds(p) == SlotOk(slot[p], spawner[<<p, slot[p].gen>>], reader[<<p, slot[p].gen>>])

Slots == \A p \in present : SlotHolds(p)

\* The counters of a slot bound the respawns since its last stable run.
Counted ==
    \A p \in Pane :
        ~Unlimited(p) =>
            /\ unstable[p] <= Limit(p)
            /\ p \in present => /\ slot[p].reconnects <= CapOf(p)
                                /\ unstable[p] <= slot[p].restarts + slot[p].reconnects

IInv == TypeOK /\ Fresh /\ Creator /\ OneThread /\ Hands /\ Slots /\ NoOrphan /\ Counted

-------------------------------------------------------------------------------

\* Types.
LEMMA NewSlotType == ASSUME SessionsAssumption PROVE NewSlot \in Slot
  BY DEF SessionsAssumption, NewSlot, Slot, Expected, SlotState, NoProcess

LEMMA Limits ==
    ASSUME SessionsAssumption, NEW p \in Pane
    PROVE  /\ CapOf(p) \in Nat /\ Limit(p) \in Nat
           /\ \A s \in Slot : s.reconnects <= CapOf(p) => s.restarts + s.reconnects <= Limit(p)
  BY DEF SessionsAssumption, CapOf, Limit, Slot

LEMMA TypeInit == ASSUME SessionsAssumption, Init PROVE TypeOK
  BY NewSlotType DEF SessionsAssumption, Init, TypeOK, Expected, Gen, ProcessState,
     SpawnPhase, ReaderPhase, NoProcess

LEMMA Numbers ==
    ASSUME SessionsAssumption
    PROVE  Gen \subseteq Expected /\ Expected \subseteq Nat /\ 0 \in Expected
           /\ \A g \in Expected : g # 0 => g \in Gen
  BY DEF SessionsAssumption, Gen, Expected

LEMMA SpawnerType ==
    ASSUME TypeOK, SessionsAssumption, NEW p \in Pane, NEW e \in Expected, SpawnerStep(p, e)
    PROVE  TypeOK'
  <1> DEFINE t == <<p, e>>
  <1>t. t \in Thread BY DEF Thread
  <1>0. spawner' \in [Thread -> SpawnPhase]
    BY DEF SpawnerStep, Reap, Delay, Check, Fork, ForkFails, Install, Superseded, CreationFails,
       RespawnFails, Mourn, Spawner, TypeOK, SpawnPhase
  <1>1. CASE Reap(p, e)
    BY <1>0, <1>1, <1>t, Numbers DEF Reap, TypeOK, ProcessState, SlotState, NoProcess
  <1>2. CASE Delay(p, e) BY <1>0, <1>2 DEF Delay, TypeOK, world
  <1>3. CASE Check(p, e) BY <1>0, <1>3 DEF Check, TypeOK, world
  <1>4. CASE Fork(p, e)
    <2>1. nextGen \in Expected /\ nextGen + 1 \in 1 .. MaxGen + 1
      BY <1>4, Numbers DEF Fork, Gen, SessionsAssumption
    <2> QED BY <1>0, <1>4, <2>1 DEF Fork, TypeOK, ProcessState
  <1>5. CASE ForkFails(p, e) BY <1>0, <1>5 DEF ForkFails, TypeOK, world
  <1>6. CASE Install(p, e)
    <2>0. slot[p] \in Slot /\ hand[t] \in Expected BY <1>t DEF TypeOK
    <2>1. [slot[p] EXCEPT !.gen = hand[t], !.live = hand[t], !.state = "running"] \in Slot
      BY <2>0 DEF Slot, SlotState
    <2>2. slot' \in [Pane -> Slot] BY <1>6, <2>1 DEF Install, TypeOK
    <2> QED BY <1>0, <1>6, <2>2, Numbers DEF Install, TypeOK, ReaderPhase, NoProcess, world
  <1>7. CASE Superseded(p, e)
    BY <1>0, <1>7, Numbers DEF Superseded, TypeOK, ProcessState, NoProcess
  <1>8. CASE CreationFails(p)
    BY <1>0, <1>8, Numbers, NewSlotType
    DEF CreationFails, Remove, TypeOK, world, NoProcess, Slot
  <1>9. CASE RespawnFails(p, e)
    BY <1>0, <1>9 DEF RespawnFails, TypeOK, Slot, SlotState, world
  <1>10. CASE Mourn(p, e) BY <1>0, <1>10 DEF Mourn, TypeOK, SlotState, world
  <1> QED BY <1>1, <1>2, <1>3, <1>4, <1>5, <1>6, <1>7, <1>8, <1>9, <1>10 DEF SpawnerStep

\* A pane that is brought back: one counter of its slot is one higher, and so is the
\* number of respawns since the last stable run, or both start again at one.
Brought(p, g, s) ==
    /\ Reader(p, g, "decide", "tell_restart")
    /\ s \in Slot /\ ~s.killed /\ ~slot[p].killed
    /\ s.state = "restarting" /\ s.gen = slot[p].gen /\ s.live = slot[p].live
    /\ slot' = [slot EXCEPT ![p] = s]
    /\ unstable' = [unstable EXCEPT ![p] = unstable'[p]] /\ unstable'[p] \in Nat
    /\ unstable[p] <= slot[p].restarts + slot[p].reconnects
        => unstable'[p] <= s.restarts + s.reconnects
    /\ ~Unlimited(p) /\ slot[p].reconnects <= CapOf(p) => s.reconnects <= CapOf(p)
    /\ UNCHANGED present

LEMMA DecideCases ==
    ASSUME TypeOK, SessionsAssumption, NEW p \in Pane, NEW g \in Gen, Decide(p, g)
    PROVE  (\E s : Brought(p, g, s)) \/ StayDown(p, g)
  <1>s. slot[p] \in Slot /\ unstable[p] \in Nat BY DEF TypeOK
  <1>1. PICK stable \in BOOLEAN, code \in Code :
          \/ /\ Reconnects(p, code, Since(stable, slot[p].reconnects))
             /\ Respawn(p, g, stable,
                        [slot[p] EXCEPT !.reconnects = Since(stable, slot[p].reconnects) + 1])
          \/ /\ Autorestarts(p, code, Since(stable, slot[p].restarts))
             /\ Respawn(p, g, stable,
                        [slot[p] EXCEPT !.restarts = Since(stable, slot[p].restarts) + 1])
          \/ StayDown(p, g)
    BY DEF Decide
  <1>2. ASSUME NEW r \in 0 .. MaxAutorestarts, NEW c \in Nat,
               ~slot[p].killed,
               ~Unlimited(p) /\ slot[p].reconnects <= CapOf(p) => c <= CapOf(p),
               Respawn(p, g, stable, [slot[p] EXCEPT !.restarts = r, !.reconnects = c]),
               r + c >= 1, ~stable => r + c = slot[p].restarts + slot[p].reconnects + 1
        PROVE  \E s : Brought(p, g, s)
    <2> DEFINE u == [slot[p] EXCEPT !.restarts = r]
               v == [u EXCEPT !.reconnects = c]
               s == [v EXCEPT !.state = "restarting"]
    <2>0. v = [slot[p] EXCEPT !.restarts = r, !.reconnects = c] OBVIOUS
    <2>1. u \in Slot /\ u.gen = slot[p].gen /\ ~u.killed /\ u.live = slot[p].live /\ u.restarts = r
      BY <1>s, <1>2 DEF Slot
    <2> HIDE DEF u
    <2>2. v \in Slot /\ v.gen = slot[p].gen /\ ~v.killed /\ v.live = slot[p].live
          /\ v.restarts = r /\ v.reconnects = c
      BY <2>1 DEF Slot
    <2>3. slot' = [slot EXCEPT ![p] = s] BY <1>2, <2>0 DEF Respawn
    <2> HIDE DEF v
    <2>a. s \in Slot /\ s.gen = slot[p].gen /\ ~s.killed /\ s.live = slot[p].live
          /\ s.restarts = r /\ s.reconnects = c /\ s.state = "restarting"
      BY <2>2 DEF Slot, SlotState
    <2> HIDE DEF s
    <2>4. unstable'[p] = Since(stable, unstable[p]) + 1
          /\ unstable' = [unstable EXCEPT ![p] = unstable'[p]]
      BY <1>2 DEF Respawn, TypeOK
    <2>5. unstable'[p] \in Nat
          /\ (unstable[p] <= slot[p].restarts + slot[p].reconnects => unstable'[p] <= r + c)
      BY <1>s, <1>2, <2>4, SessionsAssumption DEF Since, Slot, SessionsAssumption
    <2>6. Brought(p, g, s) BY <1>2, <2>a, <2>3, <2>4, <2>5 DEF Brought, Respawn
    <2> QED BY <2>6
  <1>3. CASE /\ Reconnects(p, code, Since(stable, slot[p].reconnects))
             /\ Respawn(p, g, stable,
                        [slot[p] EXCEPT !.reconnects = Since(stable, slot[p].reconnects) + 1])
    <2> DEFINE c == Since(stable, slot[p].reconnects) + 1
    <2>1. c \in Nat /\ slot[p].restarts \in 0 .. MaxAutorestarts
          /\ slot[p].restarts + c >= 1
          /\ (~stable => c = slot[p].reconnects + 1) /\ ~slot[p].killed
      BY <1>s, <1>3, SessionsAssumption DEF Reconnects, Since, Slot, SessionsAssumption
    <2>5. ~Unlimited(p) => c <= CapOf(p)
      BY <1>s, <1>3, SessionsAssumption
      DEF Reconnects, Since, Slot, SessionsAssumption, Unlimited, CapOf
    <2>2. [slot[p] EXCEPT !.reconnects = c]
          = [slot[p] EXCEPT !.restarts = slot[p].restarts, !.reconnects = c]
      BY <1>s DEF Slot
    <2>3. Respawn(p, g, stable, [slot[p] EXCEPT !.restarts = slot[p].restarts, !.reconnects = c])
      BY <1>3, <2>2
    <2>4. ~stable => slot[p].restarts + c = slot[p].restarts + slot[p].reconnects + 1
      BY <1>s, <2>1 DEF Slot
    <2> HIDE DEF c
    <2> QED BY <1>2, <2>1, <2>3, <2>4, <2>5
  <1>4. CASE /\ Autorestarts(p, code, Since(stable, slot[p].restarts))
             /\ Respawn(p, g, stable,
                        [slot[p] EXCEPT !.restarts = Since(stable, slot[p].restarts) + 1])
    <2> DEFINE r == Since(stable, slot[p].restarts) + 1
    <2>1. r \in 0 .. MaxAutorestarts /\ slot[p].reconnects \in Nat
          /\ r + slot[p].reconnects >= 1
          /\ (~stable => r = slot[p].restarts + 1) /\ ~slot[p].killed
      BY <1>s, <1>4, SessionsAssumption DEF Autorestarts, Since, Slot, SessionsAssumption
    <2>2. [slot[p] EXCEPT !.restarts = r]
          = [slot[p] EXCEPT !.restarts = r, !.reconnects = slot[p].reconnects]
      BY <1>s DEF Slot
    <2>3. Respawn(p, g, stable, [slot[p] EXCEPT !.restarts = r, !.reconnects = slot[p].reconnects])
      BY <1>4, <2>2
    <2>4. ~stable => r + slot[p].reconnects = slot[p].restarts + slot[p].reconnects + 1
      BY <1>s, <2>1 DEF Slot
    <2> HIDE DEF r
    <2> QED BY <1>2, <2>1, <2>3, <2>4
  <1> QED BY <1>1, <1>3, <1>4

LEMMA ReaderType ==
    ASSUME TypeOK, SessionsAssumption, NEW p \in Pane, NEW g \in Gen, ReaderStep(p, g)
    PROVE  TypeOK'
  <1> DEFINE t == <<p, g>>
  <1>t. t \in Thread BY Numbers DEF Thread
  <1>0. reader' \in [Thread -> ReaderPhase]
    BY DEF ReaderStep, Announce, GoSilent, TakeLive, Wait, DecideStale, Decide, Respawn, StayDown,
       TellExit, TellRestart, Reader, TypeOK, ReaderPhase
  <1>1. CASE Announce(p, g) BY <1>0, <1>1 DEF Announce, TypeOK, SlotState, world
  <1>2. CASE GoSilent(p, g) BY <1>0, <1>2 DEF GoSilent, TypeOK, world
  <1>3. CASE TakeLive(p, g)
    <2>1. [slot[p] EXCEPT !.live = NoProcess] \in Slot
      BY <1>3, Numbers DEF TakeLive, TypeOK, Slot, NoProcess
    <2>2. slot' = [slot EXCEPT ![p] = [slot[p] EXCEPT !.live = NoProcess]] BY <1>3 DEF TakeLive
    <2>3. slot' \in [Pane -> Slot] BY <2>1, <2>2 DEF TypeOK
    <2> QED BY <1>0, <1>3, <2>3 DEF TakeLive, TypeOK, world
  <1>4. CASE Wait(p, g) BY <1>0, <1>4 DEF Wait, TypeOK, ProcessState
  <1>5. CASE DecideStale(p, g) BY <1>0, <1>5 DEF DecideStale, TypeOK, world
  <1>6. CASE Decide(p, g)
    <2>1. present' \subseteq present /\ slot' \in [Pane -> Slot] /\ unstable' \in [Pane -> Nat]
      <3>1. ASSUME NEW s, Brought(p, g, s) PROVE  present' \subseteq present /\ slot' \in [Pane -> Slot] /\ unstable' \in [Pane -> Nat]
        BY <3>1 DEF Brought, TypeOK, Slot, SlotState
      <3>2. ASSUME StayDown(p, g) PROVE  present' \subseteq present /\ slot' \in [Pane -> Slot] /\ unstable' \in [Pane -> Nat]
        BY <3>2, NewSlotType DEF StayDown, Remove, TypeOK, Slot, SlotState
      <3> QED BY <1>6, <3>1, <3>2, DecideCases
    <2> QED BY <1>0, <1>6, <2>1 DEF Decide, TypeOK, world
  <1>7. CASE TellExit(p, g) BY <1>0, <1>7 DEF TellExit, TypeOK, SlotState, world
  <1>8. CASE TellRestart(p, g)
    BY <1>0, <1>8, <1>t DEF TellRestart, TypeOK, SlotState, SpawnPhase, world
  <1> QED BY <1>1, <1>2, <1>3, <1>4, <1>5, <1>6, <1>7, <1>8 DEF ReaderStep

\* A slot whose pane was told to die is a slot.
LEMMA KilledSlot == ASSUME NEW s \in Slot PROVE [s EXCEPT !.killed = TRUE] \in Slot
  BY DEF Slot

LEMMA TypeStep == ASSUME TypeOK, SessionsAssumption, [Next]_vars PROVE TypeOK'
  <1>1. ASSUME NEW p \in Pane, OpenPane(p) PROVE TypeOK'
    BY <1>1, NewSlotType DEF OpenPane, TypeOK, Thread, Expected, SpawnPhase, world
  <1>2. ASSUME NEW p \in Pane, KillEmpty(p) PROVE TypeOK'
    BY <1>2, NewSlotType DEF KillEmpty, Remove, TypeOK, world, threads
  <1>3. ASSUME NEW p \in Pane, KillLive(p) PROVE TypeOK'
    <2>0. slot[p] \in Slot BY <1>3 DEF TypeOK
    <2>1. [slot[p] EXCEPT !.killed = TRUE] \in Slot BY <2>0, KilledSlot
    <2>2. slot' = [slot EXCEPT ![p] = [slot[p] EXCEPT !.killed = TRUE]] BY <1>3 DEF KillLive
    <2>3. slot' \in [Pane -> Slot] BY <2>1, <2>2 DEF TypeOK
    <2>4. process' \in [Gen -> ProcessState] BY <1>3 DEF KillLive, TypeOK, ProcessState
    <2> QED BY <1>3, <2>3, <2>4 DEF KillLive, TypeOK, threads
  <1>4. ASSUME NEW p \in Pane, Restart(p) PROVE TypeOK'
    <2>1. nextGen \in Expected /\ nextGen + 1 \in 1 .. MaxGen + 1
      BY <1>4, Numbers DEF Restart, Gen, SessionsAssumption
    <2>2. [NewSlot EXCEPT !.gen = nextGen, !.state = "restarting"] \in Slot
      BY <2>1, NewSlotType DEF Slot, NewSlot, SlotState
    <2>3. slot' \in [Pane -> Slot] BY <1>4, <2>2 DEF Restart, TypeOK
    <2>4. <<p, nextGen>> \in Thread /\ slot[p].live \in Expected
      BY <2>1 DEF Thread, TypeOK, Slot
    <2> QED BY <1>4, <2>1, <2>3, <2>4 DEF Restart, TypeOK, SpawnPhase
  <1>5. ASSUME NEW g \in Gen, Hangup(g) \/ Die(g) PROVE TypeOK'
    BY <1>5 DEF Hangup, Die, TypeOK, ProcessState, threads
  <1>6. CASE UNCHANGED vars BY <1>6 DEF vars, world, threads, TypeOK
  <1> QED BY <1>1, <1>2, <1>3, <1>4, <1>5, <1>6, SpawnerType, ReaderType DEF Next

-------------------------------------------------------------------------------

\* Every step keeps the invariant.
LEMMA Threads ==
    ASSUME SessionsAssumption
    PROVE  /\ \A p \in Pane, e \in Expected : <<p, e>> \in Thread
           /\ \A p \in Pane, g \in Gen : <<p, g>> \in Thread
           /\ \A t \in Thread : \E p \in Pane, e \in Expected : t = <<p, e>>
  BY Numbers DEF Thread

\* What the steps need of the types.
LEMMA Types ==
    ASSUME TypeOK
    PROVE  /\ present \subseteq opened /\ present \subseteq Pane
           /\ slot \in [Pane -> Slot] /\ nextGen \in Nat
           /\ process \in [Gen -> ProcessState] /\ unstable \in [Pane -> Nat]
           /\ spawner \in [Thread -> SpawnPhase] /\ hand \in [Thread -> Expected]
           /\ reader \in [Thread -> ReaderPhase]
  BY DEF TypeOK

\* A slot that stays as it is, with its two threads, stays in order.
LEMMA SlotStands ==
    ASSUME TypeOK, TypeOK', Slots, NEW q \in present, slot'[q] = slot[q], nextGen' >= nextGen,
           spawner'[<<q, slot[q].gen>>] = spawner[<<q, slot[q].gen>>],
           reader'[<<q, slot[q].gen>>] = reader[<<q, slot[q].gen>>]
    PROVE  SlotHolds(q)'
  <1>1. slot[q].gen \in Nat /\ nextGen \in Nat /\ nextGen' \in Nat
    BY DEF TypeOK, Slot, Expected
  <1> QED BY <1>1 DEF Slots, SlotHolds, SlotOk

\* A thread that comes to rest does not stand in the way of another.
LEMMA OneThreadStands ==
    ASSUME OneThread, reader' = reader,
           \A h \in Gen : process'[h] = "none" <=> process[h] = "none",
           \A q \in Pane, h \in Gen : spawner[<<q, h>>] = "idle" => spawner'[<<q, h>>] = "idle"
    PROVE  OneThread'
  BY DEF OneThread

\* Threads that install nothing new leave the hands in order.
LEMMA HandsStand ==
    ASSUME TypeOK, SessionsAssumption, Hands, hand' = hand,
           \A g \in Gen : process[g] # "none" => process'[g] # "none",
           \A g \in Gen, q \in Pane : reader[<<q, g>>] = "none" => reader'[<<q, g>>] = "none",
           \A u \in Thread : /\ hand[u] # NoProcess => spawner'[u] = spawner[u]
                             /\ spawner'[u] = "install" => spawner[u] = "install"
    PROVE  Hands'
  <1> SUFFICES ASSUME NEW t \in Thread
               PROVE  /\ hand[t] # NoProcess =>
                          spawner'[t] \in {"reap", "install"} /\ process'[hand[t]] # "none"
                      /\ spawner'[t] = "install" =>
                          /\ hand[t] # NoProcess
                          /\ \A q \in Pane : reader'[<<q, hand[t]>>] = "none"
                          /\ \A u \in Thread :
                                spawner'[u] = "install" /\ hand[u] = hand[t] => u = t
    BY DEF Hands
  <1>1. hand[t] # NoProcess => hand[t] \in Gen BY Numbers DEF TypeOK, NoProcess
  <1>2. CASE hand[t] = NoProcess BY <1>2 DEF Hands
  <1>3. CASE hand[t] # NoProcess BY <1>1, <1>3 DEF Hands
  <1> QED BY <1>2, <1>3

LEMMA ReapKeeps ==
    ASSUME SessionsAssumption, TypeOK, TypeOK', Fresh, Creator, OneThread, Hands, Slots, NoOrphan,
           Counted, NEW p \in Pane, NEW e \in Expected, Reap(p, e)
    PROVE  IInv'
  <1> USE Types, Numbers, Threads DEF Reap, NoProcess, world, threads, Spawner
  <1>p. \A h \in Gen : process'[h] = "none" <=> process[h] = "none"
    <2>1. hand[<<p, e>>] # NoProcess => process[hand[<<p, e>>]] # "none" BY DEF Hands
    <2>2. hand[<<p, e>>] \in Expected BY DEF Thread
    <2> QED BY <2>1, <2>2
  <1>1. Fresh' BY ZenonT(40), <1>p DEF Fresh
  <1>2. Creator' BY DEF Creator
  <1>3. OneThread' BY <1>p, OneThreadStands
  <1>4. Hands' BY DEF Hands
  <1>5. Slots' BY SMTT(30) DEF Slots, SlotHolds, SlotOk, Running, Revived
  <1>6. NoOrphan' 
    <2> SUFFICES ASSUME NEW h \in Gen, process'[h] \notin {"none", "reaped"}
                 PROVE  Held(h)' \/ h \in dropped'
      BY DEF NoOrphan
    <2>0. h # 0 /\ process[h] \notin {"none", "reaped"} BY DEF Gen
    <2>1. CASE h \in dropped BY <2>1
    <2>2. ASSUME NEW q \in present, slot[q].live = h PROVE Held(h)' \/ h \in dropped'
      BY <2>0, <2>2 DEF Held
    <2>3. ASSUME NEW t \in Thread, hand[t] = h PROVE Held(h)' \/ h \in dropped'
      BY <2>0, <2>3 DEF Held
    <2>4. ASSUME NEW q \in Pane, reader[<<q, h>>] = "waiting" PROVE Held(h)' \/ h \in dropped'
      BY <2>0, <2>4 DEF Held
    <2> QED BY <2>0, <2>1, <2>2, <2>3, <2>4 DEF NoOrphan, Held
  <1>7. Counted' BY DEF Counted
  <1> QED BY <1>1, <1>2, <1>3, <1>4, <1>5, <1>6, <1>7 DEF IInv

LEMMA DelayKeeps ==
    ASSUME SessionsAssumption, TypeOK, TypeOK', Fresh, Creator, OneThread, Hands, Slots, NoOrphan,
           Counted, NEW p \in Pane, NEW e \in Expected, Delay(p, e)
    PROVE  IInv'
  <1> USE Types, Numbers, Threads DEF Delay, NoProcess, world, threads, Spawner
  <1>1. Fresh' BY DEF Fresh
  <1>2. Creator' BY DEF Creator
  <1>3. OneThread' BY DEF OneThread
  <1>4. Hands' 
    <2>1. \A u \in Thread : hand[u] # NoProcess => spawner'[u] = spawner[u]
      BY DEF Hands
    <2>2. \A u \in Thread : spawner'[u] = "install" => spawner[u] = "install"
      BY DEF Hands
    <2> QED BY <2>1, <2>2, HandsStand
  <1>5. Slots' 
    <2> SUFFICES ASSUME NEW q \in present' PROVE SlotHolds(q)' BY DEF Slots
    <2>1. q \in present /\ q \in Pane /\ slot[q] \in Slot /\ slot[q].gen \in Expected /\ SlotHolds(q)
          /\ Slots
      BY DEF Slots, Slot
    <2>2. CASE <<q, slot[q].gen>> # <<p, e>>
      <3>1. /\ slot'[q] = slot[q] /\ nextGen' >= nextGen
            /\ spawner'[<<q, slot[q].gen>>] = spawner[<<q, slot[q].gen>>]
            /\ reader'[<<q, slot[q].gen>>] = reader[<<q, slot[q].gen>>]
        BY <2>1, <2>2
      <3> QED BY <2>1, <3>1, SlotStands
    <2>3. CASE q = p /\ slot[p].gen = e
      BY <2>1, <2>3 DEF SlotHolds, SlotOk, Running, Revived, Current, Creator
    <2> QED BY <2>2, <2>3
  <1>6. NoOrphan' BY DEF NoOrphan, Held
  <1>7. Counted' BY DEF Counted
  <1> QED BY <1>1, <1>2, <1>3, <1>4, <1>5, <1>6, <1>7 DEF IInv

LEMMA CheckKeeps ==
    ASSUME SessionsAssumption, TypeOK, TypeOK', Fresh, Creator, OneThread, Hands, Slots, NoOrphan,
           Counted, NEW p \in Pane, NEW e \in Expected, Check(p, e)
    PROVE  IInv'
  <1> USE Types, Numbers, Threads DEF Check, NoProcess, world, threads, Spawner
  <1>1. Fresh' BY DEF Fresh
  <1>2. Creator' BY DEF Creator
  <1>3. OneThread' BY DEF OneThread
  <1>4. Hands' 
    <2>1. \A u \in Thread : hand[u] # NoProcess => spawner'[u] = spawner[u]
      BY DEF Hands
    <2>2. \A u \in Thread : spawner'[u] = "install" => spawner[u] = "install"
      BY DEF Hands
    <2> QED BY <2>1, <2>2, HandsStand
  <1>5. Slots' BY DEF Slots, SlotHolds, SlotOk, Running, Revived
  <1>6. NoOrphan' BY DEF NoOrphan, Held
  <1>7. Counted' BY DEF Counted
  <1> QED BY <1>1, <1>2, <1>3, <1>4, <1>5, <1>6, <1>7 DEF IInv

LEMMA ForkKeeps ==
    ASSUME SessionsAssumption, TypeOK, TypeOK', Fresh, Creator, OneThread, Hands, Slots, NoOrphan,
           Counted, NEW p \in Pane, NEW e \in Expected, Fork(p, e)
    PROVE  IInv'
  <1> USE Types, Numbers, Threads DEF Fork, NoProcess, world, threads, Spawner
  <1>1. Fresh' BY DEF Fresh
  <1>2. Creator' BY DEF Creator
  <1>3. OneThread' 
    <2>0. nextGen \in Gen /\ e # nextGen /\ reader' = reader
          /\ \A q \in Pane : spawner[<<q, nextGen>>] = "idle" /\ reader[<<q, nextGen>>] = "none"
      BY DEF Fresh, Gen
    <2> SUFFICES ASSUME NEW q \in Pane, NEW h \in Gen
                 PROVE  /\ reader'[<<q, h>>] # "none" => process'[h] # "none"
                        /\ process'[h] # "none" /\ spawner'[<<q, h>>] # "idle"
                           => reader'[<<q, h>>] = "done"
      BY DEF OneThread
    <2>1. CASE h = nextGen BY <2>0, <2>1
    <2>2. CASE h # nextGen
      <3>1. process'[h] = process[h] BY <2>2
      <3>2. spawner[<<q, h>>] = "idle" => spawner'[<<q, h>>] = "idle" OBVIOUS
      <3> QED BY <2>0, <3>1, <3>2 DEF OneThread
    <2> QED BY <2>1, <2>2
  <1>4. Hands' 
    <2>0. <<p, e>> \in Thread /\ nextGen \in Gen /\ nextGen # 0 /\ process[nextGen] = "none"
          /\ \A q \in Pane : reader[<<q, nextGen>>] = "none"
      BY DEF Fresh, Gen
    <2>1. \A u \in Thread : hand[u] # nextGen BY <2>0 DEF Hands
    <2>2. ASSUME NEW t \in Thread, t # <<p, e>>
          PROVE  hand'[t] = hand[t] /\ spawner'[t] = spawner[t]
      BY <2>2
    <2>3. hand'[<<p, e>>] = nextGen /\ spawner'[<<p, e>>] = "install" BY <2>0
    <2>4. \A h \in Gen : process[h] # "none" => process'[h] # "none" OBVIOUS
    <2>5. \A u \in Thread : hand[u] # NoProcess => hand[u] \in Gen OBVIOUS
    <2> QED BY <2>0, <2>1, <2>2, <2>3, <2>4, <2>5 DEF Hands
  <1>5. Slots' 
    <2> SUFFICES ASSUME NEW q \in present' PROVE SlotHolds(q)' BY DEF Slots
    <2>1. q \in present /\ q \in Pane /\ slot[q] \in Slot /\ slot[q].gen \in Expected /\ SlotHolds(q)
          /\ Slots
      BY DEF Slots, Slot
    <2>2. CASE <<q, slot[q].gen>> # <<p, e>>
      <3>1. /\ slot'[q] = slot[q] /\ nextGen' >= nextGen
            /\ spawner'[<<q, slot[q].gen>>] = spawner[<<q, slot[q].gen>>]
            /\ reader'[<<q, slot[q].gen>>] = reader[<<q, slot[q].gen>>]
        BY <2>1, <2>2
      <3> QED BY <2>1, <3>1, SlotStands
    <2>3. CASE q = p /\ slot[p].gen = e
      BY <2>1, <2>3 DEF SlotHolds, SlotOk, Running, Revived, Current
    <2> QED BY <2>2, <2>3
  <1>6. NoOrphan' 
    <2> SUFFICES ASSUME NEW h \in Gen, process'[h] \notin {"none", "reaped"}
                 PROVE  Held(h)' \/ h \in dropped'
      BY DEF NoOrphan
    <2>0. <<p, e>> \in Thread /\ hand[<<p, e>>] = 0 BY DEF Hands
    <2>1. CASE h = nextGen BY <2>0, <2>1 DEF Held
    <2>2. CASE h # nextGen
      <3>1. h # 0 /\ (Held(h) \/ h \in dropped) BY <2>2 DEF NoOrphan, Gen
      <3> QED BY <2>0, <3>1 DEF Held
    <2> QED BY <2>1, <2>2
  <1>7. Counted' BY DEF Counted
  <1> QED BY <1>1, <1>2, <1>3, <1>4, <1>5, <1>6, <1>7 DEF IInv

LEMMA ForkFailsKeeps ==
    ASSUME SessionsAssumption, TypeOK, TypeOK', Fresh, Creator, OneThread, Hands, Slots, NoOrphan,
           Counted, NEW p \in Pane, NEW e \in Expected, ForkFails(p, e)
    PROVE  IInv'
  <1> USE Types, Numbers, Threads DEF ForkFails, NoProcess, world, threads, Spawner
  <1>1. Fresh' BY DEF Fresh
  <1>2. Creator' BY DEF Creator
  <1>3. OneThread' BY DEF OneThread
  <1>4. Hands' 
    <2>1. \A u \in Thread : hand[u] # NoProcess => spawner'[u] = spawner[u]
      BY DEF Hands
    <2>2. \A u \in Thread : spawner'[u] = "install" => spawner[u] = "install"
      BY DEF Hands
    <2> QED BY <2>1, <2>2, HandsStand
  <1>5. Slots' BY DEF Slots, SlotHolds, SlotOk, Running, Revived
  <1>6. NoOrphan' BY DEF NoOrphan, Held
  <1>7. Counted' BY DEF Counted
  <1> QED BY <1>1, <1>2, <1>3, <1>4, <1>5, <1>6, <1>7 DEF IInv

LEMMA InstallKeeps ==
    ASSUME SessionsAssumption, TypeOK, TypeOK', Fresh, Creator, OneThread, Hands, Slots, NoOrphan,
           Counted, NEW p \in Pane, NEW e \in Expected, Install(p, e)
    PROVE  IInv'
  <1> USE Types, Numbers, Threads DEF Install, NoProcess, world, threads, Spawner
  <1>h. <<p, e>> \in Thread /\ hand[<<p, e>>] \in Gen /\ process[hand[<<p, e>>]] # "none"
        /\ hand[<<p, e>>] < nextGen
        /\ \A q \in Pane : reader[<<q, hand[<<p, e>>]>>] = "none" /\ spawner[<<q, hand[<<p, e>>]>>] = "idle"
    <2>1. <<p, e>> \in Thread /\ hand[<<p, e>>] \in Gen /\ process[hand[<<p, e>>]] # "none"
          /\ \A q \in Pane : reader[<<q, hand[<<p, e>>]>>] = "none"
      BY DEF Hands
    <2>2. hand[<<p, e>>] < nextGen BY <2>1 DEF Fresh, Gen
    <2>3. \A q \in Pane : spawner[<<q, hand[<<p, e>>]>>] = "idle" BY <2>1 DEF OneThread
    <2> QED BY <2>1, <2>2, <2>3
  <1>1. Fresh' BY <1>h DEF Fresh
  <1>2. Creator' 
    <2>1. \A q \in Pane : reader'[<<q, 0>>] = reader[<<q, 0>>] BY <1>h DEF Gen
    <2> QED BY <2>1 DEF Creator
  <1>3. OneThread' 
    <2> DEFINE n == hand[<<p, e>>]
    <2>1. \A q \in Pane, h \in Gen : <<q, h>> # <<p, n>> => reader'[<<q, h>>] = reader[<<q, h>>]
      OBVIOUS
    <2>2. spawner'[<<p, n>>] = "idle" BY <1>h
    <2>3. \A q \in Pane, h \in Gen : spawner[<<q, h>>] = "idle" => spawner'[<<q, h>>] = "idle"
      OBVIOUS
    <2> SUFFICES ASSUME NEW q \in Pane, NEW h \in Gen
                 PROVE  /\ reader'[<<q, h>>] # "none" => process'[h] # "none"
                        /\ process'[h] # "none" /\ spawner'[<<q, h>>] # "idle"
                           => reader'[<<q, h>>] = "done"
      BY DEF OneThread
    <2>4. CASE <<q, h>> = <<p, n>> BY <1>h, <2>2, <2>4
    <2>5. CASE <<q, h>> # <<p, n>> BY <2>1, <2>3, <2>5 DEF OneThread
    <2> QED BY <2>4, <2>5
  <1>4. Hands' BY DEF Hands
  <1>5. Slots' 
    <2> SUFFICES ASSUME NEW q \in present' PROVE SlotHolds(q)' BY DEF Slots
    <2>1. q \in present /\ q \in Pane /\ slot[q] \in Slot /\ slot[q].gen \in Expected /\ SlotHolds(q)
          /\ Slots
      BY DEF Slots, Slot
    <2>2. CASE q # p
      <3>a. /\ slot'[q] = slot[q] /\ nextGen' >= nextGen
            /\ spawner'[<<q, slot[q].gen>>] = spawner[<<q, slot[q].gen>>]
            /\ reader'[<<q, slot[q].gen>>] = reader[<<q, slot[q].gen>>]
        BY <2>1, <2>2
      <3> QED BY <2>1, <3>a, SlotStands
    <2>3. CASE q = p
      <3> DEFINE n == hand[<<p, e>>]
      <3>1. slot'[p].gen = n /\ slot'[p].live = n /\ slot'[p].state = "running"
            /\ slot'[p].killed = slot[p].killed
        BY <2>1, <2>3, <1>h DEF Slot
      <3>2. reader'[<<p, n>>] = "announce" BY <1>h
      <3>3. spawner'[<<p, n>>] = "idle" BY <1>h
      <3>4. n # 0 /\ n < nextGen' BY <1>h DEF Gen
      <3> HIDE DEF n
      <3> QED BY ZenonT(40), <2>1, <2>3, <3>1, <3>2, <3>3, <3>4 DEF SlotHolds, SlotOk, Running
    <2> QED BY <2>2, <2>3
  <1>6. NoOrphan' 
    <2> SUFFICES ASSUME NEW h \in Gen, process'[h] \notin {"none", "reaped"}
                 PROVE  Held(h)' \/ h \in dropped'
      BY DEF NoOrphan
    <2>0. h # 0 /\ process[h] \notin {"none", "reaped"} BY DEF Gen
    <2>a. slot[p].live = 0 BY DEF Slots, SlotHolds, SlotOk, Current
    <2>b. p \in present' /\ slot'[p].live = hand[<<p, e>>] BY DEF Current, Slot, Thread
    <2>1. CASE h \in dropped BY <2>1
    <2>2. ASSUME NEW q \in present, slot[q].live = h PROVE Held(h)' \/ h \in dropped'
      BY <2>0, <2>2, <2>a DEF Held
    <2>3. ASSUME NEW t \in Thread, hand[t] = h PROVE Held(h)' \/ h \in dropped'
      BY <2>0, <2>3, <2>b DEF Held
    <2>4. ASSUME NEW q \in Pane, reader[<<q, h>>] = "waiting" PROVE Held(h)' \/ h \in dropped'
      BY <1>h, <2>0, <2>4 DEF Held
    <2> QED BY <2>0, <2>1, <2>2, <2>3, <2>4 DEF NoOrphan, Held
  <1>7. Counted' BY DEF Counted
  <1> QED BY <1>1, <1>2, <1>3, <1>4, <1>5, <1>6, <1>7 DEF IInv

LEMMA SupersededKeeps ==
    ASSUME SessionsAssumption, TypeOK, TypeOK', Fresh, Creator, OneThread, Hands, Slots, NoOrphan,
           Counted, NEW p \in Pane, NEW e \in Expected, Superseded(p, e)
    PROVE  IInv'
  <1> USE Types, Numbers, Threads DEF Superseded, NoProcess, world, threads, Spawner
  <1>p. \A h \in Gen : process'[h] = "none" <=> process[h] = "none"
    <2>1. hand[<<p, e>>] # NoProcess /\ process[hand[<<p, e>>]] # "none" BY DEF Hands
    <2>2. hand[<<p, e>>] \in Gen BY <2>1 DEF Thread
    <2> QED BY <2>1, <2>2
  <1>1. Fresh' BY SMTT(30), <1>p DEF Fresh
  <1>2. Creator' BY DEF Creator
  <1>3. OneThread' BY <1>p, OneThreadStands
  <1>4. Hands' BY DEF Hands
  <1>5. Slots' BY DEF Slots, SlotHolds, SlotOk, Running, Revived
  <1>6. NoOrphan' BY DEF NoOrphan, Held
  <1>7. Counted' BY DEF Counted
  <1> QED BY <1>1, <1>2, <1>3, <1>4, <1>5, <1>6, <1>7 DEF IInv

LEMMA RespawnFailsKeeps ==
    ASSUME SessionsAssumption, TypeOK, TypeOK', Fresh, Creator, OneThread, Hands, Slots, NoOrphan,
           Counted, NEW p \in Pane, NEW e \in Expected, RespawnFails(p, e)
    PROVE  IInv'
  <1> USE Types, Numbers, Threads DEF RespawnFails, NoProcess, world, threads, Spawner
  <1>1. Fresh' BY DEF Fresh
  <1>2. Creator' BY DEF Creator
  <1>3. OneThread' BY DEF OneThread
  <1>4. Hands' 
    <2>1. \A u \in Thread : hand[u] # NoProcess => spawner'[u] = spawner[u]
      BY DEF Hands
    <2>2. \A u \in Thread : spawner'[u] = "install" => spawner[u] = "install"
      BY DEF Hands
    <2> QED BY <2>1, <2>2, HandsStand
  <1>5. Slots' 
    <2> SUFFICES ASSUME NEW q \in present' PROVE SlotHolds(q)' BY DEF Slots
    <2>1. q \in present /\ q \in Pane /\ slot[q] \in Slot /\ slot[q].gen \in Expected /\ SlotHolds(q)
          /\ Slots
      BY DEF Slots, Slot
    <2>a. q = p /\ slot[p].gen = e =>
              /\ slot'[p].live = slot[p].live /\ slot'[p].gen = slot[p].gen
              /\ slot'[p].state = "exited" /\ slot'[p].killed = slot[p].killed
              /\ spawner'[<<p, e>>] = "mourn"
      BY <2>1 DEF Slot, Current
    <2>b. reader[<<p, e>>] # "tell_restart" BY DEF OneThread
    <2>2. CASE <<q, slot[q].gen>> # <<p, e>>
      <3>1. /\ slot'[q] = slot[q] /\ nextGen' >= nextGen
            /\ spawner'[<<q, slot[q].gen>>] = spawner[<<q, slot[q].gen>>]
            /\ reader'[<<q, slot[q].gen>>] = reader[<<q, slot[q].gen>>]
        BY <2>1, <2>2 DEF Current
      <3> QED BY <2>1, <3>1, SlotStands
    <2>3. CASE q = p /\ slot[p].gen = e
      BY <2>a, <2>b, <2>1, <2>3 DEF SlotHolds, SlotOk, Running, Revived, Current
    <2> QED BY <2>2, <2>3
  <1>6. NoOrphan' 
    <2> SUFFICES ASSUME NEW h \in Gen, process'[h] \notin {"none", "reaped"}
                 PROVE  Held(h)' \/ h \in dropped'
      BY DEF NoOrphan
    <2>0. h # 0 /\ process[h] \notin {"none", "reaped"} BY DEF Gen
    <2>1. CASE h \in dropped BY <2>1
    <2>2. ASSUME NEW q \in present, slot[q].live = h PROVE Held(h)' \/ h \in dropped'
      BY <2>0, <2>2 DEF Held
    <2>3. ASSUME NEW t \in Thread, hand[t] = h PROVE Held(h)' \/ h \in dropped'
      BY <2>0, <2>3 DEF Held
    <2>4. ASSUME NEW q \in Pane, reader[<<q, h>>] = "waiting" PROVE Held(h)' \/ h \in dropped'
      BY <2>0, <2>4 DEF Held
    <2> QED BY <2>0, <2>1, <2>2, <2>3, <2>4 DEF NoOrphan, Held
  <1>7. Counted' BY DEF Counted
  <1> QED BY <1>1, <1>2, <1>3, <1>4, <1>5, <1>6, <1>7 DEF IInv

LEMMA MournKeeps ==
    ASSUME SessionsAssumption, TypeOK, TypeOK', Fresh, Creator, OneThread, Hands, Slots, NoOrphan,
           Counted, NEW p \in Pane, NEW e \in Expected, Mourn(p, e)
    PROVE  IInv'
  <1> USE Types, Numbers, Threads DEF Mourn, NoProcess, world, threads, Spawner
  <1>1. Fresh' BY DEF Fresh
  <1>2. Creator' BY DEF Creator
  <1>3. OneThread' BY DEF OneThread
  <1>4. Hands' 
    <2>1. \A u \in Thread : hand[u] # NoProcess => spawner'[u] = spawner[u]
      BY DEF Hands
    <2>2. \A u \in Thread : spawner'[u] = "install" => spawner[u] = "install"
      BY DEF Hands
    <2> QED BY <2>1, <2>2, HandsStand
  <1>5. Slots' 
    <2> SUFFICES ASSUME NEW q \in present' PROVE SlotHolds(q)' BY DEF Slots
    <2>1. q \in present /\ q \in Pane /\ slot[q] \in Slot /\ slot[q].gen \in Expected /\ SlotHolds(q)
          /\ Slots
      BY DEF Slots, Slot
    <2>2. CASE <<q, slot[q].gen>> # <<p, e>>
      <3>1. /\ slot'[q] = slot[q] /\ nextGen' >= nextGen
            /\ spawner'[<<q, slot[q].gen>>] = spawner[<<q, slot[q].gen>>]
            /\ reader'[<<q, slot[q].gen>>] = reader[<<q, slot[q].gen>>]
        BY <2>1, <2>2
      <3> QED BY <2>1, <3>1, SlotStands
    <2>3. CASE q = p /\ slot[p].gen = e
      BY <2>1, <2>3 DEF SlotHolds, SlotOk, Running, Revived, Current
    <2> QED BY <2>2, <2>3
  <1>6. NoOrphan' BY DEF NoOrphan, Held
  <1>7. Counted' BY DEF Counted
  <1> QED BY <1>1, <1>2, <1>3, <1>4, <1>5, <1>6, <1>7 DEF IInv

LEMMA AnnounceKeeps ==
    ASSUME SessionsAssumption, TypeOK, TypeOK', Fresh, Creator, OneThread, Hands, Slots, NoOrphan,
           Counted, NEW p \in Pane, NEW g \in Gen, Announce(p, g)
    PROVE  IInv'
  <1> USE Types, Numbers, Threads DEF Announce, NoProcess, world, threads, Reader
  <1>1. Fresh' BY DEF Fresh
  <1>2. Creator' BY DEF Creator
  <1>3. OneThread' BY DEF OneThread
  <1>4. Hands' BY DEF Hands
  <1>5. Slots' BY DEF Slots, SlotHolds, SlotOk, Running, Revived
  <1>6. NoOrphan' BY DEF NoOrphan, Held
  <1>7. Counted' BY DEF Counted
  <1> QED BY <1>1, <1>2, <1>3, <1>4, <1>5, <1>6, <1>7 DEF IInv

LEMMA GoSilentKeeps ==
    ASSUME SessionsAssumption, TypeOK, TypeOK', Fresh, Creator, OneThread, Hands, Slots, NoOrphan,
           Counted, NEW p \in Pane, NEW g \in Gen, GoSilent(p, g)
    PROVE  IInv'
  <1> USE Types, Numbers, Threads DEF GoSilent, NoProcess, world, threads, Reader
  <1>1. Fresh' BY DEF Fresh
  <1>2. Creator' BY DEF Creator
  <1>3. OneThread' BY DEF OneThread
  <1>4. Hands' BY DEF Hands
  <1>5. Slots' 
    <2> SUFFICES ASSUME NEW q \in present' PROVE SlotHolds(q)' BY DEF Slots
    <2>1. q \in present /\ q \in Pane /\ slot[q] \in Slot /\ slot[q].gen \in Expected /\ SlotHolds(q)
          /\ Slots
      BY DEF Slots, Slot
    <2>2. CASE <<q, slot[q].gen>> # <<p, g>>
      <3>1. /\ slot'[q] = slot[q] /\ nextGen' >= nextGen
            /\ spawner'[<<q, slot[q].gen>>] = spawner[<<q, slot[q].gen>>]
            /\ reader'[<<q, slot[q].gen>>] = reader[<<q, slot[q].gen>>]
        BY <2>1, <2>2
      <3> QED BY <2>1, <3>1, SlotStands
    <2>3. CASE q = p /\ slot[p].gen = g
      BY <2>1, <2>3 DEF SlotHolds, SlotOk, Running, Revived, Current
    <2> QED BY <2>2, <2>3
  <1>6. NoOrphan' BY DEF NoOrphan, Held
  <1>7. Counted' BY DEF Counted
  <1> QED BY <1>1, <1>2, <1>3, <1>4, <1>5, <1>6, <1>7 DEF IInv

LEMMA TakeLiveKeeps ==
    ASSUME SessionsAssumption, TypeOK, TypeOK', Fresh, Creator, OneThread, Hands, Slots, NoOrphan,
           Counted, NEW p \in Pane, NEW g \in Gen, TakeLive(p, g)
    PROVE  IInv'
  <1> USE Types, Numbers, Threads DEF TakeLive, NoProcess, world, threads, Reader
  <1>1. Fresh' BY DEF Fresh
  <1>2. Creator' BY DEF Creator
  <1>3. OneThread' BY DEF OneThread
  <1>4. Hands' BY DEF Hands
  <1>5. Slots' 
    <2> SUFFICES ASSUME NEW q \in present' PROVE SlotHolds(q)' BY DEF Slots
    <2>1. q \in present /\ q \in Pane /\ slot[q] \in Slot /\ slot[q].gen \in Expected /\ SlotHolds(q)
          /\ Slots
      BY DEF Slots, Slot
    <2>a. q = p => /\ slot'[p].live = NoProcess /\ slot'[p].gen = slot[p].gen
                   /\ slot'[p].state = slot[p].state /\ slot'[p].killed = slot[p].killed
      BY <2>1 DEF Slot
    <2>2. CASE q # p
      <3>1. /\ slot'[q] = slot[q] /\ nextGen' >= nextGen
            /\ spawner'[<<q, slot[q].gen>>] = spawner[<<q, slot[q].gen>>]
            /\ reader'[<<q, slot[q].gen>>] = reader[<<q, slot[q].gen>>]
        BY <2>1, <2>2
      <3> QED BY <2>1, <3>1, SlotStands
    <2>3. CASE q = p
      BY <2>a, <2>1, <2>3 DEF SlotHolds, SlotOk, Running, Revived, Current
    <2> QED BY <2>2, <2>3
  <1>6. NoOrphan' 
    <2> SUFFICES ASSUME NEW h \in Gen, process'[h] \notin {"none", "reaped"}
                 PROVE  Held(h)' \/ h \in dropped'
      BY DEF NoOrphan
    <2>0. h # 0 /\ process[h] \notin {"none", "reaped"} BY DEF Gen
    <2>a. slot[p].live = g \/ slot[p].live = 0
      BY DEF Slots, SlotHolds, SlotOk, Running, Current
    <2>1. CASE h \in dropped BY <2>1
    <2>2. ASSUME NEW q \in present, slot[q].live = h PROVE Held(h)' \/ h \in dropped'
      BY <2>0, <2>2, <2>a DEF Held, Current
    <2>3. ASSUME NEW t \in Thread, hand[t] = h PROVE Held(h)' \/ h \in dropped'
      BY <2>0, <2>3 DEF Held
    <2>4. ASSUME NEW q \in Pane, reader[<<q, h>>] = "waiting" PROVE Held(h)' \/ h \in dropped'
      BY <2>0, <2>4 DEF Held
    <2> QED BY <2>0, <2>1, <2>2, <2>3, <2>4 DEF NoOrphan, Held
  <1>7. Counted' BY DEF Counted
  <1> QED BY <1>1, <1>2, <1>3, <1>4, <1>5, <1>6, <1>7 DEF IInv

LEMMA WaitKeeps ==
    ASSUME SessionsAssumption, TypeOK, TypeOK', Fresh, Creator, OneThread, Hands, Slots, NoOrphan,
           Counted, NEW p \in Pane, NEW g \in Gen, Wait(p, g)
    PROVE  IInv'
  <1> USE Types, Numbers, Threads DEF Wait, NoProcess, world, threads, Reader
  <1>1. Fresh' BY DEF Fresh
  <1>2. Creator' BY DEF Creator
  <1>3. OneThread' BY DEF OneThread
  <1>4. Hands' BY DEF Hands
  <1>5. Slots' BY DEF Slots, SlotHolds, SlotOk, Running, Revived
  <1>6. NoOrphan' BY DEF NoOrphan, Held
  <1>7. Counted' BY DEF Counted
  <1> QED BY <1>1, <1>2, <1>3, <1>4, <1>5, <1>6, <1>7 DEF IInv

LEMMA DecideStaleKeeps ==
    ASSUME SessionsAssumption, TypeOK, TypeOK', Fresh, Creator, OneThread, Hands, Slots, NoOrphan,
           Counted, NEW p \in Pane, NEW g \in Gen, DecideStale(p, g)
    PROVE  IInv'
  <1> USE Types, Numbers, Threads DEF DecideStale, NoProcess, world, threads, Reader
  <1>1. Fresh' BY DEF Fresh
  <1>2. Creator' BY DEF Creator
  <1>3. OneThread' BY DEF OneThread
  <1>4. Hands' BY DEF Hands
  <1>5. Slots' 
    <2> SUFFICES ASSUME NEW q \in present' PROVE SlotHolds(q)' BY DEF Slots
    <2>1. q \in present /\ q \in Pane /\ slot[q] \in Slot /\ slot[q].gen \in Expected /\ SlotHolds(q)
          /\ Slots
      BY DEF Slots, Slot
    <2>2. CASE <<q, slot[q].gen>> # <<p, g>>
      <3>1. /\ slot'[q] = slot[q] /\ nextGen' >= nextGen
            /\ spawner'[<<q, slot[q].gen>>] = spawner[<<q, slot[q].gen>>]
            /\ reader'[<<q, slot[q].gen>>] = reader[<<q, slot[q].gen>>]
        BY <2>1, <2>2
      <3> QED BY <2>1, <3>1, SlotStands
    <2>3. CASE q = p /\ slot[p].gen = g
      BY <2>1, <2>3 DEF SlotHolds, SlotOk, Running, Revived, Current
    <2> QED BY <2>2, <2>3
  <1>6. NoOrphan' BY DEF NoOrphan, Held
  <1>7. Counted' BY DEF Counted
  <1> QED BY <1>1, <1>2, <1>3, <1>4, <1>5, <1>6, <1>7 DEF IInv

LEMMA TellExitKeeps ==
    ASSUME SessionsAssumption, TypeOK, TypeOK', Fresh, Creator, OneThread, Hands, Slots, NoOrphan,
           Counted, NEW p \in Pane, NEW g \in Gen, TellExit(p, g)
    PROVE  IInv'
  <1> USE Types, Numbers, Threads DEF TellExit, NoProcess, world, threads, Reader
  <1>1. Fresh' BY DEF Fresh
  <1>2. Creator' BY DEF Creator
  <1>3. OneThread' BY DEF OneThread
  <1>4. Hands' BY DEF Hands
  <1>5. Slots' 
    <2> SUFFICES ASSUME NEW q \in present' PROVE SlotHolds(q)' BY DEF Slots
    <2>1. q \in present /\ q \in Pane /\ slot[q] \in Slot /\ slot[q].gen \in Expected /\ SlotHolds(q)
          /\ Slots
      BY DEF Slots, Slot
    <2>2. CASE <<q, slot[q].gen>> # <<p, g>>
      <3>1. /\ slot'[q] = slot[q] /\ nextGen' >= nextGen
            /\ spawner'[<<q, slot[q].gen>>] = spawner[<<q, slot[q].gen>>]
            /\ reader'[<<q, slot[q].gen>>] = reader[<<q, slot[q].gen>>]
        BY <2>1, <2>2
      <3> QED BY <2>1, <3>1, SlotStands
    <2>3. CASE q = p /\ slot[p].gen = g
      BY <2>1, <2>3 DEF SlotHolds, SlotOk, Running, Revived, Current
    <2> QED BY <2>2, <2>3
  <1>6. NoOrphan' BY DEF NoOrphan, Held
  <1>7. Counted' BY DEF Counted
  <1> QED BY <1>1, <1>2, <1>3, <1>4, <1>5, <1>6, <1>7 DEF IInv

LEMMA TellRestartKeeps ==
    ASSUME SessionsAssumption, TypeOK, TypeOK', Fresh, Creator, OneThread, Hands, Slots, NoOrphan,
           Counted, NEW p \in Pane, NEW g \in Gen, TellRestart(p, g)
    PROVE  IInv'
  <1> USE Types, Numbers, Threads DEF TellRestart, NoProcess, world, threads, Reader
  <1>i. <<p, g>> \in Thread /\ spawner[<<p, g>>] = "idle" /\ process[g] # "none"
    BY DEF OneThread
  <1>1. Fresh' BY DEF Fresh
  <1>2. Creator' BY DEF Creator
  <1>3. OneThread' BY <1>i DEF OneThread
  <1>4. Hands' 
    <2>1. \A u \in Thread : hand[u] # NoProcess => spawner'[u] = spawner[u]
      BY <1>i DEF Hands
    <2>2. \A u \in Thread : spawner'[u] = "install" => spawner[u] = "install" OBVIOUS
    <2> QED BY <2>1, <2>2, HandsStand
  <1>5. Slots' BY DEF Slots, SlotHolds, SlotOk, Running, Revived
  <1>6. NoOrphan' BY DEF NoOrphan, Held
  <1>7. Counted' BY DEF Counted
  <1> QED BY <1>1, <1>2, <1>3, <1>4, <1>5, <1>6, <1>7 DEF IInv

LEMMA DecideKeeps ==
    ASSUME SessionsAssumption, TypeOK, TypeOK', Fresh, Creator, OneThread, Hands, Slots, NoOrphan,
           Counted, NEW p \in Pane, NEW g \in Gen, Decide(p, g)
    PROVE  IInv'
  <1> USE Types, Numbers, Threads DEF Thread, NoProcess, world, threads
  <1>a. Current(p, g) /\ UNCHANGED <<opened, world, spawner, hand, told, dropped>> BY DEF Decide
  <1>b. PICK to \in {"tell_restart", "tell_exit"} :
          reader[<<p, g>>] = "decide" /\ reader' = [reader EXCEPT ![<<p, g>>] = to]
    BY DecideCases DEF Brought, StayDown, Reader
  <1>c. p \in present /\ slot[p] \in Slot /\ slot[p].gen = g /\ slot[p].live = 0 /\ spawner[<<p, g>>] = "idle"
        /\ g < nextGen
    BY <1>a, <1>b DEF Current, IInv, Slots, SlotHolds, SlotOk, Running
  <1>d. <<p, g>> \in Thread /\ g # 0 /\ process[g] # "none" BY <1>b DEF OneThread, Gen
  <1>e. \A q \in Pane : q # p => (q \in present' <=> q \in present) /\ slot'[q] = slot[q]
                                 /\ unstable'[q] = unstable[q]
    BY DecideCases DEF Brought, StayDown, Remove
  <1>1. Fresh' BY <1>a, <1>b, <1>c DEF Fresh
  <1>2. Creator' 
    <2>1. \A q \in Pane : reader'[<<q, 0>>] = reader[<<q, 0>>] BY <1>b, <1>d
    <2>2. p \in opened BY <1>c
    <2> QED BY ZenonT(40), <1>a, <1>e, <2>1, <2>2 DEF Creator
  <1>3. OneThread' BY <1>a, <1>b, <1>c, <1>d DEF OneThread
  <1>4. Hands' BY <1>a, <1>b, <1>d, HandsStand
  <1>5. Slots' 
    <2> SUFFICES ASSUME NEW q \in present' PROVE SlotHolds(q)' BY DEF Slots
    <2>1. q \in Pane BY DEF TypeOK
    <2>2. CASE q # p
      <3>1. q \in present /\ slot'[q] = slot[q] BY <1>e, <2>1, <2>2
      <3>2. reader'[<<q, slot[q].gen>>] = reader[<<q, slot[q].gen>>] BY <1>b, <2>2
      <3> QED BY <1>a, <3>1, <3>2, SlotStands
    <2>3. ASSUME q = p, NEW s, Brought(p, g, s) PROVE SlotHolds(q)'
      <3>1. slot'[p] = s /\ reader'[<<p, g>>] = "tell_restart" BY <1>d, <2>3 DEF Brought, Reader
      <3> QED BY <1>a, <1>c, <1>d, <2>3, <3>1 DEF Brought, SlotHolds, SlotOk, Revived
    <2>4. ASSUME q = p, StayDown(p, g) PROVE SlotHolds(q)'
      <3>1. ~slot[p].killed BY <2>4 DEF StayDown, Remove
      <3>2. slot'[p].gen = g /\ slot'[p].live = 0 /\ slot'[p].state = "exited" /\ ~slot'[p].killed
        BY <1>c, <2>4, <3>1 DEF StayDown, Slot
      <3>3. reader'[<<p, g>>] = "tell_exit" BY <1>d, <2>4 DEF StayDown, Reader
      <3> QED BY <1>a, <1>c, <1>d, <2>4, <3>2, <3>3 DEF SlotHolds, SlotOk, Revived
    <2> QED BY <2>2, <2>3, <2>4, DecideCases
  <1>6. NoOrphan' 
    <2> SUFFICES ASSUME NEW h \in Gen, process'[h] \notin {"none", "reaped"}
                 PROVE  Held(h)' \/ h \in dropped'
      BY DEF NoOrphan
    <2>0. h # 0 /\ process[h] \notin {"none", "reaped"} BY <1>a DEF Gen
    <2>1. CASE h \in dropped BY <1>a, <2>1
    <2>2. ASSUME NEW q \in present, slot[q].live = h PROVE Held(h)' \/ h \in dropped'
      BY <1>c, <1>e, <2>0, <2>2 DEF Held
    <2>3. ASSUME NEW t \in Thread, hand[t] = h PROVE Held(h)' \/ h \in dropped'
      BY <1>a, <2>0, <2>3 DEF Held
    <2>4. ASSUME NEW q \in Pane, reader[<<q, h>>] = "waiting" PROVE Held(h)' \/ h \in dropped'
      BY <1>b, <2>0, <2>4 DEF Held
    <2> QED BY <2>0, <2>1, <2>2, <2>3, <2>4 DEF NoOrphan, Held
  <1>7. Counted' 
    <2> SUFFICES ASSUME ~Unlimited(p)
                 PROVE  /\ unstable'[p] <= Limit(p)
                        /\ p \in present' =>
                              /\ slot'[p].reconnects <= CapOf(p)
                              /\ unstable'[p] <= slot'[p].restarts + slot'[p].reconnects
      BY <1>e DEF Counted
    <2>0. /\ slot[p].reconnects <= CapOf(p) /\ unstable[p] <= Limit(p)
          /\ unstable[p] <= slot[p].restarts + slot[p].reconnects
      BY <1>c DEF Counted
    <2>1. ASSUME NEW s, Brought(p, g, s)
          PROVE  /\ unstable'[p] <= Limit(p)
                 /\ slot'[p].reconnects <= CapOf(p)
                 /\ unstable'[p] <= slot'[p].restarts + slot'[p].reconnects
      <3>1. slot'[p] = s /\ s \in Slot /\ unstable'[p] \in Nat BY <2>1 DEF Brought
      <3>2. s.reconnects <= CapOf(p) /\ unstable'[p] <= s.restarts + s.reconnects
        BY <2>0, <2>1 DEF Brought
      <3>3. s.restarts + s.reconnects <= Limit(p) /\ s.restarts \in Nat /\ s.reconnects \in Nat
        BY <3>1, <3>2, Limits DEF Slot
      <3> HIDE DEF Counted
      <3> QED BY <3>1, <3>2, <3>3, Limits
    <2>2. ASSUME StayDown(p, g)
          PROVE  /\ unstable'[p] = unstable[p]
                 /\ p \in present' => /\ slot'[p].restarts = slot[p].restarts
                                      /\ slot'[p].reconnects = slot[p].reconnects
      <3>1. CASE slot[p].killed BY <2>2, <3>1 DEF StayDown, Remove
      <3>2. CASE ~slot[p].killed BY <1>c, <2>2, <3>2 DEF StayDown, Slot
      <3> QED BY <3>1, <3>2
    <2> QED BY <2>0, <2>1, <2>2, DecideCases
  <1> QED BY <1>1, <1>2, <1>3, <1>4, <1>5, <1>6, <1>7 DEF IInv

LEMMA OpenPaneKeeps ==
    ASSUME SessionsAssumption, TypeOK, TypeOK', Fresh, Creator, OneThread, Hands, Slots, NoOrphan,
           Counted, NEW p \in Pane, OpenPane(p)
    PROVE  IInv'
  <1> USE Types, Numbers, Threads DEF OpenPane, NoProcess, world, threads
  <1>1. Fresh' BY DEF Fresh, Gen
  <1>2. Creator' BY DEF Creator
  <1>3. OneThread' 
    <2>0. 0 \notin Gen BY DEF Gen
    <2>1. \A q \in Pane, h \in Gen : <<q, h>> \in Thread /\ <<q, h>> # <<p, 0>> BY <2>0
    <2>2. \A q \in Pane, h \in Gen : spawner[<<q, h>>] = "idle" => spawner'[<<q, h>>] = "idle"
      BY <2>1
    <2> QED BY <2>2, OneThreadStands
  <1>4. Hands' 
    <2>0. spawner[<<p, 0>>] = "idle" BY DEF Creator
    <2>1. \A u \in Thread : hand[u] # NoProcess => spawner'[u] = spawner[u]
      BY <2>0 DEF Hands
    <2>2. \A u \in Thread : spawner'[u] = "install" => spawner[u] = "install" OBVIOUS
    <2> QED BY <2>1, <2>2, HandsStand
  <1>5. Slots' 
    <2>0. <<p, 0>> \in Thread /\ p \notin present /\ slot'[p] = NewSlot
          /\ \A q \in present : q # p /\ q \in Pane /\ slot'[q] = slot[q]
      OBVIOUS
    <2> SUFFICES ASSUME NEW q \in present' PROVE SlotHolds(q)' BY DEF Slots
    <2>2. CASE q \in present
      <3>1. slot[q] \in Slot /\ slot[q].gen \in Expected BY <2>2 DEF Slot
      <3>a. /\ slot'[q] = slot[q] /\ nextGen' >= nextGen
            /\ spawner'[<<q, slot[q].gen>>] = spawner[<<q, slot[q].gen>>]
            /\ reader'[<<q, slot[q].gen>>] = reader[<<q, slot[q].gen>>]
        BY <2>0, <2>2, <3>1
      <3> QED BY <2>2, <3>a, SlotStands
    <2>3. CASE q = p
      <3>1. spawner'[<<p, 0>>] = "check" /\ reader'[<<p, 0>>] = "none" BY <2>0 DEF Creator
      <3>2. slot'[p].gen = 0 /\ slot'[p].state = "starting" /\ ~slot'[p].killed /\ slot'[p].live = 0
        BY <2>0 DEF NewSlot
      <3>3. 0 < nextGen' BY DEF TypeOK
      <3> QED BY <2>3, <3>1, <3>2, <3>3 DEF SlotHolds, SlotOk, Revived
    <2> QED BY <2>2, <2>3
  <1>6. NoOrphan' 
    <2> SUFFICES ASSUME NEW h \in Gen, process'[h] \notin {"none", "reaped"}
                 PROVE  Held(h)' \/ h \in dropped'
      BY DEF NoOrphan
    <2>0. h # 0 /\ process[h] \notin {"none", "reaped"} BY DEF Gen
    <2>1. CASE h \in dropped BY <2>1
    <2>2. ASSUME NEW q \in present, slot[q].live = h PROVE Held(h)' \/ h \in dropped'
      BY <2>0, <2>2 DEF Held
    <2>3. ASSUME NEW t \in Thread, hand[t] = h PROVE Held(h)' \/ h \in dropped'
      BY <2>0, <2>3 DEF Held
    <2>4. ASSUME NEW q \in Pane, reader[<<q, h>>] = "waiting" PROVE Held(h)' \/ h \in dropped'
      BY <2>0, <2>4 DEF Held
    <2> QED BY <2>0, <2>1, <2>2, <2>3, <2>4 DEF NoOrphan, Held
  <1>7. Counted' 
    <2>0. <<p, 0>> \in Thread /\ p \notin present /\ slot'[p] = NewSlot
          /\ \A q \in present : q # p /\ q \in Pane /\ slot'[q] = slot[q]
      OBVIOUS
    <2>1. unstable[p] = 0 BY DEF Creator
    <2>2. NewSlot.restarts = 0 /\ NewSlot.reconnects = 0 BY DEF NewSlot
    <2> QED BY <2>0, <2>1, <2>2, Limits DEF Counted
  <1> QED BY <1>1, <1>2, <1>3, <1>4, <1>5, <1>6, <1>7 DEF IInv

LEMMA KillEmptyKeeps ==
    ASSUME SessionsAssumption, TypeOK, TypeOK', Fresh, Creator, OneThread, Hands, Slots, NoOrphan,
           Counted, NEW p \in Pane, KillEmpty(p)
    PROVE  IInv'
  <1> USE Types, Numbers, Threads DEF KillEmpty, NoProcess, world, threads
  <1>1. Fresh' BY DEF Fresh
  <1>2. Creator' BY DEF Creator
  <1>3. OneThread' BY DEF OneThread
  <1>4. Hands' BY DEF Hands
  <1>5. Slots' 
    <2>0. \A q \in present' : q \in present /\ q # p /\ q \in Pane /\ slot'[q] = slot[q]
      BY DEF Remove
    <2> SUFFICES ASSUME NEW q \in present' PROVE SlotHolds(q)' BY DEF Slots
    <2> QED BY <2>0, SlotStands
  <1>6. NoOrphan' 
    <2> SUFFICES ASSUME NEW h \in Gen, process'[h] \notin {"none", "reaped"}
                 PROVE  Held(h)' \/ h \in dropped'
      BY DEF NoOrphan
    <2>0. h # 0 /\ process[h] \notin {"none", "reaped"} BY DEF Gen
    <2>1. CASE h \in dropped BY <2>1
    <2>2. ASSUME NEW q \in present, slot[q].live = h PROVE Held(h)' \/ h \in dropped'
      BY <2>0, <2>2 DEF Held, Remove
    <2>3. ASSUME NEW t \in Thread, hand[t] = h PROVE Held(h)' \/ h \in dropped'
      BY <2>0, <2>3 DEF Held
    <2>4. ASSUME NEW q \in Pane, reader[<<q, h>>] = "waiting" PROVE Held(h)' \/ h \in dropped'
      BY <2>0, <2>4 DEF Held
    <2> QED BY <2>0, <2>1, <2>2, <2>3, <2>4 DEF NoOrphan, Held
  <1>7. Counted' 
    <2>0. \A q \in present' : q \in present /\ q # p /\ q \in Pane /\ slot'[q] = slot[q]
      BY DEF Remove
    <2>2. \A q \in Pane : q # p => (q \in present' <=> q \in present) /\ slot'[q] = slot[q]
      BY DEF Remove
    <2>3. p \notin present' BY DEF Remove
    <2> QED BY <2>2, <2>3 DEF Counted
  <1> QED BY <1>1, <1>2, <1>3, <1>4, <1>5, <1>6, <1>7 DEF IInv

LEMMA KillLiveKeeps ==
    ASSUME SessionsAssumption, TypeOK, TypeOK', Fresh, Creator, OneThread, Hands, Slots, NoOrphan,
           Counted, NEW p \in Pane, KillLive(p)
    PROVE  IInv'
  <1> USE Types, Numbers, Threads DEF KillLive, NoProcess, world, threads
  <1>p. \A h \in Gen : process'[h] = "none" <=> process[h] = "none"
    BY DEF Alive
  <1>1. Fresh' BY <1>p DEF Fresh
  <1>2. Creator' BY DEF Creator
  <1>3. OneThread' BY <1>p, OneThreadStands
  <1>4. Hands' BY DEF Hands
  <1>5. Slots' BY DEF Slots, SlotHolds, SlotOk, Running, Revived
  <1>6. NoOrphan' 
    <2> SUFFICES ASSUME NEW h \in Gen, process'[h] \notin {"none", "reaped"}
                 PROVE  Held(h)' \/ h \in dropped'
      BY DEF NoOrphan
    <2>0. h # 0 /\ process[h] \notin {"none", "reaped"} BY DEF Gen, Alive
    <2>1. CASE h \in dropped BY <2>1
    <2>2. ASSUME NEW q \in present, slot[q].live = h PROVE Held(h)' \/ h \in dropped'
      BY <2>0, <2>2 DEF Held
    <2>3. ASSUME NEW t \in Thread, hand[t] = h PROVE Held(h)' \/ h \in dropped'
      BY <2>0, <2>3 DEF Held
    <2>4. ASSUME NEW q \in Pane, reader[<<q, h>>] = "waiting" PROVE Held(h)' \/ h \in dropped'
      BY <2>0, <2>4 DEF Held
    <2> QED BY <2>0, <2>1, <2>2, <2>3, <2>4 DEF NoOrphan, Held
  <1>7. Counted' BY DEF Counted
  <1> QED BY <1>1, <1>2, <1>3, <1>4, <1>5, <1>6, <1>7 DEF IInv

LEMMA RestartKeeps ==
    ASSUME SessionsAssumption, TypeOK, TypeOK', Fresh, Creator, OneThread, Hands, Slots, NoOrphan,
           Counted, NEW p \in Pane, Restart(p)
    PROVE  IInv'
  <1> USE Types, Numbers, Threads DEF Restart, NoProcess, world, threads
  <1>1. Fresh' BY DEF Fresh
  <1>2. Creator' 
    <2>0. <<p, nextGen>> \in Thread /\ nextGen \in Gen /\ process[nextGen] = "none"
          /\ spawner[<<p, nextGen>>] = "idle" /\ reader[<<p, nextGen>>] = "none"
      BY DEF Fresh, Gen
    <2>1. \A q \in Pane : spawner'[<<q, 0>>] = spawner[<<q, 0>>] BY <2>0 DEF Gen
    <2>2. p \in opened OBVIOUS
    <2> QED BY <2>1, <2>2 DEF Creator
  <1>3. OneThread' 
    <2>0. <<p, nextGen>> \in Thread /\ nextGen \in Gen /\ process[nextGen] = "none"
          /\ spawner[<<p, nextGen>>] = "idle" /\ reader[<<p, nextGen>>] = "none"
      BY DEF Fresh, Gen
    <2>1. \A q \in Pane, h \in Gen : process[h] # "none" => spawner'[<<q, h>>] = spawner[<<q, h>>]
      BY <2>0
    <2> SUFFICES ASSUME NEW q \in Pane, NEW h \in Gen
                 PROVE  /\ reader[<<q, h>>] # "none" => process[h] # "none"
                        /\ process[h] # "none" /\ spawner'[<<q, h>>] # "idle"
                           => reader[<<q, h>>] = "done"
      BY DEF OneThread
    <2> QED BY <2>1 DEF OneThread
  <1>4. Hands' 
    <2>0. <<p, nextGen>> \in Thread /\ nextGen \in Gen /\ process[nextGen] = "none"
          /\ spawner[<<p, nextGen>>] = "idle" /\ reader[<<p, nextGen>>] = "none"
      BY DEF Fresh, Gen
    <2>1. slot[p].live # NoProcess => process[slot[p].live] # "none"
      <3>1. slot[p] \in Slot /\ SlotHolds(p) BY DEF Slots
      <3>2. slot[p].live # NoProcess =>
                slot[p].live = slot[p].gen /\ reader[<<p, slot[p].gen>>] # "none"
        BY <3>1 DEF SlotHolds, SlotOk, Running
      <3>3. slot[p].live \in Expected BY <3>1 DEF Slot
      <3> QED BY <3>2, <3>3 DEF OneThread
    <2>2. \A u \in Thread : u # <<p, nextGen>> => hand'[u] = hand[u] /\ spawner'[u] = spawner[u]
      OBVIOUS
    <2>3. hand'[<<p, nextGen>>] = slot[p].live /\ spawner'[<<p, nextGen>>] = "reap" BY <2>0
    <2> QED BY <2>1, <2>2, <2>3 DEF Hands
  <1>5. Slots' 
    <2>0. <<p, nextGen>> \in Thread /\ nextGen \in Gen /\ process[nextGen] = "none"
          /\ spawner[<<p, nextGen>>] = "idle" /\ reader[<<p, nextGen>>] = "none"
      BY DEF Fresh, Gen
    <2> SUFFICES ASSUME NEW q \in present' PROVE SlotHolds(q)' BY DEF Slots
    <2>1. q \in present /\ q \in Pane /\ slot[q] \in Slot /\ Slots OBVIOUS
    <2>2. CASE q # p
      <3>a. /\ slot'[q] = slot[q] /\ nextGen' >= nextGen
            /\ spawner'[<<q, slot[q].gen>>] = spawner[<<q, slot[q].gen>>]
            /\ reader'[<<q, slot[q].gen>>] = reader[<<q, slot[q].gen>>]
        BY <2>1, <2>2 DEF Slot
      <3> QED BY <2>1, <3>a, SlotStands
    <2>3. CASE q = p
      <3>1. slot'[p].gen = nextGen /\ slot'[p].state = "restarting" /\ ~slot'[p].killed
            /\ slot'[p].live = NoProcess
        BY DEF NewSlot
      <3>2. spawner'[<<p, nextGen>>] = "reap" /\ reader'[<<p, nextGen>>] = "none" BY <2>0
      <3>3. nextGen < nextGen' /\ nextGen # 0 BY <2>0 DEF Gen
      <3> QED BY <2>3, <3>1, <3>2, <3>3 DEF SlotHolds, SlotOk, Revived
    <2> QED BY <2>2, <2>3
  <1>6. NoOrphan' 
    <2> SUFFICES ASSUME NEW h \in Gen, process'[h] \notin {"none", "reaped"}
                 PROVE  Held(h)' \/ h \in dropped'
      BY DEF NoOrphan
    <2>0. h # 0 /\ process[h] \notin {"none", "reaped"} BY DEF Gen
    <2>a. <<p, nextGen>> \in Thread /\ hand[<<p, nextGen>>] = 0
      <3>1. nextGen \in Gen /\ nextGen \in Expected /\ nextGen >= nextGen BY DEF Gen
      <3>2. <<p, nextGen>> \in Thread /\ spawner[<<p, nextGen>>] = "idle" BY <3>1 DEF Fresh
      <3> QED BY <3>2 DEF Hands
    <2>1. CASE h \in dropped BY <2>1
    <2>2. ASSUME NEW q \in present, slot[q].live = h PROVE Held(h)' \/ h \in dropped'
      BY <2>0, <2>2, <2>a DEF Held
    <2>3. ASSUME NEW t \in Thread, hand[t] = h PROVE Held(h)' \/ h \in dropped'
      BY <2>0, <2>3, <2>a DEF Held
    <2>4. ASSUME NEW q \in Pane, reader[<<q, h>>] = "waiting" PROVE Held(h)' \/ h \in dropped'
      BY <2>0, <2>4 DEF Held
    <2> QED BY <2>0, <2>1, <2>2, <2>3, <2>4 DEF NoOrphan, Held
  <1>7. Counted' 
    <2>1. slot'[p].restarts = 0 /\ slot'[p].reconnects = 0 BY DEF NewSlot
    <2>2. \A q \in Pane : q # p => slot'[q] = slot[q] /\ unstable'[q] = unstable[q] OBVIOUS
    <2>3. unstable'[p] = 0 OBVIOUS
    <2> QED BY <2>1, <2>2, <2>3, Limits DEF Counted
  <1> QED BY <1>1, <1>2, <1>3, <1>4, <1>5, <1>6, <1>7 DEF IInv

LEMMA CreationFailsKeeps ==
    ASSUME SessionsAssumption, TypeOK, TypeOK', Fresh, Creator, OneThread, Hands, Slots, NoOrphan,
           Counted, NEW p \in Pane, CreationFails(p)
    PROVE  IInv'
  <1> USE Types, Numbers, Threads DEF CreationFails, NoProcess, world, threads, Spawner
  <1>1. Fresh' BY DEF Fresh
  <1>2. Creator' BY DEF Creator
  <1>3. OneThread' BY DEF OneThread
  <1>4. Hands' 
    <2>1. \A u \in Thread : hand[u] # NoProcess => spawner'[u] = spawner[u]
      BY DEF Hands
    <2>2. \A u \in Thread : spawner'[u] = "install" => spawner[u] = "install" OBVIOUS
    <2> QED BY <2>1, <2>2, HandsStand
  <1>5. Slots' 
    <2>0. \A q \in present' : q \in present /\ q # p /\ q \in Pane /\ slot'[q] = slot[q]
      BY DEF Remove
    <2> SUFFICES ASSUME NEW q \in present' PROVE SlotHolds(q)' BY DEF Slots
    <2>1. spawner'[<<q, slot[q].gen>>] = spawner[<<q, slot[q].gen>>]
      <3>1. slot[q].gen \in Expected BY <2>0 DEF Slot
      <3> QED BY <2>0, <3>1
    <2> QED BY <2>0, <2>1, SlotStands
  <1>6. NoOrphan' 
    <2> SUFFICES ASSUME NEW h \in Gen, process'[h] \notin {"none", "reaped"}
                 PROVE  Held(h)' \/ h \in dropped'
      BY DEF NoOrphan
    <2>0. h # 0 /\ process[h] \notin {"none", "reaped"} BY DEF Gen
    <2>1. CASE h \in dropped BY <2>1
    <2>2. ASSUME NEW q \in present, slot[q].live = h PROVE Held(h)' \/ h \in dropped'
      BY <2>0, <2>2 DEF Held, Remove
    <2>3. ASSUME NEW t \in Thread, hand[t] = h PROVE Held(h)' \/ h \in dropped'
      BY <2>0, <2>3 DEF Held
    <2>4. ASSUME NEW q \in Pane, reader[<<q, h>>] = "waiting" PROVE Held(h)' \/ h \in dropped'
      BY <2>0, <2>4 DEF Held
    <2> QED BY <2>0, <2>1, <2>2, <2>3, <2>4 DEF NoOrphan, Held
  <1>7. Counted' 
    <2>0. \A q \in present' : q \in present /\ q # p /\ q \in Pane /\ slot'[q] = slot[q]
      BY DEF Remove
    <2>2. \A q \in Pane : q # p => (q \in present' <=> q \in present) /\ slot'[q] = slot[q]
      BY DEF Remove
    <2>3. p \notin present' BY DEF Remove
    <2> QED BY <2>2, <2>3 DEF Counted
  <1> QED BY <1>1, <1>2, <1>3, <1>4, <1>5, <1>6, <1>7 DEF IInv

LEMMA HangupKeeps ==
    ASSUME SessionsAssumption, TypeOK, TypeOK', Fresh, Creator, OneThread, Hands, Slots, NoOrphan,
           Counted, NEW g \in Gen, Hangup(g)
    PROVE  IInv'
  <1> USE Types, Numbers, Threads DEF Hangup, NoProcess, world, threads
  <1>1. Fresh' BY DEF Fresh
  <1>2. Creator' BY DEF Creator
  <1>3. OneThread' BY DEF OneThread
  <1>4. Hands' BY DEF Hands
  <1>5. Slots' BY DEF Slots, SlotHolds, SlotOk, Running, Revived
  <1>6. NoOrphan' BY DEF NoOrphan, Held
  <1>7. Counted' BY DEF Counted
  <1> QED BY <1>1, <1>2, <1>3, <1>4, <1>5, <1>6, <1>7 DEF IInv

LEMMA DieKeeps ==
    ASSUME SessionsAssumption, TypeOK, TypeOK', Fresh, Creator, OneThread, Hands, Slots, NoOrphan,
           Counted, NEW g \in Gen, Die(g)
    PROVE  IInv'
  <1> USE Types, Numbers, Threads DEF Die, NoProcess, world, threads
  <1>p. \A h \in Gen : process'[h] = "none" <=> process[h] = "none"
    BY DEF Alive
  <1>1. Fresh' BY <1>p DEF Fresh
  <1>2. Creator' BY DEF Creator
  <1>3. OneThread' BY <1>p, OneThreadStands
  <1>4. Hands' BY DEF Hands
  <1>5. Slots' BY DEF Slots, SlotHolds, SlotOk, Running, Revived
  <1>6. NoOrphan' 
    <2> SUFFICES ASSUME NEW h \in Gen, process'[h] \notin {"none", "reaped"}
                 PROVE  Held(h)' \/ h \in dropped'
      BY DEF NoOrphan
    <2>0. h # 0 /\ process[h] \notin {"none", "reaped"} BY DEF Gen, Alive
    <2>1. CASE h \in dropped BY <2>1
    <2>2. ASSUME NEW q \in present, slot[q].live = h PROVE Held(h)' \/ h \in dropped'
      BY <2>0, <2>2 DEF Held
    <2>3. ASSUME NEW t \in Thread, hand[t] = h PROVE Held(h)' \/ h \in dropped'
      BY <2>0, <2>3 DEF Held
    <2>4. ASSUME NEW q \in Pane, reader[<<q, h>>] = "waiting" PROVE Held(h)' \/ h \in dropped'
      BY <2>0, <2>4 DEF Held
    <2> QED BY <2>0, <2>1, <2>2, <2>3, <2>4 DEF NoOrphan, Held
  <1>7. Counted' BY DEF Counted
  <1> QED BY <1>1, <1>2, <1>3, <1>4, <1>5, <1>6, <1>7 DEF IInv

LEMMA InvInit == ASSUME SessionsAssumption, Init PROVE IInv
  <1>1. TypeOK BY TypeInit
  <1>2. Fresh /\ OneThread BY Numbers DEF Init, Fresh, OneThread, Thread
  <1>3. Creator BY Numbers DEF Init, Creator, Thread
  <1>4. Hands BY DEF Init, Hands
  <1>5. Slots /\ NoOrphan BY DEF Init, Slots, NoOrphan
  <1>6. Counted BY Limits DEF Init, Counted
  <1> QED BY <1>1, <1>2, <1>3, <1>4, <1>5, <1>6 DEF IInv

LEMMA InvStep == ASSUME SessionsAssumption, IInv, [Next]_vars PROVE IInv'
  <1>0. TypeOK' BY TypeStep DEF IInv
  <1>1. ASSUME NEW p \in Pane, NEW e \in Expected, SpawnerStep(p, e) PROVE IInv'
    <2>1. CASE Reap(p, e) BY <1>0, <2>1, ReapKeeps DEF IInv
    <2>2. CASE Delay(p, e) BY <1>0, <2>2, DelayKeeps DEF IInv
    <2>3. CASE Check(p, e) BY <1>0, <2>3, CheckKeeps DEF IInv
    <2>4. CASE Fork(p, e) BY <1>0, <2>4, ForkKeeps DEF IInv
    <2>5. CASE ForkFails(p, e) BY <1>0, <2>5, ForkFailsKeeps DEF IInv
    <2>6. CASE Install(p, e) BY <1>0, <2>6, InstallKeeps DEF IInv
    <2>7. CASE Superseded(p, e) BY <1>0, <2>7, SupersededKeeps DEF IInv
    <2>8. CASE CreationFails(p) BY <1>0, <2>8, CreationFailsKeeps DEF IInv
    <2>9. CASE RespawnFails(p, e) BY <1>0, <2>9, RespawnFailsKeeps DEF IInv
    <2>10. CASE Mourn(p, e) BY <1>0, <2>10, MournKeeps DEF IInv
    <2> QED
      BY <1>1, <2>1, <2>2, <2>3, <2>4, <2>5, <2>6, <2>7, <2>8, <2>9, <2>10 DEF SpawnerStep
  <1>2. ASSUME NEW p \in Pane, NEW g \in Gen, ReaderStep(p, g) PROVE IInv'
    <2>1. CASE Announce(p, g) BY <1>0, <2>1, AnnounceKeeps DEF IInv
    <2>2. CASE GoSilent(p, g) BY <1>0, <2>2, GoSilentKeeps DEF IInv
    <2>3. CASE TakeLive(p, g) BY <1>0, <2>3, TakeLiveKeeps DEF IInv
    <2>4. CASE Wait(p, g) BY <1>0, <2>4, WaitKeeps DEF IInv
    <2>5. CASE DecideStale(p, g) BY <1>0, <2>5, DecideStaleKeeps DEF IInv
    <2>6. CASE Decide(p, g) BY <1>0, <2>6, DecideKeeps DEF IInv
    <2>7. CASE TellExit(p, g) BY <1>0, <2>7, TellExitKeeps DEF IInv
    <2>8. CASE TellRestart(p, g) BY <1>0, <2>8, TellRestartKeeps DEF IInv
    <2> QED BY <1>2, <2>1, <2>2, <2>3, <2>4, <2>5, <2>6, <2>7, <2>8 DEF ReaderStep
  <1>3. ASSUME NEW p \in Pane, OpenPane(p) PROVE IInv' BY <1>0, <1>3, OpenPaneKeeps DEF IInv
  <1>4. ASSUME NEW p \in Pane, KillEmpty(p) PROVE IInv' BY <1>0, <1>4, KillEmptyKeeps DEF IInv
  <1>5. ASSUME NEW p \in Pane, KillLive(p) PROVE IInv' BY <1>0, <1>5, KillLiveKeeps DEF IInv
  <1>6. ASSUME NEW p \in Pane, Restart(p) PROVE IInv' BY <1>0, <1>6, RestartKeeps DEF IInv
  <1>7. ASSUME NEW g \in Gen, Hangup(g) PROVE IInv' BY <1>0, <1>7, HangupKeeps DEF IInv
  <1>8. ASSUME NEW g \in Gen, Die(g) PROVE IInv' BY <1>0, <1>8, DieKeeps DEF IInv
  <1>9. CASE UNCHANGED vars
    <2> USE <1>9 DEF vars, world, threads
    <2>1. (Fresh /\ Creator /\ OneThread /\ Hands)' BY DEF IInv, Fresh, Creator, OneThread, Hands
    <2>2. (Slots /\ Counted)' BY DEF IInv, Slots, SlotHolds, SlotOk, Counted
    <2>3. NoOrphan' BY DEF IInv, NoOrphan, Held
    <2> QED BY <1>0, <2>1, <2>2, <2>3 DEF IInv
  <1> QED BY <1>1, <1>2, <1>3, <1>4, <1>5, <1>6, <1>7, <1>8, <1>9 DEF Next

LEMMA InvHolds == Spec => []IInv
  <1>1. Init => IInv BY InvInit, SessionsAssumption
  <1>2. IInv /\ [Next]_vars => IInv' BY InvStep, SessionsAssumption
  <1> QED BY <1>1, <1>2, PTL DEF Spec

-------------------------------------------------------------------------------

\* The slots, threads and processes are always of their types.
THEOREM TypeCorrect == Spec => []TypeOK
  <1>1. IInv => TypeOK BY DEF IInv
  <1> QED BY <1>1, InvHolds, PTL

\* Whatever the interleaving of handle_eof, restarts, kills and delayed respawns, a
\* process nobody has waited for is held by the slot or the thread that will.
THEOREM NobodyIsForgotten == Spec => []NoOrphan
  <1>1. IInv => NoOrphan BY DEF IInv
  <1> QED BY <1>1, InvHolds, PTL

\* Every state a slot can be in has somebody who will take it on.
THEOREM NobodyIsStranded == Spec => []NotStranded
  <1>1. ASSUME IInv PROVE NotStranded
    <2> SUFFICES ASSUME NEW p \in present
                 PROVE  LET t == <<p, slot[p].gen>> IN
                        CASE slot[p].state \in {"starting", "restarting"} ->
                                slot[p].live = NoProcess
                                /\ (spawner[t] \notin {"idle", "mourn"} \/ reader[t] = "tell_restart")
                          [] slot[p].state = "running" ->
                                IF slot[p].live = NoProcess THEN reader[t] \in {"waiting", "decide"}
                                ELSE slot[p].live = slot[p].gen /\ reader[t] \in {"announce", "reading"}
                          [] slot[p].state = "exited" -> slot[p].live = NoProcess
      BY DEF NotStranded
    <2>1. slot[p].state \in SlotState BY <1>1 DEF IInv, TypeOK, Slot
    <2>2. SlotHolds(p) /\ (slot[p].state = "running" => slot[p].gen # 0)
      BY <1>1 DEF IInv, Slots, SlotHolds, SlotOk
    <2>3. CASE slot[p].state \in {"starting", "restarting"}
      BY <2>2, <2>3 DEF SlotHolds, SlotOk, Revived
    <2>4. CASE slot[p].state = "running" BY <2>2, <2>4 DEF SlotHolds, SlotOk, Running, NoProcess
    <2>5. CASE slot[p].state = "exited" BY <2>2, <2>5 DEF SlotHolds, SlotOk
    <2> QED BY <2>1, <2>3, <2>4, <2>5 DEF SlotState
  <1> QED BY <1>1, InvHolds, PTL

\* However the kinds of failure alternate, respawns between two stable runs of a pane
\* whose reconnections are limited are bounded by its two limits together.
THEOREM RespawnsEnd == Spec => []RespawnsBounded
  <1>1. ASSUME IInv PROVE RespawnsBounded BY <1>1 DEF RespawnsBounded, IInv, Counted
  <1> QED BY <1>1, InvHolds, PTL

-------------------------------------------------------------------------------

\* The step of PaneTable that the rest of the table sees.
LEMMA Moves ==
    ASSUME NEW p \in Pane, NEW new, Seen'[p] = new, \A q \in Pane : q # p => Seen'[q] = Seen[q]
    PROVE  Table!Become(p, new)
  <1>1. Seen' = [q \in Pane |-> Seen'[q]] /\ Seen = [q \in Pane |-> Seen[q]] BY DEF Seen
  <1>2. Seen' = [Seen EXCEPT ![p] = new] BY <1>1
  <1> QED BY <1>2 DEF Table!Become

LEMMA Stays == ASSUME \A q \in Pane : Seen'[q] = Seen[q] PROVE UNCHANGED Seen
  <1>1. Seen' = [q \in Pane |-> Seen'[q]] /\ Seen = [q \in Pane |-> Seen[q]] BY DEF Seen
  <1> QED BY <1>1

\* Nothing but the slots and the ids is seen.
LEMMA Unseen == ASSUME UNCHANGED <<opened, present, slot>> PROVE UNCHANGED Seen
  BY DEF Seen

LEMMA OpenPaneSeen == ASSUME IInv, NEW p \in Pane, OpenPane(p) PROVE Table!Open(p)
  <1>1. Seen[p] = "unopened" /\ Seen'[p] = "starting"
    BY DEF OpenPane, Seen, NewSlot, IInv, TypeOK
  <1>2. \A q \in Pane : q # p => Seen'[q] = Seen[q] BY DEF OpenPane, Seen
  <1> QED BY <1>1, <1>2, Moves DEF Table!Open

\* A pane that leaves the table is closed.
LEMMA RemoveSeen ==
    ASSUME IInv, NEW p \in present, Remove(p), UNCHANGED opened
    PROVE  Table!Closed(p)
  <1>0. p \in Pane /\ p \in opened /\ slot[p] \in Slot BY DEF IInv, TypeOK
  <1>1. Seen[p] \notin {"unopened", "closed"} BY <1>0 DEF Seen, Slot, SlotState
  <1>2. Seen'[p] = "closed" BY <1>0 DEF Seen, Remove
  <1>3. \A q \in Pane : q # p => Seen'[q] = Seen[q] BY <1>0 DEF Seen, Remove
  <1> QED BY <1>0, <1>1, <1>2, <1>3, Moves DEF Table!Closed

LEMMA KillLiveSeen ==
    ASSUME IInv, NEW p \in Pane, KillLive(p) PROVE Table!Close(p) \/ UNCHANGED Seen
  <1>0. p \in opened /\ slot[p] \in Slot /\ slot[p].state = "running"
    BY DEF KillLive, IInv, TypeOK, Slots, SlotHolds, SlotOk
  <1>1. Seen'[p] = "closing" BY <1>0 DEF KillLive, Seen, Slot, IInv, TypeOK
  <1>2. \A q \in Pane : q # p => Seen'[q] = Seen[q] BY DEF KillLive, Seen, IInv, TypeOK
  <1>3. CASE slot[p].killed
    <2>1. Seen[p] = "closing" BY <1>0, <1>3 DEF KillLive, Seen
    <2> QED BY <1>1, <1>2, <2>1, Stays
  <1>4. CASE ~slot[p].killed
    <2>1. Seen[p] = "running" BY <1>0, <1>4 DEF KillLive, Seen
    <2> QED BY <1>1, <1>2, <2>1, Moves DEF Table!Close
  <1> QED BY <1>3, <1>4

LEMMA RestartSeen ==
    ASSUME IInv, NEW p \in Pane, Restart(p) PROVE Table!Restart(p) \/ UNCHANGED Seen
  <1>0. p \in opened /\ slot[p] \in Slot BY DEF Restart, IInv, TypeOK
  <1>1. Seen'[p] = "restarting" BY <1>0 DEF Restart, Seen, NewSlot, IInv, TypeOK
  <1>2. \A q \in Pane : q # p => Seen'[q] = Seen[q] BY DEF Restart, Seen, IInv, TypeOK
  <1>3. Seen[p] \in {"starting", "running", "exited", "closing", "restarting"}
    BY <1>0 DEF Restart, Seen, Slot, SlotState
  <1>4. CASE Seen[p] = "restarting" BY <1>1, <1>2, <1>4, Stays
  <1>5. CASE Seen[p] # "restarting" BY <1>1, <1>2, <1>3, <1>5, Moves DEF Table!Restart
  <1> QED BY <1>4, <1>5

LEMMA InstallSeen ==
    ASSUME IInv, NEW p \in Pane, NEW e \in Expected, Install(p, e) PROVE Table!Start(p)
  <1>0. p \in present /\ p \in opened /\ slot[p] \in Slot /\ slot[p].gen = e /\ SlotHolds(p)
        /\ spawner[<<p, e>>] = "install"
    BY DEF Install, Spawner, Current, IInv, TypeOK, Slots
  <1>1. slot[p].state \in {"starting", "restarting"} /\ ~slot[p].killed
    BY <1>0 DEF SlotHolds, SlotOk, Revived, Slot, SlotState
  <1>2. Seen[p] = slot[p].state BY <1>0, <1>1 DEF Seen
  <1>3. slot'[p].state = "running" /\ slot'[p].killed = slot[p].killed
    BY <1>0 DEF Install, Slot, IInv, TypeOK
  <1>4. Seen'[p] = "running" BY <1>0, <1>1, <1>3 DEF Install, Seen
  <1>5. \A q \in Pane : q # p => Seen'[q] = Seen[q] BY DEF Install, Seen, IInv, TypeOK
  <1> QED BY <1>1, <1>2, <1>4, <1>5, Moves DEF Table!Start

LEMMA RespawnFailsSeen ==
    ASSUME IInv, NEW p \in Pane, NEW e \in Expected, RespawnFails(p, e)
    PROVE  Table!GiveUp(p) \/ UNCHANGED Seen
  <1>1. CASE ~Current(p, e) BY <1>1, Unseen DEF RespawnFails
  <1>2. CASE Current(p, e)
    <2>0. p \in present /\ p \in opened /\ slot[p] \in Slot /\ slot[p].gen = e /\ SlotHolds(p)
          /\ spawner[<<p, e>>] = "failed" /\ e # 0
      BY <1>2 DEF RespawnFails, Spawner, Current, IInv, TypeOK, Slots
    <2>1. slot[p].state = "restarting" /\ ~slot[p].killed
      BY <2>0 DEF SlotHolds, SlotOk, Revived, Slot, SlotState
    <2>2. Seen[p] = "restarting" BY <2>0, <2>1 DEF Seen
    <2>3. slot'[p].state = "exited" /\ slot'[p].killed = slot[p].killed
      BY <1>2, <2>0 DEF RespawnFails, Slot, IInv, TypeOK
    <2>4. Seen'[p] = "exited" BY <2>0, <2>1, <2>3 DEF RespawnFails, Seen
    <2>5. \A q \in Pane : q # p => Seen'[q] = Seen[q]
      BY <1>2 DEF RespawnFails, Seen, IInv, TypeOK
    <2> QED BY <2>2, <2>4, <2>5, Moves DEF Table!GiveUp
  <1> QED BY <1>1, <1>2

LEMMA TakeLiveSeen ==
    ASSUME IInv, NEW p \in Pane, NEW g \in Gen, TakeLive(p, g) PROVE UNCHANGED Seen
  <1>0. slot[p] \in Slot BY DEF IInv, TypeOK
  <1>1. slot'[p].state = slot[p].state /\ slot'[p].killed = slot[p].killed
    BY <1>0 DEF TakeLive, Slot, IInv, TypeOK
  <1>2. \A q \in Pane : q # p => slot'[q] = slot[q] BY DEF TakeLive, IInv, TypeOK
  <1>3. \A q \in Pane : Seen'[q] = Seen[q] BY <1>1, <1>2 DEF Seen, TakeLive
  <1> QED BY <1>3, Stays

LEMMA DecideSeen ==
    ASSUME SessionsAssumption, IInv, NEW p \in Pane, NEW g \in Gen, Decide(p, g)
    PROVE  Table!End(p) \/ Table!Closed(p)
  <1>0. p \in present /\ p \in opened /\ slot[p] \in Slot /\ slot[p].gen = g /\ SlotHolds(p)
        /\ reader[<<p, g>>] = "decide" /\ UNCHANGED opened
    BY DecideCases DEF Decide, Brought, StayDown, Reader, Current, IInv, TypeOK, Slots
  <1>1. slot[p].state = "running" BY <1>0 DEF SlotHolds, SlotOk
  <1>2. ASSUME NEW s, Brought(p, g, s) PROVE Table!End(p)
    <2>1. Seen[p] = "running" BY <1>0, <1>1, <1>2 DEF Seen, Brought
    <2>2. Seen'[p] = "restarting" BY <1>0, <1>2 DEF Seen, Brought, IInv, TypeOK
    <2>3. \A q \in Pane : q # p => Seen'[q] = Seen[q] BY <1>0, <1>2 DEF Seen, Brought
    <2> QED BY <2>1, <2>2, <2>3, Moves DEF Table!End
  <1>3. CASE StayDown(p, g) /\ slot[p].killed BY <1>0, <1>3, RemoveSeen DEF StayDown
  <1>4. CASE StayDown(p, g) /\ ~slot[p].killed
    <2>1. Seen[p] = "running" BY <1>0, <1>1, <1>4 DEF Seen
    <2>2. slot'[p].state = "exited" /\ slot'[p].killed = slot[p].killed
      BY <1>0, <1>4 DEF StayDown, Slot, IInv, TypeOK
    <2>3. Seen'[p] = "exited" BY <1>0, <1>4, <2>2 DEF Seen, StayDown
    <2>a. present' = present /\ \A q \in Pane : q # p => slot'[q] = slot[q]
      BY <1>4 DEF StayDown, IInv, TypeOK
    <2>4. \A q \in Pane : q # p => Seen'[q] = Seen[q] BY <1>0, <2>a DEF Seen
    <2> QED BY <2>1, <2>3, <2>4, Moves DEF Table!End
  <1> QED BY <1>2, <1>3, <1>4, DecideCases DEF IInv

LEMMA CreationFailsSeen ==
    ASSUME IInv, NEW p \in Pane, CreationFails(p) PROVE Table!Closed(p) \/ UNCHANGED Seen
  <1>1. CASE p \in present BY <1>1, RemoveSeen DEF CreationFails
  <1>2. CASE p \notin present
    <2>1. present' = present /\ UNCHANGED opened BY <1>2 DEF CreationFails, Remove
    <2>2. \A q \in Pane : q \in present => slot'[q] = slot[q]
      BY <1>2 DEF CreationFails, Remove, IInv, TypeOK
    <2>3. \A q \in Pane : Seen'[q] = Seen[q] BY <2>1, <2>2 DEF Seen
    <2> QED BY <2>3, Stays
  <1> QED BY <1>1, <1>2

LEMMA StepSeen ==
    ASSUME SessionsAssumption, IInv, [Next]_vars PROVE [Table!Next]_Seen
  <1>1. ASSUME NEW p \in Pane, NEW e \in Expected, SpawnerStep(p, e) PROVE [Table!Next]_Seen
    <2>1. CASE Install(p, e) BY <2>1, InstallSeen DEF Table!Next
    <2>2. CASE CreationFails(p) BY <2>2, CreationFailsSeen DEF Table!Next
    <2>3. CASE RespawnFails(p, e) BY <2>3, RespawnFailsSeen DEF Table!Next
    <2>4. CASE UNCHANGED <<opened, present, slot>> BY <2>4, Unseen
    <2> QED
      BY <1>1, <2>1, <2>2, <2>3, <2>4
      DEF SpawnerStep, Reap, Delay, Check, Fork, ForkFails, Superseded, Mourn
  <1>2. ASSUME NEW p \in Pane, NEW g \in Gen, ReaderStep(p, g) PROVE [Table!Next]_Seen
    <2>1. CASE TakeLive(p, g) BY <2>1, TakeLiveSeen
    <2>2. CASE Decide(p, g) BY <2>2, DecideSeen DEF Table!Next
    <2>3. CASE UNCHANGED <<opened, present, slot>> BY <2>3, Unseen
    <2> QED
      BY <1>2, <2>1, <2>2, <2>3
      DEF ReaderStep, Announce, GoSilent, Wait, DecideStale, TellExit, TellRestart
  <1>3. ASSUME NEW p \in Pane, OpenPane(p) PROVE [Table!Next]_Seen
    BY <1>3, OpenPaneSeen DEF Table!Next
  <1>4. ASSUME NEW p \in Pane, KillEmpty(p) PROVE [Table!Next]_Seen
    BY <1>4, RemoveSeen DEF KillEmpty, Table!Next
  <1>5. ASSUME NEW p \in Pane, KillLive(p) PROVE [Table!Next]_Seen
    BY <1>5, KillLiveSeen DEF Table!Next
  <1>6. ASSUME NEW p \in Pane, Restart(p) PROVE [Table!Next]_Seen
    BY <1>6, RestartSeen DEF Table!Next
  <1>7. ASSUME NEW g \in Gen, Hangup(g) \/ Die(g) PROVE [Table!Next]_Seen
    BY <1>7, Unseen DEF Hangup, Die
  <1>8. CASE UNCHANGED vars BY <1>8, Unseen DEF vars
  <1> QED BY <1>1, <1>2, <1>3, <1>4, <1>5, <1>6, <1>7, <1>8 DEF Next

\* Seen from outside, the session manager is PaneTable: a pane goes along its arrows
\* only, whatever the threads do under and between their locks.
THEOREM ImplementsTable == Spec => KeepsTheTable
  <1>1. Init => Table!Init BY DEF Init, Seen, Table!Init
  <1>2. IInv /\ [Next]_vars => [Table!Next]_Seen BY StepSeen, SessionsAssumption
  <1> QED BY <1>1, <1>2, InvHolds, PTL DEF Spec, KeepsTheTable, Table!Spec
================================================================================
