------------------------------- MODULE Schedules -------------------------------
(***************************************************************************)
(* The scheduler of orchestrator.rs: workflows that start themselves by    *)
(* the wall clock.                                                         *)
(*                                                                         *)
(* Time is counted in steps of half an hour since the epoch; a zone maps   *)
(* every instant to its offset, so the wall clock skips an hour where the  *)
(* offset grows and runs over one twice where it shrinks.  The driver      *)
(* thread runs tick_schedules on every step of the clock unless the        *)
(* machine sleeps.  What happens between two ticks (saved configs, runs    *)
(* that end, a clock that is set) are actions of their own.                *)
(***************************************************************************)
EXTENDS Integers, FiniteSets, FiniteSetsExt

CONSTANTS
    Name,           \* scheduled workflows, numbered in name order
    Every,          \* "day", "weekday" or "hour" for each of them
    At,             \* its time in steps: after midnight, or after the full hour
    Panes,          \* schedule_slots_needed of each
    MaxFailures,    \* maxConsecutiveFailures
    Grace,          \* [day |-> ., hour |-> .], in steps
    DayHours,       \* hours of a day
    Week,           \* days of a week, the last one is the weekend
    Zone,           \* the zones the machine may be in: offsets, in steps
    Horizon,        \* bound: the last instant
    MaxFree,        \* bound: the most free cells
    MaxEdits,       \* bound: how often a declaration is edited
    Jumps           \* which of "sleep", "back", "travel", "remove" may happen

ASSUME SchedulesAssumption ==
    /\ Name \subseteq Nat
    /\ Every \in [Name -> {"day", "weekday", "hour"}]
    /\ At \in [Name -> Nat] /\ Panes \in [Name -> Nat]
    /\ {MaxFailures, DayHours, Week} \subseteq Nat \ {0}
    /\ Grace \in [{"day", "hour"} -> Nat]
    /\ {Horizon, MaxFree, MaxEdits} \subseteq Nat
    /\ Jumps \subseteq {"sleep", "back", "travel", "remove"}

Hour == 2
Day == Hour * DayHours
None == -1
Never == [kind |-> "none", decl |-> 0]

VARIABLES
    now, zone,      \* the clock, in steps, and the zone
    seen,           \* clock and offset at the last tick
    ticked,         \* the scheduler has looked at this instant
    decl,           \* declaration of each workflow, counted up by edits; None: removed
    table,          \* the schedule table
    run,            \* the run each schedule started last
    manual,         \* workflows with an unfinished run started by hand
    fired,          \* history: <<workflow, due instant, local date>> of the fires
    skipped,        \* history: the same of the skips
    steady          \* history: the clock has only ever ticked on

clock == <<now, zone, steady>>
vars == <<clock, seen, ticked, decl, table, run, manual, fired, skipped>>

-------------------------------------------------------------------------------
(* The wall clock.                                                         *)

Instant == 0 .. Horizon + 3 * Day
Local(z, t) == t + z[t]
Readings(z, naive) == {t \in Instant : Local(z, t) = naive}

\* resolve_local: the first pass over a reading, the far side of a gap.
Resolve(z, naive) ==
    IF Readings(z, naive) # {} THEN Min(Readings(z, naive))
    ELSE Min({t \in Instant : Local(z, t) > naive})

Date(z, t) == Local(z, t) \div Day
Weekend(date) == date % Week = Week - 1

\* next_fire_at: walk candidate by candidate, a day or an hour at a time.
FirstFire(every, at, z, from) ==
    LET probes == 0 .. Week * DayHours
        candidate(probe) ==
            IF every = "hour"
            THEN Resolve(z, (Local(z, probe) \div Hour) * Hour + at)
            ELSE Resolve(z, Date(z, probe) * Day + at)
        later(probe) ==
            IF every = "hour" THEN probe + Hour
            ELSE Resolve(z, (Date(z, probe) + 1) * Day)
        good(t) == t > from /\ (every = "weekday" => ~Weekend(Date(z, t)))
        walk[i \in probes] ==
            IF i = 0 THEN from
            ELSE LET probe == walk[i - 1] IN
                 IF good(candidate(probe)) THEN probe ELSE later(probe)
    IN  candidate(walk[Week * DayHours])

\* Tabulated once, for every workflow and zone, so that a step only looks it up.
FireTable ==
    {<<n, z, [t \in 0 .. Horizon |-> FirstFire(Every[n], At[n], z, t)]>> : n \in Name, z \in Zone}

\* Mutant: the next instant at which the wall clock shows the time of day.
NextReading(n, z, from) == Min({t \in Instant : t > from /\ Local(z, t) % Day = At[n]})

NextFireAt(n, z, from) == (CHOOSE row \in FireTable : row[1] = n /\ row[2] = z)[3][from]

-------------------------------------------------------------------------------
(* The table.                                                              *)

Offset(t) == zone[t]

\* A row of the table as it is built from a declaration.
NewRow(n) == [decl |-> decl[n], next |-> NextFireAt(n, zone, now), skip |-> "none",
              failures |-> 0, stopped |-> FALSE, pending |-> FALSE]
NoRow == [decl |-> None, next |-> None, skip |-> "none",
          failures |-> 0, stopped |-> FALSE, pending |-> FALSE]

Init ==
    /\ now = 0 /\ zone \in Zone /\ steady = TRUE
    /\ seen = [at |-> 0, offset |-> Offset(0)]
    /\ ticked = TRUE
    /\ decl = [n \in Name |-> 0]
    /\ table = [n \in Name |-> NewRow(n)]
    /\ run = [n \in Name |-> Never]
    /\ manual = {}
    /\ fired = {} /\ skipped = {}

\* The rebuild: a row whose declaration stands is kept whole; of one that moved, its
\* history is kept and the rest cut anew.
Rebuilt(n) ==
    IF decl[n] = None THEN NoRow
    ELSE IF table[n].decl = decl[n] THEN table[n]
    ELSE [NewRow(n) EXCEPT !.skip = table[n].skip, !.pending = table[n].pending]

\* Mutant: a row that is due is moved to its next time as well.
ReanchoredAll(n, row) ==
    IF row.decl # None /\ (now < seen.at \/ Offset(now) # seen.offset)
    THEN [row EXCEPT !.next = NextFireAt(n, zone, now)] ELSE row

\* The clock was set back or the zone changed: what is not due is computed anew.
Reanchored(n, row) ==
    IF /\ row.decl # None
       /\ now < seen.at \/ Offset(now) # seen.offset
       /\ ~(row.next # None /\ row.next <= now)
    THEN [row EXCEPT !.next = NextFireAt(n, zone, now)] ELSE row

\* Mutant: the schedule stops itself only after the limit was passed.
FailedOnceMore(row) ==
    [row EXCEPT !.failures = @ + 1, !.stopped = @ \/ row.failures >= MaxFailures]

\* note_schedule_failure: a streak as long as the limit stops the schedule.
Failed(row) ==
    [row EXCEPT !.failures = @ + 1, !.stopped = @ \/ row.failures + 1 >= MaxFailures]

\* Mutant: whatever is not a failure ends the streak, a cancel as well.
CountedAny(n, row) ==
    IF ~row.pending \/ run[n].kind = "running" THEN row
    ELSE LET r == [row EXCEPT !.pending = FALSE] IN
         IF run[n].kind = "failed" THEN Failed(r) ELSE [r EXCEPT !.failures = 0]

\* The outcome of the run a schedule started is counted once.
Counted(n, row) ==
    IF ~row.pending \/ run[n].kind = "running" THEN row
    ELSE LET r == [row EXCEPT !.pending = FALSE] IN
         CASE run[n].kind = "failed" -> Failed(r)
           [] run[n].kind = "succeeded" -> [r EXCEPT !.failures = 0]
           [] OTHER -> r

IsDue(row) == row.decl # None /\ ~row.stopped /\ row.next # None /\ row.next <= now

GraceOf(n) == IF Every[n] = "hour" THEN Grace.hour ELSE Grace.day

\* active_run_ids: a run of this workflow has not ended, whoever started it.
Active(n) == run[n].kind = "running" \/ n \in manual

\* Why a due schedule does not fire, given the free cells left for it.
SkipReason(n, row, free) ==
    CASE now - row.next > GraceOf(n) -> "late"
      [] now - row.next <= GraceOf(n) /\ Active(n) -> "overlap"
      [] OTHER -> IF Panes[n] > free THEN "no_room" ELSE "none"

\* tick_schedules: rebuild, re-anchor, count, then fire what is due in name order.
Tick ==
    LET row == [n \in Name |-> Counted(n, Reanchored(n, Rebuilt(n)))]
        due == {n \in Name : IsDue(row[n])}
    IN
    /\ ~ticked /\ ticked' = TRUE
    /\ seen' = [at |-> now, offset |-> Offset(now)]
    /\ \E free \in 0 .. MaxFree, wrong \in SUBSET due :
        LET cells[n \in Name] ==        \* left when it is n's turn
                LET earlier == {q \in Name : q < n} IN
                IF earlier = {} THEN free
                ELSE LET q == Max(earlier) IN
                     IF q \in due \ wrong /\ SkipReason(q, row[q], cells[q]) = "none"
                     THEN cells[q] - Panes[q] ELSE cells[q]
            skip(n) == SkipReason(n, row[n], cells[n])
            starts == {n \in due : skip(n) = "none"}
            entry(n) == <<n, row[n].next, Date(zone, row[n].next)>>
        IN
        /\ table' = [n \in Name |->
            IF n \notin due THEN row[n]
            ELSE LET moved == [row[n] EXCEPT !.skip = skip(n), !.next = NextFireAt(n, zone, now)]
                 IN  CASE n \notin starts -> moved
                       [] n \in starts \cap wrong -> Failed(moved)
                       [] OTHER -> [moved EXCEPT !.pending = TRUE]]
        /\ run' = [n \in Name |->
            IF n \in starts \ wrong THEN [kind |-> "running", decl |-> decl[n]] ELSE run[n]]
        /\ fired' = fired \cup {entry(n) : n \in starts}
        /\ skipped' = skipped \cup {entry(n) : n \in due \ starts}
    /\ UNCHANGED <<clock, decl, manual>>

-------------------------------------------------------------------------------
(* What happens between two ticks.  Runs end, and are started by hand,     *)
(* unseen until the next tick, so they do it when one is due.              *)

Pass ==
    /\ now < Horizon /\ ticked
    /\ now' = now + 1 /\ ticked' = FALSE
    /\ UNCHANGED <<zone, steady, seen, decl, table, run, manual, fired, skipped>>

\* The clock is disturbed (bound: once): the machine sleeps, the clock is set back by
\* more than the tolerance, or the machine is carried into another zone.
Disturb ==
    /\ steady /\ steady' = FALSE
    /\ \/ "sleep" \in Jumps /\ UNCHANGED zone
          /\ \E t \in now + 1 .. Min({Horizon, now + Day}) : now' = t
       \/ "back" \in Jumps /\ now > 1 /\ now' = now - 2 /\ UNCHANGED zone
       \/ "travel" \in Jumps /\ zone' \in Zone \ {zone} /\ UNCHANGED now
    /\ ticked' = FALSE
    /\ UNCHANGED <<seen, decl, table, run, manual, fired, skipped>>

\* The file is saved with another declaration of n, its agents' included.
Edit(n) ==
    /\ decl[n] < MaxEdits
    /\ decl' = [decl EXCEPT ![n] = IF @ = None THEN MaxEdits ELSE @ + 1]
    /\ ticked' = FALSE
    /\ UNCHANGED <<clock, seen, table, run, manual, fired, skipped>>

Undeclare(n) ==
    /\ "remove" \in Jumps /\ decl[n] = 0
    /\ decl' = [decl EXCEPT ![n] = None]
    /\ ticked' = FALSE
    /\ UNCHANGED <<clock, seen, table, run, manual, fired, skipped>>

\* A run ends; a finished one may be evicted before the scheduler looks.
RunEnds(n) ==
    /\ ~ticked
    /\ \/ run[n].kind = "running" /\ \E s \in {"succeeded", "failed", "cancelled"} :
            run' = [run EXCEPT ![n].kind = s]
       \/ run[n].kind \in {"succeeded", "failed"} /\ table[n].pending
            /\ run' = [run EXCEPT ![n].kind = "evicted"]
    /\ UNCHANGED <<clock, seen, ticked, decl, table, manual, fired, skipped>>

ByHand(n) ==
    /\ ~ticked
    /\ manual' = IF n \in manual THEN manual \ {n} ELSE manual \cup {n}
    /\ UNCHANGED <<clock, seen, ticked, decl, table, run, fired, skipped>>

Next ==
    \/ Tick
    \/ Pass
    \/ Disturb
    \/ \E n \in Name : Edit(n) \/ Undeclare(n) \/ RunEnds(n) \/ ByHand(n)

Spec == Init /\ [][Next]_vars

-------------------------------------------------------------------------------
(* Properties.                                                             *)

SkipKind == {"none", "late", "overlap", "no_room"}

TypeOK ==
    /\ now \in 0 .. Horizon /\ zone \in Zone /\ steady \in BOOLEAN /\ ticked \in BOOLEAN
    /\ decl \in [Name -> None .. MaxEdits]
    /\ table \in [Name -> [decl : None .. MaxEdits, next : Instant \cup {None},
                           skip : SkipKind, failures : 0 .. MaxFailures,
                           stopped : BOOLEAN, pending : BOOLEAN]]
    /\ \A n \in Name : run[n].kind \in {"none", "running", "succeeded", "failed",
                                        "cancelled", "evicted"}
    /\ manual \subseteq Name

\* What OnceADay takes a zone to be: its shifts add up to less than a day; a reading that
\* has been skipped, or lies before the first instant, is not shown later on; and what
\* is skipped in one go is of the date it ends on.
SaneZone(z) ==
    /\ z \in [Instant -> Int]
    /\ \A t, u \in Instant : z[t] - z[u] < Day
    /\ \A t \in Instant : Local(z, t) >= Local(z, 0)
    /\ \A t, u \in Instant :
        t < u /\ z[t] < z[t + 1] =>
            /\ Local(z, u) >= Local(z, t + 1)
            /\ Date(z, t + 1) = (Local(z, t) + 1) \div Day

\* The zones are sane, a time of day is within the day, a week has two days, and a
\* declaration that comes back is another one.
SaneCalendar ==
    /\ \A z \in Zone : SaneZone(z)
    /\ \A n \in Name : Every[n] = "day" => At[n] < Day
    /\ 0 < MaxEdits /\ 1 < Week

\* "Once a day" survives both edges of daylight saving: as long as the clock ticks on
\* and the file is left alone, no local date has two fires or skips of a daily
\* schedule, and every date that has passed has one (next_fire_at's two rules).
OnceADay ==
    \A n \in Name :
        steady /\ ticked /\ Every[n] = "day" /\ decl[n] = 0 /\ ~table[n].stopped =>
            \A date \in Date(zone, 0) + 1 .. Date(zone, now) - 1 :
                Cardinality({e \in fired \cup skipped : e[1] = n /\ e[3] = date}) = 1

\* A due time is never passed over in silence: a row leaves a due instant only when
\* it fires there, says why it did not, or its own declaration was edited (the guard
\* of the re-anchor block).
NeverSilent ==
    [][\A n \in Name :
        /\ IsDue(table[n]) /\ decl[n] = table[n].decl
        /\ table'[n].next # table[n].next
        => \E e \in fired' \cup skipped' : e[1] = n /\ e[2] = table[n].next]_vars

\* Only a success ends the streak: it never falls while the declaration stands, unless
\* the run that was counted had succeeded.
StreakStands ==
    [][\A n \in Name :
        table'[n].failures < table[n].failures =>
            decl[n] # table[n].decl \/ run[n].kind = "succeeded"]_vars

\* "The failure streak ... are answers to the old declaration, so they only carry
\* while it stands": what counts against a declaration is a run it started.
OwnFailures ==
    [][\A n \in Name :
        table'[n].decl # None /\ table[n].pending /\ ~table'[n].pending
            /\ run[n].kind = "failed" /\ table'[n].failures > 0
            => run[n].decl = table'[n].decl]_vars
=============================================================================
