------------------------------ MODULE MCSchedules ------------------------------
(***************************************************************************)
(* A daily schedule whose time of day the clock skips or passes twice, and *)
(* an hourly or a weekday one beside it.  A day has three hours.  And the  *)
(* other task that ticks by itself, the detector of agent status, over     *)
(* panes of which it knows what PaneTable promises.  They share nothing,   *)
(* so they take no turns: one of them moves.                               *)
(***************************************************************************)
EXTENDS Schedules, AgentStatus

VARIABLE part

MCInit ==
    /\ part \in {"schedules", "detector"} /\ Init /\ StatusInit
    /\ part = "detector" => zone = [t \in Instant |-> 1]

MCNext ==
    /\ UNCHANGED part
    /\ \/ part = "schedules" /\ Next /\ UNCHANGED statusVars
       \/ part = "detector" /\ StatusNext /\ UNCHANGED vars

\* StatusFairness, where the detector moves.
MCFairness ==
    /\ WF_statusVars(part = "detector" /\ DetectorTick)
    /\ \A s \in Session :
        /\ WF_statusVars(part = "detector" /\ Detector(s))
        /\ WF_statusVars(part = "detector" /\ Lapse(s))
        /\ WF_statusVars(part = "detector" /\ ClearBadge(s))
        /\ WF_statusVars(part = "detector" /\ MarkDirty(s))

MCSpec == MCInit /\ [][MCNext]_<<part, vars, statusVars>> /\ MCFairness

Flat == [t \in Instant |-> 1]
Spring == [t \in Instant |-> IF t < 8 THEN 0 ELSE Hour]
Autumn == [t \in Instant |-> IF t < 8 THEN Hour ELSE 0]
Zones == {Flat, Spring, Autumn}

DayAndHour == [n \in Name |-> IF n = 1 THEN "day" ELSE "hour"]
DayAndWeekday == [n \in Name |-> IF n = 1 THEN "day" ELSE "weekday"]
Two == [n \in Name |-> IF n = 1 THEN 3 ELSE 1]
OnePane == [n \in Name |-> 1]
NoGrace == [day |-> 1, hour |-> 0]

\* The fires of a schedule, said without walking: what its times of day resolve to.
\* An hourly schedule has no time in an hour that the clock skips.
Times(every, at, z) ==
    IF every = "hour"
    THEN {Resolve(z, Local(z, t)) : t \in {t \in Instant : Local(z, t) % Hour = at}}
    ELSE {Resolve(z, date * Day + at) :
            date \in {d \in 0 .. Horizon \div Day + 2 : every = "day" \/ ~Weekend(d)}}

ASSUME CalendarIsSane == SaneCalendar

ASSUME NextFireIsTheNextTime ==
    \A z \in Zone, from \in 0 .. Horizon, every \in {"day", "weekday", "hour"}, at \in 0 .. Day - 1 :
        (every = "hour" => at < Hour)
        => FirstFire(every, at, z, from) = Min({t \in Times(every, at, z) : t > from})
=============================================================================
