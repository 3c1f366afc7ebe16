----------------------------- MODULE SchedulesProof -----------------------------
(***************************************************************************)
(* Two tasks that tick by themselves, proved for all constants.            *)
(*                                                                         *)
(* The scheduler: a due time is left only with a fire or a reason, and a   *)
(* streak of failures falls only by a success.  Both speak of one step, in *)
(* a table whose rows are known to be rows, whatever FirstFire computes.   *)
(*                                                                         *)
(* The calendar: FirstFire comes to the next instant at which a clock with *)
(* gaps and overlaps first shows, or skips, the time of day of some date.  *)
(* So a daily schedule is looked at once for every date.                   *)
(*                                                                         *)
(* The detector of agent status: no output goes unjudged.                  *)
(***************************************************************************)
EXTENDS Schedules, AgentStatus, FiniteSetTheorems, WellFoundedInduction, TLAPS

(***************************************************************************)
(* The scheduler.                                                          *)
(***************************************************************************)

\* A row of the table, whatever its times and its declaration.
IsRow(r) ==
    /\ r = [decl |-> r.decl, next |-> r.next, skip |-> r.skip, failures |-> r.failures,
            stopped |-> r.stopped, pending |-> r.pending]
    /\ r.failures \in Nat

\* The inductive invariant.  A removed workflow has no streak left to lose.
Rows ==
    \A n \in Name : IsRow(table[n]) /\ (table[n].decl = None => table[n].failures = 0)

\* The row a tick starts from, once it is rebuilt, re-anchored and counted.
RowOf(n) == Counted(n, Reanchored(n, Rebuilt(n)))

LEMMA RowsStay ==
    ASSUME NEW r, IsRow(r), NEW x
    PROVE  /\ IsRow([r EXCEPT !.next = x]) /\ IsRow([r EXCEPT !.skip = x])
           /\ IsRow([r EXCEPT !.stopped = x]) /\ IsRow([r EXCEPT !.pending = x])
           /\ x \in Nat => IsRow([r EXCEPT !.failures = x])
<1>1. [r EXCEPT !.next = x] = [decl |-> r.decl, next |-> x, skip |-> r.skip,
            failures |-> r.failures, stopped |-> r.stopped, pending |-> r.pending]
  BY DEF IsRow
<1>2. [r EXCEPT !.skip = x] = [decl |-> r.decl, next |-> r.next, skip |-> x,
            failures |-> r.failures, stopped |-> r.stopped, pending |-> r.pending]
  BY DEF IsRow
<1>3. [r EXCEPT !.stopped = x] = [decl |-> r.decl, next |-> r.next, skip |-> r.skip,
            failures |-> r.failures, stopped |-> x, pending |-> r.pending]
  BY DEF IsRow
<1>4. [r EXCEPT !.pending = x] = [decl |-> r.decl, next |-> r.next, skip |-> r.skip,
            failures |-> r.failures, stopped |-> r.stopped, pending |-> x]
  BY DEF IsRow
<1>5. [r EXCEPT !.failures = x] = [decl |-> r.decl, next |-> r.next, skip |-> r.skip,
            failures |-> x, stopped |-> r.stopped, pending |-> r.pending]
  BY DEF IsRow
<1>6. r.failures \in Nat
  BY DEF IsRow
<1>7. QED BY <1>1, <1>2, <1>3, <1>4, <1>5, <1>6 DEF IsRow

LEMMA NewRowIsRow == \A n \in Name : IsRow(NewRow(n)) /\ IsRow(NoRow)
  BY DEF IsRow, NewRow, NoRow

LEMMA FieldsStay ==
    ASSUME NEW r, IsRow(r), NEW x
    PROVE  /\ [r EXCEPT !.next = x].decl = r.decl
           /\ [r EXCEPT !.next = x].failures = r.failures
           /\ [r EXCEPT !.next = x].pending = r.pending
           /\ [r EXCEPT !.next = x].stopped = r.stopped
  BY DEF IsRow

\* The declaration and the time of a row that stands are left alone by the rebuild.
LEMMA RebuiltIsRow ==
    ASSUME Rows, NEW n \in Name
    PROVE  /\ IsRow(Rebuilt(n))
           /\ decl[n] = table[n].decl => Rebuilt(n) = table[n] \/ Rebuilt(n) = NoRow
           /\ decl[n] = table[n].decl /\ decl[n] # None => Rebuilt(n) = table[n]
           /\ Rebuilt(n).decl = decl[n]
           /\ decl[n] = None => Rebuilt(n) = NoRow
<1> DEFINE u == [NewRow(n) EXCEPT !.skip = table[n].skip]
<1> DEFINE v == [u EXCEPT !.pending = table[n].pending]
<1>1. IsRow(NewRow(n)) /\ IsRow(NoRow) /\ IsRow(table[n])
  BY NewRowIsRow DEF Rows
<1>2. [NewRow(n) EXCEPT !.skip = table[n].skip, !.pending = table[n].pending] = v
  OBVIOUS
<1>3. IsRow(u)
  BY <1>1, RowsStay
<1>4. IsRow(v)
  <2> HIDE DEF u
  <2>1. QED BY <1>3, RowsStay
<1>5. Rebuilt(n) \in {NoRow, table[n], v}
  BY <1>2 DEF Rebuilt
<1> HIDE DEF u, v
<1>6. IsRow(Rebuilt(n))
  BY <1>1, <1>4, <1>5
<1>7. decl[n] = table[n].decl => Rebuilt(n) = table[n] \/ Rebuilt(n) = NoRow
  BY DEF Rebuilt
<1>8. decl[n] = table[n].decl /\ decl[n] # None => Rebuilt(n) = table[n]
  BY DEF Rebuilt
<1>9. v.decl = decl[n] /\ NoRow.decl = None
  <2>1. u.decl = decl[n]
    BY DEF u, NewRow
  <2>2. v.decl = u.decl
    BY <1>3 DEF v, IsRow
  <2>3. QED BY <2>1, <2>2 DEF NoRow
<1>10. Rebuilt(n).decl = decl[n] /\ (decl[n] = None => Rebuilt(n) = NoRow)
  BY <1>2, <1>9 DEF Rebuilt
<1>11. QED BY <1>6, <1>7, <1>8, <1>10

LEMMA ReanchoredIsRow ==
    ASSUME NEW n \in Name, NEW r, IsRow(r)
    PROVE  /\ IsRow(Reanchored(n, r))
           /\ Reanchored(n, r).failures = r.failures
           /\ Reanchored(n, r).pending = r.pending
           /\ Reanchored(n, r).stopped = r.stopped
           /\ Reanchored(n, r).decl = r.decl
           /\ r.next # None /\ r.next <= now => Reanchored(n, r) = r
           /\ r.decl = None => Reanchored(n, r) = r
<1> DEFINE moved == [r EXCEPT !.next = NextFireAt(n, zone, now)]
<1>1. IsRow(moved) /\ moved.failures = r.failures /\ moved.pending = r.pending
      /\ moved.decl = r.decl /\ moved.stopped = r.stopped
  BY RowsStay, FieldsStay
<1>2. Reanchored(n, r) = r \/ Reanchored(n, r) = moved
  BY DEF Reanchored
<1>3. r.decl = None \/ (r.next # None /\ r.next <= now) => Reanchored(n, r) = r
  BY DEF Reanchored
<1> HIDE DEF moved
<1>4. QED BY <1>1, <1>2, <1>3

\* A failure counts one up and moves nothing.
LEMMA FailedIsRow ==
    ASSUME NEW r, IsRow(r)
    PROVE  /\ IsRow(Failed(r))
           /\ Failed(r).failures = r.failures + 1
           /\ Failed(r).next = r.next /\ Failed(r).decl = r.decl
<1> DEFINE f == r.failures + 1
<1> DEFINE u == [r EXCEPT !.failures = f]
<1> DEFINE s == r.stopped \/ r.failures + 1 >= MaxFailures
<1> DEFINE v == [u EXCEPT !.stopped = s]
<1>1. f \in Nat
  BY DEF IsRow
<1>2. Failed(r) = v
  BY DEF Failed
<1> HIDE DEF f, s
<1>3. IsRow(u) /\ u.failures = f /\ u.next = r.next /\ u.decl = r.decl
  <2>1. IsRow(u)
    BY <1>1, RowsStay
  <2>2. u.failures = f /\ u.next = r.next /\ u.decl = r.decl
    BY DEF IsRow
  <2>3. QED BY <2>1, <2>2
<1> HIDE DEF u
<1>4. IsRow(v) /\ v.failures = u.failures /\ v.next = u.next /\ v.decl = u.decl
  <2>1. IsRow(v)
    BY <1>3, RowsStay
  <2>2. v.failures = u.failures /\ v.next = u.next /\ v.decl = u.decl
    BY <1>3 DEF IsRow
  <2>3. QED BY <2>1, <2>2
<1> HIDE DEF v
<1>5. f = r.failures + 1
  BY DEF f
<1>6. QED BY <1>2, <1>3, <1>4, <1>5

LEMMA CountedIsRow ==
    ASSUME NEW n \in Name, NEW r, IsRow(r)
    PROVE  /\ IsRow(Counted(n, r))
           /\ Counted(n, r).next = r.next /\ Counted(n, r).decl = r.decl
           /\ Counted(n, r).failures < r.failures => run[n].kind = "succeeded"
           /\ ~r.pending => Counted(n, r) = r
<1> DEFINE u == [r EXCEPT !.pending = FALSE]
<1> DEFINE v == [u EXCEPT !.failures = 0]
<1>1. IsRow(u) /\ u.failures = r.failures /\ u.next = r.next /\ u.decl = r.decl
  <2>1. IsRow(u)
    BY RowsStay
  <2>2. u.failures = r.failures /\ u.next = r.next /\ u.decl = r.decl
    BY DEF IsRow
  <2>3. QED BY <2>1, <2>2
<1>2. /\ Counted(n, r) \in {r, Failed(u), v, u}
      /\ Counted(n, r) = v \/ Counted(n, r) \in {r, Failed(u), u}
      /\ run[n].kind # "succeeded" => Counted(n, r) \in {r, Failed(u), u}
  BY DEF Counted
<1> HIDE DEF u
<1>3. IsRow(v) /\ v.next = u.next /\ v.decl = u.decl
  <2>1. IsRow(v)
    BY <1>1, RowsStay
  <2>2. v.next = u.next /\ v.decl = u.decl
    BY <1>1 DEF IsRow
  <2>3. QED BY <2>1, <2>2
<1> HIDE DEF v
<1>4. IsRow(Failed(u)) /\ Failed(u).next = u.next /\ Failed(u).decl = u.decl
      /\ Failed(u).failures = u.failures + 1
  BY <1>1, FailedIsRow
<1>5. r.failures \in Nat
  BY DEF IsRow
<1>6. Counted(n, r) \in {r, Failed(u), u} => ~(Counted(n, r).failures < r.failures)
  BY <1>1, <1>4, <1>5
<1>7. IsRow(Counted(n, r)) /\ Counted(n, r).next = r.next /\ Counted(n, r).decl = r.decl
  BY <1>1, <1>2, <1>3, <1>4
<1>8. ~r.pending => Counted(n, r) = r
  BY DEF Counted
<1>9. QED BY <1>2, <1>6, <1>7, <1>8

LEMMA RowOfIsRow ==
    ASSUME Rows, NEW n \in Name
    PROVE  /\ IsRow(RowOf(n))
           /\ RowOf(n).decl = None => RowOf(n).failures = 0
           /\ decl[n] = table[n].decl /\ RowOf(n).failures < table[n].failures
                => run[n].kind = "succeeded"
           /\ decl[n] = table[n].decl /\ IsDue(table[n]) => RowOf(n).next = table[n].next
<1> DEFINE a == Rebuilt(n)
<1> DEFINE b == Reanchored(n, a)
<1>1. /\ IsRow(a)
      /\ decl[n] = table[n].decl => a = table[n] \/ a = NoRow
      /\ decl[n] = table[n].decl /\ decl[n] # None => a = table[n]
  BY RebuiltIsRow
<1>2. a.decl = decl[n] /\ (decl[n] = None => a = NoRow)
  BY RebuiltIsRow
<1>3. RowOf(n) = Counted(n, b)
  BY DEF RowOf
<1>4. NoRow.failures = 0 /\ NoRow.pending = FALSE /\ NoRow.decl = None
  BY DEF NoRow
<1> HIDE DEF a
<1>5. /\ IsRow(b) /\ b.failures = a.failures /\ b.decl = a.decl
      /\ a.next # None /\ a.next <= now => b = a
      /\ a.decl = None => b = a
  BY <1>1, ReanchoredIsRow
<1> HIDE DEF b
<1>6. /\ IsRow(RowOf(n)) /\ RowOf(n).next = b.next /\ RowOf(n).decl = b.decl
      /\ RowOf(n).failures < b.failures => run[n].kind = "succeeded"
      /\ ~b.pending => RowOf(n) = b
  BY <1>3, <1>5, CountedIsRow
<1>7. RowOf(n).decl = None => RowOf(n).failures = 0
  BY <1>2, <1>4, <1>5, <1>6
<1>8. decl[n] = table[n].decl /\ IsDue(table[n]) => RowOf(n).next = table[n].next
  BY <1>1, <1>5, <1>6 DEF IsDue
<1>9. ASSUME decl[n] = table[n].decl, RowOf(n).failures < table[n].failures
      PROVE  run[n].kind = "succeeded"
  <2>1. CASE a = table[n]
    BY <1>5, <1>6, <1>9, <2>1
  <2>2. CASE a = NoRow
    <3>1. table[n].decl = None
      BY <1>2, <1>4, <1>9, <2>2
    <3>2. table[n].failures = 0 /\ RowOf(n).failures \in Nat
      BY <1>6, <3>1 DEF Rows, IsRow
    <3>3. QED BY <1>9, <3>2
  <2>3. QED BY <1>1, <1>9, <2>1, <2>2
<1>10. QED BY <1>6, <1>7, <1>8, <1>9

\* What a tick makes of a row: it stays a row, no streak falls, and a time is left with
\* an entry.
LEMMA TickRow ==
    ASSUME Rows, Tick, NEW n \in Name
    PROVE  /\ IsRow(table'[n])
           /\ table'[n].decl = RowOf(n).decl
           /\ ~(table'[n].failures < RowOf(n).failures)
           /\ table'[n] = RowOf(n) \/ RowOf(n).decl # None
           /\ table'[n].next # RowOf(n).next
                => \E e \in fired' \cup skipped' : e[1] = n /\ e[2] = RowOf(n).next
<1> DEFINE R == RowOf(n)
<1>1. IsRow(R)
  BY RowOfIsRow
<1> HIDE DEF R
<1> DEFINE moved(why) == [[R EXCEPT !.skip = why] EXCEPT !.next = NextFireAt(n, zone, now)]
<1> DEFINE armed(why) == [moved(why) EXCEPT !.pending = TRUE]
<1>2. \A why : IsRow(moved(why)) /\ moved(why).decl = R.decl /\ moved(why).failures = R.failures
  <2> SUFFICES ASSUME NEW why
               PROVE  IsRow(moved(why)) /\ moved(why).decl = R.decl /\ moved(why).failures = R.failures
    OBVIOUS
  <2> DEFINE u == [R EXCEPT !.skip = why]
  <2>1. IsRow(u) /\ u.decl = R.decl /\ u.failures = R.failures
    <3>1. IsRow(u)
      BY <1>1, RowsStay
    <3>2. QED BY <1>1, <3>1 DEF IsRow
  <2> HIDE DEF u
  <2>2. LET w == [u EXCEPT !.next = NextFireAt(n, zone, now)]
        IN  IsRow(w) /\ w.decl = u.decl /\ w.failures = u.failures
    BY <2>1, RowsStay, FieldsStay
  <2>3. QED BY <2>1, <2>2 DEF u
<1> HIDE DEF moved
<1>3. \A why : IsRow(armed(why)) /\ armed(why).decl = R.decl /\ armed(why).failures = R.failures
  <2> SUFFICES ASSUME NEW why
               PROVE  IsRow(armed(why)) /\ armed(why).decl = R.decl /\ armed(why).failures = R.failures
    OBVIOUS
  <2>1. IsRow(armed(why))
    BY <1>2, RowsStay
  <2>2. QED BY <1>2, <2>1 DEF IsRow
<1>4. \A why : /\ IsRow(Failed(moved(why))) /\ Failed(moved(why)).decl = R.decl
                /\ Failed(moved(why)).failures = R.failures + 1
  BY <1>2, FailedIsRow
<1> HIDE DEF armed
<1>5. \/ table'[n] = R
      \/ /\ \E why : table'[n] \in {moved(why), Failed(moved(why)), armed(why)}
         /\ R.decl # None
         /\ \E e \in fired' \cup skipped' : e[1] = n /\ e[2] = R.next
  <2> DEFINE entry == <<n, R.next, Date(zone, R.next)>>
  <2>1. CASE ~IsDue(R)
    <3>1. table'[n] = R
      BY <2>1 DEF Tick, R, RowOf
    <3>2. QED BY <3>1
  <2>2. CASE IsDue(R)
    <3>1. \E why : table'[n] \in {moved(why), Failed(moved(why)), armed(why)}
      BY ZenonT(40), <2>2 DEF Tick, R, RowOf, moved, armed
    <3>2. entry \in fired' \cup skipped'
      BY ZenonT(40), <2>2 DEF Tick, R, RowOf
    <3>3. R.decl # None
      BY <2>2 DEF IsDue
    <3>4. QED BY <3>1, <3>2, <3>3
  <2>3. QED BY <2>1, <2>2
<1>6. R.failures \in Nat
  BY <1>1 DEF IsRow
<1>7. QED BY <1>1, <1>2, <1>3, <1>4, <1>5, <1>6 DEF R

LEMMA RowsStart == Init => Rows
<1> SUFFICES ASSUME Init, NEW n \in Name PROVE IsRow(table[n]) /\ table[n].failures = 0
  BY DEF Rows
<1>1. table[n] = NewRow(n)
  BY DEF Init
<1>2. IsRow(NewRow(n)) /\ NewRow(n).failures = 0
  BY NewRowIsRow DEF NewRow
<1>3. QED BY <1>1, <1>2

LEMMA RowsStep == Rows /\ [Next]_vars => Rows'
<1> SUFFICES ASSUME Rows, [Next]_vars PROVE Rows'
  OBVIOUS
<1>1. CASE Tick
  <2> SUFFICES ASSUME NEW n \in Name
               PROVE  IsRow(table'[n]) /\ (table'[n].decl = None => table'[n].failures = 0)
    BY DEF Rows
  <2>1. /\ IsRow(table'[n]) /\ table'[n].decl = RowOf(n).decl
        /\ table'[n] = RowOf(n) \/ RowOf(n).decl # None
    BY <1>1, TickRow
  <2>2. RowOf(n).decl = None => RowOf(n).failures = 0
    BY RowOfIsRow
  <2>3. QED BY <2>1, <2>2
<1>2. CASE ~Tick
  <2>1. UNCHANGED table
    BY <1>2 DEF Next, vars, Pass, Disturb, Edit, Undeclare, RunEnds, ByHand
  <2>2. QED BY <2>1 DEF Rows, IsRow
<1>3. QED BY <1>1, <1>2

LEMMA RowsAlways == Spec => []Rows
<1>1. Init => Rows
  BY RowsStart
<1>2. Rows /\ [Next]_vars => Rows'
  BY RowsStep
<1>3. QED BY <1>1, <1>2, PTL DEF Spec

\* For any workflows, zones, calendars and limits: a tick moves the time of a due
\* schedule whose declaration stands only with an entry, of a fire or of a skip, for
\* that very time; and nothing but a tick moves it.
THEOREM NothingDueIsDropped == Spec => NeverSilent
<1> DEFINE Kept ==
        \A n \in Name :
            /\ IsDue(table[n]) /\ decl[n] = table[n].decl
            /\ table'[n].next # table[n].next
            => \E e \in fired' \cup skipped' : e[1] = n /\ e[2] = table[n].next
<1>1. ASSUME Rows, [Next]_vars PROVE [Kept]_vars
  <2> SUFFICES ASSUME NEW n \in Name, IsDue(table[n]), decl[n] = table[n].decl,
                      table'[n].next # table[n].next
               PROVE  \E e \in fired' \cup skipped' : e[1] = n /\ e[2] = table[n].next
    OBVIOUS
  <2>1. CASE Tick
    <3>1. RowOf(n).next = table[n].next
      BY <1>1, RowOfIsRow
    <3>2. QED BY <1>1, <2>1, <3>1, TickRow
  <2>2. CASE ~Tick
    BY <1>1, <2>2 DEF Next, vars, Pass, Disturb, Edit, Undeclare, RunEnds, ByHand
  <2>3. QED BY <2>1, <2>2
<1>2. NeverSilent <=> [][Kept]_vars
  BY DEF NeverSilent
<1>3. Spec => [][Kept]_vars
  BY <1>1, RowsAlways, PTL DEF Spec
<1>4. QED BY <1>2, <1>3

\* For any workflows, zones and limits: the streak of a declaration that stands falls
\* only when the run that is counted has succeeded.
THEOREM OnlySuccessEndsTheStreak == Spec => StreakStands
<1> DEFINE Kept ==
        \A n \in Name :
            table'[n].failures < table[n].failures =>
                decl[n] # table[n].decl \/ run[n].kind = "succeeded"
<1>1. ASSUME Rows, [Next]_vars PROVE [Kept]_vars
  <2> SUFFICES ASSUME NEW n \in Name, table'[n].failures < table[n].failures, decl[n] = table[n].decl
               PROVE  run[n].kind = "succeeded"
    OBVIOUS
  <2>1. table[n].failures \in Nat
    BY <1>1 DEF Rows, IsRow
  <2>2. CASE Tick
    <3>1. ~(table'[n].failures < RowOf(n).failures) /\ table'[n].failures \in Nat
          /\ RowOf(n).failures \in Nat
      BY <1>1, <2>2, TickRow, RowOfIsRow DEF IsRow
    <3>2. RowOf(n).failures < table[n].failures
      BY <2>1, <3>1
    <3>3. QED BY <1>1, <3>2, RowOfIsRow
  <2>3. CASE ~Tick
    <3>1. UNCHANGED table
      BY <1>1, <2>3 DEF Next, vars, Pass, Disturb, Edit, Undeclare, RunEnds, ByHand
    <3>2. QED BY <2>1, <3>1
  <2>4. QED BY <2>2, <2>3
<1>2. StreakStands <=> [][Kept]_vars
  BY DEF StreakStands
<1>3. Spec => [][Kept]_vars
  BY <1>1, RowsAlways, PTL DEF Spec
<1>4. QED BY <1>2, <1>3

(***************************************************************************)
(* The calendar: what the walk of next_fire_at comes to for a daily        *)
(* schedule.                                                               *)
(***************************************************************************)

LEMMA ConstantFacts ==
    /\ Day \in Nat /\ Day >= 2 /\ Week \in Nat /\ Week * DayHours \in Nat
    /\ 1 < Week => Week * DayHours >= 2
    /\ Horizon \in Nat /\ MaxEdits \in Nat /\ Instant = 0 .. Horizon + 3 * Day
<1>1. DayHours \in Nat \ {0} /\ Week \in Nat \ {0} /\ Horizon \in Nat /\ MaxEdits \in Nat
  BY SchedulesAssumption DEF SchedulesAssumption
<1>2. Day \in Nat /\ Day >= 2
  BY <1>1 DEF Day, Hour
<1>3. Week * DayHours \in Nat /\ (1 < Week => Week * DayHours >= 2)
  BY <1>1
<1>4. QED BY <1>1, <1>2, <1>3 DEF Instant

LEMMA LeastInstant ==
    ASSUME NEW S, S \subseteq Nat, S # {}
    PROVE  Min(S) \in S /\ \A t \in S : Min(S) <= t
<1>1. PICK m \in S : \A t \in S : ~(<<t, m>> \in OpToRel(<, Nat))
  BY NatLessThanWellFounded, WFMin
<1>2. \A t \in S : ~(t < m)
  BY <1>1 DEF OpToRel
<1>3. \A t \in S : m <= t
  BY <1>2
<1>4. QED BY <1>3 DEF Min

\* The date of a reading.
LEMMA Dates ==
    ASSUME NEW x \in Int
    PROVE  /\ x \div Day \in Int
           /\ (x \div Day) * Day <= x /\ x < (x \div Day) * Day + Day
<1>1. Day \in Nat \ {0}
  BY ConstantFacts
<1> HIDE DEF Day
<1>2. x = Day * (x \div Day) + (x % Day) /\ x \div Day \in Int /\ 0 <= x % Day /\ x % Day < Day
  BY <1>1
<1>3. Day * (x \div Day) = (x \div Day) * Day
  BY <1>1, <1>2
<1>4. QED BY <1>1, <1>2, <1>3

LEMMA DateIs ==
    ASSUME NEW x \in Int, NEW d \in Int, d * Day <= x, x < d * Day + Day
    PROVE  x \div Day = d
<1> DEFINE e == x \div Day
<1>1. Day \in Nat /\ Day >= 2
  BY ConstantFacts
<1>2. e \in Int /\ e * Day <= x /\ x < e * Day + Day
  BY Dates
<1> HIDE DEF Day, e
<1>3. ~(e < d)
  <2> SUFFICES ASSUME e < d PROVE FALSE
    OBVIOUS
  <2>1. (e + 1) * Day <= d * Day
    BY <1>1, <1>2
  <2>2. (e + 1) * Day = e * Day + Day
    BY <1>1, <1>2
  <2>3. QED BY <1>1, <1>2, <2>1, <2>2
<1>4. ~(d < e)
  <2> SUFFICES ASSUME d < e PROVE FALSE
    OBVIOUS
  <2>1. (d + 1) * Day <= e * Day
    BY <1>1, <1>2
  <2>2. (d + 1) * Day = d * Day + Day
    BY <1>1, <1>2
  <2>3. QED BY <1>1, <1>2, <2>1, <2>2
<1>5. QED BY <1>2, <1>3, <1>4 DEF e

LEMMA Midnights ==
    ASSUME NEW d \in Int, NEW e \in Int
    PROVE  /\ d * Day \in Int /\ (d + 1) * Day = d * Day + Day /\ (d + 2) * Day = d * Day + Day + Day
           /\ d < e => d * Day + Day <= e * Day
<1>1. Day \in Nat /\ Day >= 2
  BY ConstantFacts
<1> HIDE DEF Day
<1>2. d * Day \in Int /\ (d + 1) * Day = d * Day + Day /\ (d + 2) * Day = d * Day + Day + Day
  BY <1>1
<1>3. d < e => (d + 1) * Day <= e * Day
  BY <1>1
<1>4. QED BY <1>2, <1>3

\* The first instant at which the clock has come to a reading, or past it.
Reaches(z, x, r) ==
    /\ r \in Instant /\ x <= Local(z, r)
    /\ \A t \in Instant : t < r => Local(z, t) < x

LEMMA Clocks ==
    ASSUME NEW z, SaneZone(z), NEW t \in Instant
    PROVE  /\ t \in Nat /\ z[t] \in Int /\ Local(z, t) = t + z[t] /\ Local(z, t) \in Int
           /\ Date(z, t) \in Int
           /\ Date(z, t) * Day <= Local(z, t) /\ Local(z, t) < Date(z, t) * Day + Day
           /\ \A d \in Int : d * Day <= Local(z, t) /\ Local(z, t) < d * Day + Day => Date(z, t) = d
<1>1. t \in Nat
  BY ConstantFacts
<1>2. z[t] \in Int
  BY DEF SaneZone
<1>3. Local(z, t) = t + z[t] /\ Local(z, t) \in Int
  BY <1>1, <1>2 DEF Local
<1>4. Date(z, t) = Local(z, t) \div Day
  BY DEF Date
<1>5. QED BY <1>1, <1>2, <1>3, <1>4, Dates, DateIs

\* Resolve finds it, whether the clock shows the reading or skips it; and either way
\* the date there is the date of the reading.
LEMMA ResolveReaches ==
    ASSUME NEW z, SaneZone(z), NEW x \in Int, NEW some \in Instant, x <= Local(z, some)
    PROVE  /\ Reaches(z, x, Resolve(z, x))
           /\ Local(z, 0) <= x => Date(z, Resolve(z, x)) = x \div Day
<1> DEFINE S == {t \in Instant : x <= Local(z, t)}
<1> DEFINE m == Min(S)
<1>1. Instant \subseteq Nat /\ 0 \in Instant /\ (\A t \in Instant : \A u \in 0 .. t : u \in Instant)
  BY ConstantFacts
<1>2. \A t \in Instant : t \in Nat /\ z[t] \in Int /\ Local(z, t) = t + z[t] /\ Local(z, t) \in Int
  BY Clocks
<1>3. m \in S /\ \A t \in S : m <= t
  BY <1>1, LeastInstant
<1>4. m \in Instant /\ x <= Local(z, m) /\ \A t \in Instant : x <= Local(z, t) => m <= t
  BY <1>3
<1> HIDE DEF m, S
<1>5. \A t \in Instant : t < m => Local(z, t) < x
  BY <1>1, <1>2, <1>4
<1>6. Reaches(z, x, m)
  BY <1>4, <1>5 DEF Reaches
<1>7. CASE Local(z, m) = x
  <2>1. m \in Readings(z, x) /\ Readings(z, x) \subseteq Nat
    BY <1>1, <1>4, <1>7 DEF Readings
  <2>2. Resolve(z, x) \in Readings(z, x) /\ Resolve(z, x) <= m
    BY <2>1, LeastInstant DEF Resolve
  <2>3. Resolve(z, x) \in Instant /\ Local(z, Resolve(z, x)) = x
    BY <2>2 DEF Readings
  <2>4. Resolve(z, x) = m
    <3> DEFINE q == Resolve(z, x)
    <3>1. q \in Instant /\ q <= m /\ x <= Local(z, q)
      BY <2>2, <2>3
    <3> HIDE DEF q
    <3>2. m <= q /\ m \in Nat /\ q \in Nat
      BY <1>1, <1>4, <3>1
    <3>3. q = m
      BY <3>1, <3>2
    <3>4. QED BY <3>3 DEF q
  <2>5. QED BY <1>6, <1>7, <2>4 DEF Date
<1>8. CASE Local(z, m) # x
  <2>1. x < Local(z, m) /\ m \in Nat
    BY <1>2, <1>4, <1>8
  <2>2. /\ \A u \in Instant : m <= u => Local(z, m) <= Local(z, u)
        /\ Local(z, 0) <= x => Date(z, m) = x \div Day
    <3>1. CASE m = 0
      <4>1. \A u \in Instant : Local(z, 0) <= Local(z, u)
        BY DEF SaneZone
      <4>2. QED BY <1>1, <1>2, <2>1, <3>1, <4>1
    <3>2. CASE m # 0
      <4> DEFINE l == m - 1
      <4>1. l \in Instant /\ l < m /\ l + 1 = m
        BY <1>1, <1>4, <2>1, <3>2
      <4> HIDE DEF l
      <4>2. Local(z, l) < x
        BY <1>5, <4>1
      <4>3. z[l] < z[l + 1]
        BY <1>2, <1>4, <2>1, <4>1, <4>2
      <4>4. \A u \in Instant : l < u => Local(z, m) <= Local(z, u)
        BY <4>1, <4>3 DEF SaneZone
      <4>5. Date(z, m) = (Local(z, l) + 1) \div Day
        BY <1>4, <4>1, <4>3 DEF SaneZone
      <4>6. Date(z, m) = x \div Day
        <5> DEFINE d == Date(z, m)
        <5>1. d \in Int /\ Local(z, m) < d * Day + Day
          BY <1>4, Clocks
        <5>2. d * Day <= Local(z, l) + 1
          BY <1>2, <4>1, <4>5, Dates
        <5> HIDE DEF d
        <5>3. d * Day \in Int /\ Day \in Int
          BY <5>1, Midnights, ConstantFacts
        <5> DEFINE a == d * Day
        <5> HIDE DEF a
        <5>4. a \in Int /\ a <= Local(z, l) + 1 /\ Local(z, m) < a + Day
          BY <5>1, <5>2, <5>3 DEF a
        <5>5. a <= x /\ x < a + Day
          BY <1>2, <1>4, <2>1, <4>1, <4>2, <5>3, <5>4
        <5>6. x \div Day = d
          BY <5>1, <5>5, DateIs DEF a
        <5>7. QED BY <5>6 DEF d
      <4>7. QED BY <1>2, <1>4, <2>1, <4>1, <4>4, <4>6
    <3>3. QED BY <3>1, <3>2
  <2>3. Readings(z, x) = {}
    <3>1. ASSUME NEW u \in Instant, Local(z, u) = x PROVE FALSE
      <4>1. m <= u
        BY <1>4, <3>1
      <4>2. Local(z, m) <= x
        BY <2>2, <3>1, <4>1
      <4>3. QED BY <1>2, <1>4, <2>1, <4>2
    <3>2. QED BY <3>1 DEF Readings
  <2> DEFINE Past == {t \in Instant : Local(z, t) > x}
  <2>4. Resolve(z, x) = Min(Past)
    BY <2>3 DEF Resolve
  <2>5. m \in Past /\ Past \subseteq Nat
    BY <1>1, <1>2, <1>4, <2>1
  <2>6. Min(Past) \in Past /\ Min(Past) <= m
    BY <2>5, LeastInstant
  <2>7. Min(Past) \in Instant /\ x < Local(z, Min(Past))
    BY <1>2, <2>6
  <2>8. Min(Past) = m
    <3> DEFINE q == Min(Past)
    <3>1. q \in Instant /\ q <= m /\ x < Local(z, q)
      BY <2>6, <2>7
    <3> HIDE DEF q, Past
    <3>2. m <= q
      BY <1>2, <1>4, <3>1
    <3>3. q = m
      BY <1>1, <1>4, <3>1, <3>2
    <3>4. QED BY <3>3 DEF q
  <2>9. QED BY <1>6, <2>2, <2>4, <2>8
<1>9. QED BY <1>7, <1>8

\* There is one such instant, and a later reading is not reached earlier.
LEMMA ReachesInOrder ==
    ASSUME NEW z, SaneZone(z), NEW x \in Int, NEW y \in Int, x <= y,
           NEW q, Reaches(z, x, q), NEW r, Reaches(z, y, r)
    PROVE  q <= r
<1>1. q \in Instant /\ r \in Instant /\ q \in Nat /\ r \in Nat
  BY Clocks DEF Reaches
<1>2. Local(z, q) \in Int /\ Local(z, r) \in Int
  BY <1>1, Clocks
<1>3. r < q => Local(z, r) < x
  BY <1>1 DEF Reaches
<1>4. y <= Local(z, r)
  BY DEF Reaches
<1>5. QED BY <1>1, <1>2, <1>3, <1>4

\* The walk of next_fire_at for a daily schedule: the candidate of a date, and the step
\* to the first instant of the next one.
DayCandidate(at, z, probe) == Resolve(z, Date(z, probe) * Day + at)
Onward(at, z, from, probe) ==
    IF DayCandidate(at, z, probe) > from THEN probe ELSE Resolve(z, (Date(z, probe) + 1) * Day)

\* A walk that finds its candidate after at most two steps has found it.
LEMMA WalkEnds ==
    ASSUME 1 < Week, NEW at, NEW z, NEW from, NEW p, NEW q,
           p = Onward(at, z, from, from), q = Onward(at, z, from, p), DayCandidate(at, z, q) > from
    PROVE  FirstFire("day", at, z, from) = DayCandidate(at, z, q)
<1> DEFINE every == "day"
           candidate(probe) ==
             IF every = "hour"
             THEN Resolve(z, (Local(z, probe) \div Hour) * Hour + at)
             ELSE Resolve(z, Date(z, probe) * Day + at)
           later(probe) ==
             IF every = "hour" THEN probe + Hour
             ELSE Resolve(z, (Date(z, probe) + 1) * Day)
           good(t) == t > from /\ (every = "weekday" => ~Weekend(Date(z, t)))
           F(g) == [i \in 0 .. Week * DayHours |->
                      IF i = 0 THEN from
                      ELSE LET probe == g[i - 1] IN
                           IF good(candidate(probe)) THEN probe ELSE later(probe)]
           D(g) == [i \in 0 .. Week * DayHours |->
                      IF i = 0 THEN from ELSE Onward(at, z, from, g[i - 1])]
           walk == CHOOSE g : g = F(g)
<1>1. FirstFire("day", at, z, from) = candidate(walk[Week * DayHours])
  BY DEF FirstFire
<1>2. \A probe : candidate(probe) = DayCandidate(at, z, probe)
  BY DEF DayCandidate
<1>3. \A probe : (IF good(candidate(probe)) THEN probe ELSE later(probe)) = Onward(at, z, from, probe)
  BY DEF DayCandidate, Onward
<1>4. \A g : F(g) = D(g)
  <2> HIDE DEF candidate, good, later, every
  <2>1. QED BY <1>3
<1> HIDE DEF F, candidate
<1>5. Week * DayHours \in Nat /\ Week * DayHours >= 2
  BY ConstantFacts
<1> DEFINE N == Week * DayHours
<1> HIDE DEF N
<1>6. Onward(at, z, from, q) = q
  BY DEF Onward
<1>7. \E g : g = D(g)
  <2> DEFINE h == [i \in 0 .. N |-> IF i = 0 THEN from ELSE IF i = 1 THEN p ELSE q]
  <2>1. \A i \in 0 .. N : i # 0 => h[i] = Onward(at, z, from, h[i - 1])
    <3> SUFFICES ASSUME NEW i \in 0 .. N, i # 0 PROVE h[i] = Onward(at, z, from, h[i - 1])
      OBVIOUS
    <3>1. i - 1 \in 0 .. N
      BY <1>5 DEF N
    <3>2. CASE i = 1
      BY <3>1, <3>2
    <3>3. CASE i = 2
      BY <3>1, <3>3
    <3>4. CASE i > 2
      BY <1>6, <3>1, <3>4
    <3>5. QED BY <1>5, <3>2, <3>3, <3>4 DEF N
  <2>2. h = [i \in 0 .. N |-> IF i = 0 THEN from ELSE Onward(at, z, from, h[i - 1])]
    <3>1. \A i \in 0 .. N : i = 0 => h[i] = from
      OBVIOUS
    <3>2. h = [i \in 0 .. N |-> h[i]]
      OBVIOUS
    <3> HIDE DEF h
    <3>3. QED BY <2>1, <3>1, <3>2
  <2> HIDE DEF h
  <2>3. h = D(h)
    BY <2>2 DEF N
  <2> HIDE DEF D
  <2>4. QED BY <2>3
<1>8. walk = D(walk)
  <2>1. \E g : g = F(g)
    <3> HIDE DEF D
    <3>1. QED BY <1>4, <1>7
  <2>2. walk = F(walk)
    <3> DEFINE P(g) == g = F(g)
    <3>1. (\E g : P(g)) => P(CHOOSE g : P(g))
      <4> HIDE DEF P
      <4>1. QED OBVIOUS
    <3>2. QED BY <2>1, <3>1
  <2> HIDE DEF walk, D
  <2>3. QED BY <1>4, <2>2
<1> HIDE DEF walk
<1>9. \A i \in 0 .. N : walk[i] = IF i = 0 THEN from ELSE Onward(at, z, from, walk[i - 1])
  <2> DEFINE w == walk
  <2>1. w = [i \in 0 .. N |-> IF i = 0 THEN from ELSE Onward(at, z, from, w[i - 1])]
    BY <1>8 DEF N
  <2> HIDE DEF w
  <2>2. \A i \in 0 .. N : w[i] = IF i = 0 THEN from ELSE Onward(at, z, from, w[i - 1])
    BY <2>1
  <2>3. QED BY <2>2 DEF w
<1>10. walk[0] = from /\ walk[1] = p /\ walk[2] = q
  <2>1. 0 \in 0 .. N /\ 1 \in 0 .. N /\ 2 \in 0 .. N
    BY <1>5 DEF N
  <2>2. walk[0] = from
    BY <1>9, <2>1
  <2>3. walk[1] = p
    BY <1>9, <2>1, <2>2
  <2>4. QED BY <1>9, <2>1, <2>2, <2>3
<1>11. walk[N] = q
  <2> DEFINE Off == {i \in 2 .. N : walk[i] # q}
  <2>1. ASSUME Off # {} PROVE FALSE
    <3>1. Off \subseteq Nat
      OBVIOUS
    <3> DEFINE i == Min(Off)
    <3>2. i \in Off /\ \A k \in Off : i <= k
      BY <2>1, <3>1, LeastInstant
    <3> HIDE DEF i
    <3>3. i \in 2 .. N /\ walk[i] # q
      BY <3>2
    <3>4. i # 2
      BY <1>10, <3>3
    <3>5. i \in Nat /\ i - 1 \in 2 .. N /\ i \in 0 .. N /\ i # 0 /\ ~(i <= i - 1)
      BY <1>5, <3>3, <3>4 DEF N
    <3>6. walk[i - 1] = q
      BY <3>2, <3>5
    <3>7. walk[i] = Onward(at, z, from, q)
      BY <1>9, <3>5, <3>6
    <3>8. QED BY <1>6, <3>3, <3>7
  <2>2. N \in 2 .. N
    BY <1>5 DEF N
  <2>3. QED BY <2>1, <2>2
<1>12. QED BY <1>1, <1>2, <1>11 DEF N

\* Any reading up to two days on is reached within the instants of the model.
LEMMA FarEnough ==
    ASSUME NEW z, SaneZone(z), NEW t \in 0 .. Horizon, NEW x \in Int, x <= Local(z, t) + 2 * Day
    PROVE  Reaches(z, x, Resolve(z, x)) /\ (Local(z, 0) <= x => Date(z, Resolve(z, x)) = x \div Day)
<1> DEFINE last == Horizon + 3 * Day
<1>1. Day \in Nat /\ Horizon \in Nat /\ t \in Instant /\ last \in Instant /\ t + 3 * Day <= last
  BY ConstantFacts
<1> HIDE DEF last, Day
<1>2. z[t] \in Int /\ z[last] \in Int /\ Local(z, t) = t + z[t] /\ Local(z, last) = last + z[last]
      /\ t \in Nat /\ last \in Nat
  BY <1>1, Clocks
<1>3. z[t] - z[last] < Day
  BY <1>1 DEF SaneZone
<1>4. x <= Local(z, last)
  BY <1>1, <1>2, <1>3
<1>5. QED BY <1>1, <1>4, ResolveReaches

\* The times of an earlier day are behind the clock.
LEMMA BeforeToday ==
    ASSUME NEW z, SaneZone(z), NEW at \in Nat, at < Day, NEW from \in Instant,
           NEW j \in Int, j < Date(z, from), NEW q, Reaches(z, j * Day + at, q)
    PROVE  q <= from
<1> DEFINE d == Date(z, from)
<1>1. d \in Int /\ d * Day <= Local(z, from) /\ Local(z, from) \in Int /\ from \in Nat
  BY Clocks
<1> HIDE DEF d
<1>2. j * Day \in Int /\ d * Day \in Int /\ j * Day + Day <= d * Day /\ Day \in Nat
  BY <1>1, Midnights, ConstantFacts DEF d
<1>3. j * Day + at <= Local(z, from)
  <2> DEFINE a == j * Day
             b == d * Day
  <2>1. a \in Int /\ b \in Int /\ a + Day <= b /\ b <= Local(z, from)
    BY <1>1, <1>2
  <2> HIDE DEF a, b, Day
  <2>2. a + at <= Local(z, from)
    BY <1>1, <1>2, <2>1
  <2>3. QED BY <2>2 DEF a
<1>4. q \in Instant /\ (from < q => Local(z, from) < j * Day + at)
  BY DEF Reaches
<1>5. q \in Nat /\ j * Day + at \in Int
  BY <1>2, <1>4, Clocks
<1>6. ~(from < q)
  BY <1>1, <1>3, <1>4, <1>5
<1>7. QED BY <1>1, <1>5, <1>6

\* A later day's time is not before an earlier day's.
LEMMA DaysInOrder ==
    ASSUME NEW z, SaneZone(z), NEW at \in Nat, NEW j \in Int, NEW k \in Int, j <= k,
           NEW q, Reaches(z, j * Day + at, q), NEW r, Reaches(z, k * Day + at, r)
    PROVE  q <= r
<1>1. j * Day \in Int /\ k * Day \in Int /\ (j < k => j * Day + Day <= k * Day) /\ Day \in Nat
  BY Midnights, ConstantFacts
<1>2. j * Day + at \in Int /\ k * Day + at \in Int /\ j * Day + at <= k * Day + at
  <2>1. CASE j = k
    BY <1>1, <2>1
  <2>2. CASE j # k
    <3> DEFINE a == j * Day
               b == k * Day
    <3>1. a \in Int /\ b \in Int /\ a + Day <= b
      BY <1>1, <2>2
    <3> HIDE DEF a, b, Day
    <3>2. a + at \in Int /\ b + at \in Int /\ a + at <= b + at
      BY <1>1, <3>1
    <3>3. QED BY <3>2 DEF a, b
  <2>3. QED BY <2>1, <2>2
<1>3. QED BY <1>2, ReachesInOrder

\* next_fire_at: the first instant after "from" that is the time of day of some date.
LEMMA NextFireIsNext ==
    ASSUME 1 < Week, NEW z, SaneZone(z), NEW at \in Nat, at < Day, NEW from \in 0 .. Horizon
    PROVE  /\ FirstFire("day", at, z, from) \in Instant
           /\ from < FirstFire("day", at, z, from)
           /\ \E k \in Int : Reaches(z, k * Day + at, FirstFire("day", at, z, from))
           /\ \A j \in Int : \A q :
                Reaches(z, j * Day + at, q) /\ from < q => FirstFire("day", at, z, from) <= q
<1> DEFINE fire == FirstFire("day", at, z, from)
           d == Date(z, from)
           x == d * Day
           L == Local(z, from)
<1>1. Day \in Nat /\ Day >= 2 /\ from \in Instant /\ from \in Nat /\ 0 \in Instant /\ Horizon \in Nat
  BY ConstantFacts
<1>2. d \in Int /\ x \in Int /\ L \in Int /\ x <= L /\ L < x + Day /\ Local(z, 0) \in Int /\ Local(z, 0) <= L
  <2>1. Local(z, 0) <= L /\ Local(z, 0) \in Int
    BY <1>1, Clocks DEF SaneZone
  <2>2. QED BY <1>1, <2>1, Clocks, Midnights
<1>3. (d + 1) * Day = x + Day /\ (d + 2) * Day = x + Day + Day
  BY <1>2, Midnights
\* It is enough to name the day, whose time is still to come and the day before's is not.
<1>4. ASSUME NEW k \in Int, NEW r, Reaches(z, k * Day + at, r), from < r, fire = r,
             \A j \in Int : \A q : j < k /\ Reaches(z, j * Day + at, q) => q <= from
      PROVE  /\ fire \in Instant /\ from < fire
             /\ \E i \in Int : Reaches(z, i * Day + at, fire)
             /\ \A j \in Int : \A q : Reaches(z, j * Day + at, q) /\ from < q => fire <= q
  <2>1. r \in Instant
    BY <1>4 DEF Reaches
  <2>2. ASSUME NEW j \in Int, NEW q, Reaches(z, j * Day + at, q), from < q PROVE r <= q
    <3>1. q \in Nat
      BY <2>2, Clocks DEF Reaches
    <3>2. ~(j < k)
      BY <1>1, <1>4, <2>2, <3>1
    <3>3. k <= j
      BY <3>2
    <3>4. QED BY <1>4, <2>2, <3>3, DaysInOrder
  <2>3. QED BY <1>4, <2>1, <2>2
<1> HIDE DEF fire
<1> DEFINE c == DayCandidate(at, z, from)
<1>5. c = Resolve(z, x + at) /\ Reaches(z, x + at, c)
  <2>1. c = Resolve(z, x + at)
    BY DEF DayCandidate
  <2> HIDE DEF x, L, d, c, Day
  <2>2. x + at \in Int /\ x + at <= L + 2 * Day
    BY <1>1, <1>2
  <2>3. Reaches(z, x + at, Resolve(z, x + at))
    BY <2>2, FarEnough DEF L
  <2>4. QED BY <2>1, <2>3
<1>6. c \in Nat /\ c \in Instant
  BY <1>5, Clocks DEF Reaches
<1> HIDE DEF c
<1>7. CASE from < c
  <2>1. Onward(at, z, from, from) = from /\ c > from
    BY <1>1, <1>6, <1>7 DEF Onward, c
  <2>2. fire = c
    BY <2>1, WalkEnds DEF c, fire
  <2>3. \A j \in Int : \A q : j < d /\ Reaches(z, j * Day + at, q) => q <= from
    BY <1>1, BeforeToday
  <2>4. QED BY <1>2, <1>4, <1>5, <1>7, <2>2, <2>3 DEF fire
<1>8. CASE ~(from < c)
  <2> DEFINE p == Resolve(z, x + Day)
             e == DayCandidate(at, z, p)
  <2>1. Onward(at, z, from, from) = p
    <3>1. ~(c > from)
      BY <1>1, <1>6, <1>8
    <3>2. QED BY <1>3, <3>1 DEF Onward, c
  <2>2. Date(z, p) = d + 1
    <3>1. x + Day \in Int /\ x + Day <= L + 2 * Day /\ Local(z, 0) <= x + Day
      <4> HIDE DEF x, L, d, Day
      <4>1. QED BY <1>1, <1>2
    <3>2. Date(z, p) = (x + Day) \div Day
      BY <3>1, FarEnough
    <3>3. (x + Day) \div Day = d + 1
      <4>1. d + 1 \in Int /\ (d + 1) * Day <= x + Day /\ x + Day < (d + 1) * Day + Day
        BY <1>1, <1>2, <1>3
      <4>2. QED BY <3>1, <4>1, DateIs
    <3>4. QED BY <3>2, <3>3
  <2> HIDE DEF p
  <2>3. e = Resolve(z, x + Day + at) /\ Reaches(z, x + Day + at, e)
    <3>1. e = Resolve(z, x + Day + at)
      BY <1>3, <2>2 DEF DayCandidate
    <3> HIDE DEF x, L, d, e, Day
    <3>2. x + Day + at \in Int /\ x + Day + at <= L + 2 * Day
      BY <1>1, <1>2
    <3>3. QED BY <3>1, <3>2, FarEnough DEF L
  <2>4. e \in Nat /\ e \in Instant
    BY <2>3, Clocks DEF Reaches
  <2> HIDE DEF e
  <2>5. \A j \in Int : \A q : j < d + 1 /\ Reaches(z, j * Day + at, q) => q <= from
    <3> SUFFICES ASSUME NEW j \in Int, NEW q, j < d + 1, Reaches(z, j * Day + at, q) PROVE q <= from
      OBVIOUS
    <3>1. q <= c
      <4>1. j <= d
        BY <1>2
      <4>2. QED BY <1>2, <1>5, <4>1, DaysInOrder
    <3>2. q \in Nat
      BY Clocks DEF Reaches
    <3>3. QED BY <1>1, <1>6, <1>8, <3>1, <3>2
  <2>6. CASE from < e
    <3>1. Onward(at, z, from, p) = p /\ e > from
      BY <1>1, <2>4, <2>6 DEF Onward, e
    <3>2. fire = e
      BY <2>1, <3>1, WalkEnds DEF e, fire
    <3>3. d + 1 \in Int /\ Reaches(z, (d + 1) * Day + at, e)
      BY <1>2, <1>3, <2>3
    <3>4. QED BY <1>4, <2>5, <2>6, <3>2, <3>3 DEF fire
  <2>7. CASE ~(from < e)
    <3> DEFINE f == Resolve(z, x + Day + Day)
               g == DayCandidate(at, z, f)
    <3>1. Onward(at, z, from, p) = f
      <4>1. ~(e > from)
        BY <1>1, <2>4, <2>7
      <4>2. (Date(z, p) + 1) * Day = x + Day + Day
        BY <1>2, <1>3, <2>2
      <4>3. QED BY <4>1, <4>2 DEF Onward, e
    <3>2. e \in 0 .. Horizon /\ x + Day + at <= Local(z, e) /\ Local(z, e) \in Int
      <4>1. e \in 0 .. Horizon
        <5>1. e <= from /\ from <= Horizon
          BY <1>1, <2>4, <2>7
        <5>2. QED BY <1>1, <2>4, <5>1
      <4>2. x + Day + at <= Local(z, e)
        BY <2>3 DEF Reaches
      <4>3. Local(z, e) \in Int
        BY <2>4, Clocks
      <4>4. QED BY <4>1, <4>2, <4>3
    <3>3. Date(z, f) = d + 2
      <4>1. x + Day + Day \in Int /\ x + Day + Day <= Local(z, e) + 2 * Day /\ Local(z, 0) <= x + Day + Day
        <5> HIDE DEF x, L, d, Day
        <5>1. QED BY <1>1, <1>2, <3>2
      <4>2. Date(z, f) = (x + Day + Day) \div Day
        BY <3>2, <4>1, FarEnough
      <4>3. (x + Day + Day) \div Day = d + 2
        <5>1. d + 2 \in Int /\ (d + 2) * Day <= x + Day + Day /\ x + Day + Day < (d + 2) * Day + Day
          BY <1>1, <1>2, <1>3
        <5>2. QED BY <4>1, <5>1, DateIs
      <4>4. QED BY <4>2, <4>3
    <3> HIDE DEF f
    <3>4. g = Resolve(z, x + Day + Day + at) /\ Reaches(z, x + Day + Day + at, g)
      <4>1. g = Resolve(z, x + Day + Day + at)
        BY <1>3, <3>3 DEF DayCandidate
      <4> HIDE DEF x, L, d, g, Day
      <4>2. x + Day + Day + at \in Int /\ x + Day + Day + at <= Local(z, e) + 2 * Day
        BY <1>1, <1>2, <3>2
      <4>3. QED BY <3>2, <4>1, <4>2, FarEnough
    <3>5. g \in Nat /\ g \in Instant
      BY <3>4, Clocks DEF Reaches
    <3> HIDE DEF g
    <3>6. from < g
      <4>1. z[g] - z[from] < Day /\ z[g] \in Int /\ z[from] \in Int
            /\ Local(z, g) = g + z[g] /\ L = from + z[from] /\ x + Day + Day + at <= Local(z, g)
        BY <1>1, <3>4, <3>5, Clocks DEF SaneZone, Reaches
      <4> HIDE DEF x, L, d, Day
      <4>2. QED BY <1>1, <1>2, <3>5, <4>1
    <3>7. Onward(at, z, from, p) = f /\ g > from
      BY <1>1, <3>1, <3>5, <3>6
    <3>8. fire = g
      BY <2>1, <3>7, WalkEnds DEF g, fire
    <3>9. d + 2 \in Int /\ Reaches(z, (d + 2) * Day + at, g)
      BY <1>2, <1>3, <3>4
    <3>10. \A j \in Int : \A q : j < d + 2 /\ Reaches(z, j * Day + at, q) => q <= from
      <4> SUFFICES ASSUME NEW j \in Int, NEW q, j < d + 2, Reaches(z, j * Day + at, q) PROVE q <= from
        OBVIOUS
      <4>1. q <= e
        <5>1. j <= d + 1 /\ d + 1 \in Int /\ Reaches(z, (d + 1) * Day + at, e)
          BY <1>2, <1>3, <2>3
        <5>2. QED BY <5>1, DaysInOrder
      <4>2. q \in Nat
        BY Clocks DEF Reaches
      <4>3. QED BY <1>1, <2>4, <2>7, <4>1, <4>2
    <3>11. QED BY <1>4, <3>6, <3>8, <3>9, <3>10 DEF fire
  <2>8. QED BY <2>6, <2>7
<1>9. QED BY <1>7, <1>8

\* An instant at which a daily schedule is due: the time of day of some date.
DueAt(n, z, t) == 0 < t /\ \E date \in Int : Reaches(z, date * Day + At[n], t)

LEMMA DailyFacts ==
    ASSUME SaneCalendar, NEW n \in Name, Every[n] = "day", NEW z \in Zone
    PROVE  1 < Week /\ SaneZone(z) /\ At[n] \in Nat /\ At[n] < Day
  BY SchedulesAssumption DEF SchedulesAssumption, SaneCalendar

\* The time a row is given is the next one the schedule is due.
LEMMA NextIsDue ==
    ASSUME SaneCalendar, NEW n \in Name, Every[n] = "day", NEW z \in Zone, NEW t \in 0 .. Horizon
    PROVE  /\ NextFireAt(n, z, t) \in Nat /\ t < NextFireAt(n, z, t)
           /\ DueAt(n, z, NextFireAt(n, z, t))
           /\ \A q : DueAt(n, z, q) /\ t < q => NextFireAt(n, z, t) <= q
<1>1. NextFireAt(n, z, t) = FirstFire("day", At[n], z, t)
  <2> DEFINE times(m, y) == [u \in 0 .. Horizon |-> FirstFire(Every[m], At[m], y, u)]
             row == CHOOSE r \in FireTable : r[1] = n /\ r[2] = z
  <2>1. FireTable = {<<m, y, times(m, y)>> : m \in Name, y \in Zone}
    BY DEF FireTable
  <2> HIDE DEF times
  <2>2. <<n, z, times(n, z)>> \in FireTable
    BY <2>1
  <2>3. row \in FireTable /\ row[1] = n /\ row[2] = z
    BY <2>2
  <2> HIDE DEF row
  <2>4. row = <<n, z, times(n, z)>>
    BY <2>1, <2>3
  <2>5. NextFireAt(n, z, t) = row[3][t]
    BY DEF NextFireAt, row
  <2>6. QED BY <2>4, <2>5 DEF times
<1> DEFINE f == NextFireAt(n, z, t)
<1>2. /\ f \in Instant /\ t < f
      /\ \E k \in Int : Reaches(z, k * Day + At[n], f)
      /\ \A j \in Int : \A q : Reaches(z, j * Day + At[n], q) /\ t < q => f <= q
  BY <1>1, DailyFacts, NextFireIsNext
<1>3. f \in Nat /\ t \in Nat
  BY <1>2, ConstantFacts
<1> HIDE DEF f
<1>4. DueAt(n, z, f)
  BY <1>2, <1>3 DEF DueAt
<1>5. QED BY <1>2, <1>3, <1>4 DEF DueAt, f

LEMMA DueIsInstant ==
    ASSUME NEW n, NEW z, NEW t, DueAt(n, z, t)
    PROVE  t \in Instant /\ t \in Nat /\ 0 < t
  BY ConstantFacts DEF DueAt, Reaches

\* So it stays, as the clock ticks on, until the clock has come to it.
LEMMA NextStays ==
    ASSUME SaneCalendar, NEW n \in Name, Every[n] = "day", NEW z \in Zone,
           NEW t \in 0 .. Horizon, t + 1 \in 0 .. Horizon
    PROVE  /\ NextFireAt(n, z, t) # t + 1 => NextFireAt(n, z, t + 1) = NextFireAt(n, z, t)
           /\ NextFireAt(n, z, t) = t + 1 <=> DueAt(n, z, t + 1)
<1> DEFINE f == NextFireAt(n, z, t)
           g == NextFireAt(n, z, t + 1)
<1>1. f \in Nat /\ t < f /\ DueAt(n, z, f) /\ (\A q : DueAt(n, z, q) /\ t < q => f <= q)
  BY NextIsDue
<1>2. g \in Nat /\ t + 1 < g /\ DueAt(n, z, g) /\ (\A q : DueAt(n, z, q) /\ t + 1 < q => g <= q)
  BY NextIsDue
<1>3. t \in Nat
  BY ConstantFacts
<1> HIDE DEF f, g
<1>4. ASSUME f # t + 1 PROVE g = f
  <2>1. f <= g
    BY <1>1, <1>2, <1>3
  <2>2. t + 1 < f
    BY <1>1, <1>3, <1>4
  <2>3. g <= f
    BY <1>1, <1>2, <2>2
  <2>4. QED BY <1>1, <1>2, <2>1, <2>3
<1>5. DueAt(n, z, t + 1) => f = t + 1
  <2>1. DueAt(n, z, t + 1) => f <= t + 1
    BY <1>1, <1>3
  <2>2. QED BY <1>1, <1>3, <2>1
<1>6. f = t + 1 => DueAt(n, z, t + 1)
  BY <1>1
<1>7. QED BY <1>4, <1>5, <1>6 DEF f, g

\* Every date that began and ended has one such instant, and only one.
LEMMA OneADate ==
    ASSUME SaneCalendar, NEW n \in Name, Every[n] = "day", NEW z \in Zone, NEW t \in 0 .. Horizon,
           NEW date \in Date(z, 0) + 1 .. Date(z, t) - 1
    PROVE  \E u \in 1 .. t : /\ DueAt(n, z, u) /\ Date(z, u) = date
                             /\ \A v : DueAt(n, z, v) /\ Date(z, v) = date => v = u
<1> DEFINE at == At[n]
           x == date * Day + at
           u == Resolve(z, x)
<1>1. SaneZone(z) /\ at \in Nat /\ at < Day
  BY DailyFacts
<1>2. Day \in Nat /\ t \in Instant /\ t \in Nat /\ 0 \in Instant
  BY ConstantFacts
<1>3. Date(z, 0) \in Int /\ Date(z, t) \in Int /\ Local(z, 0) \in Int /\ Local(z, t) \in Int
      /\ Local(z, 0) < Date(z, 0) * Day + Day /\ Date(z, t) * Day <= Local(z, t)
  BY <1>1, <1>2, Clocks
<1>4. date \in Int /\ Date(z, 0) < date /\ date < Date(z, t)
  BY <1>3
<1> HIDE DEF at
<1>5. /\ date * Day \in Int /\ Date(z, 0) * Day \in Int /\ Date(z, t) * Day \in Int
      /\ Date(z, 0) * Day + Day <= date * Day /\ date * Day + Day <= Date(z, t) * Day
  BY <1>3, <1>4, Midnights
<1>6. x \in Int /\ Local(z, 0) < x /\ x <= Local(z, t) /\ date * Day <= x /\ x < date * Day + Day
  <2> DEFINE a == date * Day
             b == Date(z, 0) * Day
             c == Date(z, t) * Day
  <2>1. a \in Int /\ b \in Int /\ c \in Int /\ b + Day <= a /\ a + Day <= c
        /\ Local(z, 0) < b + Day /\ c <= Local(z, t)
    BY <1>3, <1>5
  <2> HIDE DEF a, b, c, Day
  <2>2. a + at \in Int /\ Local(z, 0) < a + at /\ a + at <= Local(z, t) /\ a <= a + at /\ a + at < a + Day
    BY <1>1, <1>2, <1>3, <2>1
  <2>3. QED BY <2>2 DEF a
<1> HIDE DEF x
<1>7. Reaches(z, x, u) /\ Date(z, u) = date
  <2>1. Reaches(z, x, u) /\ Date(z, u) = x \div Day
    BY <1>1, <1>2, <1>3, <1>6, ResolveReaches
  <2>2. x \div Day = date
    BY <1>4, <1>6, DateIs
  <2>3. QED BY <2>1, <2>2
<1> HIDE DEF u
<1>8. u \in Instant /\ u \in Nat /\ Local(z, u) \in Int /\ x <= Local(z, u)
      /\ (t < u => Local(z, t) < x)
  BY <1>1, <1>2, <1>7, Clocks DEF Reaches
<1>9. u \in 1 .. t
  <2>1. u # 0
    BY <1>3, <1>6, <1>8
  <2>2. ~(t < u)
    BY <1>3, <1>6, <1>8
  <2>3. QED BY <1>2, <1>8, <2>1, <2>2
<1>10. DueAt(n, z, u)
  <2>1. 0 < u
    BY <1>9
  <2>2. QED BY <1>4, <1>7, <2>1 DEF DueAt, x, at
<1>11. ASSUME NEW v, DueAt(n, z, v), Date(z, v) = date PROVE v = u
  <2>1. PICK k \in Int : Reaches(z, k * Day + at, v)
    BY <1>11 DEF DueAt, at
  <2>2. v \in Instant /\ v \in Nat /\ 0 < v
    BY <1>11, DueIsInstant
  <2> DEFINE y == k * Day + at
  <2>3. k * Day \in Int
    BY Midnights
  <2>4. y \in Int /\ k * Day <= y /\ y < k * Day + Day
    <3> HIDE DEF Day
    <3>1. QED BY <1>1, <1>2, <2>3
  <2>5. y \div Day = k
    BY <2>4, DateIs
  <2> HIDE DEF y
  <2>6. Reaches(z, y, v) /\ Local(z, 0) < y
    BY <1>2, <2>1, <2>2 DEF Reaches, y
  <2>7. Reaches(z, y, Resolve(z, y)) /\ Date(z, Resolve(z, y)) = k
    <3>1. y <= Local(z, v)
      BY <2>6 DEF Reaches
    <3>2. Local(z, 0) <= y
      BY <1>3, <2>4, <2>6
    <3>3. QED BY <1>1, <2>2, <2>4, <2>5, <3>1, <3>2, ResolveReaches
  <2>8. Resolve(z, y) <= v /\ v <= Resolve(z, y)
    BY <1>1, <2>4, <2>6, <2>7, ReachesInOrder
  <2>9. Resolve(z, y) \in Nat
    BY <1>1, <2>7, Clocks DEF Reaches
  <2>10. Resolve(z, y) = v
    BY <2>2, <2>8, <2>9
  <2>11. k = date
    BY <1>11, <2>7, <2>10
  <2>12. Reaches(z, x, v)
    BY <2>1, <2>11 DEF x
  <2>13. u <= v /\ v <= u
    BY <1>1, <1>6, <1>7, <2>12, ReachesInOrder
  <2>14. QED BY <1>8, <2>2, <2>13
<1>12. QED BY <1>7, <1>9, <1>10, <1>11

(***************************************************************************)
(* Once a day: the invariant, a tick and the theorem.                      *)
(***************************************************************************)

Daily(n) == Every[n] = "day" /\ decl[n] = 0 /\ ~table[n].stopped

Entry(n, t) == <<n, t, Date(zone, t)>>

\* The scheduler has looked at every instant so far, or at all but this one.
Watched ==
    /\ now \in 0 .. Horizon /\ zone \in Zone
    /\ seen.at \in 0 .. now /\ now <= seen.at + 1 /\ (ticked => seen.at = now)

\* The row of a daily schedule is at its next time, and the entries are its past ones.
InStep(n) ==
    /\ table[n].next = NextFireAt(n, zone, seen.at)
    /\ \A t \in 1 .. seen.at : DueAt(n, zone, t) => Entry(n, t) \in fired \cup skipped
    /\ \A e \in fired \cup skipped : e[1] = n =>
        \E t \in 1 .. seen.at : DueAt(n, zone, t) /\ e = Entry(n, t)

OnTime ==
    /\ decl \in [Name -> Nat \cup {None}]
    /\ \A n \in Name : decl[n] = 0 => table[n].decl = 0
    /\ steady => Watched /\ \A n \in Name : Daily(n) => InStep(n)

\* What the row of a standing declaration goes into a tick with.
LEMMA RowOfStands ==
    ASSUME Rows, NEW n \in Name, decl[n] = 0, table[n].decl = 0
    PROVE  /\ RowOf(n).decl = 0
           /\ RowOf(n).next = table[n].next
              \/ /\ RowOf(n).next = NextFireAt(n, zone, now)
                 /\ ~(table[n].next # None /\ table[n].next <= now)
           /\ ~RowOf(n).stopped => ~table[n].stopped
<1> DEFINE a == table[n]
           b == Reanchored(n, a)
           u == [b EXCEPT !.pending = FALSE]
<1>1. IsRow(a) /\ Rebuilt(n) = a /\ a.decl = 0
  BY DEF Rows, Rebuilt, None
<1>2. /\ b = a \/ /\ b = [a EXCEPT !.next = NextFireAt(n, zone, now)]
                  /\ ~(a.next # None /\ a.next <= now)
  BY DEF Reanchored
<1>3. b.stopped = a.stopped /\ IsRow(b) /\ b.decl = 0
  BY <1>1, ReanchoredIsRow
<1>4. b.next = a.next \/ /\ b.next = NextFireAt(n, zone, now)
                         /\ ~(a.next # None /\ a.next <= now)
  BY <1>1, <1>2 DEF IsRow
<1>5. RowOf(n) = Counted(n, b)
  BY <1>1 DEF RowOf
<1> HIDE DEF a, b
<1>6. Counted(n, b).next = b.next /\ Counted(n, b).decl = b.decl
  BY <1>3, CountedIsRow
<1>7. IsRow(u) /\ u.stopped = b.stopped
  <2>1. IsRow(u)
    BY <1>3, RowsStay
  <2>2. QED BY <1>3, <2>1 DEF IsRow
<1>8. Counted(n, b) \in {b, Failed(u), [u EXCEPT !.failures = 0], u}
  BY DEF Counted
<1> HIDE DEF u
<1>9. [u EXCEPT !.failures = 0].stopped = u.stopped
  BY <1>7 DEF IsRow
<1>10. ~Failed(u).stopped => ~u.stopped
  <2>1. Failed(u) = [[u EXCEPT !.failures = u.failures + 1]
                        EXCEPT !.stopped = u.stopped \/ u.failures + 1 >= MaxFailures]
    BY <1>7 DEF Failed, IsRow
  <2>2. Failed(u).stopped = (u.stopped \/ u.failures + 1 >= MaxFailures)
    BY <1>7, <2>1 DEF IsRow
  <2>3. QED BY <2>2
<1>11. ~Counted(n, b).stopped => ~b.stopped
  BY <1>7, <1>8, <1>9, <1>10
<1>12. QED BY <1>3, <1>4, <1>5, <1>6, <1>11 DEF a

\* What becomes of it: it stays where it is, or moves to its next time.
LEMMA TickMoves ==
    ASSUME Rows, Tick, NEW n \in Name
    PROVE  /\ ~IsDue(RowOf(n)) => table'[n] = RowOf(n)
           /\ IsDue(RowOf(n)) => /\ table'[n].next = NextFireAt(n, zone, now)
                                 /\ ~table'[n].stopped => ~RowOf(n).stopped
<1> DEFINE R == RowOf(n)
<1>1. IsRow(R)
  BY RowOfIsRow
<1> DEFINE moved(why) == [[R EXCEPT !.skip = why] EXCEPT !.next = NextFireAt(n, zone, now)]
<1> DEFINE armed(why) == [moved(why) EXCEPT !.pending = TRUE]
<1>2. ~IsDue(R) => table'[n] = R
  BY DEF Tick, RowOf
<1>3. IsDue(R) => \E why : table'[n] \in {moved(why), Failed(moved(why)), armed(why)}
  BY ZenonT(40) DEF Tick, RowOf
<1> HIDE DEF R
<1>4. \A why : IsRow(moved(why)) /\ moved(why).next = NextFireAt(n, zone, now)
               /\ moved(why).stopped = R.stopped
  <2> SUFFICES ASSUME NEW why
               PROVE  /\ IsRow(moved(why)) /\ moved(why).next = NextFireAt(n, zone, now)
                      /\ moved(why).stopped = R.stopped
    OBVIOUS
  <2> DEFINE u == [R EXCEPT !.skip = why]
  <2>1. IsRow(u) /\ u.stopped = R.stopped
    <3>1. IsRow(u)
      BY <1>1, RowsStay
    <3>2. QED BY <1>1, <3>1 DEF IsRow
  <2> HIDE DEF u
  <2>2. LET w == [u EXCEPT !.next = NextFireAt(n, zone, now)]
        IN  IsRow(w) /\ w.stopped = u.stopped /\ w.next = NextFireAt(n, zone, now)
    <3>1. [u EXCEPT !.next = NextFireAt(n, zone, now)].next = NextFireAt(n, zone, now)
      BY <2>1 DEF IsRow
    <3>2. QED BY <2>1, <3>1, RowsStay, FieldsStay
  <2>3. QED BY <2>1, <2>2 DEF u
<1> HIDE DEF moved
<1>5. \A why : armed(why).next = moved(why).next /\ armed(why).stopped = moved(why).stopped
  BY <1>4 DEF IsRow
<1>6. \A why : Failed(moved(why)).next = moved(why).next
               /\ (~Failed(moved(why)).stopped => ~moved(why).stopped)
  <2> SUFFICES ASSUME NEW why
               PROVE  /\ Failed(moved(why)).next = moved(why).next
                      /\ ~Failed(moved(why)).stopped => ~moved(why).stopped
    OBVIOUS
  <2> DEFINE u == moved(why)
  <2>1. IsRow(u)
    BY <1>4
  <2> HIDE DEF u
  <2>2. Failed(u).next = u.next
    BY <2>1, FailedIsRow
  <2>3. Failed(u) = [[u EXCEPT !.failures = u.failures + 1]
                        EXCEPT !.stopped = u.stopped \/ u.failures + 1 >= MaxFailures]
    BY <2>1 DEF Failed, IsRow
  <2>4. Failed(u).stopped = (u.stopped \/ u.failures + 1 >= MaxFailures)
    BY <2>1, <2>3 DEF IsRow
  <2>5. QED BY <2>2, <2>4 DEF u
<1> HIDE DEF armed
<1>7. QED BY <1>2, <1>3, <1>4, <1>5, <1>6 DEF R

\* Whatever is due gets its entry, of a fire or of a skip, and nothing else does.
LEMMA TickEntries ==
    ASSUME Tick
    PROVE  /\ fired \cup skipped \subseteq fired' \cup skipped'
           /\ \A m \in Name : IsDue(RowOf(m)) =>
                <<m, RowOf(m).next, Date(zone, RowOf(m).next)>> \in fired' \cup skipped'
           /\ \A e \in (fired' \cup skipped') \ (fired \cup skipped) :
                \E m \in Name : IsDue(RowOf(m)) /\ e = <<m, RowOf(m).next, Date(zone, RowOf(m).next)>>
  BY ZenonT(40) DEF Tick, RowOf

LEMMA OnTimeStart == SaneCalendar /\ Init => OnTime
<1> SUFFICES ASSUME SaneCalendar, Init PROVE OnTime
  OBVIOUS
<1>1. decl = [n \in Name |-> 0] /\ table = [n \in Name |-> NewRow(n)]
      /\ now = 0 /\ zone \in Zone /\ fired = {} /\ skipped = {} /\ seen.at = 0
  BY DEF Init
<1>2. decl \in [Name -> Nat \cup {None}] /\ \A n \in Name : decl[n] = 0
  BY <1>1
<1>3. \A n \in Name : table[n].decl = 0 /\ table[n].next = NextFireAt(n, zone, now)
  BY <1>1 DEF NewRow
<1>4. Watched
  <2>1. Horizon \in Nat
    BY ConstantFacts
  <2>2. QED BY <1>1, <2>1 DEF Watched
<1>5. \A n \in Name : InStep(n)
  BY <1>1, <1>3 DEF InStep
<1>6. QED BY <1>2, <1>3, <1>4, <1>5 DEF OnTime

\* A tick looks at the one instant nobody has looked at.
LEMMA TickInStep ==
    ASSUME SaneCalendar, Rows, OnTime, Tick, steady, NEW n \in Name, Daily(n)', decl[n] = 0
    PROVE  InStep(n)'
<1> DEFINE R == RowOf(n)
           N(t) == NextFireAt(n, zone, t)
           late == seen.at
<1>1. /\ now \in 0 .. Horizon /\ zone \in Zone /\ now \in Nat
      /\ late \in Nat /\ late <= now /\ now <= late + 1 /\ late \in 0 .. Horizon
  <2>1. Watched
    BY DEF OnTime
  <2>2. Horizon \in Nat
    BY ConstantFacts
  <2>3. QED BY <2>1, <2>2 DEF Watched
<1>2. Every[n] = "day" /\ table[n].decl = 0 /\ ~table'[n].stopped
  BY DEF Daily, OnTime
<1>3. seen'.at = now /\ zone' = zone
  BY DEF Tick, clock
<1>4. /\ R.decl = 0 /\ (~R.stopped => ~table[n].stopped)
      /\ \/ R.next = table[n].next
         \/ R.next = N(now) /\ ~(table[n].next # None /\ table[n].next <= now)
  BY <1>2, RowOfStands
<1>5. /\ ~IsDue(R) => table'[n] = R
      /\ IsDue(R) => table'[n].next = N(now) /\ (~table'[n].stopped => ~R.stopped)
  BY TickMoves
<1>6. ~R.stopped /\ ~table[n].stopped
  BY <1>2, <1>4, <1>5
<1>7. InStep(n)
  BY <1>2, <1>6 DEF OnTime, Daily
<1>8. table[n].next = N(late)
  BY <1>7 DEF InStep
<1>9. N(late) \in Nat /\ late < N(late) /\ N(now) \in Nat /\ now < N(now)
  BY <1>1, <1>2, NextIsDue
<1>10. now = late + 1 =>
          (N(late) # now => N(now) = N(late)) /\ (N(late) = now <=> DueAt(n, zone, now))
  BY <1>1, <1>2, NextStays
<1> HIDE DEF R, N, late
<1>11. R.next = N(late)
  <2>1. CASE R.next = table[n].next
    BY <1>8, <2>1
  <2>2. CASE R.next = N(now) /\ ~(table[n].next # None /\ table[n].next <= now)
    <3>1. N(late) # None
      BY <1>9 DEF None
    <3>2. ~(N(late) <= now)
      BY <1>8, <2>2, <3>1
    <3>3. N(late) # now
      BY <1>1, <3>2
    <3>4. now = late \/ now = late + 1
      BY <1>1
    <3>5. N(now) = N(late)
      BY <1>10, <3>3, <3>4
    <3>6. QED BY <2>2, <3>5
  <2>3. QED BY <1>4, <2>1, <2>2
\* It is due if it is due just now.
<1>12. IsDue(R) <=> N(late) = now
  <2>1. IsDue(R) <=> N(late) <= now
    <3>1. R.decl # None /\ R.next # None /\ ~R.stopped
      BY <1>4, <1>6, <1>9, <1>11 DEF None
    <3>2. QED BY <1>11, <3>1 DEF IsDue
  <2>2. N(late) <= now <=> N(late) = now
    BY <1>1, <1>9
  <2>3. QED BY <2>1, <2>2
<1>13. IsDue(R) <=> now = late + 1 /\ DueAt(n, zone, now)
  <2>1. N(late) = now => now = late + 1
    BY <1>1, <1>9
  <2>2. QED BY <1>10, <1>12, <2>1
<1>14. table'[n].next = N(now)
  <2>1. CASE IsDue(R)
    BY <1>5, <2>1
  <2>2. CASE ~IsDue(R)
    <3>1. N(late) # now
      BY <1>12, <2>2
    <3>2. now = late \/ now = late + 1
      BY <1>1
    <3>3. N(now) = N(late)
      BY <1>10, <3>1, <3>2
    <3>4. QED BY <1>5, <1>11, <2>2, <3>3
  <2>3. QED BY <2>1, <2>2
<1>15. ASSUME NEW t \in 1 .. now, DueAt(n, zone, t) PROVE Entry(n, t) \in fired' \cup skipped'
  <2>1. CASE t <= late
    <3>1. t \in 1 .. late
      BY <1>1, <1>15, <2>1
    <3>2. Entry(n, t) \in fired \cup skipped
      BY <1>7, <1>15, <3>1 DEF InStep, late
    <3>3. QED BY <3>2, TickEntries
  <2>2. CASE ~(t <= late)
    <3>1. t = now /\ now = late + 1
      BY <1>1, <1>15, <2>2
    <3>2. IsDue(R) /\ R.next = t
      BY <1>11, <1>12, <1>13, <1>15, <3>1
    <3>3. QED BY <3>2, TickEntries DEF R, Entry
  <2>3. QED BY <2>1, <2>2
<1>16. ASSUME NEW e \in fired' \cup skipped', e[1] = n
       PROVE  \E t \in 1 .. now : DueAt(n, zone, t) /\ e = Entry(n, t)
  <2>1. CASE e \in fired \cup skipped
    <3>1. PICK t \in 1 .. late : DueAt(n, zone, t) /\ e = Entry(n, t)
      BY <1>7, <1>16, <2>1 DEF InStep, late
    <3>2. t \in 1 .. now
      BY <1>1, <3>1
    <3>3. QED BY <3>1, <3>2
  <2>2. CASE e \notin fired \cup skipped
    <3>1. PICK m \in Name : IsDue(RowOf(m)) /\ e = <<m, RowOf(m).next, Date(zone, RowOf(m).next)>>
      BY <1>16, <2>2, TickEntries
    <3>2. m = n
      BY <1>16, <3>1
    <3>3. IsDue(R) /\ e = Entry(n, R.next)
      BY <3>1, <3>2 DEF R, Entry
    <3>4. R.next = now /\ DueAt(n, zone, now) /\ now = late + 1
      BY <1>11, <1>12, <1>13, <3>3
    <3>5. now \in 1 .. now
      BY <1>1, <3>4
    <3>6. QED BY <3>3, <3>4, <3>5
  <2>3. QED BY <2>1, <2>2
<1>17. QED BY <1>3, <1>14, <1>15, <1>16 DEF InStep, Entry, N

LEMMA OnTimeStep == SaneCalendar /\ Rows /\ OnTime /\ [Next]_vars => OnTime'
<1> SUFFICES ASSUME SaneCalendar, Rows, OnTime, [Next]_vars PROVE OnTime'
  OBVIOUS
<1>1. /\ decl \in [Name -> Nat \cup {None}] /\ (\A n \in Name : decl[n] = 0 => table[n].decl = 0)
      /\ steady => Watched /\ \A n \in Name : Daily(n) => InStep(n)
  BY DEF OnTime
<1>2. MaxEdits \in Nat /\ 0 < MaxEdits /\ Horizon \in Nat
  BY ConstantFacts DEF SaneCalendar
<1>3. CASE Tick
  <2>1. decl' = decl /\ steady' = steady /\ now' = now /\ zone' = zone /\ seen'.at = now
    BY <1>3 DEF Tick, clock
  <2>2. \A n \in Name : decl'[n] = 0 => table'[n].decl = 0
    <3> SUFFICES ASSUME NEW n \in Name, decl[n] = 0 PROVE table'[n].decl = 0
      BY <2>1
    <3>1. table'[n].decl = RowOf(n).decl
      BY <1>3, TickRow
    <3>2. QED BY <1>1, <3>1, RowOfStands
  <2>3. steady' => Watched'
    BY <1>1, <1>2, <2>1 DEF Watched
  <2>4. ASSUME steady', NEW n \in Name, Daily(n)' PROVE InStep(n)'
    <3>1. steady /\ decl[n] = 0
      BY <2>1, <2>4 DEF Daily
    <3>2. QED BY <1>3, <2>4, <3>1, TickInStep
  <2>5. QED BY <1>1, <2>1, <2>2, <2>3, <2>4 DEF OnTime
<1>4. CASE Pass
  <2>1. /\ decl' = decl /\ table' = table /\ steady' = steady /\ seen' = seen /\ zone' = zone
        /\ fired' = fired /\ skipped' = skipped
        /\ now' = now + 1 /\ now < Horizon /\ ticked /\ ticked' = FALSE
    BY <1>4 DEF Pass
  <2>2. steady' => Watched'
    <3> SUFFICES ASSUME steady PROVE Watched'
      BY <2>1
    <3>1. now \in 0 .. Horizon /\ zone \in Zone /\ seen.at \in 0 .. now /\ seen.at = now
      BY <1>1, <2>1 DEF Watched
    <3>2. QED BY <1>2, <2>1, <3>1 DEF Watched
  <2>3. \A n \in Name : steady' /\ Daily(n)' => InStep(n)'
    BY <1>1, <2>1 DEF Daily, InStep, Entry
  <2>4. QED BY <1>1, <2>1, <2>2, <2>3 DEF OnTime
<1>5. CASE Disturb
  BY <1>1, <1>5 DEF Disturb, OnTime
<1>6. ASSUME NEW m \in Name, Edit(m) \/ Undeclare(m) PROVE OnTime'
  <2>1. /\ table' = table /\ steady' = steady /\ seen' = seen /\ zone' = zone
        /\ fired' = fired /\ skipped' = skipped /\ now' = now /\ ticked' = FALSE
    BY <1>6 DEF Edit, Undeclare, clock
  <2>2. /\ decl' \in [Name -> Nat \cup {None}] /\ decl'[m] # 0
        /\ \A n \in Name : n # m => decl'[n] = decl[n]
    <3>1. CASE Edit(m)
      <4>1. PICK v : v = IF decl[m] = None THEN MaxEdits ELSE decl[m] + 1
        OBVIOUS
      <4>2. v \in Nat /\ v # 0
        BY <1>1, <1>2, <4>1 DEF None
      <4>3. decl' = [decl EXCEPT ![m] = v]
        BY <3>1, <4>1 DEF Edit
      <4>4. QED BY <1>1, <4>2, <4>3
    <3>2. CASE Undeclare(m)
      <4>1. decl' = [decl EXCEPT ![m] = None]
        BY <3>2 DEF Undeclare
      <4>2. None # 0
        BY DEF None
      <4>3. QED BY <1>1, <4>1, <4>2
    <3>3. QED BY <1>6, <3>1, <3>2
  <2>3. \A n \in Name : decl'[n] = 0 => decl[n] = 0
    BY <2>2
  <2>4. steady' => Watched'
    BY <1>1, <2>1 DEF Watched
  <2>5. \A n \in Name : steady' /\ Daily(n)' => InStep(n)'
    BY <1>1, <2>1, <2>3 DEF Daily, InStep, Entry
  <2>6. QED BY <1>1, <2>1, <2>2, <2>3, <2>4, <2>5 DEF OnTime
<1>7. ASSUME NEW m \in Name, RunEnds(m) \/ ByHand(m) PROVE OnTime'
  <2>1. UNCHANGED <<decl, table, steady, seen, zone, fired, skipped, now, ticked>>
    BY <1>7 DEF RunEnds, ByHand, clock
  <2>2. QED BY <1>1, <2>1 DEF OnTime, Watched, Daily, InStep, Entry
<1>8. CASE UNCHANGED vars
  <2>1. UNCHANGED <<decl, table, steady, seen, zone, fired, skipped, now, ticked>>
    BY <1>8 DEF vars, clock
  <2>2. QED BY <1>1, <2>1 DEF OnTime, Watched, Daily, InStep, Entry
<1>9. QED BY <1>3, <1>4, <1>5, <1>6, <1>7, <1>8 DEF Next

\* Entries that are the due instants so far are one for every date that has passed.
LEMMA OneEntryADate ==
    ASSUME SaneCalendar, OnTime, steady, ticked, NEW n \in Name, Daily(n),
           NEW date \in Date(zone, 0) + 1 .. Date(zone, now) - 1
    PROVE  Cardinality({e \in fired \cup skipped : e[1] = n /\ e[3] = date}) = 1
<1>1. InStep(n) /\ zone \in Zone /\ now \in 0 .. Horizon /\ seen.at = now /\ Every[n] = "day"
  BY DEF OnTime, Watched, Daily
<1>2. PICK u \in 1 .. now : /\ DueAt(n, zone, u) /\ Date(zone, u) = date
                            /\ \A v : DueAt(n, zone, v) /\ Date(zone, v) = date => v = u
  BY <1>1, OneADate
<1>3. Entry(n, u) \in fired \cup skipped /\ Entry(n, u)[1] = n /\ Entry(n, u)[3] = date
  BY <1>1, <1>2 DEF InStep, Entry
<1>4. ASSUME NEW e \in fired \cup skipped, e[1] = n, e[3] = date PROVE e = Entry(n, u)
  <2>1. PICK t \in 1 .. now : DueAt(n, zone, t) /\ e = Entry(n, t)
    BY <1>1, <1>4 DEF InStep
  <2>2. Date(zone, t) = date
    BY <1>4, <2>1 DEF Entry
  <2>3. QED BY <1>2, <2>1, <2>2
<1>5. {e \in fired \cup skipped : e[1] = n /\ e[3] = date} = {Entry(n, u)}
  BY <1>3, <1>4
<1>6. QED BY <1>5, FS_Singleton

\* In any sane calendar, for any workflows: while the clock ticks on and the declaration
\* stands, every date that has passed has exactly one fire or skip of a daily schedule,
\* whatever the clock skipped or ran over twice.
THEOREM EveryDateOnce ==
    ASSUME SaneCalendar
    PROVE  Spec => []OnceADay
<1>1. Init => OnTime
  BY OnTimeStart
<1>2. Rows /\ OnTime /\ [Next]_vars => OnTime'
  BY OnTimeStep
<1>3. OnTime => OnceADay
  BY OneEntryADate DEF OnceADay, Daily
<1>4. Spec => []Rows
  BY RowsAlways
<1>5. QED BY <1>1, <1>2, <1>3, <1>4, PTL DEF Spec

(***************************************************************************)
(* The detector.                                                           *)
(***************************************************************************)

Phases == {"begin", "asleep", "judging", "decaying"}

DetectorOK ==
    /\ reading \in [Session -> Reading]
    /\ settings \in Settings
    /\ queue \subseteq Session /\ marking \subseteq Session
    /\ tracker \in [Session -> [current : Reading \cup {"none"}, lapsed : BOOLEAN]]
    /\ detector \in [phase : Phases, using : Settings, todo : SUBSET Session,
                      seen : [of : Session \cup {0}, reading : Reading \cup {"none"}]]

LEMMA JudgementsAreReadings == \A ruled \in BOOLEAN : Judgements(ruled) \subseteq Reading
  BY DEF Judgements, Classify, Reading, Category

LEMMA DetectorStart == StatusInit => DetectorOK
  BY DEF StatusInit, DetectorOK, Phases, Settings, Nothing, NoTracker, Reading

LEMMA DetectorStep == DetectorOK /\ [StatusNext]_statusVars => DetectorOK'
<1> SUFFICES ASSUME DetectorOK, [StatusNext]_statusVars PROVE DetectorOK'
  OBVIOUS
<1> USE DEF DetectorOK
<1>1. CASE UNCHANGED statusVars
  BY <1>1 DEF statusVars
<1>2. CASE PaneStep
  BY <1>2 DEF PaneStep
<1>3. CASE Reconfigure
  BY <1>3 DEF Reconfigure
<1>4. CASE Begin
  BY <1>4 DEF Begin, Phases
<1>5. CASE Wake
  BY <1>5 DEF Wake, Phases
<1>6. CASE Judged
  BY <1>6 DEF Judged, Phases, Tracked
<1>7. CASE TickEnds
  BY <1>7 DEF TickEnds, Phases
<1>8. ASSUME NEW s \in Session, ClearBadge(s) PROVE DetectorOK'
  BY <1>8 DEF ClearBadge
<1>9. ASSUME NEW s \in Session, Prints(s) PROVE DetectorOK'
  BY <1>9, JudgementsAreReadings DEF Prints
<1>10. ASSUME NEW s \in Session, MarkDirty(s) PROVE DetectorOK'
  BY <1>10 DEF MarkDirty
<1>11. ASSUME NEW s \in Session, Lapse(s) PROVE DetectorOK'
  BY ZenonT(40), <1>11 DEF Lapse
<1>12. ASSUME NEW s \in Session, Look(s) PROVE DetectorOK'
  <2>1. Nothing \in [of : Session \cup {0}, reading : Reading \cup {"none"}]
        /\ [of |-> s, reading |-> reading[s]] \in [of : Session \cup {0}, reading : Reading \cup {"none"}]
    BY DEF Nothing
  <2>2. QED BY <1>12, <2>1 DEF Look
<1>13. ASSUME NEW s \in Session, Tell(s) PROVE DetectorOK'
  <2>1. Observe(tracker[s], detector.seen.reading, detector.using.lingers)
            \in [current : Reading \cup {"none"}, lapsed : BOOLEAN]
    BY DEF Observe, Becomes, Reading, Category
  <2>2. Nothing \in [of : Session \cup {0}, reading : Reading \cup {"none"}]
    BY DEF Nothing
  <2>3. QED BY <1>13, <2>1, <2>2 DEF Tell
<1>14. ASSUME NEW s \in Session, Decay(s) PROVE DetectorOK'
  <2>1. NoTracker \in [current : Reading \cup {"none"}, lapsed : BOOLEAN]
        /\ [current |-> "idle", lapsed |-> FALSE] \in [current : Reading \cup {"none"}, lapsed : BOOLEAN]
    BY DEF NoTracker, Reading
  <2>2. tracker' \in [Session -> [current : Reading \cup {"none"}, lapsed : BOOLEAN]]
    BY <1>14, <2>1 DEF Decay
  <2>3. detector' \in [phase : Phases, using : Settings, todo : SUBSET Session,
                       seen : [of : Session \cup {0}, reading : Reading \cup {"none"}]]
    BY <1>14 DEF Decay
  <2>4. UNCHANGED <<reading, settings, queue, marking>>
    BY <1>14 DEF Decay
  <2>5. QED BY <2>2, <2>3, <2>4
<1>15. QED BY <1>1, <1>2, <1>3, <1>4, <1>5, <1>6, <1>7, <1>8, <1>9, <1>10, <1>11, <1>12, <1>13, <1>14
           DEF StatusNext, DetectorTick, Detector

\* For any panes: what a running agent printed is marked, about to be marked, or drained
\* and waiting for the detector, unless its mark met a detection that was off.
THEOREM NothingGoesUnjudged == StatusSpec => []UnseenIsMarked
<1>1. StatusInit => UnseenIsMarked
  BY DEF StatusInit, UnseenIsMarked
<1>2. ASSUME DetectorOK, UnseenIsMarked, [StatusNext]_statusVars PROVE UnseenIsMarked'
  <2> USE <1>2 DEF UnseenIsMarked, OnItsWay
  <2>1. CASE UNCHANGED statusVars
    BY <2>1 DEF statusVars
  <2>2. CASE PaneStep
    BY <2>2 DEF PaneStep
  <2>3. CASE Reconfigure
    BY <2>3 DEF Reconfigure
  <2>4. CASE Begin
    BY <2>4 DEF Begin
  <2>5. CASE Wake
    <3>1. CASE detector.using.enabled
      <4>1. detector'.phase = "judging" /\ detector'.todo = queue
        BY <2>5, <3>1 DEF Wake, DetectorOK
      <4>2. QED BY <2>5, <3>1, <4>1 DEF Wake
    <3>2. CASE ~detector.using.enabled
      BY <2>5, <3>2 DEF Wake
    <3>3. QED BY <3>1, <3>2
  <2>6. CASE Judged
    BY <2>6 DEF Judged
  <2>7. CASE TickEnds
    BY <2>7 DEF TickEnds
  <2>8. ASSUME NEW s \in Session, ClearBadge(s) PROVE UnseenIsMarked'
    BY <2>8 DEF ClearBadge
  <2>9. ASSUME NEW s \in Session, Prints(s) PROVE UnseenIsMarked'
    BY <2>9 DEF Prints
  <2>10. ASSUME NEW s \in Session, MarkDirty(s) PROVE UnseenIsMarked'
    BY <2>10 DEF MarkDirty
  <2>11. ASSUME NEW s \in Session, Lapse(s) PROVE UnseenIsMarked'
    BY <2>11 DEF Lapse
  <2>12. ASSUME NEW s \in Session, Look(s) PROVE UnseenIsMarked'
    <3>1. detector'.phase = "judging" /\ detector'.todo = detector.todo \ {s}
      BY <2>12 DEF Look, DetectorOK
    <3>2. QED BY <2>12, <3>1 DEF Look
  <2>13. ASSUME NEW s \in Session, Tell(s) PROVE UnseenIsMarked'
    <3>1. detector'.phase = detector.phase /\ detector'.todo = detector.todo
      BY <2>13 DEF Tell, DetectorOK
    <3>2. QED BY <2>13, <3>1 DEF Tell
  <2>14. ASSUME NEW s \in Session, Decay(s) PROVE UnseenIsMarked'
    BY <2>14 DEF Decay
  <2>15. QED BY <2>1, <2>2, <2>3, <2>4, <2>5, <2>6, <2>7, <2>8, <2>9, <2>10, <2>11, <2>12, <2>13, <2>14
             DEF StatusNext, DetectorTick, Detector
<1>3. DetectorOK /\ UnseenIsMarked /\ [StatusNext]_statusVars => UnseenIsMarked'
  BY <1>2
<1>4. QED BY <1>1, <1>3, DetectorStart, DetectorStep, PTL DEF StatusSpec
================================================================================
