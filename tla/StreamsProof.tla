------------------------------ MODULE StreamsProof ------------------------------
(***************************************************************************)
(* The streaming fan-out, for any number of targets, replies, units, cells *)
(* and attempts: the driver hears its agent as long as the window is not   *)
(* held by what nobody acknowledges, and no reply it has acknowledged is   *)
(* lost.                                                                   *)
(***************************************************************************)
EXTENDS Streams, FiniteSetTheorems, SequenceTheorems, WellFoundedInduction, TLAPS

-------------------------------------------------------------------------------
(* Finite sets of positions.                                               *)

LEMMA LeastOf ==
    ASSUME NEW S, S \subseteq Nat, S # {}
    PROVE  \E m \in S : \A j \in S : m <= j
<1>1. PICK m \in S : \A j \in S : ~(<<j, m>> \in OpToRel(<, Nat))
  BY NatLessThanWellFounded, WFMin
<1>2. \A j \in S : ~(j < m)
  BY <1>1 DEF OpToRel
<1>3. QED BY <1>2

\* A finite set of positions has one of every rank, which is what InOrder chooses.
LEMMA RankExists ==
    ASSUME NEW S, S \subseteq Nat, IsFiniteSet(S), NEW n \in 1 .. Cardinality(S)
    PROVE  \E i \in S : Cardinality({j \in S : j < i}) = n - 1
<1> DEFINE ranked(k) == \E i \in S : Cardinality({j \in S : j < i}) = k - 1
           missing == {k \in 1 .. Cardinality(S) : ~ranked(k)}
<1>1. Cardinality(S) \in Nat /\ \A j \in S : j \in Nat
  BY FS_CardinalityType
<1>2. SUFFICES ASSUME missing # {} PROVE FALSE
  BY <1>2
<1>3. missing \subseteq Nat
  BY <1>1
<1>4. PICK k \in missing : \A l \in missing : k <= l
  <2> HIDE DEF missing
  <2>1. QED BY <1>2, <1>3, LeastOf
<1>5. k \in 1 .. Cardinality(S) /\ ~ranked(k)
  BY <1>4
<1>6. CASE k = 1
  <2>1. S # {}
    BY <1>1, <1>5, FS_EmptySet
  <2>2. PICK m \in S : \A j \in S : m <= j
    BY <2>1, LeastOf
  <2>3. {j \in S : j < m} = {}
    <3>1. \A j \in S : ~(j < m)
      BY <1>1, <2>2
    <3>2. QED BY <3>1
  <2>4. Cardinality({j \in S : j < m}) = k - 1
    BY <1>6, <2>3, FS_EmptySet
  <2>5. QED BY <1>5, <2>4
<1>7. CASE k # 1
  <2>1. k - 1 \in 1 .. Cardinality(S) /\ k \in Int
    BY <1>1, <1>5, <1>7
  <2>2. ranked(k - 1)
    <3>1. k - 1 \notin missing
      <4> HIDE DEF missing
      <4>1. QED BY <1>3, <1>4, <2>1
    <3>2. QED BY <2>1, <3>1
  <2>3. PICK i \in S : Cardinality({j \in S : j < i}) = k - 2
    BY <2>1, <2>2
  <2> DEFINE low == {j \in S : j < i}
             upTo == low \cup {i}
             high == {j \in S : j > i}
  <2>4. IsFiniteSet(low)
    BY FS_Subset
  <2>5. Cardinality(upTo) = k - 1
    <3>1. i \notin low
      BY <1>1
    <3>2. Cardinality(low) = k - 2
      BY <2>3
    <3> HIDE DEF low
    <3>3. Cardinality(low \cup {i}) = Cardinality(low) + 1
      BY <2>4, <3>1, FS_AddElement
    <3>4. QED BY <2>1, <3>2, <3>3
  <2>6. high # {}
    <3>1. ASSUME high = {} PROVE S = upTo
      <4>1. \A j \in S : j < i \/ j = i
        BY <1>1, <3>1
      <4>2. QED BY <4>1
    <3> HIDE DEF upTo, high
    <3>2. QED BY <1>1, <1>5, <2>1, <2>5, <3>1
  <2>7. PICK m \in high : \A j \in high : m <= j
    BY <2>6, LeastOf
  <2>8. {j \in S : j < m} = upTo
    <3>1. \A j \in S : j > i => j >= m
      BY <2>7
    <3>2. m \in S /\ m > i
      BY <2>7
    <3>3. \A j \in S : j < m <=> j < i \/ j = i
      BY <1>1, <3>1, <3>2
    <3>4. QED BY <3>3
  <2>9. QED BY <1>5, <2>5, <2>8
<1>8. QED BY <1>6, <1>7

LEMMA InOrderLists ==
    ASSUME NEW S, S \subseteq Nat, IsFiniteSet(S)
    PROVE  InOrder(S) \in Seq(S)
<1> DEFINE at(n) == CHOOSE i \in S : Cardinality({j \in S : j < i}) = n - 1
<1>1. Cardinality(S) \in Nat
  BY FS_CardinalityType
<1>2. ASSUME NEW n \in 1 .. Cardinality(S) PROVE at(n) \in S
  BY RankExists
<1>3. InOrder(S) = [n \in 1 .. Cardinality(S) |-> at(n)]
  BY DEF InOrder
<1> HIDE DEF at
<1>4. QED BY <1>1, <1>2, <1>3

-------------------------------------------------------------------------------
(* The mailbox.  What came after the live kickoff answers it.              *)

Msg == [kind : Kind, thread : Nat, acked : BOOLEAN]

MailOK ==
    /\ mail \in Seq(Msg) /\ root \in 0 .. Len(mail)
    /\ \A i \in DOMAIN mail : i > root => mail[i].thread = root

\* What a step may do to a mailbox: acknowledge, and append.
Grown ==
    /\ Len(mail') \in Nat /\ Len(mail) <= Len(mail')
    /\ \A i \in 1 .. Len(mail) : /\ mail'[i].kind = mail[i].kind /\ mail'[i].thread = mail[i].thread
                                 /\ mail[i].acked => mail'[i].acked

LEMMA AckMail ==
    ASSUME MailOK, NEW set, Ack(set), root' = root
    PROVE  /\ MailOK' /\ Grown /\ Len(mail') = Len(mail)
           /\ \A i \in 1 .. Len(mail) : mail'[i].acked <=> mail[i].acked \/ i \in set
<1>1. mail \in [1 .. Len(mail) -> Msg] /\ Len(mail) \in Nat
  BY DEF MailOK
<1>2. /\ mail' = [i \in 1 .. Len(mail) |-> [mail[i] EXCEPT !.acked = mail[i].acked \/ i \in set]]
  BY <1>1 DEF Ack
<1>3. ASSUME NEW i \in 1 .. Len(mail)
      PROVE  /\ mail'[i] \in Msg
             /\ mail'[i].kind = mail[i].kind /\ mail'[i].thread = mail[i].thread
             /\ mail'[i].acked <=> mail[i].acked \/ i \in set
  <2>1. mail[i] \in Msg /\ mail'[i] = [mail[i] EXCEPT !.acked = mail[i].acked \/ i \in set]
    BY <1>1, <1>2
  <2>2. (mail[i].acked \/ i \in set) \in BOOLEAN
    OBVIOUS
  <2>3. QED BY <2>1, <2>2 DEF Msg
<1>4. mail' \in Seq(Msg) /\ Len(mail') = Len(mail)
  <2> DEFINE at(i) == [mail[i] EXCEPT !.acked = mail[i].acked \/ i \in set]
  <2>1. mail' = [i \in 1 .. Len(mail) |-> at(i)] /\ \A i \in 1 .. Len(mail) : at(i) = mail'[i]
    BY <1>2
  <2> HIDE DEF at
  <2>2. \A i \in 1 .. Len(mail) : at(i) \in Msg
    BY <1>3, <2>1
  <2>3. QED BY <1>1, <2>1, <2>2
<1>5. MailOK'
  BY <1>1, <1>3, <1>4 DEF MailOK
<1>6. QED BY <1>1, <1>3, <1>4, <1>5 DEF Grown

LEMMA AppendMail ==
    ASSUME MailOK, NEW kind \in Kind, mail' = Append(mail, Message(kind)), root' = root
    PROVE  /\ MailOK' /\ Grown /\ Len(mail') = Len(mail) + 1
           /\ \A i \in 1 .. Len(mail) : mail'[i] = mail[i]
           /\ ~mail'[Len(mail) + 1].acked
<1>1. mail \in Seq(Msg) /\ Len(mail) \in Nat /\ root \in 0 .. Len(mail)
  BY DEF MailOK
<1>2. Message(kind) \in Msg /\ Message(kind).thread = root /\ ~Message(kind).acked
  BY <1>1 DEF Message, Msg
<1>3. /\ mail' \in Seq(Msg) /\ Len(mail') = Len(mail) + 1
      /\ \A i \in 1 .. Len(mail) : mail'[i] = mail[i]
      /\ mail'[Len(mail) + 1] = Message(kind)
  BY <1>1, <1>2, AppendProperties
<1>4. MailOK'
  BY <1>1, <1>2, <1>3 DEF MailOK
<1>5. QED BY <1>1, <1>2, <1>3, <1>4 DEF Grown

LEMMA SameMail == MailOK /\ UNCHANGED store => MailOK' /\ Grown
  BY DEF MailOK, Grown, store

LEMMA MailStep == MailOK /\ [Next]_vars => MailOK' /\ Grown
<1> SUFFICES ASSUME MailOK, [Next]_vars PROVE MailOK' /\ Grown
  OBVIOUS
<1>1. CASE Scan
  <2>1. root' = root /\ (mail' = mail \/ Ack(Matched \ BeforeEnd(Matched)))
    BY <1>1 DEF Scan
  <2>2. QED BY <2>1, AckMail, SameMail DEF store
<1>2. CASE Mint
  <2>1. root' = root /\ (mail' = mail \/ Ack(cut \cup {Head(units)}))
    BY <1>2 DEF Mint
  <2>2. QED BY <2>1, AckMail, SameMail DEF store
<1>3. CASE Retry
  <2>1. mail' = mail /\ (root' = root \/ root' = Len(mail))
    BY <1>3 DEF Retry
  <2>2. QED BY <2>1 DEF MailOK, Grown
<1>4. ASSUME NEW kind \in Kind, Reply(kind) PROVE MailOK' /\ Grown
  BY <1>4, AppendMail DEF Reply
<1>5. CASE Noise
  BY <1>5, AppendMail DEF Noise, Kind
<1>6. CASE Detect \/ DecideAndSpawn \/ UNCHANGED vars
  BY <1>6, SameMail DEF Detect, DecideAndSpawn, vars, store
<1>7. ASSUME NEW r \in Row, AgentEnds(r) \/ ClosePane(r) \/ WaitEnds(r) \/ BackoffEnds(r)
      PROVE  MailOK' /\ Grown
  BY <1>7, SameMail DEF AgentEnds, ClosePane, WaitEnds, BackoffEnds
<1>8. QED
  BY <1>1, <1>2, <1>3, <1>4, <1>5, <1>6, <1>7 DEF Next, Driver, World

LEMMA MailStart == Init => MailOK
  BY DEF Init, MailOK

\* What is unread before the oldest waiting reply is noise.
LEMMA OldestIsOnThePage == MailOK => NeverDeaf
<1> DEFINE waiting == {i \in DOMAIN mail : /\ i > root /\ ~mail[i].acked
                                           /\ mail[i].thread = root /\ mail[i].kind # "noise"}
           stuck == {i \in DOMAIN mail : i > root /\ mail[i].kind = "noise"}
<1> SUFFICES ASSUME MailOK, waiting # {}, Cardinality(stuck) < Window
             PROVE  waiting \cap Page # {}
  BY DEF NeverDeaf
<1>1. DOMAIN mail = 1 .. Len(mail) /\ Len(mail) \in Nat /\ root \in Nat
  BY DEF MailOK
<1>2. waiting \subseteq Nat
  BY <1>1
<1>3. PICK m \in waiting : \A j \in waiting : m <= j
  <2> HIDE DEF waiting
  <2>1. QED BY <1>2, LeastOf
<1> DEFINE before == {j \in Unread : j < m}
<1>4. before \subseteq stuck
  BY <1>1, <1>3 DEF Unread, MailOK
<1>5. IsFiniteSet(stuck)
  <2>1. IsFiniteSet(1 .. Len(mail))
    BY <1>1, FS_Interval
  <2>2. stuck \in SUBSET (1 .. Len(mail))
    BY <1>1
  <2> HIDE DEF stuck
  <2>3. QED BY <2>1, <2>2, FS_Subset
<1>6. Cardinality(before) < Window
  <2> HIDE DEF before, stuck
  <2>1. IsFiniteSet(before) /\ Cardinality(before) <= Cardinality(stuck)
    BY <1>4, <1>5, FS_Subset
  <2>2. Cardinality(before) \in Nat /\ Cardinality(stuck) \in Nat
    BY <1>5, <2>1, FS_CardinalityType
  <2>3. QED BY <2>1, <2>2, StreamsAssumption
<1>7. m \in Unread
  BY <1>3 DEF Unread
<1>8. QED BY <1>3, <1>6, <1>7 DEF Page

\* list_inbox and detect_reply_completions: the page is the oldest of what is unread,
\* so only messages nobody acknowledges can keep a reply of the live thread off it.
THEOREM TheDriverHears == Spec => []NeverDeaf
<1>1. MailOK /\ [Next]_vars => MailOK'
  BY MailStep
<1>2. QED BY <1>1, MailStart, OldestIsOnThePage, PTL DEF Spec

-------------------------------------------------------------------------------
(* The rows.  Every pass but the mint rewrites the rows there are: it adds *)
(* none, drops none and gives none another unit.                           *)

Outcome == [state : RowState, tries : Nat, retry : Backoff, pane : BOOLEAN,
            agent : {"none", "busy", "ok", "bad"}, wait : Wait, unit : Nat]

\* A row is within its attempts, one that waits for a retry has one left.
Sound(r, o) ==
    /\ o \in Outcome /\ o.tries <= Attempts[r[1]]
    /\ o.retry # "none" => o.state # "absent" /\ o.tries + 1 <= Attempts[r[1]]

\* p may follow o in the place of row r.
Follows(r, o, p) == Sound(r, p) /\ p.unit = o.unit /\ (p.state = "absent" <=> o.state = "absent")

RowsOK == row \in [Row -> Outcome] /\ \A r \in Row : Sound(r, row[r])
RowsFollow == row' \in [Row -> Outcome] /\ \A r \in Row : Follows(r, row[r], row'[r])

LEMMA AttemptsOf == \A r \in Row : Attempts[r[1]] \in Nat \ {0}
  BY StreamsAssumption DEF Row, Stream, CopiesOf

LEMMA Edits ==
    ASSUME NEW r \in Row, NEW o, Sound(r, o)
    PROVE  /\ Follows(r, o, o)
           /\ o.state # "absent" => \A s \in RowState \ {"absent"} :
                  Follows(r, o, [o EXCEPT !.state = s]) /\ [o EXCEPT !.state = s].state = s
           /\ \A b \in BOOLEAN : /\ Follows(r, o, [o EXCEPT !.pane = b])
                                 /\ [o EXCEPT !.pane = b].state = o.state
           /\ \A a \in {"none", "busy", "ok", "bad"} : /\ Follows(r, o, [o EXCEPT !.agent = a])
                                                       /\ [o EXCEPT !.agent = a].state = o.state
           /\ \A w \in Wait : Follows(r, o, [o EXCEPT !.wait = w])
           /\ Follows(r, o, [o EXCEPT !.retry = "none"]) /\ [o EXCEPT !.retry = "none"].retry = "none"
           /\ o.retry # "none" => Follows(r, o, [o EXCEPT !.retry = "due"])
           /\ o.state # "absent" /\ o.tries + 1 <= Attempts[r[1]] =>
                  Follows(r, o, [o EXCEPT !.retry = "armed"])
<1>1. o \in Outcome /\ Attempts[r[1]] \in Nat
  BY AttemptsOf DEF Sound
<1>2. Follows(r, o, o)
  BY DEF Follows
<1>3. ASSUME o.state # "absent", NEW s \in RowState \ {"absent"}
      PROVE  Follows(r, o, [o EXCEPT !.state = s]) /\ [o EXCEPT !.state = s].state = s
  BY <1>1, <1>3 DEF Follows, Sound, Outcome
<1>4. ASSUME NEW b \in BOOLEAN
      PROVE  Follows(r, o, [o EXCEPT !.pane = b]) /\ [o EXCEPT !.pane = b].state = o.state
  BY <1>1 DEF Follows, Sound, Outcome
<1>5. ASSUME NEW a \in {"none", "busy", "ok", "bad"}
      PROVE  Follows(r, o, [o EXCEPT !.agent = a]) /\ [o EXCEPT !.agent = a].state = o.state
  BY <1>1 DEF Follows, Sound, Outcome
<1>6. ASSUME NEW w \in Wait PROVE Follows(r, o, [o EXCEPT !.wait = w])
  BY <1>1 DEF Follows, Sound, Outcome
<1>7. Follows(r, o, [o EXCEPT !.retry = "none"]) /\ [o EXCEPT !.retry = "none"].retry = "none"
  BY <1>1 DEF Follows, Sound, Outcome, Backoff
<1>8. o.retry # "none" => Follows(r, o, [o EXCEPT !.retry = "due"])
  BY <1>1 DEF Follows, Sound, Outcome, Backoff
<1>9. o.state # "absent" /\ o.tries + 1 <= Attempts[r[1]] => Follows(r, o, [o EXCEPT !.retry = "armed"])
  BY <1>1 DEF Follows, Sound, Outcome, Backoff
<1>10. QED BY <1>2, <1>3, <1>4, <1>5, <1>6, <1>7, <1>8, <1>9

LEMMA Onwards ==
    ASSUME NEW r, NEW o, NEW p, NEW q, Follows(r, o, p), Follows(r, p, q)
    PROVE  Follows(r, o, q)
  BY DEF Follows

\* A launch, that works or does not, of a row that is there.
LEMMA Relaunched ==
    ASSUME NEW r \in Row, NEW o, Sound(r, o), o.state # "absent",
           NEW n \in Nat, n <= Attempts[r[1]]
    PROVE  /\ Follows(r, o, [Launched EXCEPT !.tries = n, !.unit = o.unit])
           /\ Follows(r, o, [Unlaunched EXCEPT !.tries = n, !.unit = o.unit])
<1>1. o.unit \in Nat
  BY DEF Sound, Outcome
<1>2. /\ Launched \in Outcome /\ Launched.state = "running" /\ Launched.retry = "none"
      /\ Unlaunched \in Outcome /\ Unlaunched.state = "failed" /\ Unlaunched.retry = "none"
  BY DEF Launched, Unlaunched, NoRow, Outcome, RowState, Backoff, Wait
<1>3. ASSUME NEW l \in Outcome, l.state # "absent", l.retry = "none"
      PROVE  Follows(r, o, [l EXCEPT !.tries = n, !.unit = o.unit])
  <2> DEFINE m == [l EXCEPT !.tries = n]
  <2>1. m \in Outcome /\ m.state # "absent" /\ m.retry = "none" /\ m.tries = n
    BY <1>3 DEF Outcome
  <2>2. [l EXCEPT !.tries = n, !.unit = o.unit] = [m EXCEPT !.unit = o.unit]
    OBVIOUS
  <2> HIDE DEF m
  <2>3. /\ [m EXCEPT !.unit = o.unit] \in Outcome
        /\ [m EXCEPT !.unit = o.unit].state = m.state
        /\ [m EXCEPT !.unit = o.unit].retry = "none"
        /\ [m EXCEPT !.unit = o.unit].tries = n /\ [m EXCEPT !.unit = o.unit].unit = o.unit
    BY <1>1, <2>1 DEF Outcome
  <2>4. QED BY <2>1, <2>2, <2>3 DEF Follows, Sound
<1>4. QED BY <1>2, <1>3

LEMMA FirstLaunch ==
    ASSUME NEW r \in Row, NEW o, Sound(r, o), o.state # "absent"
    PROVE  /\ Follows(r, o, [Launched EXCEPT !.unit = o.unit])
           /\ Follows(r, o, [Unlaunched EXCEPT !.unit = o.unit])
<1>1. o.unit \in Nat /\ Attempts[r[1]] \in Nat \ {0}
  BY AttemptsOf DEF Sound, Outcome
<1>2. /\ Launched \in Outcome /\ Launched.state = "running" /\ Launched.retry = "none"
      /\ Launched.tries = 1
      /\ Unlaunched \in Outcome /\ Unlaunched.state = "failed" /\ Unlaunched.retry = "none"
      /\ Unlaunched.tries = 1
  BY DEF Launched, Unlaunched, NoRow, Outcome, RowState, Backoff, Wait
<1>3. ASSUME NEW l \in Outcome, l.state # "absent", l.retry = "none", l.tries = 1
      PROVE  Follows(r, o, [l EXCEPT !.unit = o.unit])
  <2>1. /\ [l EXCEPT !.unit = o.unit] \in Outcome
        /\ [l EXCEPT !.unit = o.unit].state = l.state
        /\ [l EXCEPT !.unit = o.unit].retry = "none"
        /\ [l EXCEPT !.unit = o.unit].tries = 1 /\ [l EXCEPT !.unit = o.unit].unit = o.unit
    BY <1>1, <1>3 DEF Outcome
  <2>2. QED BY <1>1, <1>3, <2>1 DEF Follows, Sound
<1>4. QED BY <1>2, <1>3

LEMMA ArmFollows ==
    ASSUME NEW f, f \in [Row -> Outcome], \A r \in Row : Follows(r, row[r], f[r])
    PROVE  /\ Arm(f) \in [Row -> Outcome]
           /\ \A r \in Row : Follows(r, row[r], Arm(f)[r])
<1>1. ASSUME NEW r \in Row PROVE Follows(r, row[r], Arm(f)[r])
  <2>1. Sound(r, f[r]) /\ f[r].tries \in Nat /\ Attempts[r[1]] \in Nat \ {0}
    BY AttemptsOf DEF Follows, Outcome
  <2>2. CASE Arm(f)[r] = f[r]
    BY <2>2
  <2>3. CASE /\ Arm(f)[r] = [f[r] EXCEPT !.retry = "armed"]
             /\ f[r].state = "failed" /\ f[r].tries \in 1 .. Attempts[r[1]] - 1
    <3>1. f[r].tries + 1 <= Attempts[r[1]]
      BY <2>1, <2>3
    <3>2. f[r].state # "absent" /\ f[r].tries + 1 <= Attempts[r[1]] =>
              Follows(r, f[r], [f[r] EXCEPT !.retry = "armed"])
      BY <2>1, Edits
    <3>3. Follows(r, f[r], Arm(f)[r])
      BY <2>3, <3>1, <3>2
    <3>4. QED BY <3>3, Onwards
  <2>4. QED BY <2>2, <2>3 DEF Arm
<1>2. Arm(f) = [r \in Row |-> Arm(f)[r]]
  BY DEF Arm
<1>3. \A r \in Row : Arm(f)[r] \in Outcome
  BY <1>1 DEF Follows, Sound
<1>4. QED BY <1>1, <1>2, <1>3


LEMMA ScanFollows == RowsOK /\ Scan => RowsFollow
<1> SUFFICES ASSUME RowsOK, Scan PROVE RowsFollow
  OBVIOUS
<1>1. CASE row' = row
  BY <1>1, Edits DEF RowsOK, RowsFollow
<1>2. CASE row[Stream].state = "running" /\ row' = [row EXCEPT ![Stream].state = "succeeded"]
  <2> DEFINE now == [row[Stream] EXCEPT !.state = "succeeded"]
  <2>1. Stream \in Row /\ Sound(Stream, row[Stream])
    BY DEF Row, RowsOK
  <2>2. Follows(Stream, row[Stream], now)
    BY <1>2, <2>1, Edits DEF RowState
  <2>3. row' = [row EXCEPT ![Stream] = now]
    BY <1>2
  <2> HIDE DEF now
  <2>4. now \in Outcome
    BY <2>2 DEF Follows, Sound
  <2>5. QED BY <2>1, <2>2, <2>3, <2>4, Edits DEF RowsOK, RowsFollow
<1>3. QED BY <1>1, <1>2 DEF Scan

LEMMA DetectFollows == RowsOK /\ Detect => RowsFollow
<1> SUFFICES ASSUME RowsOK, Detect PROVE RowsFollow
  OBVIOUS
<1>1. PICK late \in SUBSET {r \in Row : row[r].state = "running"} :
        row' = [r \in Row |->
            IF r \in late
            THEN [row[r] EXCEPT !.state = "failed", !.pane = FALSE, !.agent = "none"]
            ELSE IF row[r].state = "running" /\ row[r].agent \in {"ok", "bad"}
            THEN [row[r] EXCEPT !.agent = "none", !.state =
                    IF row[r].agent = "ok" THEN "succeeded" ELSE "failed"]
            ELSE row[r]]
  BY DEF Detect
<1>2. ASSUME NEW r \in Row PROVE Follows(r, row[r], row'[r])
  <2>1. Sound(r, row[r]) /\ Follows(r, row[r], row[r])
    BY Edits DEF RowsOK
  <2>2. CASE r \in late
    <3> DEFINE a == [row[r] EXCEPT !.state = "failed"]
               b == [a EXCEPT !.pane = FALSE]
    <3>1. row'[r] = [b EXCEPT !.agent = "none"]
      BY <1>1, <2>2
    <3>2. Follows(r, row[r], a)
      BY <1>1, <2>1, <2>2, Edits DEF RowState
    <3> HIDE DEF a
    <3>3. Follows(r, a, b)
      BY ZenonT(40), <3>2, Edits DEF Follows
    <3> HIDE DEF b
    <3>4. Follows(r, b, [b EXCEPT !.agent = "none"])
      BY ZenonT(40), <3>3, Edits DEF Follows
    <3>5. QED BY <3>1, <3>2, <3>3, <3>4, Onwards
  <2>3. CASE r \notin late /\ row[r].state = "running" /\ row[r].agent \in {"ok", "bad"}
    <3> DEFINE a == [row[r] EXCEPT !.agent = "none"]
               how == IF row[r].agent = "ok" THEN "succeeded" ELSE "failed"
    <3>1. row'[r] = [a EXCEPT !.state = how]
      BY <1>1, <2>3
    <3>2. Follows(r, row[r], a) /\ a.state = "running"
      BY <2>1, <2>3, Edits
    <3> HIDE DEF a
    <3>3. how \in RowState \ {"absent"}
      BY DEF RowState
    <3> HIDE DEF how
    <3>4. Follows(r, a, [a EXCEPT !.state = how])
      <4>1. Sound(r, a)
        BY <3>2 DEF Follows
      <4>2. QED BY <3>2, <3>3, <4>1, Edits
    <3>5. QED BY <3>1, <3>2, <3>4, Onwards
  <2>4. CASE r \notin late /\ ~(row[r].state = "running" /\ row[r].agent \in {"ok", "bad"})
    BY <1>1, <2>1, <2>4
  <2>5. QED BY <2>2, <2>3, <2>4
<1>3. row' = [r \in Row |-> row'[r]]
  BY <1>1
<1>4. \A r \in Row : row'[r] \in Outcome
  BY <1>2 DEF Follows, Sound
<1>5. QED BY <1>2, <1>3, <1>4 DEF RowsFollow

\* A retry touches the rows that are due, and then arms.
LEMMA RetryIs ==
    ASSUME RowsOK, Retry
    PROVE  \E f \in [Row -> Outcome] :
               /\ row' = Arm(f)
               /\ \A r \in Row : /\ Follows(r, row[r], f[r])
                                 /\ row[r].retry # "due" => f[r] = row[r]
<1> DEFINE due == {r \in Row : row[r].retry = "due"}
           homeless == {r \in due : ~row[r].pane}
           fresh == FirstRows(Budget, homeless)
           next(unborn) == [r \in Row |->
               CASE r \in unborn ->
                       [Unlaunched EXCEPT !.tries = row[r].tries + 1, !.unit = row[r].unit]
                 [] r \in due \ (homeless \ (fresh \ unborn)) ->
                       [Launched EXCEPT !.tries = row[r].tries + 1, !.unit = row[r].unit]
                 [] r \in homeless \ fresh ->
                       IF row[r].wait = "overdue"
                       THEN [row[r] EXCEPT !.retry = "none", !.tries = @ + 1, !.wait = "none"]
                       ELSE [row[r] EXCEPT !.wait = "waiting"]
                 [] OTHER -> row[r]]
<1>1. PICK unborn \in SUBSET fresh : row' = Arm(next(unborn))
  BY DEF Retry
<1>2. fresh \subseteq homeless /\ homeless \subseteq due
  BY DEF FirstRows
<1>3. ASSUME NEW r \in Row PROVE Follows(r, row[r], next(unborn)[r])
  <2>1. /\ Sound(r, row[r]) /\ Follows(r, row[r], row[r]) /\ row[r].tries \in Nat
        /\ Attempts[r[1]] \in Nat
    BY AttemptsOf, Edits DEF RowsOK, Outcome
  <2>2. r \in due => /\ row[r].retry # "none" /\ row[r].state # "absent"
                     /\ row[r].tries + 1 \in Nat /\ row[r].tries + 1 <= Attempts[r[1]]
    BY <2>1 DEF Sound
  <2>3. CASE r \in unborn
    <3>1. next(unborn)[r] = [Unlaunched EXCEPT !.tries = row[r].tries + 1, !.unit = row[r].unit]
      BY <1>1, <1>2, <2>3
    <3>2. r \in due
      BY <1>1, <1>2, <2>3
    <3>3. /\ Sound(r, row[r]) /\ row[r].state # "absent"
          /\ row[r].tries + 1 \in Nat /\ row[r].tries + 1 <= Attempts[r[1]]
      BY <2>1, <2>2, <3>2
    <3>4. Follows(r, row[r], [Unlaunched EXCEPT !.tries = row[r].tries + 1, !.unit = row[r].unit])
      BY <3>3, Relaunched
    <3>5. QED BY <3>1, <3>4
  <2>4. CASE r \notin unborn /\ r \in due \ (homeless \ (fresh \ unborn))
    <3>1. next(unborn)[r] = [Launched EXCEPT !.tries = row[r].tries + 1, !.unit = row[r].unit]
      BY <2>4
    <3>2. QED BY <2>1, <2>2, <2>4, <3>1, Relaunched
  <2>5. CASE /\ r \notin unborn /\ r \notin due \ (homeless \ (fresh \ unborn))
             /\ r \in homeless \ fresh
    <3>1. next(unborn)[r] = IF row[r].wait = "overdue"
              THEN [row[r] EXCEPT !.retry = "none", !.tries = @ + 1, !.wait = "none"]
              ELSE [row[r] EXCEPT !.wait = "waiting"]
      BY <2>5
    <3>2. r \in due
      BY <1>2, <2>5
    <3>3. CASE row[r].wait = "overdue"
      <4> DEFINE a == [row[r] EXCEPT !.retry = "none"]
                 b == [a EXCEPT !.tries = row[r].tries + 1]
      <4>1. next(unborn)[r] = [b EXCEPT !.wait = "none"]
        BY <3>1, <3>3
      <4>2. Follows(r, row[r], a) /\ a.retry = "none"
        BY <2>1, Edits
      <4> HIDE DEF a
      <4>3. Follows(r, a, b)
        BY <2>1, <2>2, <3>2, <4>2 DEF Follows, Sound, Outcome
      <4> HIDE DEF b
      <4>4. Follows(r, b, [b EXCEPT !.wait = "none"])
        BY <4>3, Edits DEF Follows, Wait
      <4>5. QED BY <4>1, <4>2, <4>3, <4>4, Onwards
    <3>4. CASE row[r].wait # "overdue"
      <4>1. "waiting" \in Wait
        BY DEF Wait
      <4>2. Follows(r, row[r], [row[r] EXCEPT !.wait = "waiting"])
        BY <2>1, <4>1, Edits
      <4>3. QED BY <3>1, <3>4, <4>2
    <3>5. QED BY <3>3, <3>4
  <2>6. CASE /\ r \notin unborn /\ r \notin due \ (homeless \ (fresh \ unborn))
             /\ r \notin homeless \ fresh
    <3>1. next(unborn)[r] = row[r]
      BY <2>6
    <3>2. QED BY <2>1, <3>1
  <2>7. QED BY <2>3, <2>4, <2>5, <2>6
<1>4. next(unborn) = [r \in Row |-> next(unborn)[r]]
  OBVIOUS
<1>5. ASSUME NEW r \in Row, row[r].retry # "due" PROVE next(unborn)[r] = row[r]
  <2>1. r \notin due
    BY <1>5
  <2>2. r \notin unborn /\ r \notin homeless
    BY <1>1, <1>2, <2>1
  <2>3. QED BY <2>1, <2>2
<1> HIDE DEF next
<1>6. next(unborn) \in [Row -> Outcome]
  <2>1. \A r \in Row : next(unborn)[r] \in Outcome
    BY <1>3 DEF Follows, Sound
  <2>2. QED BY <1>4, <2>1
<1>7. QED BY <1>1, <1>3, <1>5, <1>6

LEMMA RetryFollows == RowsOK /\ Retry => RowsFollow
<1> SUFFICES ASSUME RowsOK, Retry PROVE RowsFollow
  OBVIOUS
<1>1. PICK f \in [Row -> Outcome] :
          /\ row' = Arm(f)
          /\ \A r \in Row : /\ Follows(r, row[r], f[r])
                            /\ row[r].retry # "due" => f[r] = row[r]
  BY RetryIs
<1>2. /\ Arm(f) \in [Row -> Outcome]
      /\ \A r \in Row : Follows(r, row[r], Arm(f)[r])
  BY <1>1, ArmFollows
<1>3. QED BY <1>1, <1>2 DEF RowsFollow

\* The last pass touches the rows that are pending, and then arms.
LEMMA SpawnIs ==
    ASSUME RowsOK, DecideAndSpawn
    PROVE  \E f \in [Row -> Outcome] :
               /\ row' = Arm(f)
               /\ \A r \in Row : /\ Follows(r, row[r], f[r])
                                 /\ row[r].state # "pending" => f[r] = row[r]
<1> DEFINE all == UNION {Waiting(t) : t \in Target}
           out == FirstRows(Budget, all)
           lost(up) == {r \in all \ out : /\ row[r].wait = "overdue"
                                          /\ GivesUp(r[1]) /\ CopiesOf(r[1]) \cap up = {}}
           next(up) == [r \in Row |->
                CASE r \in up -> [Launched EXCEPT !.unit = row[r].unit]
                  [] r \in lost(up) \cup (out \ up) -> [Unlaunched EXCEPT !.unit = row[r].unit]
                  [] r \in all \ (out \cup lost(up)) ->
                        [row[r] EXCEPT !.wait = IF @ = "none" THEN "waiting" ELSE @]
                  [] OTHER -> row[r]]
<1>1. PICK up \in SUBSET out : row' = Arm(next(up))
  BY DEF DecideAndSpawn
<1>2. out \subseteq all /\ \A r \in all : row[r].state = "pending"
  BY DEF FirstRows, Waiting
<1>3. ASSUME NEW r \in Row PROVE Follows(r, row[r], next(up)[r])
  <2>1. Sound(r, row[r]) /\ Follows(r, row[r], row[r]) /\ row[r].wait \in Wait
    BY Edits DEF RowsOK, Outcome
  <2>2. r \in all => row[r].state # "absent"
    BY <1>2
  <2>3. CASE r \in up
    <3>1. next(up)[r] = [Launched EXCEPT !.unit = row[r].unit]
      BY <2>3
    <3>2. QED BY <1>2, <2>1, <2>2, <2>3, <3>1, FirstLaunch
  <2>4. CASE r \notin up /\ r \in lost(up) \cup (out \ up)
    <3>1. next(up)[r] = [Unlaunched EXCEPT !.unit = row[r].unit]
      BY <2>4
    <3>2. r \in all
      BY <1>2, <2>4
    <3>3. QED BY <2>1, <2>2, <3>1, <3>2, FirstLaunch
  <2>5. CASE /\ r \notin up /\ r \notin lost(up) \cup (out \ up)
             /\ r \in all \ (out \cup lost(up))
    <3> DEFINE w == IF row[r].wait = "none" THEN "waiting" ELSE row[r].wait
    <3>1. next(up)[r] = [row[r] EXCEPT !.wait = w]
      BY <2>5
    <3>2. w \in Wait
      BY <2>1 DEF Wait
    <3> HIDE DEF w
    <3>3. Follows(r, row[r], [row[r] EXCEPT !.wait = w])
      BY <2>1, <3>2, Edits
    <3>4. QED BY <3>1, <3>3
  <2>6. CASE /\ r \notin up /\ r \notin lost(up) \cup (out \ up)
             /\ r \notin all \ (out \cup lost(up))
    <3>1. next(up)[r] = row[r]
      BY <2>6
    <3>2. QED BY <2>1, <3>1
  <2>7. QED BY <2>3, <2>4, <2>5, <2>6
<1>4. next(up) = [r \in Row |-> next(up)[r]]
  OBVIOUS
<1>5. ASSUME NEW r \in Row, row[r].state # "pending" PROVE next(up)[r] = row[r]
  <2>1. r \notin all
    BY <1>2, <1>5
  <2>2. r \notin up /\ r \notin out /\ r \notin lost(up)
    BY <1>1, <1>2, <2>1
  <2> HIDE DEF all, out, lost
  <2>3. QED BY <2>1, <2>2
<1> HIDE DEF next
<1>6. next(up) \in [Row -> Outcome]
  <2>1. \A r \in Row : next(up)[r] \in Outcome
    BY <1>3 DEF Follows, Sound
  <2>2. QED BY <1>4, <2>1
<1>7. QED BY <1>1, <1>3, <1>5, <1>6

LEMMA SpawnFollows == RowsOK /\ DecideAndSpawn => RowsFollow
<1> SUFFICES ASSUME RowsOK, DecideAndSpawn PROVE RowsFollow
  OBVIOUS
<1>1. PICK f \in [Row -> Outcome] :
          /\ row' = Arm(f)
          /\ \A r \in Row : /\ Follows(r, row[r], f[r])
                            /\ row[r].state # "pending" => f[r] = row[r]
  BY SpawnIs
<1>2. /\ Arm(f) \in [Row -> Outcome]
      /\ \A r \in Row : Follows(r, row[r], Arm(f)[r])
  BY <1>1, ArmFollows
<1>3. QED BY <1>1, <1>2 DEF RowsFollow

LEMMA WorldFollows ==
    ASSUME RowsOK, NEW r \in Row, AgentEnds(r) \/ ClosePane(r) \/ WaitEnds(r) \/ BackoffEnds(r)
    PROVE  RowsFollow
<1>1. Sound(r, row[r]) /\ row[r].agent \in {"none", "busy", "ok", "bad"}
  BY DEF RowsOK, Outcome
<1>2. ASSUME NEW o, Follows(r, row[r], o), row' = [row EXCEPT ![r] = o] PROVE RowsFollow
  <2>1. o \in Outcome
    BY <1>2 DEF Follows, Sound
  <2>2. QED BY <1>2, <2>1, Edits DEF RowsOK, RowsFollow
<1>3. CASE AgentEnds(r)
  <2>1. PICK how \in {"ok", "bad"} : row' = [row EXCEPT ![r].agent = how]
    BY <1>3 DEF AgentEnds
  <2>2. QED BY <1>1, <1>2, <2>1, Edits
<1>4. CASE ClosePane(r)
  <2> DEFINE how == IF row[r].state = "running" THEN "bad" ELSE row[r].agent
             a == [row[r] EXCEPT !.pane = FALSE]
             b == [a EXCEPT !.agent = how]
  <2>1. row' = [row EXCEPT ![r] = b]
    BY <1>4 DEF ClosePane, RowsOK, Outcome
  <2>2. how \in {"none", "busy", "ok", "bad"}
    BY <1>1
  <2> HIDE DEF how
  <2>3. Follows(r, row[r], a)
    BY <1>1, Edits
  <2> HIDE DEF a
  <2>4. Follows(r, a, b)
    <3>1. Sound(r, a)
      BY <2>3 DEF Follows
    <3>2. QED BY <2>2, <3>1, Edits
  <2> HIDE DEF b
  <2>5. QED BY <1>2, <2>1, <2>3, <2>4, Onwards
<1>5. CASE WaitEnds(r)
  BY <1>1, <1>2, <1>5, Edits DEF WaitEnds, Wait
<1>6. CASE BackoffEnds(r)
  BY <1>1, <1>2, <1>6, Edits DEF BackoffEnds
<1>7. QED BY <1>3, <1>4, <1>5, <1>6

\* Every step but a mint.
LEMMA RowsStep == RowsOK /\ [Next]_vars => Mint \/ RowsFollow
<1> SUFFICES ASSUME RowsOK, [Next]_vars, ~Mint PROVE RowsFollow
  OBVIOUS
<1>1. ASSUME NEW kind \in Kind, Reply(kind) PROVE row' = row
  BY <1>1 DEF Reply, rows
<1>2. Noise \/ UNCHANGED vars => row' = row
  BY DEF Noise, rows, vars
<1>3. row' = row => RowsFollow
  BY Edits DEF RowsOK, RowsFollow
<1>4. QED
  BY <1>1, <1>2, <1>3, ScanFollows, DetectFollows, RetryFollows, SpawnFollows, WorldFollows
     DEF Next, Driver, World

-------------------------------------------------------------------------------
(* The mint.  The copies of a target are numbered without a gap, so the    *)
(* next one is new, and a unit that is cut keeps its copy.                 *)

CutFor == {t \in Target : ~Stopped(t) /\ ~Full(t)}

Numbered(t, n) == {<<t, k>> : k \in 0 .. n - 1}

LEMMA OneMore ==
    ASSUME NEW t, NEW n \in Nat
    PROVE  Numbered(t, n) \cup {<<t, n>>} = Numbered(t, n + 1)
<1>1. \A k : k \in 0 .. n + 1 - 1 <=> k \in 0 .. n - 1 \/ k = n
  OBVIOUS
<1>2. QED BY <1>1 DEF Numbered

Gapless ==
    /\ row[Stream].state # "absent"
    /\ \A t \in Target :
        /\ IsFiniteSet(Minted(t)) /\ Cardinality(Minted(t)) \in 0 .. MaxUnits
        /\ Minted(t) = Numbered(t, Cardinality(Minted(t)))

LEMMA CopyOf ==
    ASSUME NEW t \in Target
    PROVE  /\ CopiesOf(t) \subseteq Row /\ Stream \notin CopiesOf(t)
           /\ \A q \in CopiesOf(t) : q[1] = t
  BY StreamsAssumption DEF Row, Stream, CopiesOf

\* The next copy of a target that has room.
LEMMA NextIsNew ==
    ASSUME Gapless, NEW t \in Target, ~Full(t)
    PROVE  /\ NextCopy(t) \in CopiesOf(t) /\ NextCopy(t) \notin Minted(t)
           /\ row[NextCopy(t)].state = "absent"
<1>1. Cardinality(Minted(t)) \in Nat /\ Cardinality(Minted(t)) < MaxUnits /\ MaxUnits \in Nat
  BY StreamsAssumption DEF Gapless, Full
<1>2. NextCopy(t) \in CopiesOf(t)
  BY <1>1 DEF NextCopy, CopiesOf
<1>3. NextCopy(t) \notin Minted(t)
  <2>1. Minted(t) = {<<t, k>> : k \in 0 .. Cardinality(Minted(t)) - 1}
    BY DEF Gapless, Numbered
  <2>2. \A k \in 0 .. Cardinality(Minted(t)) - 1 : k # Cardinality(Minted(t))
    BY <1>1
  <2>3. QED BY <2>1, <2>2 DEF NextCopy
<1>4. QED BY <1>2, <1>3 DEF Minted

\* mint_stream_copies, one unit: a copy for every target that is cut for.
LEMMA MintedRows ==
    ASSUME RowsOK, Gapless, Mint, Head(units) \in Nat
    PROVE  /\ row' \in [Row -> Outcome] /\ \A r \in Row : Sound(r, row'[r])
           /\ \A r \in Row : row'[r].unit \in {row[r].unit, Head(units)}
           /\ \A t \in CutFor : /\ row'[NextCopy(t)].state # "absent"
                                /\ row'[NextCopy(t)].unit = Head(units)
           /\ \A r \in Row : r \notin {NextCopy(t) : t \in CutFor} => Follows(r, row[r], row'[r])
<1> DEFINE new == {NextCopy(t) : t \in CutFor}
           copy == [NoRow EXCEPT !.state = "pending", !.unit = Head(units)]
           minted == [r \in Row |-> IF r \in new THEN copy ELSE row[r]]
           halted == [row[Stream] EXCEPT !.state = "failed"]
<1>1. \/ row' = minted
      \/ row' = [minted EXCEPT ![Stream].state = "failed", ![Stream].retry = "none"]
  BY DEF Mint, CutFor
<1>2. ASSUME NEW t \in CutFor PROVE NextCopy(t) \in Row /\ NextCopy(t) # Stream
  BY NextIsNew, CopyOf DEF CutFor
<1>3. /\ copy \in Outcome /\ copy.state = "pending" /\ copy.unit = Head(units)
      /\ copy.tries = 0 /\ copy.retry = "none"
  <2> DEFINE p == [NoRow EXCEPT !.state = "pending"]
  <2>1. p \in Outcome /\ p.state = "pending" /\ p.tries = 0 /\ p.retry = "none"
    BY DEF NoRow, Outcome, RowState, Backoff, Wait
  <2>2. copy = [p EXCEPT !.unit = Head(units)]
    OBVIOUS
  <2> HIDE DEF p, copy
  <2>3. QED BY <2>1, <2>2 DEF Outcome
<1> HIDE DEF copy
<1>4. \A r \in Row : Sound(r, copy)
  BY <1>3, AttemptsOf DEF Sound
<1>5. \A r \in Row : Sound(r, row[r]) /\ Follows(r, row[r], row[r]) /\ row[r] \in Outcome
  BY Edits DEF RowsOK
<1>6. Stream \in Row /\ Stream \notin new
  BY <1>2 DEF Row
<1>7. /\ minted \in [Row -> Outcome]
      /\ \A r \in new : minted[r] = copy
      /\ \A r \in Row \ new : minted[r] = row[r]
  BY <1>2, <1>3, <1>5
<1> HIDE DEF minted
<1>8. /\ row' \in [Row -> Outcome]
      /\ \A r \in Row : r # Stream => row'[r] = minted[r]
      /\ Follows(Stream, row[Stream], row'[Stream])
  <2>1. CASE row' = minted
    BY <1>5, <1>6, <1>7, <2>1
  <2>2. CASE row' = [minted EXCEPT ![Stream].state = "failed", ![Stream].retry = "none"]
    <3> DEFINE late == [halted EXCEPT !.retry = "none"]
    <3>1. row' = [minted EXCEPT ![Stream] = late]
      BY <1>6, <1>7, <2>2
    <3>2. Follows(Stream, row[Stream], halted)
      BY <1>5, <1>6, Edits DEF Gapless, RowState
    <3> HIDE DEF halted
    <3>3. Sound(Stream, halted)
      BY <3>2 DEF Follows
    <3>4. Follows(Stream, halted, late)
      BY <1>6, <3>3, Edits
    <3> HIDE DEF late
    <3>5. Follows(Stream, row[Stream], late)
      BY <3>2, <3>4, Onwards
    <3>6. late \in Outcome
      BY <3>5 DEF Follows, Sound
    <3>7. QED BY <1>6, <1>7, <3>1, <3>5, <3>6
  <2>3. QED BY <1>1, <2>1, <2>2
<1>9. ASSUME NEW r \in Row, r \notin new PROVE Follows(r, row[r], row'[r])
  BY <1>5, <1>7, <1>8, <1>9
<1>10. ASSUME NEW r \in new PROVE r \in Row /\ row'[r] = copy
  BY <1>2, <1>6, <1>7, <1>8
<1>11. ASSUME NEW r \in Row
       PROVE  Sound(r, row'[r]) /\ row'[r].unit \in {row[r].unit, Head(units)}
  <2>1. CASE r \in new
    BY <1>3, <1>4, <1>10, <2>1
  <2>2. CASE r \notin new
    BY <1>9, <2>2 DEF Follows
  <2>3. QED BY <2>1, <2>2
<1>12. ASSUME NEW t \in CutFor
       PROVE  row'[NextCopy(t)].state # "absent" /\ row'[NextCopy(t)].unit = Head(units)
  BY <1>3, <1>10
<1>13. QED BY <1>8, <1>9, <1>11, <1>12

\* What a mint makes of the copies of each target.
LEMMA MintedCopies ==
    ASSUME RowsOK, Gapless, Mint, Head(units) \in Nat, NEW t \in Target
    PROVE  /\ Minted(t)' = IF t \in CutFor THEN Minted(t) \cup {NextCopy(t)} ELSE Minted(t)
           /\ \A r \in Minted(t) : row'[r].unit = row[r].unit
<1> DEFINE new == {NextCopy(s) : s \in CutFor}
<1>1. ASSUME NEW r \in CopiesOf(t), r \in new PROVE t \in CutFor /\ r = NextCopy(t)
  <2>1. PICK s \in CutFor : r = NextCopy(s)
    BY <1>1
  <2>2. s \in Target /\ r \in CopiesOf(s)
    BY <2>1, NextIsNew DEF CutFor
  <2>3. s = t
    BY <2>2, CopyOf
  <2>4. QED BY <2>1, <2>3
<1>2. \A r \in CopiesOf(t) : r \notin new =>
          /\ row'[r].state = "absent" <=> row[r].state = "absent"
          /\ row'[r].unit = row[r].unit
  BY MintedRows, CopyOf DEF Follows
<1>3. t \in CutFor => /\ NextCopy(t) \in CopiesOf(t) /\ NextCopy(t) \notin Minted(t)
                      /\ row'[NextCopy(t)].state # "absent"
  BY MintedRows, NextIsNew DEF CutFor
<1> HIDE DEF new
<1>4. Minted(t)' = {r \in CopiesOf(t) : row'[r].state # "absent"}
  BY DEF Minted
<1>5. ASSUME t \in CutFor PROVE Minted(t)' = Minted(t) \cup {NextCopy(t)}
  BY <1>1, <1>2, <1>3, <1>4, <1>5 DEF Minted
<1>6. ASSUME t \notin CutFor PROVE Minted(t)' = Minted(t)
  BY <1>1, <1>2, <1>4, <1>6 DEF Minted
<1>7. ASSUME NEW r \in Minted(t) PROVE row'[r].unit = row[r].unit
  BY <1>1, <1>2, <1>3 DEF Minted
<1>8. QED BY <1>5, <1>6, <1>7

\* A pass that rewrites the rows leaves each target its copies.
LEMMA SameCopies ==
    ASSUME RowsFollow, NEW t \in Target
    PROVE  /\ Minted(t)' = Minted(t)
           /\ \A r \in Minted(t) : row'[r].unit = row[r].unit
  BY CopyOf DEF RowsFollow, Follows, Minted

LEMMA GaplessStep ==
    ASSUME RowsOK, Gapless, [Next]_vars, Mint => Head(units) \in Nat
    PROVE  Gapless'
<1>1. row'[Stream].state # "absent"
  <2>1. Stream \in Row
    BY DEF Row
  <2>2. CASE RowsFollow
    BY <2>1, <2>2 DEF RowsFollow, Follows, Gapless
  <2>3. CASE Mint
    <3>1. Stream \notin {NextCopy(t) : t \in CutFor}
      BY NextIsNew, CopyOf DEF CutFor
    <3>2. QED BY <2>1, <2>3, <3>1, MintedRows DEF Follows, Gapless
  <2>4. QED BY <2>2, <2>3, RowsStep
<1>2. ASSUME NEW t \in Target
      PROVE  /\ IsFiniteSet(Minted(t)') /\ Cardinality(Minted(t)') \in 0 .. MaxUnits
             /\ Minted(t)' = Numbered(t, Cardinality(Minted(t)'))
  <2> DEFINE n == Cardinality(Minted(t))
  <2>1. /\ IsFiniteSet(Minted(t)) /\ n \in 0 .. MaxUnits
        /\ Minted(t) = Numbered(t, n)
    BY DEF Gapless
  <2>2. CASE Minted(t)' = Minted(t)
    BY <2>1, <2>2
  <2>3. CASE Mint /\ t \in CutFor
    <3>1. Minted(t)' = Minted(t) \cup {<<t, n>>}
      BY <2>3, MintedCopies DEF NextCopy
    <3>2. <<t, n>> \notin Minted(t) /\ n < MaxUnits
      BY <2>1, <2>3, NextIsNew, StreamsAssumption DEF CutFor, NextCopy, Full
    <3> HIDE DEF n
    <3>3. /\ IsFiniteSet(Minted(t) \cup {<<t, n>>})
          /\ Cardinality(Minted(t) \cup {<<t, n>>}) = Cardinality(Minted(t)) + 1
      BY <2>1, <3>2, FS_AddElement
    <3>4. IsFiniteSet(Minted(t)') /\ Cardinality(Minted(t)') = n + 1
      BY <3>1, <3>3 DEF n
    <3>5. n + 1 \in 0 .. MaxUnits /\ n \in Nat
      BY <2>1, <3>2, StreamsAssumption
    <3>6. Minted(t)' = Numbered(t, n + 1)
      BY <2>1, <3>1, <3>5, OneMore
    <3>7. QED BY <3>4, <3>5, <3>6
  <2>4. QED BY <2>2, <2>3, MintedCopies, SameCopies, RowsStep
<1>3. QED BY <1>1, <1>2 DEF Gapless

-------------------------------------------------------------------------------
(* The tick.  What it has read is a list of positions.                     *)

TickOK ==
    /\ pc \in {"scan", "mint", "detect", "retry", "spawn"}
    /\ units \in Seq(1 .. Len(mail)) /\ (pc = "mint" => units # << >>)
    /\ \A r \in Row : row[r].unit <= Len(mail)

RunOK ==
    /\ holder \in Placeholders /\ summary \in {"pending", "started", "skipped"}
    /\ noted \in BOOLEAN /\ verdict \in {"running", "succeeded", "failed"}

LEMMA PageIn ==
    ASSUME MailOK
    PROVE  /\ Matched \subseteq 1 .. Len(mail) /\ Matched \subseteq Nat /\ IsFiniteSet(Matched)
           /\ \A i \in Matched : mail[i].kind \in {"unit", "end"}
<1>1. DOMAIN mail = 1 .. Len(mail) /\ Len(mail) \in Nat /\ mail \in [1 .. Len(mail) -> Msg]
  BY DEF MailOK
<1>2. Matched \subseteq 1 .. Len(mail)
  BY <1>1 DEF Matched, Page, Unread
<1>3. IsFiniteSet(1 .. Len(mail))
  BY <1>1, FS_Interval
<1>4. IsFiniteSet(Matched)
  BY <1>2, <1>3, FS_Subset
<1>5. \A i \in Matched : mail[i].kind \in {"unit", "end"}
  BY <1>1, <1>2 DEF Matched, Msg, Kind
<1>6. QED BY <1>1, <1>2, <1>4, <1>5

LEMMA HeadIsOne ==
    ASSUME MailOK, TickOK, Mint
    PROVE  /\ units # << >> /\ Head(units) \in 1 .. Len(mail) /\ Head(units) \in Nat
           /\ Tail(units) \in Seq(1 .. Len(mail))
<1>1. units # << >> /\ Len(mail) \in Nat
  BY DEF Mint, TickOK, MailOK
<1>2. Head(units) \in 1 .. Len(mail) /\ Tail(units) \in Seq(1 .. Len(mail))
  BY <1>1, HeadTailProperties DEF TickOK
<1>3. QED BY <1>1, <1>2

LEMMA TickStep ==
    ASSUME MailOK, RowsOK, Gapless, TickOK, [Next]_vars
    PROVE  TickOK'
<1>1. MailOK' /\ Grown /\ Len(mail) \in Nat /\ Len(mail') \in Nat /\ Len(mail) <= Len(mail')
  BY MailStep DEF Grown, MailOK
<1>2. 1 .. Len(mail) \subseteq 1 .. Len(mail')
  BY <1>1
<1>3. \A l \in Seq(1 .. Len(mail)) : l \in Seq(1 .. Len(mail'))
  BY <1>2, SeqMonotonic
<1>4. \A r \in Row : row[r].unit \in Nat /\ row[r].unit <= Len(mail)
  BY DEF RowsOK, Outcome, TickOK
<1>5. \A r \in Row : row'[r].unit <= Len(mail')
  <2>1. CASE RowsFollow
    <3>1. \A r \in Row : row'[r].unit = row[r].unit
      BY <2>1 DEF RowsFollow, Follows
    <3>2. QED BY <1>1, <1>4, <3>1
  <2>2. CASE Mint
    <3>1. Head(units) \in Nat /\ Head(units) <= Len(mail)
      BY <1>1, <2>2, HeadIsOne
    <3>2. \A r \in Row : row'[r].unit \in {row[r].unit, Head(units)}
      BY <2>2, <3>1, MintedRows
    <3>3. QED BY <1>1, <1>4, <3>1, <3>2
  <2>3. QED BY <2>1, <2>2, RowsStep
<1>6. /\ pc' \in {"scan", "mint", "detect", "retry", "spawn"}
      /\ units' \in Seq(1 .. Len(mail')) /\ (pc' = "mint" => units' # << >>)
  <2>1. CASE Scan
    <3>1. units' = units \/ units' = InOrder(BeforeEnd(Matched))
      BY <2>1 DEF Scan
    <3>2. BeforeEnd(Matched) \subseteq Matched
      BY DEF BeforeEnd
    <3>3. IsFiniteSet(BeforeEnd(Matched)) /\ BeforeEnd(Matched) \subseteq Nat
      BY <3>2, PageIn, FS_Subset
    <3>4. InOrder(BeforeEnd(Matched)) \in Seq(BeforeEnd(Matched))
      BY <3>3, InOrderLists
    <3>5. BeforeEnd(Matched) \subseteq 1 .. Len(mail)
      BY <3>2, PageIn
    <3>6. InOrder(BeforeEnd(Matched)) \in Seq(1 .. Len(mail))
      BY <3>4, <3>5, SeqMonotonic
    <3>7. units' \in Seq(1 .. Len(mail'))
      BY <1>3, <3>1, <3>6 DEF TickOK
    <3>8. QED BY <2>1, <3>7 DEF Scan
  <2>2. CASE Mint
    <3>1. units' = Tail(units) /\ units' \in Seq(1 .. Len(mail))
      BY <2>2, HeadIsOne DEF Mint
    <3>2. pc' = IF units' = << >> THEN "detect" ELSE "mint"
      BY <2>2 DEF Mint
    <3>3. QED BY <1>3, <3>1, <3>2
  <2>3. CASE Detect \/ Retry \/ DecideAndSpawn
    <3>1. units' = units /\ pc' \in {"retry", "spawn", "scan"}
      BY <2>3 DEF Detect, Retry, DecideAndSpawn, Pass
    <3>2. QED BY <1>3, <3>1 DEF TickOK
  <2>4. ASSUME NEW kind \in Kind, Reply(kind) \/ Noise PROVE UNCHANGED <<pc, units>>
    BY <2>4 DEF Reply, Noise, tick
  <2>5. ASSUME NEW r \in Row, AgentEnds(r) \/ ClosePane(r) \/ WaitEnds(r) \/ BackoffEnds(r)
        PROVE  UNCHANGED <<pc, units>>
    BY <2>5 DEF AgentEnds, ClosePane, WaitEnds, BackoffEnds, tick
  <2>6. Noise \/ UNCHANGED vars => UNCHANGED <<pc, units>>
    BY DEF Noise, vars, tick
  <2>7. CASE UNCHANGED <<pc, units>>
    BY <1>3, <2>7 DEF TickOK
  <2>8. QED BY <2>1, <2>2, <2>3, <2>4, <2>5, <2>6, <2>7 DEF Next, Driver, World
<1>7. QED BY <1>5, <1>6 DEF TickOK

LEMMA RunStep ==
    ASSUME RunOK, [Next]_vars
    PROVE  RunOK' /\ (noted => noted')
<1>1. CASE Scan
  BY <1>1 DEF Scan, RunOK
<1>2. CASE Mint
  <2>1. /\ holder' = [t \in Target |->
                IF t \in CutFor /\ holder[t] = "pending" THEN "replaced" ELSE holder[t]]
        /\ noted' = (noted \/ \E t \in Target : Stopped(t))
        /\ UNCHANGED <<summary, verdict>>
    BY <1>2 DEF Mint, CutFor
  <2>2. holder' \in Placeholders
    BY <2>1 DEF RunOK, Placeholders
  <2>3. QED BY <2>1, <2>2 DEF RunOK
<1>3. CASE DecideAndSpawn
  <2>1. holder' = [t \in Target |-> Decided(t)] /\ summary' = DecidedSummary /\ noted' = noted
    BY <1>3 DEF DecideAndSpawn
  <2>2. \A t \in Target : Decided(t) \in {"pending", "failed", "skipped", "replaced"}
    BY DEF Decided, EmptyTarget, RunOK, Placeholders
  <2>3. holder' \in Placeholders
    BY <2>1, <2>2 DEF Placeholders
  <2>4. summary' \in {"pending", "started", "skipped"}
    BY <2>1 DEF DecidedSummary, RunOK
  <2>5. verdict' \in {"running", "succeeded", "failed"}
    BY <1>3 DEF DecideAndSpawn, Finalized
  <2>6. QED BY <2>1, <2>3, <2>4, <2>5 DEF RunOK
<1>4. Detect \/ Retry \/ UNCHANGED vars => UNCHANGED <<holder, summary, noted, verdict>>
  BY DEF Detect, Retry, vars, rows
<1>5. ASSUME NEW kind \in Kind, Reply(kind) PROVE UNCHANGED <<holder, summary, noted, verdict>>
  BY <1>5 DEF Reply, rows
<1>6. Noise => UNCHANGED <<holder, summary, noted, verdict>>
  BY DEF Noise, rows
<1>7. ASSUME NEW r \in Row, AgentEnds(r) \/ ClosePane(r) \/ WaitEnds(r) \/ BackoffEnds(r)
      PROVE  UNCHANGED <<holder, summary, noted, verdict>>
  BY <1>7 DEF AgentEnds, ClosePane, WaitEnds, BackoffEnds
<1>8. UNCHANGED <<holder, summary, noted, verdict>> => RunOK' /\ (noted => noted')
  BY DEF RunOK
<1>9. QED
  BY <1>1, <1>2, <1>3, <1>4, <1>5, <1>6, <1>7, <1>8 DEF Next, Driver, World

StreamsInv == MailOK /\ RowsOK /\ Gapless /\ TickOK /\ RunOK

LEMMA StreamsStart == Init => StreamsInv
<1> SUFFICES ASSUME Init PROVE StreamsInv
  OBVIOUS
<1>1. /\ Launched \in Outcome /\ Launched.state = "running" /\ Launched.retry = "none"
      /\ Launched.tries = 1 /\ Launched.unit = 0
      /\ NoRow \in Outcome /\ NoRow.state = "absent" /\ NoRow.retry = "none"
      /\ NoRow.tries = 0 /\ NoRow.unit = 0
  BY DEF Launched, NoRow, Outcome, RowState, Backoff, Wait
<1>2. row = [r \in Row |-> IF r = Stream THEN Launched ELSE NoRow] /\ Stream \in Row
  BY DEF Init, Row
<1>3. RowsOK
  BY <1>1, <1>2, AttemptsOf DEF RowsOK, Sound
<1>4. Gapless
  <2>1. row[Stream].state # "absent"
    BY <1>1, <1>2
  <2>2. ASSUME NEW t \in Target
        PROVE  /\ IsFiniteSet(Minted(t)) /\ Cardinality(Minted(t)) \in 0 .. MaxUnits
               /\ Minted(t) = Numbered(t, Cardinality(Minted(t)))
    <3>1. Minted(t) = {}
      BY <1>1, <1>2, CopyOf DEF Minted
    <3>2. IsFiniteSet(Minted(t)) /\ Cardinality(Minted(t)) = 0
      BY <3>1, FS_EmptySet
    <3>3. Numbered(t, 0) = {}
      BY DEF Numbered
    <3>4. QED BY <3>1, <3>2, <3>3, StreamsAssumption
  <2>3. QED BY <2>1, <2>2 DEF Gapless
<1>5. TickOK
  BY <1>1, <1>2, EmptySeq DEF Init, TickOK
<1>6. RunOK
  BY DEF Init, RunOK, Placeholders
<1>7. QED BY <1>3, <1>4, <1>5, <1>6, MailStart DEF StreamsInv

LEMMA RowsKeep == RowsOK /\ RowsFollow => RowsOK'
  BY DEF RowsOK, RowsFollow, Follows

LEMMA StreamsStep == StreamsInv /\ [Next]_vars => StreamsInv'
<1> SUFFICES ASSUME StreamsInv, [Next]_vars PROVE StreamsInv'
  OBVIOUS
<1>1. MailOK /\ RowsOK /\ Gapless /\ TickOK /\ RunOK
  BY DEF StreamsInv
<1>2. Mint => Head(units) \in Nat
  BY <1>1, HeadIsOne
<1>3. RowsOK'
  <2>1. Mint => RowsOK'
    BY <1>1, <1>2, MintedRows DEF RowsOK
  <2>2. QED BY <1>1, <2>1, RowsStep, RowsKeep
<1>4. QED BY <1>1, <1>2, <1>3, MailStep, GaplessStep, TickStep, RunStep DEF StreamsInv

LEMMA StreamsHold == Spec => []StreamsInv
  BY StreamsStart, StreamsStep, PTL DEF Spec

LEMMA Typed == StreamsInv => TypeOK
<1> SUFFICES ASSUME StreamsInv PROVE TypeOK
  OBVIOUS
<1>1. /\ mail \in Seq(Msg) /\ root \in 0 .. Len(mail) /\ Len(mail) \in Nat
      /\ row \in [Row -> Outcome] /\ \A r \in Row : Sound(r, row[r])
      /\ \A r \in Row : row[r].unit <= Len(mail)
  BY DEF StreamsInv, MailOK, RowsOK, TickOK
<1>2. \A r \in Row : row[r] \in [state : RowState, tries : Nat, retry : Backoff,
                               pane : BOOLEAN, agent : {"none", "busy", "ok", "bad"},
                               wait : Wait, unit : 0 .. Len(mail)]
  BY <1>1 DEF Outcome
<1>3. \A r \in Row : row[r].tries <= Attempts[r[1]]
  BY <1>1 DEF Sound
<1>4. \A i \in DOMAIN mail : mail[i].kind \in Kind
  <2>1. mail \in [1 .. Len(mail) -> Msg]
    BY <1>1
  <2>2. QED BY <2>1 DEF Msg
<1>5. row \in [Row -> [state : RowState, tries : Nat, retry : Backoff,
                       pane : BOOLEAN, agent : {"none", "busy", "ok", "bad"},
                       wait : Wait, unit : 0 .. Len(mail)]]
  BY <1>1, <1>2
<1>6. QED BY <1>1, <1>3, <1>4, <1>5 DEF StreamsInv, TickOK, RunOK, TypeOK

\* orchestrator.rs: the variables keep their types, and no row is tried more often
\* than its retry policy allows.
THEOREM TypeCorrect == Spec => []TypeOK
  BY StreamsHold, Typed, PTL

-------------------------------------------------------------------------------
(* What has become of a reply.  A unit that is cut is kept by its copies   *)
(* even before the mint has acknowledged it.                               *)

KeptBy(t, i) == (\E r \in Minted(t) : row[r].unit = i) \/ noted \/ Full(t)

CutIsKept == \A i \in cut, t \in Target : KeptBy(t, i)

\* What is kept stays kept.
LEMMA StaysKept ==
    ASSUME StreamsInv, [Next]_vars, NEW t \in Target, NEW i, KeptBy(t, i)
    PROVE  KeptBy(t, i)'
<1>1. RowsOK /\ Gapless /\ RunOK /\ (Mint => Head(units) \in Nat)
  BY HeadIsOne DEF StreamsInv
<1>2. noted => noted'
  BY <1>1, RunStep
<1>3. \/ Minted(t)' = Minted(t)
      \/ Mint /\ ~Full(t) /\ Minted(t) \subseteq Minted(t)'
  BY <1>1, RowsStep, SameCopies, MintedCopies DEF CutFor
<1>4. \A r \in Minted(t) : row'[r].unit = row[r].unit
  BY <1>1, RowsStep, SameCopies, MintedCopies
<1>5. Full(t) => Full(t)'
  BY <1>3 DEF Full
<1>6. (\E r \in Minted(t) : row[r].unit = i) => \E r \in Minted(t)' : row'[r].unit = i
  BY <1>3, <1>4
<1>7. QED BY <1>2, <1>5, <1>6 DEF KeptBy

\* The unit a mint cuts is kept by each target, one way or another.
LEMMA CutOnesKept ==
    ASSUME StreamsInv, Mint, [Next]_vars, NEW t \in Target, NEW i, i = Head(units)
    PROVE  KeptBy(t, i)'
<1>1. RowsOK /\ Gapless /\ RunOK /\ Head(units) \in Nat
  BY HeadIsOne DEF StreamsInv
<1>2. CASE Stopped(t)
  BY <1>2 DEF Mint, KeptBy
<1>3. CASE Full(t)
  BY <1>3, StaysKept DEF KeptBy
<1>4. CASE t \in CutFor
  <2>1. NextCopy(t) \in Minted(t)'
    BY <1>1, <1>4, MintedCopies
  <2>2. row'[NextCopy(t)].unit = Head(units)
    BY <1>1, <1>4, MintedRows
  <2>3. QED BY <2>1, <2>2 DEF KeptBy
<1>5. QED BY <1>2, <1>3, <1>4 DEF CutFor

\* A unit that a scan acknowledges at once came after a sentinel, so that there are
\* two of them and the row says so.
LEMMA LateOnesNoted ==
    ASSUME MailOK, Scan, NEW i \in Matched \ BeforeEnd(Matched), mail[i].kind = "unit", Matched # {},
           row[Stream].state = "running"
    PROVE  noted'
<1> DEFINE late == Matched \ BeforeEnd(Matched)
<1>1. PICK e \in Matched : mail[e].kind = "end"
  BY DEF BeforeEnd
<1>2. e \in late /\ i \in late /\ e # i
  BY <1>1 DEF BeforeEnd
<1>3. IsFiniteSet(late)
  <2>1. late \in SUBSET Matched
    OBVIOUS
  <2> HIDE DEF late
  <2>2. QED BY <2>1, PageIn, FS_Subset
<1> HIDE DEF late
<1>4. Cardinality(late) \in Nat /\ Cardinality(late) # 0 /\ Cardinality(late) # 1
  <2>1. Cardinality(late) \in Nat
    BY <1>3, FS_CardinalityType
  <2>2. Cardinality(late) # 0
    BY <1>2, <1>3, FS_EmptySet
  <2>3. Cardinality(late) # 1
    BY <1>2, <1>3, FS_Singleton
  <2>4. QED BY <2>1, <2>2, <2>3
<1>5. Cardinality(late) > 1
  BY <1>4
<1>6. QED BY <1>5 DEF Scan, late

\* What a step acknowledges besides.
LEMMA AckedNow ==
    ASSUME StreamsInv, CutIsKept, [Next]_vars, NEW t \in Target,
           NEW i \in DOMAIN mail', mail'[i].kind = "unit", mail'[i].acked,
           ~(i \in DOMAIN mail /\ mail[i].kind = "unit" /\ mail[i].acked)
    PROVE  KeptBy(t, i)'
<1>1. /\ MailOK /\ RowsOK /\ Gapless /\ TickOK /\ Len(mail) \in Nat /\ DOMAIN mail = 1 .. Len(mail)
      /\ MailOK' /\ DOMAIN mail' = 1 .. Len(mail')
  <2>1. MailOK /\ RowsOK /\ Gapless /\ TickOK
    BY DEF StreamsInv
  <2>2. MailOK'
    BY <2>1, MailStep
  <2>3. QED BY <2>1, <2>2 DEF MailOK
<1>2. CASE Scan
  <2>1. CASE mail' = mail
    BY <2>1
  <2>2. CASE /\ row[Stream].state = "running" /\ Matched # {}
             /\ Ack(Matched \ BeforeEnd(Matched)) /\ root' = root
    <3>1. /\ i \in 1 .. Len(mail) /\ mail[i].kind = "unit"
          /\ i \in Matched \ BeforeEnd(Matched)
      BY <1>1, <2>2, AckMail DEF Grown
    <3>2. noted'
      BY <1>1, <1>2, <2>2, <3>1, LateOnesNoted
    <3>3. QED BY <3>2 DEF KeptBy
  <2>3. QED BY <1>2, <2>1, <2>2 DEF Scan
<1>3. CASE Mint
  <2>1. CASE mail' = mail
    BY <2>1
  <2>2. CASE Ack(cut \cup {Head(units)}) /\ root' = root
    <3>1. i \in cut \cup {Head(units)}
      BY <1>1, <2>2, AckMail DEF Grown
    <3>2. CASE i \in cut
      BY <3>2, StaysKept DEF CutIsKept
    <3>3. CASE i = Head(units)
      BY <1>3, <3>3, CutOnesKept
    <3>4. QED BY <3>1, <3>2, <3>3
  <2>3. QED BY <1>3, <2>1, <2>2 DEF Mint
<1>4. ASSUME NEW kind \in Kind, mail' = Append(mail, Message(kind)), root' = root PROVE FALSE
  <2>1. /\ Len(mail') = Len(mail) + 1 /\ ~mail'[Len(mail) + 1].acked
        /\ \A j \in 1 .. Len(mail) : mail'[j] = mail[j]
    BY <1>1, <1>4, AppendMail
  <2>2. i \in 1 .. Len(mail) \/ i = Len(mail) + 1
    BY <1>1, <2>1
  <2>3. QED BY <1>1, <2>1, <2>2
<1>5. ASSUME NEW kind \in Kind, Reply(kind) PROVE FALSE
  BY <1>4, <1>5 DEF Reply
<1>6. ~Noise
  BY <1>4 DEF Noise, Kind
<1>7. Detect \/ Retry \/ DecideAndSpawn \/ UNCHANGED vars => mail' = mail
  BY DEF Detect, Retry, DecideAndSpawn, vars, store
<1>8. ASSUME NEW r \in Row, AgentEnds(r) \/ ClosePane(r) \/ WaitEnds(r) \/ BackoffEnds(r)
      PROVE  mail' = mail
  BY <1>8 DEF AgentEnds, ClosePane, WaitEnds, BackoffEnds, store
<1>9. mail' # mail
  OBVIOUS
<1>10. QED
  BY <1>2, <1>3, <1>5, <1>6, <1>7, <1>8, <1>9 DEF Next, Driver, World

LEMMA CutIsKeptStep == StreamsInv /\ CutIsKept /\ [Next]_vars => CutIsKept'
<1> SUFFICES ASSUME StreamsInv, CutIsKept, [Next]_vars, NEW i \in cut', NEW t \in Target
             PROVE  KeptBy(t, i)'
  BY DEF CutIsKept
<1>1. CASE i \in cut
  BY <1>1, StaysKept DEF CutIsKept
<1>2. CASE i \notin cut
  <2>1. ASSUME NEW kind \in Kind, Reply(kind) PROVE FALSE
    BY <1>2, <2>1 DEF Reply, tick
  <2>2. ~(Noise \/ UNCHANGED vars)
    BY <1>2 DEF Noise, vars, tick
  <2>3. ~(Scan \/ Detect \/ Retry \/ DecideAndSpawn)
    BY <1>2 DEF Scan, Detect, Retry, DecideAndSpawn
  <2>4. ASSUME NEW r \in Row, AgentEnds(r) \/ ClosePane(r) \/ WaitEnds(r) \/ BackoffEnds(r)
        PROVE  FALSE
    BY <1>2, <2>4 DEF AgentEnds, ClosePane, WaitEnds, BackoffEnds, tick
  <2>5. Mint
    BY <2>1, <2>2, <2>3, <2>4 DEF Next, Driver, World
  <2>6. i = Head(units)
    BY <1>2, <2>5 DEF Mint
  <2>7. QED BY <2>5, <2>6, CutOnesKept
<1>3. QED BY <1>1, <1>2

LEMMA SwallowStep ==
    StreamsInv /\ CutIsKept /\ NothingSwallowed /\ [Next]_vars => NothingSwallowed'
<1> SUFFICES ASSUME StreamsInv, CutIsKept, NothingSwallowed, [Next]_vars,
                    NEW i \in DOMAIN mail', NEW t \in Target, mail'[i].kind = "unit", mail'[i].acked
             PROVE  KeptBy(t, i)'
  BY DEF NothingSwallowed, KeptBy
<1>1. CASE i \in DOMAIN mail /\ mail[i].kind = "unit" /\ mail[i].acked
  <2>1. KeptBy(t, i)
    BY <1>1 DEF NothingSwallowed, KeptBy
  <2>2. QED BY <2>1, StaysKept
<1>2. CASE ~(i \in DOMAIN mail /\ mail[i].kind = "unit" /\ mail[i].acked)
  BY <1>2, AckedNow
<1>3. QED BY <1>1, <1>2

\* detect_reply_completions and mint_stream_copies: the messages of a page are
\* acknowledged by their own pass or, one pass later, by the mint, and every unit among
\* them has its copies, or the row says what was dropped, or the target is full.
THEOREM NoReplyIsLost == Spec => []NothingSwallowed
<1>1. Init => CutIsKept /\ NothingSwallowed
  BY DEF Init, CutIsKept, NothingSwallowed
<1>2. StreamsInv /\ CutIsKept /\ NothingSwallowed /\ [Next]_vars
          => CutIsKept' /\ NothingSwallowed'
  BY CutIsKeptStep, SwallowStep
<1>3. QED BY <1>1, <1>2, StreamsHold, PTL DEF Spec

-------------------------------------------------------------------------------
(* The order of the copies.  A page is the oldest of what is unread, so    *)
(* what a mint still has to cut comes before all that is to be read yet,   *)
(* and after all that has a copy.                                          *)

LEMMA RankGrows ==
    ASSUME NEW S, S \subseteq Nat, IsFiniteSet(S), NEW a \in S, NEW b \in S, a < b
    PROVE  /\ Cardinality({j \in S : j < a}) \in Nat /\ Cardinality({j \in S : j < b}) \in Nat
           /\ Cardinality({j \in S : j < a}) < Cardinality({j \in S : j < b})
<1> DEFINE below(x) == {j \in S : j < x}
<1>1. IsFiniteSet(below(a)) /\ IsFiniteSet(below(b))
  BY FS_Subset
<1>2. below(a) \cup {a} \subseteq below(b) /\ a \notin below(a)
  <2>1. a \in Nat /\ b \in Nat /\ a \notin below(a)
    OBVIOUS
  <2>2. ASSUME NEW j \in below(a) \cup {a} PROVE j \in S /\ j < b
    <3>1. j \in S /\ j \in Nat /\ (j < a \/ j = a)
      OBVIOUS
    <3>2. QED BY <2>1, <3>1
  <2>3. QED BY <2>1, <2>2
<1> HIDE DEF below
<1>3. /\ Cardinality(below(a)) \in Nat /\ Cardinality(below(b)) \in Nat
      /\ Cardinality(below(a) \cup {a}) = Cardinality(below(a)) + 1
  BY <1>1, <1>2, FS_CardinalityType, FS_AddElement
<1>4. Cardinality(below(a) \cup {a}) <= Cardinality(below(b))
  BY <1>1, <1>2, FS_Subset
<1>5. QED BY <1>3, <1>4 DEF below

\* InOrder lists a set upwards, and all of it.
LEMMA InOrderSorts ==
    ASSUME NEW S, S \subseteq Nat, IsFiniteSet(S)
    PROVE  /\ DOMAIN InOrder(S) = 1 .. Len(InOrder(S)) /\ Len(InOrder(S)) \in Nat
           /\ \A n \in 1 .. Len(InOrder(S)) : InOrder(S)[n] \in S
           /\ \A m, n \in 1 .. Len(InOrder(S)) : m < n => InOrder(S)[m] < InOrder(S)[n]
           /\ \A i \in S : \E n \in 1 .. Len(InOrder(S)) : InOrder(S)[n] = i
<1> DEFINE rank(i) == Cardinality({j \in S : j < i})
           size == Cardinality(S)
<1>1. size \in Nat /\ \A j \in S : j \in Nat
  BY FS_CardinalityType
<1>2. InOrder(S) \in Seq(S)
  BY InOrderLists
<1>3. DOMAIN InOrder(S) = 1 .. size /\ Len(InOrder(S)) = size
  <2>1. DOMAIN InOrder(S) = 1 .. size
    BY DEF InOrder
  <2>2. DOMAIN InOrder(S) = 1 .. Len(InOrder(S)) /\ Len(InOrder(S)) \in Nat
    BY <1>2, LenProperties
  <2> HIDE DEF size
  <2>3. QED BY <1>1, <2>1, <2>2
<1>4. ASSUME NEW n \in 1 .. size PROVE InOrder(S)[n] \in S /\ rank(InOrder(S)[n]) = n - 1
  <2>1. InOrder(S)[n] = CHOOSE i \in S : rank(i) = n - 1
    BY <1>4 DEF InOrder
  <2>2. \E i \in S : rank(i) = n - 1
    BY RankExists
  <2> HIDE DEF rank
  <2>3. QED BY <2>1, <2>2
<1>5. \A a, b \in S : a < b => rank(a) \in Nat /\ rank(b) \in Nat /\ rank(a) < rank(b)
  BY RankGrows
<1>6. ASSUME NEW i \in S PROVE rank(i) \in Nat /\ rank(i) + 1 \in 1 .. size
  <2> DEFINE low == {j \in S : j < i}
  <2>1. IsFiniteSet(low) /\ low \subseteq S /\ i \notin low /\ i \in S
    BY <1>1, FS_Subset
  <2> HIDE DEF low
  <2>2. /\ Cardinality(low) \in Nat
        /\ Cardinality(low \cup {i}) = Cardinality(low) + 1
        /\ Cardinality(low \cup {i}) <= size
    BY <2>1, FS_CardinalityType, FS_AddElement, FS_Subset
  <2>3. Cardinality(low) + 1 \in 1 .. size
    BY <1>1, <2>2
  <2>4. QED BY <2>2, <2>3 DEF low
<1> HIDE DEF rank, size
<1>7. ASSUME NEW m \in 1 .. size, NEW n \in 1 .. size, m < n PROVE InOrder(S)[m] < InOrder(S)[n]
  <2>1. /\ InOrder(S)[m] \in S /\ rank(InOrder(S)[m]) = m - 1
        /\ InOrder(S)[n] \in S /\ rank(InOrder(S)[n]) = n - 1
    BY <1>4
  <2>2. m \in Nat /\ n \in Nat /\ m - 1 # n - 1 /\ ~(n - 1 < m - 1)
    BY <1>1, <1>7
  <2>3. InOrder(S)[m] # InOrder(S)[n] /\ ~(InOrder(S)[n] < InOrder(S)[m])
    BY <1>5, <2>1, <2>2
  <2>4. InOrder(S)[m] \in Nat /\ InOrder(S)[n] \in Nat
    BY <1>1, <2>1
  <2>5. QED BY <2>3, <2>4
<1>8. ASSUME NEW i \in S PROVE \E n \in 1 .. size : InOrder(S)[n] = i
  <2> DEFINE n == rank(i) + 1
  <2>1. n \in 1 .. size /\ n - 1 = rank(i)
    BY <1>1, <1>6
  <2>2. InOrder(S)[n] \in S /\ rank(InOrder(S)[n]) = n - 1
    BY <1>4, <2>1
  <2> HIDE DEF n
  <2>3. rank(i) \in Int /\ ~(rank(InOrder(S)[n]) < rank(i)) /\ ~(rank(i) < rank(InOrder(S)[n]))
    BY <1>1, <2>1, <2>2
  <2>4. ~(InOrder(S)[n] < i) /\ ~(i < InOrder(S)[n])
    BY <1>5, <2>2, <2>3
  <2>5. InOrder(S)[n] = i
    <3>1. InOrder(S)[n] \in Nat /\ i \in Nat
      BY <1>1, <2>2
    <3>2. QED BY <2>4, <3>1
  <2>6. QED BY <2>1, <2>5
<1>9. QED BY <1>1, <1>3, <1>4, <1>7, <1>8

\* The replies that have no copy yet.
Open == {i \in Unread : mail[i].kind = "unit" /\ i \notin cut}

Behind ==
    \A t \in Target : \A r \in Minted(t) :
        /\ row[r].unit \in 1 .. Len(mail) /\ mail[row[r].unit].kind = "unit"
        /\ \A i \in Open : row[r].unit < i

Rising ==
    \A t \in Target : \A r \in Minted(t) :
        \A k \in 0 .. r[2] - 1 : row[<<t, k>>].unit < row[r].unit

\* The units of a mint are the first that are open.
Queue(list, open) ==
    \A n \in 1 .. Len(list) :
        /\ list[n] \in open
        /\ \A m \in 1 .. Len(list) : m < n => list[m] < list[n]
        /\ \A i \in open : i < list[n] => \E m \in 1 .. Len(list) : m < n /\ list[m] = i

Listed == IF pc = "mint" THEN Queue(units, Open) ELSE units = << >> /\ cut = {}

LEMMA EarlierOnes ==
    ASSUME Gapless, NEW t \in Target, NEW r \in Minted(t), NEW k \in 0 .. r[2] - 1
    PROVE  <<t, k>> \in Minted(t)
<1>1. /\ Minted(t) = Numbered(t, Cardinality(Minted(t)))
      /\ Cardinality(Minted(t)) \in 0 .. MaxUnits /\ MaxUnits \in Nat
  BY StreamsAssumption DEF Gapless
<1>2. PICK l \in 0 .. Cardinality(Minted(t)) - 1 : r = <<t, l>>
  BY <1>1 DEF Numbered
<1>3. r[2] = l /\ k \in 0 .. Cardinality(Minted(t)) - 1
  BY <1>1, <1>2
<1>4. <<t, k>> \in Numbered(t, Cardinality(Minted(t)))
  BY <1>3 DEF Numbered
<1>5. QED BY <1>1, <1>4

LEMMA OpenIn ==
    ASSUME MailOK
    PROVE  /\ Open \subseteq 1 .. Len(mail) /\ DOMAIN mail = 1 .. Len(mail) /\ Len(mail) \in Nat
           /\ root \in Nat
           /\ \A i : i \in Open <=> /\ i \in 1 .. Len(mail) /\ i > root /\ ~mail[i].acked
                                    /\ mail[i].kind = "unit" /\ i \notin cut
  BY DEF MailOK, Open, Unread

\* What lies open after a step other than a mint was open before, or has just come.
LEMMA OpenShrinks ==
    ASSUME StreamsInv, Listed, [Next]_vars, ~Mint
    PROVE  /\ \A i \in Open' : i \in Open \/ i > Len(mail)
           /\ ~Scan /\ ~Retry => Open \subseteq Open'
<1>1. MailOK /\ MailOK' /\ Grown
  <2>1. MailOK
    BY DEF StreamsInv
  <2>2. QED BY <2>1, MailStep
<1>2. cut' = cut
  <2>1. \A kind : Reply(kind) => cut' = cut
    BY DEF Reply, tick
  <2>2. Noise \/ UNCHANGED vars => cut' = cut
    BY DEF Noise, vars, tick
  <2>3. Scan \/ Detect \/ Retry \/ DecideAndSpawn => cut' = cut
    BY DEF Scan, Detect, Retry, DecideAndSpawn
  <2>4. \A r \in Row : AgentEnds(r) \/ ClosePane(r) \/ WaitEnds(r) \/ BackoffEnds(r) => cut' = cut
    BY DEF AgentEnds, ClosePane, WaitEnds, BackoffEnds, tick
  <2>5. QED BY <2>1, <2>2, <2>3, <2>4 DEF Next, Driver, World
<1>3. /\ root' \in Nat /\ root <= root'
      /\ ~Retry => root' = root
      /\ ~Scan => \/ mail' = mail
                  \/ \E kind \in Kind : mail' = Append(mail, Message(kind)) /\ root' = root
  <2>1. root \in Nat /\ root <= Len(mail) /\ Len(mail) \in Nat
    BY <1>1 DEF MailOK
  <2>2. \A kind \in Kind : Reply(kind) => mail' = Append(mail, Message(kind)) /\ root' = root
    BY DEF Reply
  <2>3. Noise => mail' = Append(mail, Message("noise")) /\ "noise" \in Kind /\ root' = root
    BY DEF Noise, Kind
  <2>4. Detect \/ DecideAndSpawn \/ UNCHANGED vars => mail' = mail /\ root' = root
    BY DEF Detect, DecideAndSpawn, vars, store
  <2>5. Scan => root' = root
    BY DEF Scan
  <2>6. Retry => mail' = mail /\ root' \in {root, Len(mail)}
    BY DEF Retry
  <2>7. \A r \in Row : AgentEnds(r) \/ ClosePane(r) \/ WaitEnds(r) \/ BackoffEnds(r)
            => mail' = mail /\ root' = root
    BY DEF AgentEnds, ClosePane, WaitEnds, BackoffEnds, store
  <2>8. QED BY <2>1, <2>2, <2>3, <2>4, <2>5, <2>6, <2>7 DEF Next, Driver, World
<1>4. \A i : i \in Open <=> /\ i \in 1 .. Len(mail) /\ i > root /\ ~mail[i].acked
                            /\ mail[i].kind = "unit" /\ i \notin cut
  BY <1>1, OpenIn
<1>5. \A i : i \in Open' <=> /\ i \in 1 .. Len(mail') /\ i > root' /\ ~mail'[i].acked
                             /\ mail'[i].kind = "unit" /\ i \notin cut'
  BY <1>1 DEF MailOK, Open, Unread
<1>6. Len(mail) \in Nat /\ Len(mail') \in Nat /\ root \in Nat
  BY <1>1 DEF MailOK
<1>7. ASSUME NEW i \in Open' PROVE i \in Open \/ i > Len(mail)
  <2>1. i \in 1 .. Len(mail') /\ i > root /\ i \notin cut
    BY <1>2, <1>3, <1>5, <1>6
  <2>2. CASE i <= Len(mail)
    <3>1. i \in 1 .. Len(mail) /\ ~mail[i].acked /\ mail[i].kind = "unit"
      BY <1>1, <1>5, <1>6, <2>1, <2>2 DEF Grown
    <3>2. QED BY <1>4, <2>1, <3>1
  <2>3. QED BY <1>6, <2>1, <2>2
<1>8. ASSUME ~Scan, ~Retry, NEW i \in Open PROVE i \in Open'
  <2>1. i \in 1 .. Len(mail) /\ mail'[i] = mail[i] /\ i \in 1 .. Len(mail')
    BY <1>1, <1>3, <1>4, <1>6, <1>8, AppendMail DEF Grown
  <2>2. QED BY <1>2, <1>3, <1>4, <1>5, <1>8, <2>1
<1>9. QED BY <1>7, <1>8

\* A scan lists what is open from its first on.
LEMMA ScanLists ==
    ASSUME StreamsInv, Listed, Scan, [Next]_vars
    PROVE  Listed'
<1>1. MailOK /\ MailOK' /\ units = << >> /\ cut = {} /\ pc = "scan" /\ cut' = cut
  <2>1. MailOK /\ MailOK'
    BY MailStep DEF StreamsInv
  <2>2. QED BY <2>1 DEF Scan, Listed
<1>2. CASE units' = << >>
  BY <1>1, <1>2 DEF Scan, Listed
<1>3. CASE units' # << >>
  <2> DEFINE first == BeforeEnd(Matched)
  <2>1. /\ units' = InOrder(first) /\ Ack(Matched \ first) /\ root' = root /\ pc' = "mint"
    BY <1>1, <1>3 DEF Scan
  <2>2. first \subseteq Matched /\ first \subseteq Nat /\ IsFiniteSet(first)
    <3>1. first \in SUBSET Matched
      BY DEF BeforeEnd
    <3> HIDE DEF first
    <3>2. QED BY <1>1, <3>1, PageIn, FS_Subset
  <2>3. \A i : i \in first <=> /\ i \in Matched /\ mail[i].kind = "unit"
                               /\ \A e \in Matched : mail[e].kind = "end" => i < e
    BY DEF BeforeEnd
  <2> HIDE DEF first
  <2>4. /\ Len(mail') = Len(mail) /\ Grown
        /\ \A i \in 1 .. Len(mail) : mail'[i].acked <=> mail[i].acked \/ i \in Matched \ first
    BY <1>1, <2>1, AckMail
  <2>5. \A i : i \in Open' <=> /\ i \in 1 .. Len(mail) /\ i > root /\ ~mail[i].acked
                               /\ i \notin Matched \ first /\ mail[i].kind = "unit"
    BY <1>1, <2>1, <2>4 DEF MailOK, Open, Unread, Grown
  <2>6. Unread \subseteq Nat /\ IsFiniteSet(Unread) /\ Page \subseteq Unread /\ Matched \subseteq Page
    <3>1. IsFiniteSet(1 .. Len(mail)) /\ Unread \subseteq 1 .. Len(mail) /\ Len(mail) \in Nat
      BY <1>1, OpenIn, FS_Interval DEF Unread
    <3>2. IsFiniteSet(Unread)
      BY <3>1, FS_Subset
    <3>3. QED BY <3>1, <3>2 DEF Page, Matched
  <2>7. ASSUME NEW i \in first PROVE i \in Open'
    BY <1>1, <2>2, <2>3, <2>5, <2>6, OpenIn, PageIn DEF Unread
  <2>8. ASSUME NEW i \in Open', NEW j \in first, i < j PROVE i \in first
    <3>1. i \in Unread /\ mail[i].kind = "unit" /\ i \in Nat /\ j \in Nat /\ j \in Page
      BY <1>1, <2>2, <2>5, <2>6, <2>8, OpenIn DEF Unread
    <3>2. i \in Page
      <4>1. /\ Cardinality({l \in Unread : l < i}) \in Nat
            /\ Cardinality({l \in Unread : l < j}) \in Nat
            /\ Cardinality({l \in Unread : l < i}) < Cardinality({l \in Unread : l < j})
        BY <2>6, <2>8, <3>1, RankGrows
      <4>2. Cardinality({l \in Unread : l < j}) < Window
        BY <3>1 DEF Page
      <4>3. QED BY <3>1, <4>1, <4>2, StreamsAssumption DEF Page
    <3>3. i \in Matched
      BY <1>1, <3>1, <3>2 DEF Matched, MailOK, Unread
    <3>4. \A e \in Matched : mail[e].kind = "end" => i < e
      <4>1. \A e \in Matched : e \in Nat
        BY <1>1, PageIn
      <4>2. QED BY <2>3, <2>8, <3>1, <4>1
    <3>5. QED BY <2>3, <3>1, <3>3, <3>4
  <2> DEFINE list == InOrder(first)
  <2>9. /\ Len(list) \in Nat
        /\ \A n \in 1 .. Len(list) : list[n] \in first
        /\ \A m, n \in 1 .. Len(list) : m < n => list[m] < list[n]
        /\ \A i \in first : \E n \in 1 .. Len(list) : list[n] = i
    BY <2>2, InOrderSorts
  <2> HIDE DEF list
  <2>10. ASSUME NEW n \in 1 .. Len(list), NEW i \in Open', i < list[n]
         PROVE  \E m \in 1 .. Len(list) : m < n /\ list[m] = i
    <3>1. i \in first
      BY <2>8, <2>9, <2>10
    <3>2. PICK m \in 1 .. Len(list) : list[m] = i
      BY <2>9, <3>1
    <3>3. m # n /\ ~(n < m)
      <4>1. list[m] \in Nat /\ list[n] \in Nat
        BY <2>2, <2>9
      <4>2. QED BY <2>9, <2>10, <3>2, <4>1
    <3>4. QED BY <2>9, <3>2, <3>3
  <2>11. Queue(list, Open')
    BY <2>7, <2>9, <2>10 DEF Queue
  <2>12. QED BY <2>1, <2>11 DEF Listed, Queue, list
<1>4. QED BY <1>2, <1>3

\* A mint takes the first of what is open.
LEMMA MintTakesFirst ==
    ASSUME StreamsInv, Listed, Mint, [Next]_vars, NEW h, h = Head(units)
    PROVE  /\ h \in Open /\ h \in Nat /\ h \in 1 .. Len(mail)
           /\ \A i \in Open : i = h \/ h < i
           /\ \A i : i \in Open' <=> i \in Open /\ i # h
           /\ Listed'
<1>1. /\ MailOK /\ MailOK' /\ TickOK /\ units # << >> /\ h \in 1 .. Len(mail) /\ h \in Nat
      /\ pc = "mint"
  BY MailStep, HeadIsOne DEF StreamsInv, Mint
<1>2. Queue(units, Open) /\ units \in Seq(1 .. Len(mail)) /\ Len(units) \in Nat \ {0} /\ h = units[1]
  BY <1>1, EmptySeq DEF Listed, TickOK
<1>3. h \in Open /\ \A i \in Open : ~(i < h)
  <2>1. 1 \in 1 .. Len(units) /\ \A m \in 1 .. Len(units) : ~(m < 1)
    BY <1>2
  <2>2. QED BY <1>2, <2>1 DEF Queue
<1>4. \A i \in Open : i = h \/ h < i
  <2>1. \A i \in Open : i \in Nat
    BY <1>1, OpenIn
  <2>2. QED BY <1>1, <1>3, <2>1
<1>5. /\ units' = Tail(units) /\ Len(units') = Len(units) - 1
      /\ \A n \in 1 .. Len(units') : units'[n] = units[n + 1]
  BY <1>2 DEF Mint
<1>6. \A i : i \in Open' <=> i \in Open /\ i # h
  <2>1. CASE units' = << >>
    <3>1. Ack(cut \cup {h}) /\ cut' = {} /\ root' = root
      BY <2>1 DEF Mint
    <3>2. /\ Len(mail') = Len(mail) /\ Grown
          /\ \A i \in 1 .. Len(mail) : mail'[i].acked <=> mail[i].acked \/ i \in cut \cup {h}
      BY <1>1, <3>1, AckMail
    <3>3. QED BY <1>1, <3>1, <3>2 DEF MailOK, Open, Unread, Grown
  <2>2. CASE units' # << >>
    <3>1. mail' = mail /\ cut' = cut \cup {h} /\ root' = root
      BY <2>2 DEF Mint
    <3>2. QED BY <3>1 DEF Open, Unread
  <2>3. QED BY <2>1, <2>2
<1>7. Listed'
  <2>1. CASE units' = << >>
    BY <2>1 DEF Mint, Listed
  <2>2. CASE units' # << >>
    <3>1. pc' = "mint"
      BY <1>1, <2>2 DEF Mint
    <3>2. ASSUME NEW n \in 1 .. Len(units')
          PROVE  /\ units'[n] \in Open'
                 /\ \A m \in 1 .. Len(units') : m < n => units'[m] < units'[n]
                 /\ \A i \in Open' : i < units'[n] =>
                        \E m \in 1 .. Len(units') : m < n /\ units'[m] = i
      <4>1. /\ n + 1 \in 1 .. Len(units) /\ 1 \in 1 .. Len(units) /\ 1 < n + 1
            /\ units'[n] = units[n + 1]
        BY <1>2, <1>5
      <4>2. units[n + 1] \in Open /\ h < units[n + 1]
        BY <1>2, <4>1 DEF Queue
      <4>3. units'[n] \in Open'
        BY <1>1, <1>6, <4>1, <4>2
      <4>4. ASSUME NEW m \in 1 .. Len(units'), m < n PROVE units'[m] < units'[n]
        <5>1. m + 1 \in 1 .. Len(units) /\ m + 1 < n + 1 /\ units'[m] = units[m + 1]
          BY <1>2, <1>5, <4>4
        <5>2. QED BY <1>2, <4>1, <5>1 DEF Queue
      <4>5. ASSUME NEW i \in Open', i < units'[n]
            PROVE  \E m \in 1 .. Len(units') : m < n /\ units'[m] = i
        <5>1. i \in Open /\ i # h /\ i < units[n + 1]
          BY <1>6, <4>1, <4>5
        <5>2. PICK m \in 1 .. Len(units) : m < n + 1 /\ units[m] = i
          BY <1>2, <4>1, <5>1 DEF Queue
        <5>3. m # 1
          BY <1>2, <5>1, <5>2
        <5>4. m - 1 \in 1 .. Len(units') /\ m - 1 < n /\ units'[m - 1] = units[m - 1 + 1]
          BY <1>2, <1>5, <5>2, <5>3
        <5>5. m - 1 + 1 = m
          BY <1>2, <5>2
        <5>6. QED BY <5>2, <5>4, <5>5
      <4>6. QED BY <4>3, <4>4, <4>5
    <3>3. Queue(units, Open)'
      BY <3>2 DEF Queue
    <3>4. QED BY <3>1, <3>3 DEF Listed
  <2>3. QED BY <2>1, <2>2
<1>8. QED BY <1>1, <1>3, <1>4, <1>6, <1>7

LEMMA ListedStep ==
    ASSUME StreamsInv, Listed, [Next]_vars
    PROVE  Listed'
<1>1. CASE Scan
  BY <1>1, ScanLists
<1>2. CASE Mint
  <2>1. \A h : h = Head(units) => Listed'
    BY <1>2, MintTakesFirst
  <2>2. QED BY <2>1
<1>3. CASE Detect \/ Retry \/ DecideAndSpawn
  <2>1. pc # "mint" /\ pc' # "mint" /\ units' = units /\ cut' = cut
    BY <1>3 DEF Detect, Retry, DecideAndSpawn, Pass
  <2>2. QED BY <2>1 DEF Listed
<1>4. ASSUME ~Scan, ~Mint, ~Retry, pc' = pc, units' = units, cut' = cut PROVE Listed'
  <2>1. CASE pc # "mint"
    BY <1>4, <2>1 DEF Listed
  <2>2. CASE pc = "mint"
    <3>1. /\ Queue(units, Open) /\ Open \subseteq Open'
          /\ \A i \in Open' : i \in Open \/ i > Len(mail)
      BY <1>4, <2>2, OpenShrinks DEF Listed
    <3>2. Open \subseteq 1 .. Len(mail) /\ Len(mail) \in Nat /\ MailOK
      BY OpenIn DEF StreamsInv
    <3>3. \A n \in 1 .. Len(units) : units[n] \in Open /\ units[n] <= Len(mail) /\ units[n] \in Nat
      <4>1. \A n \in 1 .. Len(units) : units[n] \in Open
        BY <3>1 DEF Queue
      <4>2. \A i \in Open : i <= Len(mail) /\ i \in Nat
        BY <3>2
      <4>3. QED BY <4>1, <4>2
    <3>4. \A i \in Open' : i \in Nat
      <4>1. MailOK'
        BY <3>2, MailStep
      <4>2. QED BY <4>1 DEF MailOK, Open, Unread
    <3>5. \A n \in 1 .. Len(units), i \in Open' : i < units[n] => i \in Open
      BY <3>1, <3>2, <3>3, <3>4
    <3>6. Queue(units, Open')
      BY <3>1, <3>3, <3>5 DEF Queue
    <3>7. Queue(units, Open)'
      BY <1>4, <3>6 DEF Queue
    <3>8. QED BY <1>4, <2>2, <3>7 DEF Listed
  <2>3. QED BY <2>1, <2>2
<1>5. ASSUME NEW kind \in Kind, Reply(kind) PROVE pc' = pc /\ units' = units /\ cut' = cut
  BY <1>5 DEF Reply, tick
<1>6. Noise \/ UNCHANGED vars => pc' = pc /\ units' = units /\ cut' = cut
  BY DEF Noise, vars, tick
<1>7. ASSUME NEW r \in Row, AgentEnds(r) \/ ClosePane(r) \/ WaitEnds(r) \/ BackoffEnds(r)
      PROVE  pc' = pc /\ units' = units /\ cut' = cut
  BY <1>7 DEF AgentEnds, ClosePane, WaitEnds, BackoffEnds, tick
<1>8. QED BY <1>1, <1>2, <1>3, <1>4, <1>5, <1>6, <1>7 DEF Next, Driver, World

LEMMA OrderStep ==
    ASSUME StreamsInv, Listed, Behind, Rising, [Next]_vars
    PROVE  Behind' /\ Rising'
<1>1. MailOK /\ MailOK' /\ RowsOK /\ Gapless /\ TickOK /\ Grown /\ StreamsInv'
  BY MailStep, StreamsStep DEF StreamsInv
<1>2. Len(mail) \in Nat /\ Len(mail') \in Nat /\ Len(mail) <= Len(mail')
  BY <1>1 DEF MailOK, Grown
<1>3. CASE Mint
  <2>1. PICK h : h = Head(units)
    OBVIOUS
  <2>2. /\ h \in Open /\ h \in Nat /\ h \in 1 .. Len(mail)
        /\ \A i \in Open : i = h \/ h < i
        /\ \A i : i \in Open' <=> i \in Open /\ i # h
    BY <1>3, <2>1, MintTakesFirst
  <2>3. ASSUME NEW t \in Target
        PROVE  /\ Minted(t)' = IF t \in CutFor THEN Minted(t) \cup {NextCopy(t)} ELSE Minted(t)
               /\ \A r \in Minted(t) : row'[r].unit = row[r].unit
               /\ t \in CutFor => row'[NextCopy(t)].unit = h
    BY <1>1, <1>3, <2>1, <2>2, MintedCopies, MintedRows
  <2>4. mail[h].kind = "unit"
    BY <2>2 DEF Open
  <2>5. Behind'
    <3> SUFFICES ASSUME NEW t \in Target, NEW r \in Minted(t)'
                 PROVE  /\ row'[r].unit \in 1 .. Len(mail') /\ mail'[row'[r].unit].kind = "unit"
                        /\ \A i \in Open' : row'[r].unit < i
      BY DEF Behind
    <3>1. CASE r \in Minted(t)
      <4>1. /\ row'[r].unit = row[r].unit /\ row[r].unit \in 1 .. Len(mail)
            /\ mail[row[r].unit].kind = "unit" /\ \A i \in Open : row[r].unit < i
        BY <2>3, <3>1 DEF Behind
      <4>2. mail'[row[r].unit].kind = "unit" /\ row[r].unit \in 1 .. Len(mail')
        BY <1>1, <1>2, <4>1 DEF Grown
      <4>3. QED BY <2>2, <4>1, <4>2
    <3>2. CASE r \notin Minted(t)
      <4>1. row'[r].unit = h
        BY <2>3, <3>2
      <4>2. mail'[h].kind = "unit" /\ h \in 1 .. Len(mail')
        BY <1>1, <1>2, <2>2, <2>4 DEF Grown
      <4>3. \A i \in Open' : h < i
        BY <2>2
      <4>4. QED BY <4>1, <4>2, <4>3
    <3>3. QED BY <3>1, <3>2
  <2>6. Rising'
    <3> SUFFICES ASSUME NEW t \in Target, NEW r \in Minted(t)', NEW k \in 0 .. r[2] - 1
                 PROVE  row'[<<t, k>>].unit < row'[r].unit
      BY DEF Rising
    <3>1. CASE r \in Minted(t)
      <4>1. <<t, k>> \in Minted(t)
        BY <1>1, <3>1, EarlierOnes
      <4>2. QED BY <2>3, <3>1, <4>1 DEF Rising
    <3>2. CASE r \notin Minted(t)
      <4>1. t \in CutFor /\ r = NextCopy(t) /\ row'[r].unit = h
        BY <2>3, <3>2
      <4>2. r[2] = Cardinality(Minted(t)) /\ Minted(t) = Numbered(t, Cardinality(Minted(t)))
        BY <1>1, <4>1 DEF NextCopy, Gapless
      <4>3. <<t, k>> \in Numbered(t, Cardinality(Minted(t)))
        BY <4>2 DEF Numbered
      <4>4. <<t, k>> \in Minted(t)
        BY <4>2, <4>3
      <4>5. QED BY <2>2, <2>3, <4>1, <4>4 DEF Behind
    <3>3. QED BY <3>1, <3>2
  <2>7. QED BY <2>5, <2>6
<1>4. CASE ~Mint
  <2>1. RowsFollow
    BY <1>1, <1>4, RowsStep
  <2>2. ASSUME NEW t \in Target
        PROVE  Minted(t)' = Minted(t) /\ \A r \in Minted(t) : row'[r].unit = row[r].unit
    BY <2>1, SameCopies
  <2>3. \A i \in Open' : i \in Open \/ i > Len(mail)
    BY <1>4, OpenShrinks
  <2>4. Behind'
    <3> SUFFICES ASSUME NEW t \in Target, NEW r \in Minted(t)
                 PROVE  /\ row'[r].unit \in 1 .. Len(mail') /\ mail'[row'[r].unit].kind = "unit"
                        /\ \A i \in Open' : row'[r].unit < i
      BY <2>2 DEF Behind
    <3>1. /\ row'[r].unit = row[r].unit /\ row[r].unit \in 1 .. Len(mail)
          /\ mail[row[r].unit].kind = "unit" /\ \A i \in Open : row[r].unit < i
      BY <2>2 DEF Behind
    <3>2. \A i \in Open' : i \in Nat
      BY <1>1 DEF MailOK, Open, Unread
    <3>3. QED BY <1>1, <1>2, <2>3, <3>1, <3>2 DEF Grown
  <2>5. Rising'
    <3> SUFFICES ASSUME NEW t \in Target, NEW r \in Minted(t), NEW k \in 0 .. r[2] - 1
                 PROVE  row'[<<t, k>>].unit < row'[r].unit
      BY <2>2 DEF Rising
    <3>1. <<t, k>> \in Minted(t)
      BY <1>1, EarlierOnes
    <3>2. QED BY <2>2, <3>1 DEF Rising
  <2>6. QED BY <2>4, <2>5
<1>5. QED BY <1>3, <1>4

LEMMA OrderStart == Init => Listed /\ Behind /\ Rising
<1> SUFFICES ASSUME Init PROVE Listed /\ Behind /\ Rising
  OBVIOUS
<1>1. Listed
  BY DEF Init, Listed
<1>2. ASSUME NEW t \in Target PROVE Minted(t) = {}
  BY CopyOf DEF Init, NoRow, Minted
<1>3. QED BY <1>1, <1>2 DEF Behind, Rising

LEMMA InOrderNow == StreamsInv /\ Behind /\ Rising => InArrivalOrder
<1> SUFFICES ASSUME StreamsInv, Behind, Rising, NEW t \in Target, NEW r \in Minted(t)
             PROVE  /\ mail[row[r].unit].kind = "unit"
                    /\ \A k \in 0 .. r[2] - 1 : row[<<t, k>>].unit \in 1 .. row[r].unit - 1
  BY DEF InArrivalOrder
<1>1. Gapless /\ Len(mail) \in Nat
  BY DEF StreamsInv, MailOK
<1>2. ASSUME NEW k \in 0 .. r[2] - 1 PROVE row[<<t, k>>].unit \in 1 .. row[r].unit - 1
  <2>1. <<t, k>> \in Minted(t)
    BY <1>1, EarlierOnes
  <2>2. /\ row[<<t, k>>].unit \in 1 .. Len(mail) /\ row[r].unit \in 1 .. Len(mail)
        /\ row[<<t, k>>].unit < row[r].unit
    BY <2>1 DEF Behind, Rising
  <2>3. QED BY <1>1, <2>2
<1>3. QED BY <1>2 DEF Behind

\* mint_stream_copies ("monotonic, gapless, never reused"): the copies of every step
\* are cut from its replies in the order in which these arrived, whatever is sent, read
\* or retried between two pages.
THEOREM CopiesFollowReplies == Spec => []InArrivalOrder
<1>1. StreamsInv /\ Listed /\ Behind /\ Rising /\ [Next]_vars => Listed' /\ Behind' /\ Rising'
  BY ListedStep, OrderStep
<1>2. QED BY <1>1, OrderStart, StreamsHold, InOrderNow, PTL DEF Spec

-------------------------------------------------------------------------------
(* The verdict.  A skip is always the work of a row that has failed for    *)
(* good, and such a row keeps the run from being green.                    *)

\* A failure that no arming pass will take back.
ForGood(r) == row[r].state = "failed" /\ row[r].retry = "none" /\ row[r].tries \notin 1 .. Attempts[r[1]] - 1

SkipsHaveCause ==
    /\ \A t \in Target : holder[t] = "skipped" => ForGood(Stream)
    /\ summary = "skipped" => \/ \E r \in Row : ForGood(r)
                              \/ holder[1] \in {"failed", "skipped"}
    /\ \A t \in Target : holder[t] = "replaced" => Minted(t) # {}

\* The first arming pass has left only failures that last, and a verdict is the end.
PassedArming ==
    /\ pc = "spawn" => \A r \in Row : row[r].state = "failed" /\ row[r].retry = "none" => ForGood(r)
    /\ verdict # "running" => pc = "scan"

LEMMA ArmLeaves ==
    ASSUME NEW f, f \in [Row -> Outcome], NEW r \in Row,
           f[r].state = "failed", f[r].retry = "none", f[r].tries \notin 1 .. Attempts[r[1]] - 1
    PROVE  Arm(f)[r] = f[r]
  BY DEF Arm

\* After an arming pass.
LEMMA ArmDecides ==
    ASSUME NEW f, f \in [Row -> Outcome], NEW r \in Row,
           Arm(f)[r].state = "failed", Arm(f)[r].retry = "none"
    PROVE  Arm(f)[r].tries \notin 1 .. Attempts[r[1]] - 1
<1>1. f[r] \in Outcome
  OBVIOUS
<1>2. CASE f[r].state = "failed" /\ f[r].retry = "none" /\ f[r].tries \in 1 .. Attempts[r[1]] - 1
  <2>1. Arm(f)[r] = [f[r] EXCEPT !.retry = "armed"]
    BY <1>2 DEF Arm
  <2>2. [f[r] EXCEPT !.retry = "armed"].retry = "armed"
    BY <1>1 DEF Outcome
  <2>3. QED BY <2>1, <2>2
<1>3. CASE ~(f[r].state = "failed" /\ f[r].retry = "none" /\ f[r].tries \in 1 .. Attempts[r[1]] - 1)
  <2>1. Arm(f)[r] = f[r]
    BY <1>3 DEF Arm
  <2>2. QED BY <1>3, <2>1
<1>4. QED BY <1>2, <1>3

LEMMA LateStop ==
    ASSUME RowsOK, Closed, Mint
    PROVE  row' = [r \in Row |-> IF r \in {NextCopy(t) : t \in CutFor}
                                 THEN [NoRow EXCEPT !.state = "pending", !.unit = Head(units)]
                                 ELSE row[r]]
  BY DEF Mint, CutFor

LEMMA EndStays ==
    ASSUME StreamsInv, [Next]_vars, NEW r \in Row, ForGood(r)
    PROVE  ForGood(r)'
<1>1. /\ RowsOK /\ Gapless /\ row[r] \in Outcome /\ row \in [Row -> Outcome]
      /\ row[r].state = "failed" /\ row[r].retry = "none"
      /\ row[r].tries \notin 1 .. Attempts[r[1]] - 1
  BY DEF StreamsInv, RowsOK, ForGood
<1>2. row'[r] = row[r] => ForGood(r)'
  BY DEF ForGood
<1>3. CASE Scan
  <2>1. row' = row \/ (row[Stream].state = "running" /\ row' = [row EXCEPT ![Stream].state = "succeeded"])
    BY <1>3 DEF Scan
  <2>2. row'[r] = row[r]
    BY <1>1, <2>1
  <2>3. QED BY <1>2, <2>2
<1>4. CASE Mint
  <2>1. CASE r = Stream
    <3>1. Closed
      BY <1>1, <2>1 DEF Closed, IsTerminal
    <3>2. Stream \notin {NextCopy(t) : t \in CutFor}
      BY <1>1, NextIsNew, CopyOf DEF CutFor
    <3>3. row'[r] = row[r]
      BY <1>1, <1>4, <2>1, <3>1, <3>2, LateStop
    <3>4. QED BY <1>2, <3>3
  <2>2. CASE r # Stream
    <3>1. r \notin {NextCopy(t) : t \in CutFor}
      BY <1>1, NextIsNew DEF CutFor
    <3>2. row'[r] = row[r]
      BY <1>4, <2>2, <3>1 DEF Mint, CutFor
    <3>3. QED BY <1>2, <3>2
  <2>3. QED BY <2>1, <2>2
<1>5. CASE Detect
  <2>1. row'[r] = row[r]
    BY <1>1, <1>5 DEF Detect
  <2>2. QED BY <1>2, <2>1
<1>6. ASSUME NEW f \in [Row -> Outcome], row' = Arm(f), f[r] = row[r] PROVE ForGood(r)'
  <2>1. row'[r] = row[r]
    BY <1>1, <1>6, ArmLeaves
  <2>2. QED BY <1>2, <2>1
<1>7. CASE Retry
  <2>1. PICK f \in [Row -> Outcome] :
          /\ row' = Arm(f)
          /\ \A q \in Row : /\ Follows(q, row[q], f[q])
                            /\ row[q].retry # "due" => f[q] = row[q]
    BY <1>1, <1>7, RetryIs
  <2>2. f[r] = row[r]
    BY <1>1, <2>1
  <2>3. QED BY <1>6, <2>1, <2>2
<1>8. CASE DecideAndSpawn
  <2>1. PICK f \in [Row -> Outcome] :
          /\ row' = Arm(f)
          /\ \A q \in Row : /\ Follows(q, row[q], f[q])
                            /\ row[q].state # "pending" => f[q] = row[q]
    BY <1>1, <1>8, SpawnIs
  <2>2. f[r] = row[r]
    BY <1>1, <2>1
  <2>3. QED BY <1>6, <2>1, <2>2
<1>9. ASSUME NEW q \in Row, AgentEnds(q) \/ ClosePane(q) \/ WaitEnds(q) \/ BackoffEnds(q)
      PROVE  ForGood(r)'
  <2>1. CASE q # r
    <3>1. row'[r] = row[r]
      BY <1>1, <1>9, <2>1 DEF AgentEnds, ClosePane, WaitEnds, BackoffEnds
    <3>2. QED BY <1>2, <3>1
  <2>2. CASE q = r
    <3>1. row'[r].state = row[r].state /\ row'[r].retry = row[r].retry /\ row'[r].tries = row[r].tries
      BY <1>1, <1>9, <2>2 DEF AgentEnds, ClosePane, WaitEnds, BackoffEnds, Outcome
    <3>2. QED BY <3>1 DEF ForGood
  <2>3. QED BY <2>1, <2>2
<1>10. ASSUME NEW kind \in Kind, Reply(kind) PROVE row' = row
  BY <1>10 DEF Reply, rows
<1>11. Noise \/ UNCHANGED vars => row' = row
  BY DEF Noise, vars, rows
<1>12. QED
  BY <1>2, <1>3, <1>4, <1>5, <1>7, <1>8, <1>9, <1>10, <1>11 DEF Next, Driver, World

LEMMA PassedArmingStep ==
    ASSUME StreamsInv, PassedArming, [Next]_vars
    PROVE  PassedArming'
<1>1. RowsOK /\ TickOK /\ row \in [Row -> Outcome]
  BY DEF StreamsInv, RowsOK
<1>2. CASE UNCHANGED vars
  BY <1>2 DEF PassedArming, ForGood, vars, rows, tick
<1>3. CASE Scan \/ Mint \/ Detect
  <2>1. verdict' = verdict /\ pc # "spawn" /\ pc' # "spawn" /\ (pc = "scan" => verdict = "running")
    BY <1>3 DEF Scan, Mint, Detect, Pass
  <2>2. QED BY <2>1 DEF PassedArming
<1>4. CASE Retry
  <2>1. verdict' = verdict /\ pc = "retry" /\ verdict = "running"
    BY <1>4 DEF Retry, Pass, PassedArming
  <2>2. PICK f \in [Row -> Outcome] : row' = Arm(f)
    BY <1>1, <1>4, RetryIs
  <2>3. ASSUME NEW r \in Row, row'[r].state = "failed", row'[r].retry = "none" PROVE ForGood(r)'
    BY <2>2, <2>3, ArmDecides DEF ForGood
  <2>4. QED BY <2>1, <2>3 DEF PassedArming
<1>5. CASE DecideAndSpawn
  BY <1>5 DEF DecideAndSpawn, Pass, PassedArming
<1>6. CASE World /\ verdict = "running"
  <2>1. verdict' = verdict /\ pc' = pc
    <3>1. \A kind : Reply(kind) => verdict' = verdict /\ pc' = pc
      BY DEF Reply, rows, tick
    <3>2. Noise => verdict' = verdict /\ pc' = pc
      BY DEF Noise, rows, tick
    <3>3. \A r \in Row : AgentEnds(r) \/ ClosePane(r) \/ WaitEnds(r) \/ BackoffEnds(r)
              => verdict' = verdict /\ pc' = pc
      BY DEF AgentEnds, ClosePane, WaitEnds, BackoffEnds, tick
    <3>4. QED BY <1>6, <3>1, <3>2, <3>3 DEF World
  <2>2. ASSUME NEW r \in Row, row'[r].state = "failed", row'[r].retry = "none"
        PROVE  row[r].state = "failed" /\ row[r].retry = "none"
    <3>1. \A kind : Reply(kind) => row' = row
      BY DEF Reply, rows
    <3>2. Noise => row' = row
      BY DEF Noise, rows
    <3>3. ASSUME NEW q \in Row, AgentEnds(q) \/ ClosePane(q) \/ WaitEnds(q) \/ BackoffEnds(q)
          PROVE  row[r].state = "failed" /\ row[r].retry = "none"
      <4>1. CASE q # r
        <5>1. row'[r] = row[r]
          BY <1>1, <3>3, <4>1 DEF AgentEnds, ClosePane, WaitEnds, BackoffEnds
        <5>2. QED BY <2>2, <5>1
      <4>2. CASE q = r
        <5>1. row[r] \in Outcome
          BY <1>1
        <5>2. row'[r].state = row[r].state /\ (row'[r].retry = row[r].retry \/ row'[r].retry = "due")
          BY <1>1, <5>1, <3>3, <4>2 DEF AgentEnds, ClosePane, WaitEnds, BackoffEnds, Outcome
        <5>3. QED BY <2>2, <5>2
      <4>3. QED BY <4>1, <4>2
    <3>4. QED BY <1>6, <2>2, <3>1, <3>2, <3>3 DEF World
  <2>3. ASSUME pc = "spawn", NEW r \in Row, row'[r].state = "failed", row'[r].retry = "none"
        PROVE  ForGood(r)'
    <3>1. ForGood(r)
      BY <2>2, <2>3 DEF PassedArming
    <3>2. QED BY <3>1, EndStays
  <2>4. QED BY <1>6, <2>1, <2>3 DEF PassedArming
<1>7. QED BY <1>2, <1>3, <1>4, <1>5, <1>6 DEF Next, Driver

\* What decides a skip has failed for good when it does.
LEMMA SkipNow ==
    ASSUME StreamsInv, PassedArming, SkipsHaveCause, DecideAndSpawn
    PROVE  /\ StreamDoomed => ForGood(Stream)
           /\ summary' = "skipped" => \/ \E r \in Row : ForGood(r)
                                      \/ holder[1] \in {"failed", "skipped"}
<1>1. /\ pc = "spawn" /\ summary' = DecidedSummary
      /\ RowsOK /\ row \in [Row -> Outcome] /\ holder \in Placeholders /\ 1 \in Target
  BY StreamsAssumption DEF StreamsInv, RowsOK, RunOK, DecideAndSpawn, Pass
<1>2. ASSUME NEW r \in Row, row[r].state = "failed", IsTerminal(row[r]) PROVE ForGood(r)
  <2>1. row[r].retry = "none"
    BY <1>2 DEF IsTerminal
  <2>2. QED BY <1>1, <1>2, <2>1 DEF PassedArming
<1>3. StreamDoomed => ForGood(Stream)
  <2>1. Stream \in Row
    BY DEF Row
  <2>2. QED BY <1>2, <2>1 DEF StreamDoomed, Closed
<1>4. ASSUME TargetDoomed(1)
      PROVE  (\E r \in Row : ForGood(r)) \/ holder[1] \in {"failed", "skipped"}
  <2>1. CASE holder[1] # "replaced"
    <3>1. holder[1] # "pending"
      BY <1>4 DEF TargetDoomed
    <3>2. QED BY <1>1, <2>1, <3>1 DEF Placeholders
  <2>2. CASE holder[1] = "replaced"
    <3>1. PICK r \in Minted(1) : row[r].state = "failed" /\ IsTerminal(row[r])
      BY <1>4, <2>2 DEF TargetDoomed
    <3>2. r \in Row
      BY <1>1, CopyOf DEF Minted
    <3>3. QED BY <1>2, <3>1, <3>2
  <2>3. QED BY <2>1, <2>2
<1>5. Stream \in Row
  BY DEF Row
<1>6. ASSUME summary' = "skipped"
      PROVE  (\E r \in Row : ForGood(r)) \/ holder[1] \in {"failed", "skipped"}
  <2>1. CASE summary = "skipped"
    BY <2>1 DEF SkipsHaveCause
  <2>2. CASE StreamDoomed
    BY <1>3, <1>5, <2>2
  <2>3. CASE TargetDoomed(1)
    BY <1>4, <2>3
  <2>4. QED BY <1>1, <1>6, <2>1, <2>2, <2>3 DEF DecidedSummary
<1>7. QED BY <1>3, <1>6

LEMMA CauseStep ==
    ASSUME StreamsInv, PassedArming, SkipsHaveCause, [Next]_vars
    PROVE  SkipsHaveCause'
<1>1. /\ RowsOK /\ Gapless /\ TickOK /\ holder \in Placeholders /\ 1 \in Target /\ Stream \in Row
  BY StreamsAssumption DEF StreamsInv, RunOK, Row
<1>2. \A r \in Row : ForGood(r) => ForGood(r)'
  BY EndStays
<1>3. CASE Mint
  <2>1. Head(units) \in Nat
    BY <1>1, <1>3, HeadIsOne DEF Mint, StreamsInv
  <2>2. ASSUME NEW t \in Target
        PROVE  /\ holder'[t] = IF t \in CutFor /\ holder[t] = "pending" THEN "replaced" ELSE holder[t]
               /\ Minted(t)' = IF t \in CutFor THEN Minted(t) \cup {NextCopy(t)} ELSE Minted(t)
    <3>1. Minted(t)' = IF t \in CutFor THEN Minted(t) \cup {NextCopy(t)} ELSE Minted(t)
      BY <1>1, <1>3, <2>1, MintedCopies
    <3>2. holder'[t] = IF t \in CutFor /\ holder[t] = "pending" THEN "replaced" ELSE holder[t]
      BY <1>3 DEF Mint, CutFor
    <3>3. QED BY <3>1, <3>2
  <2>3. summary' = summary
    BY <1>3 DEF Mint
  <2>4. ASSUME NEW t \in Target, holder'[t] = "skipped" PROVE ForGood(Stream)'
    BY <1>1, <1>2, <2>2, <2>4 DEF SkipsHaveCause
  <2>5. ASSUME NEW t \in Target, holder'[t] = "replaced" PROVE Minted(t)' # {}
    BY <2>2, <2>5 DEF SkipsHaveCause
  <2>6. holder[1] \in {"failed", "skipped"} => holder'[1] = holder[1]
    BY <1>1, <2>2
  <2>7. QED BY <1>2, <2>3, <2>4, <2>5, <2>6 DEF SkipsHaveCause
<1>4. CASE DecideAndSpawn
  <2>1. RowsFollow
    BY <1>1, <1>4, SpawnFollows
  <2>2. \A t \in Target : Minted(t)' = Minted(t) /\ holder'[t] = Decided(t)
    BY <1>4, <2>1, SameCopies DEF DecideAndSpawn
  <2>3. ASSUME NEW t \in Target, holder'[t] = "skipped" PROVE ForGood(Stream)'
    <3>1. holder[t] = "skipped" \/ StreamDoomed
      BY <2>2, <2>3 DEF Decided, EmptyTarget
    <3>2. ForGood(Stream)
      BY <1>4, <3>1, SkipNow DEF SkipsHaveCause
    <3>3. QED BY <1>1, <1>2, <3>2
  <2>4. ASSUME NEW t \in Target, holder'[t] = "replaced" PROVE Minted(t)' # {}
    <3>1. holder[t] = "replaced"
      BY <2>2, <2>4 DEF Decided, EmptyTarget
    <3>2. QED BY <2>2, <3>1 DEF SkipsHaveCause
  <2>5. holder[1] \in {"failed", "skipped"} => holder'[1] = holder[1]
    BY <1>1, <2>2 DEF Decided
  <2>6. summary' = "skipped" => (\E r \in Row : ForGood(r)) \/ holder[1] \in {"failed", "skipped"}
    BY <1>4, SkipNow
  <2>7. QED BY <1>2, <2>3, <2>4, <2>5, <2>6 DEF SkipsHaveCause
<1>5. CASE ~Mint /\ ~DecideAndSpawn
  <2>1. holder' = holder /\ summary' = summary
    <3>1. \A kind : Reply(kind) => holder' = holder /\ summary' = summary
      BY DEF Reply, rows
    <3>2. Noise \/ UNCHANGED vars => holder' = holder /\ summary' = summary
      BY DEF Noise, vars, rows
    <3>3. \A r \in Row : AgentEnds(r) \/ ClosePane(r) \/ WaitEnds(r) \/ BackoffEnds(r)
              => holder' = holder /\ summary' = summary
      BY DEF AgentEnds, ClosePane, WaitEnds, BackoffEnds
    <3>4. Scan \/ Detect \/ Retry => holder' = holder /\ summary' = summary
      BY DEF Scan, Detect, Retry
    <3>5. QED BY <1>5, <3>1, <3>2, <3>3, <3>4 DEF Next, Driver, World
  <2>2. RowsFollow
    BY <1>1, <1>5, RowsStep
  <2>3. \A t \in Target : Minted(t)' = Minted(t)
    BY <2>2, SameCopies
  <2>4. QED BY <1>1, <1>2, <2>1, <2>3 DEF SkipsHaveCause
<1>6. QED BY <1>3, <1>4, <1>5

\* A verdict of success is given when nothing failed for good, so nothing was skipped.
LEMMA GreenNow ==
    ASSUME StreamsInv, StreamsInv', SkipsHaveCause', DecideAndSpawn, verdict' = "succeeded"
    PROVE  GreenRan'
<1>1. Finalized(row', holder', summary') = "succeeded"
  BY DEF DecideAndSpawn
<1>2. /\ AllTerminal(row', holder', summary')
      /\ "failed" \notin {row'[r].state : r \in Row} \cup {holder'[t] : t \in Target}
  BY <1>1 DEF Finalized
<1>3. \A r \in Row : ~ForGood(r)'
  BY <1>2 DEF ForGood
<1>4. summary' \in {"pending", "started", "skipped"} /\ holder' \in Placeholders /\ 1 \in Target
      /\ Stream \in Row
  BY StreamsAssumption DEF StreamsInv, RunOK, Row
<1>5. ASSUME NEW t \in Target PROVE holder'[t] = "replaced" /\ Minted(t)' # {}
  <2>1. holder'[t] # "failed" /\ holder'[t] # "pending"
    BY <1>2 DEF AllTerminal
  <2>2. holder'[t] # "skipped"
    BY <1>3, <1>4 DEF SkipsHaveCause
  <2>3. holder'[t] = "replaced"
    BY <1>4, <2>1, <2>2 DEF Placeholders
  <2>4. QED BY <2>3 DEF SkipsHaveCause
<1>6. summary' # "skipped"
  BY <1>3, <1>4, <1>5 DEF SkipsHaveCause
<1>7. summary' # "pending"
  BY <1>2 DEF AllTerminal
<1>8. QED BY <1>4, <1>5, <1>6, <1>7 DEF GreenRan

LEMMA GreenStep ==
    ASSUME StreamsInv, StreamsInv', PassedArming, SkipsHaveCause', GreenRan, [Next]_vars
    PROVE  GreenRan'
<1>1. CASE verdict' = verdict /\ verdict = "succeeded"
  <2>1. pc = "scan"
    BY <1>1 DEF PassedArming
  <2>2. ~Driver
    BY <1>1, <2>1 DEF Driver, Scan, Mint, Detect, Retry, DecideAndSpawn, Pass
  <2>3. UNCHANGED vars
    BY <1>1, <2>2 DEF Next
  <2>4. QED BY <2>3 DEF vars, rows, GreenRan, Minted
<1>2. CASE verdict' # "succeeded"
  BY <1>2 DEF GreenRan
<1>3. CASE DecideAndSpawn
  BY <1>2, <1>3, GreenNow
<1>4. ~DecideAndSpawn => verdict' = verdict
  <2>1. \A kind : Reply(kind) => verdict' = verdict
    BY DEF Reply, rows
  <2>2. Noise \/ UNCHANGED vars => verdict' = verdict
    BY DEF Noise, vars, rows
  <2>3. \A r \in Row : AgentEnds(r) \/ ClosePane(r) \/ WaitEnds(r) \/ BackoffEnds(r)
            => verdict' = verdict
    BY DEF AgentEnds, ClosePane, WaitEnds, BackoffEnds
  <2>4. Scan \/ Mint \/ Detect \/ Retry => verdict' = verdict
    BY DEF Scan, Mint, Detect, Retry
  <2>5. QED BY <2>1, <2>2, <2>3, <2>4 DEF Next, Driver, World
<1>5. QED BY <1>1, <1>2, <1>3, <1>4

LEMMA GreenStart == Init => PassedArming /\ SkipsHaveCause /\ GreenRan
<1> SUFFICES ASSUME Init PROVE PassedArming /\ SkipsHaveCause /\ GreenRan
  OBVIOUS
<1>1. pc = "scan" /\ verdict = "running" /\ summary = "pending" /\ \A t \in Target : holder[t] = "pending"
  BY DEF Init
<1>2. QED BY <1>1 DEF PassedArming, SkipsHaveCause, GreenRan

\* finalize_state and failfast_targets: a run that is green has done the work of its
\* stream.  Every target had a unit and the summary was started; a stream that sent
\* nothing, or a step that was skipped, never ends in a success.
THEOREM GreenMeansDone == Spec => []GreenRan
<1>1. StreamsInv /\ PassedArming /\ SkipsHaveCause /\ [Next]_vars => PassedArming' /\ SkipsHaveCause'
  BY PassedArmingStep, CauseStep
<1>2. StreamsInv /\ StreamsInv' /\ PassedArming /\ SkipsHaveCause' /\ GreenRan /\ [Next]_vars
          => GreenRan'
  BY GreenStep
<1>3. QED BY <1>1, <1>2, GreenStart, StreamsHold, PTL DEF Spec
=================================================================================
