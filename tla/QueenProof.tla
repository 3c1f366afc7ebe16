------------------------------ MODULE QueenProof ------------------------------
(***************************************************************************)
(* The store of Queen, for all constants: its records, inbox and runs.     *)
(***************************************************************************)
EXTENDS QueenStore, Mailbox, FiniteSetTheorems, WellFoundedInduction, TLAPS

(***************************************************************************)
(* Records.  Whoever holds the current revision of a record has read its   *)
(* current content: a copy is never ahead of its record (Behind), and an   *)
(* id is given out once, so no copy of a note is as young as the next      *)
(* note.  A pin has no such id, so the argument for pins needs its life,   *)
(* the write that created it.                                              *)
(***************************************************************************)

\* Numbers, as far as the argument compares them.
Content == [rev : Nat, title : Nat, body : Nat, life : Nat]

Typed ==
    /\ pin \in [Key -> Content]
    /\ note \in [NoteId -> Content]
    /\ copy \in [Agent -> [of : {"nothing", "pin", "note"}, at : Key \cup NoteId \cup {0},
                           what : Content]]
    /\ nextId \in Nat \ {0} /\ writes \in Nat

\* Notes are younger than the next id; so are the copies of notes.
Young ==
    /\ \A i \in NoteId : i >= nextId => ~Exists(note[i])
    /\ \A a \in Agent : copy[a].of = "note" => copy[a].at \in NoteId /\ copy[a].at < nextId

\* A copy of a note is never ahead of it, and the same where the revisions agree.
Behind ==
    \A a \in Agent, i \in NoteId :
        Holds(a, "note", i) /\ Exists(note[i]) =>
            /\ copy[a].what.rev <= note[i].rev
            /\ copy[a].what.rev = note[i].rev => copy[a].what = note[i]

\* The life of a pin is the write that created it, later than every life before.
Lives ==
    /\ \A k \in Key : pin[k].life <= writes
    /\ \A i \in NoteId : note[i].life <= writes
    /\ \A a \in Agent : copy[a].what.life <= writes

PinBehind ==
    \A a \in Agent, k \in Key :
        Holds(a, "pin", k) /\ Exists(pin[k]) /\ copy[a].what.life = pin[k].life =>
            /\ copy[a].what.rev <= pin[k].rev
            /\ copy[a].what.rev = pin[k].rev => copy[a].what = pin[k]

RecordsInv == Typed /\ Young /\ Behind /\ Lives /\ PinBehind

LEMMA RecordsStart == Init => RecordsInv
  <1> SUFFICES ASSUME Init PROVE RecordsInv OBVIOUS
  <1>1. Typed BY DEF Init, Typed, Content, Gone, Nothing
  <1>2. Young BY DEF Init, Young, Exists, Gone, Nothing
  <1>3. Behind BY DEF Init, Behind, Exists, Gone
  <1>4. Lives BY DEF Init, Lives, Gone, Nothing
  <1>5. PinBehind BY DEF Init, PinBehind, Exists, Gone
  <1> QED BY <1>1, <1>2, <1>3, <1>4, <1>5 DEF RecordsInv

LEMMA CreatePinStep ==
    ASSUME RecordsInv, NEW k \in Key, CreatePin(k)
    PROVE  RecordsInv'
  <1> USE DEF RecordsInv
  <1>1. Typed' BY DEF CreatePin, Stamped, Typed, Content
  <1>2. Young' BY DEF CreatePin, Young
  <1>3. Behind' BY DEF CreatePin, Behind, Holds
  <1>4. Lives' BY DEF CreatePin, Stamped, Typed, Content, Lives
  <1>5. PinBehind' BY DEF CreatePin, Stamped, Typed, Content, Lives, PinBehind, Holds
  <1> QED BY <1>1, <1>2, <1>3, <1>4, <1>5

LEMMA PinStep ==
    ASSUME RecordsInv, NEW k \in Key, NEW a \in Agent,
           ListPins(a, k) \/ SetPin(a, k) \/ DeletePin(a, k)
    PROVE  RecordsInv'
  <1> USE DEF RecordsInv
  <1>1. CASE ListPins(a, k)
    <2>1. Typed' BY <1>1 DEF ListPins, Typed, Content
    <2>2. Young' BY <1>1 DEF ListPins, Typed, Content, Young
    <2>3. Behind' BY <1>1 DEF ListPins, Typed, Content, Behind, Holds
    <2>4. Lives' BY <1>1 DEF ListPins, Typed, Content, Lives
    <2>5. PinBehind' BY <1>1 DEF ListPins, Typed, Content, PinBehind, Holds
    <2> QED BY <2>1, <2>2, <2>3, <2>4, <2>5
  <1>3. CASE SetPin(a, k)
    <2>a. Revised(pin[k], 0, writes + 1) \in Content BY DEF Typed, Content, Revised
    <2>1. Typed' BY <1>3, <2>a DEF SetPin, Stamped, Typed, Content
    <2>2. Young' BY <1>3 DEF SetPin, Young
    <2>3. Behind' BY <1>3 DEF SetPin, Behind, Holds
    <2>4. Lives' BY <1>3 DEF SetPin, Stamped, Typed, Content, Revised, Lives
    <2>5. PinBehind' BY <1>3 DEF SetPin, Typed, Content, Revised, PinBehind, Holds, Exists
    <2> QED BY <2>1, <2>2, <2>3, <2>4, <2>5
  <1>4. CASE DeletePin(a, k)
    <2>1. Typed' BY <1>4 DEF DeletePin, Typed, Content, Gone
    <2>2. Young' BY <1>4 DEF DeletePin, Young
    <2>3. Behind' BY <1>4 DEF DeletePin, Behind, Holds
    <2>4. Lives' BY <1>4 DEF DeletePin, Typed, Content, Lives, Gone
    <2>5. PinBehind' BY <1>4 DEF DeletePin, Typed, Content, PinBehind, Holds, Exists, Gone
    <2> QED BY <2>1, <2>2, <2>3, <2>4, <2>5
  <1> QED BY <1>1, <1>3, <1>4

LEMMA CreateNoteStep ==
    ASSUME RecordsInv, CreateNote
    PROVE  RecordsInv'
  <1> USE DEF RecordsInv
  <1>a. /\ note' = [note EXCEPT ![nextId] = [rev |-> 1, title |-> writes + 1,
                                             body |-> writes + 1, life |-> writes + 1]]
        /\ nextId' = nextId + 1 /\ writes' = writes + 1 /\ copy' = copy /\ pin' = pin
    BY DEF CreateNote, NewId, Stamped
  <1>b. [rev |-> 1, title |-> writes + 1, body |-> writes + 1, life |-> writes + 1] \in Content
    BY DEF Typed, Content
  <1>c. nextId' \in Nat \ {0} /\ writes' \in Nat BY <1>a DEF Typed
  <1>1. Typed' BY <1>a, <1>b, <1>c DEF Typed
  <1>2. Young'
    <2>1. \A j \in NoteId : j >= nextId + 1 => j # nextId /\ j >= nextId
      BY RecordsAssumption DEF Typed, NoteId, Content
    <2>2. \A j \in NoteId : j >= nextId' => ~Exists(note'[j])
      BY <1>a, <2>1 DEF Young, Exists, Typed, Content
    <2>3. \A b \in Agent : copy[b].of = "note" => copy[b].at \in NoteId /\ copy[b].at < nextId + 1
      BY RecordsAssumption DEF Young, Typed, NoteId
    <2> QED BY <1>a, <2>2, <2>3 DEF Young
  <1>3. Behind' BY DEF CreateNote, NewId, Typed, Content, Young, Behind, Holds, NoteId
  <1>4. Lives' BY DEF CreateNote, Stamped, Typed, Content, Lives
  <1>5. PinBehind' BY DEF CreateNote, PinBehind, Holds
  <1> QED BY <1>1, <1>2, <1>3, <1>4, <1>5

LEMMA NoteStep ==
    ASSUME RecordsInv, NEW i \in NoteId, NEW a \in Agent,
           GetNote(a, i) \/ UpdateNote(a, i) \/ DeleteNote(a, i)
    PROVE  RecordsInv'
  <1> USE DEF RecordsInv
  <1>2. CASE GetNote(a, i)
    <2>1. Typed' BY <1>2 DEF GetNote, Typed, Content
    <2>2. Young' BY <1>2 DEF GetNote, Typed, Content, Young, NoteId
    <2>3. Behind' BY <1>2 DEF GetNote, Typed, Content, Behind, Holds
    <2>4. Lives' /\ PinBehind'
      <3>1. PinBehind' BY <1>2 DEF GetNote, Typed, Content, PinBehind, Holds
      <3>2. note[i].life <= writes BY DEF Lives
      <3> QED BY <1>2, <3>1, <3>2 DEF GetNote, Typed, Content, Lives
    <2> QED BY <2>1, <2>2, <2>3, <2>4
  <1>3. CASE UpdateNote(a, i)
    <2>1. PICK fields \in SUBSET {"title", "body"} \ {{}} :
            note' = [note EXCEPT ![i] = Revised(note[i],
                         IF "title" \in fields THEN writes + 1 ELSE note[i].title,
                         IF "body" \in fields THEN writes + 1 ELSE note[i].body)]
      BY <1>3 DEF UpdateNote
    <2>a. writes' = writes + 1 /\ writes \in Nat BY <1>3 DEF UpdateNote, Stamped, Typed
    <2>b. /\ note'[i].rev = note[i].rev + 1 /\ note'[i].life = note[i].life
          /\ note'[i] \in Content
      BY <2>1, <2>a DEF Typed, Content, Revised
    <2>2. /\ \A j \in NoteId : j # i => note'[j] = note[j]
          /\ note'[i].rev = note[i].rev + 1 /\ note'[i].life = note[i].life
          /\ note' \in [NoteId -> Content]
      BY <2>1, <2>b DEF Typed
    <2>3. copy' = copy /\ pin' = pin /\ nextId' = nextId /\ writes' = writes + 1
      BY <1>3 DEF UpdateNote, Stamped
    <2>4. Typed' BY <2>2, <2>3 DEF Typed
    <2>5. Young'
      <3>1. ~(i >= nextId) BY <1>3 DEF UpdateNote, Young
      <3> QED BY <2>2, <2>3, <3>1 DEF Young, Exists, Typed, Content
    <2>6. Behind'
      <3>1. Exists(note[i]) BY <1>3 DEF UpdateNote
      <3>2. \A b \in Agent : Holds(b, "note", i) => copy[b].what.rev < note'[i].rev
        BY <2>2, <3>1 DEF Behind, Typed, Content
      <3>3. \A b \in Agent : Holds(b, "note", i)
              => copy[b].what.rev <= note'[i].rev /\ copy[b].what.rev # note'[i].rev
        BY <2>2, <3>2 DEF Typed, Content
      <3> QED BY <2>2, <2>3, <3>3 DEF Behind, Holds
    <2>7. Lives' BY <2>2, <2>3 DEF Lives, Typed, Content
    <2>8. PinBehind' BY <2>3 DEF PinBehind, Holds
    <2> QED BY <2>4, <2>5, <2>6, <2>7, <2>8
  <1>4. CASE DeleteNote(a, i)
    <2>1. Typed' BY <1>4 DEF DeleteNote, Typed, Content, Gone
    <2>2. Young' BY <1>4 DEF DeleteNote, Typed, Content, Young, Exists, Gone
    <2>3. Behind' BY <1>4 DEF DeleteNote, Typed, Content, Behind, Holds, Exists, Gone
    <2>4. Lives' BY <1>4 DEF DeleteNote, Typed, Content, Lives, Gone
    <2>5. PinBehind' BY <1>4 DEF DeleteNote, PinBehind, Holds
    <2> QED BY <2>1, <2>2, <2>3, <2>4, <2>5
  <1> QED BY <1>2, <1>3, <1>4

LEMMA RecordsHold == Spec => []RecordsInv
  <1>1. Init => RecordsInv BY RecordsStart
  <1>2. ASSUME RecordsInv, UNCHANGED vars PROVE RecordsInv'
    BY <1>2 DEF RecordsInv, vars, Typed, Young, Behind, Lives, PinBehind, Holds
  <1>3. ASSUME RecordsInv, Next PROVE RecordsInv'
    <2>1. ASSUME NEW k \in Key, CreatePin(k) PROVE RecordsInv' BY <1>3, <2>1, CreatePinStep
    <2>2. ASSUME NEW k \in Key, NEW a \in Agent, ListPins(a, k) \/ SetPin(a, k) \/ DeletePin(a, k)
          PROVE  RecordsInv'
      BY <1>3, <2>2, PinStep
    <2>3. ASSUME CreateNote PROVE RecordsInv' BY <1>3, <2>3, CreateNoteStep
    <2>4. ASSUME NEW i \in NoteId, NEW a \in Agent,
                 GetNote(a, i) \/ UpdateNote(a, i) \/ DeleteNote(a, i)
          PROVE  RecordsInv'
      BY <1>3, <2>4, NoteStep
    <2> QED BY <1>3, <2>1, <2>2, <2>3, <2>4 DEF Next
  <1> QED BY <1>1, <1>2, <1>3, PTL DEF Spec

\* update_note and delete_note: an agent whose revision is still current has read what
\* it replaces, however many others have written, deleted and created meanwhile.
THEOREM NotesAreSafe == Spec => []NoteRevisionNamesContent
  <1>1. RecordsInv => NoteRevisionNamesContent BY DEF RecordsInv, Behind, NoteRevisionNamesContent
  <1> QED BY <1>1, RecordsHold, PTL

\* set_pin and delete_pin: the same of a pin within one life.
THEOREM PinsAreSafeInOneLife == Spec => []PinRevisionNamesContent
  <1>1. RecordsInv => PinRevisionNamesContent BY DEF RecordsInv, PinBehind, PinRevisionNamesContent
  <1> QED BY <1>1, RecordsHold, PTL

(***************************************************************************)
(* The inbox.  Nobody sleeps through its mail, and no channel outlives its *)
(* callers.  The argument is Bound: while a call runs, its receiver        *)
(* listens to the channel that the table names for its mailbox.  The entry *)
(* can only go with its last receiver, because is_ours_and_idle looks at   *)
(* both.                                                                   *)
(***************************************************************************)

\* The shape of a call: what it holds at each of its steps.
Held ==
    \A w \in Waiter :
        /\ pc[w] = "idle" => mine[w] = NoChannel
        /\ pc[w] # "idle" => mine[w] # NoChannel
        /\ pc[w] \in {"idle", "drop"} => receiver[w] = NoChannel
        /\ pc[w] \in {"read", "select", "leave"} => receiver[w] = mine[w]

\* A channel serves one mailbox.
OneBox ==
    /\ \A v, w \in Waiter : mine[v] = mine[w] /\ mine[v] # NoChannel => Box[v] = Box[w]
    /\ \A w \in Waiter, a \in Address : channel[a] = mine[w] /\ channel[a] # NoChannel => a = Box[w]
    /\ \A a, m \in Address : channel[a] = channel[m] /\ channel[a] # NoChannel => a = m

\* A receiver listens to the channel of its mailbox.
Bound == \A w \in Waiter : receiver[w] # NoChannel => channel[Box[w]] = receiver[w]

MailInv == MailTypeOK /\ Held /\ OneBox /\ Bound /\ NoLostWakeup /\ NoLeak

Message == [from : Address, to : Address, acked : BOOLEAN]

\* A sequence of messages stays one when the acknowledgements of its entries change.
LEMMA Remarked ==
    ASSUME NEW s \in Seq(Message), NEW t, DOMAIN t = DOMAIN s,
           \A i \in DOMAIN s : t[i] \in Message, t = [i \in DOMAIN s |-> t[i]]
    PROVE  t \in Seq(Message) /\ Len(t) = Len(s)
  <1>1. Len(s) \in Nat /\ DOMAIN s = 1 .. Len(s) OBVIOUS
  <1>2. t \in [1 .. Len(s) -> Message] BY <1>1
  <1> QED BY <1>1, <1>2

LEMMA InsertType ==
    ASSUME MailTypeOK, MailboxAssumption, NEW before \in Seq(Message), Len(before) = Len(inbox),
           NEW from \in Address, NEW to \in Address, Insert(before, from, to)
    PROVE  MailTypeOK'
  <1>1. inbox' = Append(before, [from |-> from, to |-> to, acked |-> FALSE]) BY DEF Insert
  <1>2. [from |-> from, to |-> to, acked |-> FALSE] \in Message BY DEF Message
  <1>3. inbox' \in Seq(Message) /\ Len(inbox') = Len(before) + 1 BY <1>1, <1>2
  <1>4. Len(inbox') <= MaxMessages BY <1>3 DEF Insert, MailTypeOK, Message, MailboxAssumption
  <1> QED BY <1>3, <1>4 DEF Insert, MailTypeOK, Message, waiters

\* Every step keeps the types.
LEMMA TypeStep == ASSUME MailTypeOK, MailboxAssumption, [MailNext]_mailVars PROVE MailTypeOK'
  <1>0. inbox \in Seq(Message) BY DEF MailTypeOK, Message
  <1>a. \A i \in Id : inbox[i] \in Message BY <1>0 DEF Id
  <1>1. ASSUME NEW from \in Address, NEW to \in Address, SendInbox(from, to) PROVE MailTypeOK'
    BY <1>0, <1>1, InsertType DEF SendInbox
  <1>2. ASSUME NEW i \in Id, ReplyInbox(i) PROVE MailTypeOK'
    <2> DEFINE marked == [inbox EXCEPT ![i].acked = TRUE]
    <2>1. marked \in Seq(Message) /\ Len(marked) = Len(inbox)
      <3>1. \A j \in DOMAIN inbox : marked[j] \in Message BY <1>a DEF Message, Id
      <3>2. DOMAIN marked = DOMAIN inbox /\ marked = [j \in DOMAIN inbox |-> marked[j]] OBVIOUS
      <3> HIDE DEF marked
      <3> QED BY <1>0, <3>1, <3>2, Remarked
    <2>2. inbox[i].to \in Address /\ inbox[i].from \in Address BY <1>2, <1>a DEF Message
    <2> HIDE DEF marked
    <2>3. Insert(marked, inbox[i].to, inbox[i].from) BY <1>2 DEF ReplyInbox, marked
    <2> QED BY <2>1, <2>2, <2>3, InsertType
  <1>3. ASSUME NEW i \in Id, AckInbox(i) PROVE MailTypeOK'
    <2>1. \A j \in DOMAIN inbox : inbox'[j] \in Message BY <1>3, <1>a DEF AckInbox, Message, Id
    <2>2. DOMAIN inbox' = DOMAIN inbox /\ inbox' = [j \in DOMAIN inbox |-> inbox'[j]]
      BY <1>3 DEF AckInbox
    <2>3. inbox' \in Seq(Message) /\ Len(inbox') = Len(inbox) BY <1>0, <2>1, <2>2, Remarked
    <2> QED BY <1>3, <2>3 DEF AckInbox, MailTypeOK, waiters, Message
  <1>4. ASSUME NEW from \in Address, AckInboxFromSender(from) PROVE MailTypeOK'
    <2>1. inbox' = [j \in DOMAIN inbox |-> [inbox[j] EXCEPT !.acked = @ \/ inbox[j].from = from]]
      BY <1>4 DEF AckInboxFromSender, Id
    <2>2. \A j \in DOMAIN inbox : inbox'[j] \in Message
      <3> TAKE j \in DOMAIN inbox
      <3>1. inbox[j] \in Message BY <1>a DEF Id
      <3>2. inbox'[j] = [inbox[j] EXCEPT !.acked = @ \/ inbox[j].from = from] BY <2>1
      <3> QED BY <3>1, <3>2 DEF Message
    <2>3. DOMAIN inbox' = DOMAIN inbox /\ inbox' = [j \in DOMAIN inbox |-> inbox'[j]] BY <2>1
    <2>4. inbox' \in Seq(Message) /\ Len(inbox') = Len(inbox) BY <1>0, <2>2, <2>3, Remarked
    <2> QED BY <1>4, <2>4 DEF AckInboxFromSender, MailTypeOK, waiters, Message
  <1>5. CASE NotifyInbox BY <1>5 DEF NotifyInbox, MailTypeOK
  <1>6. ASSUME NEW w \in Waiter, Wait(w) PROVE MailTypeOK'
    <2>1. CASE SubscribeMailbox(w) BY <2>1, MailboxAssumption DEF SubscribeMailbox, MailTypeOK
    <2>2. CASE Read(w)
      <3>1. PageOf(w) \subseteq Nat
        <4>1. DOMAIN inbox \subseteq Nat BY <1>0
        <4> QED BY <4>1 DEF PageOf, Mail, Id
      <3>2. cursor' \in [Waiter -> Nat] BY <2>2, <3>1 DEF Read, MailTypeOK
      <3>3. pc' \in [Waiter -> {"idle", "read", "select", "leave", "drop"}]
        BY <2>2 DEF Read, Leave, MailTypeOK
      <3> QED BY <2>2, <3>2, <3>3 DEF Read, MailTypeOK
    <2>3. CASE Wake(w) BY <2>3 DEF Wake, MailTypeOK
    <2>4. CASE Cancelled(w) BY <2>4 DEF Cancelled, Leave, MailTypeOK
    <2>5. CASE TimedOut(w) BY <2>5 DEF TimedOut, Leave, MailTypeOK
    <2>6. CASE Cancel(w) BY <2>6 DEF Cancel, MailTypeOK
    <2>7. CASE ReleaseReceiver(w) BY <2>7 DEF ReleaseReceiver, MailTypeOK
    <2>8. CASE DropEntry(w) BY <2>8 DEF DropEntry, MailTypeOK
    <2> QED BY <1>6, <2>1, <2>2, <2>3, <2>4, <2>5, <2>6, <2>7, <2>8 DEF Wait
  <1>7. CASE UNCHANGED mailVars BY <1>7 DEF mailVars, waiters, MailTypeOK
  <1> QED BY <1>1, <1>2, <1>3, <1>4, <1>5, <1>6, <1>7 DEF MailNext, Write

\* Writers touch no call and no channel.
LEMMA WritersApart == ASSUME Write PROVE UNCHANGED waiters
  BY DEF Write, SendInbox, ReplyInbox, AckInbox, AckInboxFromSender, Insert

LEMMA HeldStep ==
    ASSUME MailTypeOK, MailboxAssumption, Held, [MailNext]_mailVars PROVE Held'
  <1>1. CASE Write \/ UNCHANGED mailVars BY <1>1, WritersApart DEF Held, waiters, mailVars
  <1>2. CASE NotifyInbox BY <1>2 DEF NotifyInbox, Held
  <1>3. ASSUME NEW w \in Waiter, Wait(w) PROVE Held'
    <2>1. CASE SubscribeMailbox(w)
      <3>1. PICK c \in Channel : mine' = [mine EXCEPT ![w] = c]
                                 /\ receiver' = [receiver EXCEPT ![w] = c]
        BY <2>1 DEF SubscribeMailbox
      <3> QED BY <2>1, <3>1, MailboxAssumption DEF SubscribeMailbox, Held, MailTypeOK
    <2>2. CASE Read(w) BY <2>2 DEF Read, Leave, Held, MailTypeOK
    <2>3. CASE Wake(w) BY <2>3 DEF Wake, Held, MailTypeOK
    <2>4. CASE Cancelled(w) BY <2>4 DEF Cancelled, Leave, Held, MailTypeOK
    <2>5. CASE TimedOut(w) BY <2>5 DEF TimedOut, Leave, Held, MailTypeOK
    <2>6. CASE Cancel(w) BY <2>6 DEF Cancel, Held, MailTypeOK
    <2>7. CASE ReleaseReceiver(w) BY <2>7 DEF ReleaseReceiver, Held, MailTypeOK
    <2>8. CASE DropEntry(w) BY <2>8 DEF DropEntry, Held, MailTypeOK
    <2> QED BY <1>3, <2>1, <2>2, <2>3, <2>4, <2>5, <2>6, <2>7, <2>8 DEF Wait
  <1> QED BY <1>1, <1>2, <1>3 DEF MailNext

\* Only a subscription and the end of a call change who holds which channel.
LEMMA OneBoxStep ==
    ASSUME MailTypeOK, MailboxAssumption, Held, OneBox, [MailNext]_mailVars PROVE OneBox'
  <1>1. CASE UNCHANGED <<mine, channel>> BY <1>1 DEF OneBox
  <1>2. ASSUME NEW w \in Waiter, SubscribeMailbox(w) PROVE OneBox'
    <2>1. PICK c \in Channel :
            /\ IF channel[Box[w]] = NoChannel THEN c \in Unused ELSE c = channel[Box[w]]
            /\ channel' = [channel EXCEPT ![Box[w]] = c]
            /\ mine' = [mine EXCEPT ![w] = c]
      BY <1>2 DEF SubscribeMailbox
    <2>2. Box[w] \in Address /\ c # NoChannel BY MailboxAssumption
    <2>3. CASE channel[Box[w]] = NoChannel
      <3>1. /\ \A v \in Waiter : mine[v] # c
            /\ \A a \in Address : channel[a] # c
        BY <2>1, <2>3 DEF Unused
      <3> QED BY <2>1, <2>2, <3>1 DEF OneBox, MailTypeOK
    <2>4. CASE channel[Box[w]] # NoChannel
      <3>1. c = channel[Box[w]] /\ channel' = channel BY <2>1, <2>4 DEF MailTypeOK
      <3> QED BY <2>1, <2>2, <3>1 DEF OneBox, MailTypeOK
    <2> QED BY <2>3, <2>4
  <1>3. ASSUME NEW w \in Waiter, DropEntry(w) PROVE OneBox'
    BY <1>3, MailboxAssumption DEF DropEntry, OneBox, MailTypeOK
  <1>4. Write => UNCHANGED <<mine, channel>> BY WritersApart DEF waiters
  <1>5. ASSUME NEW w \in Waiter, Wait(w), ~SubscribeMailbox(w), ~DropEntry(w)
        PROVE  UNCHANGED <<mine, channel>>
    BY <1>5 DEF Wait, Read, Wake, Cancelled, TimedOut, Cancel, ReleaseReceiver
  <1>6. NotifyInbox \/ UNCHANGED mailVars => UNCHANGED <<mine, channel>>
    BY DEF NotifyInbox, mailVars, waiters
  <1> QED BY <1>1, <1>2, <1>3, <1>4, <1>5, <1>6 DEF MailNext

\* The entry goes with its last receiver and never before.
LEMMA BoundStep ==
    ASSUME MailTypeOK, MailboxAssumption, Held, OneBox, Bound, [MailNext]_mailVars PROVE Bound'
  <1>1. CASE UNCHANGED <<receiver, channel>> BY <1>1 DEF Bound
  <1>2. ASSUME NEW w \in Waiter, SubscribeMailbox(w) PROVE Bound'
    <2>1. PICK c \in Channel :
            /\ IF channel[Box[w]] = NoChannel THEN c \in Unused ELSE c = channel[Box[w]]
            /\ channel' = [channel EXCEPT ![Box[w]] = c]
            /\ receiver' = [receiver EXCEPT ![w] = c]
      BY <1>2 DEF SubscribeMailbox
    <2>2. Box \in [Waiter -> Address] BY MailboxAssumption
    <2>3. ASSUME NEW v \in Waiter, v # w, receiver[v] # NoChannel
          PROVE  channel'[Box[v]] = receiver[v]
      <3>1. channel[Box[v]] = receiver[v] BY <2>3 DEF Bound
      <3> QED BY <2>1, <2>2, <2>3, <3>1 DEF MailTypeOK
    <2> QED BY <2>1, <2>2, <2>3 DEF Bound, MailTypeOK
  <1>3. ASSUME NEW w \in Waiter, ReleaseReceiver(w) PROVE Bound'
    BY <1>3 DEF ReleaseReceiver, Bound, MailTypeOK
  <1>4. ASSUME NEW w \in Waiter, DropEntry(w) PROVE Bound'
    <2>1. Box \in [Waiter -> Address] BY MailboxAssumption
    <2>2. ASSUME NEW v \in Waiter, receiver[v] # NoChannel PROVE channel'[Box[v]] = receiver[v]
      <3>1. channel[Box[v]] = receiver[v] BY <2>2 DEF Bound
      <3>2. Box[v] = Box[w] => ~IsOursAndIdle(w) BY <3>1 DEF IsOursAndIdle
      <3> QED BY <1>4, <2>1, <3>1, <3>2 DEF DropEntry, MailTypeOK
    <2>3. receiver' = receiver BY <1>4 DEF DropEntry
    <2> QED BY <2>2, <2>3 DEF Bound
  <1>5. Write => UNCHANGED <<receiver, channel>> BY WritersApart DEF waiters
  <1>6. ASSUME NEW w \in Waiter, Wait(w), ~SubscribeMailbox(w), ~DropEntry(w),
               ~ReleaseReceiver(w)
        PROVE  UNCHANGED <<receiver, channel>>
    BY <1>6 DEF Wait, Read, Wake, Cancelled, TimedOut, Cancel
  <1>7. NotifyInbox \/ UNCHANGED mailVars => UNCHANGED <<receiver, channel>>
    BY DEF NotifyInbox, mailVars, waiters
  <1> QED BY <1>1, <1>2, <1>3, <1>4, <1>5, <1>6, <1>7 DEF MailNext

\* A new message leaves the mail of every other mailbox as it was.
LEMMA NewMail ==
    ASSUME MailTypeOK, MailboxAssumption, NEW before \in Seq(Message), Len(before) = Len(inbox),
           \A i \in Id : before[i].to = inbox[i].to /\ (inbox[i].acked => before[i].acked),
           NEW from \in Address, NEW to \in Address, Insert(before, from, to),
           NEW w \in Waiter, Box[w] # to, Mail(w) = {}
    PROVE  Mail(w)' = {}
  <1>1. /\ inbox' = Append(before, [from |-> from, to |-> to, acked |-> FALSE])
        /\ cursor' = cursor
    BY DEF Insert, waiters
  <1>2. DOMAIN inbox = DOMAIN before /\ DOMAIN before = 1 .. Len(before)
    BY DEF MailTypeOK
  <1>3. DOMAIN inbox' = 1 .. Len(before) + 1 /\ inbox'[Len(before) + 1].to = to
    BY <1>1
  <1>4. \A i \in DOMAIN inbox : inbox'[i] = before[i] BY <1>1, <1>2
  <1>5. ASSUME NEW i \in DOMAIN inbox', i > cursor[w], inbox'[i].to = Box[w], ~inbox'[i].acked
        PROVE  FALSE
    <2>1. i # Len(before) + 1 BY <1>3, <1>5
    <2>2. i \in Id BY <1>2, <1>3, <1>5, <2>1 DEF Id
    <2>3. i \in Mail(w) BY <1>4, <1>5, <2>2 DEF Mail, Id
    <2> QED BY <2>3
  <1> QED BY <1>1, <1>5 DEF Mail, Id

\* Acknowledging only takes mail away.
LEMMA LessMail ==
    ASSUME DOMAIN inbox' = DOMAIN inbox, cursor' = cursor,
           \A i \in DOMAIN inbox :
                inbox'[i].to = inbox[i].to /\ (inbox[i].acked => inbox'[i].acked),
           NEW w \in Waiter
    PROVE  Mail(w)' \subseteq Mail(w)
  BY DEF Mail, Id

\* Whoever writes is about to notify; whoever notifies reaches every receiver of the
\* mailbox, since they all listen to the channel in the table.
LEMMA WakeupStep ==
    ASSUME MailInv, MailboxAssumption, [MailNext]_mailVars PROVE NoLostWakeup'
  <1>t. MailTypeOK BY DEF MailInv
  <1>s. inbox \in Seq(Message) BY <1>t DEF MailTypeOK, Message
  <1>i. \A i \in Id : inbox[i] \in Message BY <1>s DEF Id
  <1>a. inbox \in Seq(Message) /\ \A i \in Id : inbox[i] \in Message BY <1>s, <1>i
  <1> USE DEF MailInv
  <1>b. Box \in [Waiter -> Address] BY MailboxAssumption
  <1>1. ASSUME NEW before \in Seq(Message), Len(before) = Len(inbox),
               \A i \in Id : before[i].to = inbox[i].to /\ (inbox[i].acked => before[i].acked),
               NEW from \in Address, NEW to \in Address, Insert(before, from, to)
        PROVE  NoLostWakeup'
    <2> SUFFICES ASSUME NEW w \in Waiter, pc'[w] = "select", Mail(w)' # {}
                 PROVE  changed'[w] \/ writer' = Box[w]
      BY DEF NoLostWakeup
    <2>1. pc' = pc /\ changed' = changed /\ writer' = to /\ writer = NoOne
      BY <1>1 DEF Insert, waiters
    <2>2. CASE Box[w] = to BY <2>1, <2>2
    <2>3. CASE Box[w] # to
      <3>1. Mail(w) # {} BY <1>1, <2>3, NewMail
      <3>2. Box[w] # NoOne BY <1>b, MailboxAssumption
      <3> QED BY <2>1, <3>1, <3>2 DEF NoLostWakeup
    <2> QED BY <2>2, <2>3
  <1>2. ASSUME NEW from \in Address, NEW to \in Address, SendInbox(from, to) PROVE NoLostWakeup'
    BY <1>a, <1>1, <1>2 DEF SendInbox
  <1>3. ASSUME NEW i \in Id, ReplyInbox(i) PROVE NoLostWakeup'
    <2> DEFINE marked == [inbox EXCEPT ![i].acked = TRUE]
    <2>1. marked \in Seq(Message) /\ Len(marked) = Len(inbox)
      <3>1. \A j \in DOMAIN inbox : marked[j] \in Message BY <1>a DEF Message, Id
      <3>2. DOMAIN marked = DOMAIN inbox /\ marked = [j \in DOMAIN inbox |-> marked[j]] OBVIOUS
      <3> HIDE DEF marked
      <3> QED BY <1>a, <3>1, <3>2, Remarked
    <2>2. \A j \in Id : marked[j].to = inbox[j].to /\ (inbox[j].acked => marked[j].acked)
      BY <1>a DEF Message, Id
    <2>3. inbox[i].to \in Address /\ inbox[i].from \in Address BY <1>3, <1>a DEF Message
    <2> HIDE DEF marked
    <2>4. Insert(marked, inbox[i].to, inbox[i].from) BY <1>3 DEF ReplyInbox, marked
    <2> QED BY <1>1, <2>1, <2>2, <2>3, <2>4
  <1>4. ASSUME UNCHANGED <<writer, waiters>>, \A w \in Waiter : Mail(w)' \subseteq Mail(w)
        PROVE  NoLostWakeup'
    BY <1>4 DEF NoLostWakeup, waiters
  <1>5. ASSUME NEW i \in Id, AckInbox(i) PROVE NoLostWakeup'
    <2>1. \A j \in DOMAIN inbox :
            inbox'[j].to = inbox[j].to /\ (inbox[j].acked => inbox'[j].acked)
      BY <1>5, <1>a DEF AckInbox, Message, Id
    <2>2. DOMAIN inbox' = DOMAIN inbox /\ UNCHANGED <<writer, waiters>> BY <1>5 DEF AckInbox
    <2> QED BY <1>4, <2>1, <2>2, LessMail DEF waiters
  <1>6. ASSUME NEW from \in Address, AckInboxFromSender(from) PROVE NoLostWakeup'
    <2>1. inbox' = [j \in DOMAIN inbox |-> [inbox[j] EXCEPT !.acked = @ \/ inbox[j].from = from]]
      BY <1>6 DEF AckInboxFromSender, Id
    <2>2. ASSUME NEW j \in DOMAIN inbox
          PROVE  inbox'[j].to = inbox[j].to /\ (inbox[j].acked => inbox'[j].acked)
      <3>1. inbox[j] \in Message BY <1>a DEF Id
      <3>2. inbox'[j] = [inbox[j] EXCEPT !.acked = @ \/ inbox[j].from = from] BY <2>1
      <3> QED BY <3>1, <3>2 DEF Message
    <2>3. DOMAIN inbox' = DOMAIN inbox BY <2>1
    <2>4. UNCHANGED <<writer, waiters>> BY <1>6 DEF AckInboxFromSender
    <2> QED BY <1>4, <2>2, <2>3, <2>4, LessMail DEF waiters
  <1>7. CASE NotifyInbox
    <2> SUFFICES ASSUME NEW w \in Waiter, pc'[w] = "select", Mail(w)' # {}
                 PROVE  changed'[w]
      BY DEF NoLostWakeup
    <2>1. pc[w] = "select" /\ Mail(w) # {} BY <1>7 DEF NotifyInbox, Mail, Id
    <2>2. receiver[w] # NoChannel /\ channel[Box[w]] = receiver[w]
      BY <2>1 DEF Held, Bound
    <2>3. changed[w] \/ writer = Box[w] BY <2>1 DEF NoLostWakeup
    <2> QED BY <1>7, <2>2, <2>3 DEF NotifyInbox
  <1>8. ASSUME NEW w \in Waiter, Wait(w) PROVE NoLostWakeup'
    <2>1. inbox' = inbox /\ writer' = writer
      BY <1>8 DEF Wait, SubscribeMailbox, Read, Wake, Cancelled, TimedOut, Cancel,
                  ReleaseReceiver, DropEntry
    <2>2. \A v \in Waiter \ {w} :
            pc'[v] = pc[v] /\ cursor'[v] = cursor[v] /\ changed'[v] = changed[v]
      BY <1>8 DEF Wait, SubscribeMailbox, Read, Wake, Cancelled, TimedOut, Cancel,
                  ReleaseReceiver, DropEntry, Leave, MailTypeOK
    <2>3. \A v \in Waiter \ {w} : Mail(v)' = Mail(v) BY <2>1, <2>2 DEF Mail, Id
    <2>4. pc'[w] = "select" =>
            Mail(w)' = {} \/ (pc[w] = "select" /\ UNCHANGED <<cursor, changed>>)
      <3>1. CASE Read(w) BY <2>1, <3>1 DEF Read, Leave, Mail, Id, MailTypeOK
      <3>2. CASE Cancel(w) BY <3>2 DEF Cancel
      <3>3. CASE ~Read(w) /\ ~Cancel(w)
        BY <1>8, <3>3 DEF Wait, SubscribeMailbox, Wake, Cancelled, TimedOut, Leave,
                          ReleaseReceiver, DropEntry, MailTypeOK
      <3> QED BY <3>1, <3>2, <3>3
    <2>5. pc'[w] = "select" /\ Mail(w)' # {} => changed'[w] \/ writer' = Box[w]
      BY <2>1, <2>4 DEF NoLostWakeup, Mail, Id
    <2> QED BY <2>1, <2>2, <2>3, <2>5 DEF NoLostWakeup
  <1>9. CASE UNCHANGED mailVars BY <1>9 DEF NoLostWakeup, Mail, Id, mailVars, waiters
  <1> QED BY <1>2, <1>3, <1>5, <1>6, <1>7, <1>8, <1>9 DEF MailNext, Write

\* The call that leaves an entry behind leaves it to another one.
LEMMA LeakStep ==
    ASSUME MailInv, MailboxAssumption, [MailNext]_mailVars PROVE NoLeak'
  <1> USE DEF MailInv
  <1>b. Box \in [Waiter -> Address] /\ NoChannel \notin Channel BY MailboxAssumption
  <1>1. CASE UNCHANGED <<channel, pc, mine>> BY <1>1 DEF NoLeak
  <1>2. ASSUME NEW w \in Waiter, SubscribeMailbox(w) PROVE NoLeak'
    <2>1. PICK c \in Channel :
            /\ channel' = [channel EXCEPT ![Box[w]] = c]
            /\ mine' = [mine EXCEPT ![w] = c]
      BY <1>2 DEF SubscribeMailbox
    <2>2. pc[w] = "idle" /\ pc' = [pc EXCEPT ![w] = "read"] BY <1>2 DEF SubscribeMailbox
    <2>3. ASSUME NEW a \in Address, a # Box[w], channel'[a] # NoChannel
          PROVE  \E v \in Waiter : Box[v] = a /\ pc'[v] # "idle" /\ mine'[v] = channel'[a]
      <3>1. PICK v \in Waiter : Box[v] = a /\ pc[v] # "idle" /\ mine[v] = channel[a]
        BY <1>b, <2>1, <2>3 DEF NoLeak, MailTypeOK
      <3> QED BY <1>b, <2>1, <2>2, <2>3, <3>1 DEF MailTypeOK
    <2>4. pc'[w] # "idle" /\ mine'[w] = channel'[Box[w]] BY <1>b, <2>1, <2>2 DEF MailTypeOK
    <2> QED BY <2>3, <2>4 DEF NoLeak
  <1>3. ASSUME NEW w \in Waiter, DropEntry(w) PROVE NoLeak'
    <2>1. /\ channel' = [channel EXCEPT ![Box[w]] = IF IsOursAndIdle(w) THEN NoChannel ELSE @]
          /\ mine' = [mine EXCEPT ![w] = NoChannel]
          /\ pc' = [pc EXCEPT ![w] = "idle"]
      BY <1>3 DEF DropEntry
    <2> SUFFICES ASSUME NEW a \in Address, channel'[a] # NoChannel
                 PROVE  \E v \in Waiter : Box[v] = a /\ pc'[v] # "idle" /\ mine'[v] = channel'[a]
      BY DEF NoLeak
    <2>2. channel'[a] = channel[a] /\ (a = Box[w] => ~IsOursAndIdle(w))
      BY <1>b, <2>1 DEF MailTypeOK
    <2>3. PICK v \in Waiter : Box[v] = a /\ pc[v] # "idle" /\ mine[v] = channel[a]
      BY <2>2 DEF NoLeak
    <2>4. CASE v # w BY <2>1, <2>2, <2>3, <2>4 DEF MailTypeOK
    <2>5. CASE v = w
      <3>1. PICK u \in Waiter : receiver[u] = mine[w] BY <2>2, <2>3, <2>5 DEF IsOursAndIdle
      <3>2. receiver[u] # NoChannel /\ receiver[u] = channel[a] BY <2>2, <2>3, <2>5, <3>1
      <3>3. pc[u] \in {"read", "select", "leave"} BY <3>2 DEF Held, MailTypeOK
      <3>4. mine[u] = channel[a] BY <3>2, <3>3 DEF Held
      <3>5. Box[u] = a BY <2>2, <3>2, <3>4 DEF OneBox
      <3>6. pc[w] = "drop" BY <1>3 DEF DropEntry
      <3> QED BY <2>1, <2>2, <3>3, <3>4, <3>5, <3>6 DEF MailTypeOK
    <2> QED BY <2>4, <2>5
  <1>4. ASSUME NEW w \in Waiter, Wait(w), ~SubscribeMailbox(w), ~DropEntry(w) PROVE NoLeak'
    <2>1. channel' = channel /\ mine' = mine
      BY <1>4 DEF Wait, Read, Wake, Cancelled, TimedOut, Cancel, ReleaseReceiver
    <2>2. \A v \in Waiter : pc[v] # "idle" => pc'[v] # "idle"
      BY <1>4 DEF Wait, Read, Wake, Cancelled, TimedOut, Cancel, ReleaseReceiver, Leave, MailTypeOK
    <2> QED BY <2>1, <2>2 DEF NoLeak
  <1>5. Write => UNCHANGED <<channel, pc, mine>> BY WritersApart DEF waiters
  <1>6. NotifyInbox \/ UNCHANGED mailVars => UNCHANGED <<channel, pc, mine>>
    BY DEF NotifyInbox, mailVars, waiters
  <1> QED BY <1>1, <1>2, <1>3, <1>4, <1>5, <1>6 DEF MailNext

LEMMA MailStart == ASSUME MailboxAssumption, MailInit PROVE MailInv
  <1>1. MailTypeOK BY MailboxAssumption DEF MailInit, MailTypeOK
  <1>2. Held BY DEF MailInit, Held
  <1>3. OneBox BY DEF MailInit, OneBox
  <1>4. Bound BY DEF MailInit, Bound
  <1>5. NoLostWakeup BY DEF MailInit, NoLostWakeup
  <1>6. NoLeak BY DEF MailInit, NoLeak
  <1> QED BY <1>1, <1>2, <1>3, <1>4, <1>5, <1>6 DEF MailInv

LEMMA MailHolds == MailSpec => []MailInv
  <1>1. MailInit => MailInv BY MailStart, MailboxAssumption
  <1>2. MailInv /\ [MailNext]_mailVars => MailInv'
    BY TypeStep, HeldStep, OneBoxStep, BoundStep, WakeupStep, LeakStep, MailboxAssumption
       DEF MailInv
  <1> QED BY <1>1, <1>2, PTL DEF MailSpec

\* queen_store.rs: the inbox, its channels and its callers keep their types, and the
\* project its limit of messages.
THEOREM MailTypeCorrect == MailSpec => []MailTypeOK
  BY MailHolds, PTL DEF MailInv

\* await_inbox and notify_inbox: no caller sleeps while mail for it lies unread and no
\* notification is on its way, whoever subscribes, cancels or leaves meanwhile.
THEOREM NobodySleepsThroughMail == MailSpec => []NoLostWakeup
  BY MailHolds, PTL DEF MailInv

\* MailboxSubscription::drop: an entry of mailbox_waiters always has a call it belongs
\* to, so an idle store holds none.
THEOREM NoChannelLeaks == MailSpec => []NoLeak
  BY MailHolds, PTL DEF MailInv

(***************************************************************************)
(* The runs.  A finished run that the registry lets go is older than all   *)
(* it goes on showing (Passed), so what a prune counts as newer than a run *)
(* that is shown is shown too, or live.                                    *)
(***************************************************************************)

Finished == {"succeeded", "failed", "cancelled"}
Snapshot == {Absent} \cup [state : Finished \cup {"running"}, started : Nat, ended : Nat]

\* A snapshot ends after it starts, and nothing ends in the future.
Dated(x) ==
    /\ x.started <= EndedAt(x) /\ EndedAt(x) <= clock
    /\ x.state = "running" => x.ended = 0

RunsTyped ==
    /\ {reg, row, unsaved} \subseteq [Run -> Snapshot]
    /\ clock \in Nat \ {0}
    /\ \A r \in Run : Dated(reg[r]) /\ Dated(row[r]) /\ Dated(unsaved[r])

Written(q) == {row[q], unsaved[q]} \ {Absent}

\* x, a snapshot of q that the registry has let go, is older than all it shows.
Older(x, q, r) ==
    EndedAt(reg[r]) > EndedAt(x) \/ (EndedAt(reg[r]) = EndedAt(x) /\ r > q)
Passed(q, x) ==
    /\ \A r \in Over(reg) : Older(x, q, r)
    /\ EndedAt(x) = clock => Cardinality(Over(reg)) >= ShownCap

RunsInv ==
    /\ RunsTyped
    /\ Cardinality(Over(reg)) <= ShownCap /\ Cardinality(Live) <= MaxLive
    /\ \A q \in Run : \A x \in Written(q) :
           /\ reg[q] = Absent => Passed(q, x)
           /\ reg[q] # Absent => EndedAt(x) <= EndedAt(reg[q])
    /\ \A r \in Over(reg) : /\ unsaved[r] \in {Absent, reg[r]}
                            /\ unsaved[r] = Absent => row[r] = reg[r]

LEMMA Sizes ==
    /\ {ShownCap, KeptCap, MaxLive} \subseteq Nat /\ KeptCap >= ShownCap + MaxLive
    /\ Run \subseteq Nat
    /\ \A S \in SUBSET Run : IsFiniteSet(S) /\ Cardinality(S) \in Nat
    /\ \A S \in SUBSET Run : \A T \in SUBSET S :
           Cardinality(T) <= Cardinality(S) /\ (Cardinality(S) = Cardinality(T) => S = T)
    /\ \A S \in SUBSET Run : \A x :
           /\ Cardinality(S \ {x}) = IF x \in S THEN Cardinality(S) - 1 ELSE Cardinality(S)
           /\ Cardinality(S \cup {x}) = IF x \in S THEN Cardinality(S) ELSE Cardinality(S) + 1
<1>1. IsFiniteSet(Run) /\ Run \subseteq Nat
  BY QueenStoreAssumption
<1>2. \A S \in SUBSET Run : IsFiniteSet(S) /\ Cardinality(S) \in Nat
  BY <1>1, FS_Subset, FS_CardinalityType
<1>3. \A S \in SUBSET Run : \A T \in SUBSET S :
           Cardinality(T) <= Cardinality(S) /\ (Cardinality(S) = Cardinality(T) => S = T)
  BY <1>2, FS_Subset
<1>4. \A S \in SUBSET Run : \A x :
           /\ Cardinality(S \ {x}) = IF x \in S THEN Cardinality(S) - 1 ELSE Cardinality(S)
           /\ Cardinality(S \cup {x}) = IF x \in S THEN Cardinality(S) ELSE Cardinality(S) + 1
  BY <1>2, FS_AddElement, FS_RemoveElement
<1>5. {ShownCap, KeptCap, MaxLive} \subseteq Nat /\ KeptCap >= ShownCap + MaxLive
  BY QueenStoreAssumption
<1>6. QED BY <1>1, <1>2, <1>3, <1>4, <1>5

LEMMA SmallestNumber ==
    ASSUME NEW T, T \subseteq Nat, T # {}
    PROVE  \E x \in T : \A y \in T : x <= y
<1>1. PICK x \in T : \A y \in T : ~(<<y, x>> \in OpToRel(<, Nat))
  BY NatLessThanWellFounded, WFMin
<1>2. \A y \in T : ~(y < x)
  BY <1>1 DEF OpToRel
<1>3. QED BY <1>2

LEMMA SnapshotFacts ==
    /\ Absent \in Snapshot /\ EndedAt(Absent) = 0 /\ Absent.state = "absent" /\ Absent.started = 0
    /\ \A x \in Snapshot : /\ EndedAt(x) \in Nat /\ x.started \in Nat /\ x.ended \in Nat
                           /\ x.state = "absent" <=> x = Absent
                           /\ x.state \in Finished \cup {"absent", "running"}
BY DEF Snapshot, Absent, EndedAt, Finished

\* Of the finished runs of a table there is an oldest.
LEMMA Oldest ==
    ASSUME NEW table \in [Run -> Snapshot], NEW S \in SUBSET Run, S # {}
    PROVE  \E q \in S : \A s \in S \ {q} : Later(table, s, q)
<1> DEFINE At == {EndedAt(table[s]) : s \in S}
<1>1. At \subseteq Nat /\ At # {}
  BY SnapshotFacts
<1>2. PICK t \in At : \A u \in At : t <= u
  BY <1>1, SmallestNumber
<1> DEFINE First == {s \in S : EndedAt(table[s]) = t}
<1>3. First \subseteq Nat /\ First # {}
  BY <1>2, Sizes
<1>4. PICK q \in First : \A s \in First : q <= s
  BY <1>3, SmallestNumber
<1>5. ASSUME NEW s \in S \ {q} PROVE Later(table, s, q)
  <2>1. EndedAt(table[s]) >= t /\ EndedAt(table[q]) = t /\ EndedAt(table[s]) \in Nat /\ t \in Nat
    BY <1>1, <1>2, <1>4
  <2>2. CASE EndedAt(table[s]) = t
    <3>1. s \in First /\ s \in Nat /\ q \in Nat
      BY <1>3, <2>2
    <3>2. s > q
      BY <1>4, <3>1
    <3>3. QED BY <2>1, <2>2, <3>2 DEF Later
  <2>3. CASE EndedAt(table[s]) # t
    BY <2>1, <2>3 DEF Later
  <2>4. QED BY <2>2, <2>3
<1>6. q \in S
  BY <1>4
<1>7. QED BY <1>5, <1>6

LEMMA LaterIsAnOrder ==
    ASSUME NEW table \in [Run -> Snapshot], NEW q \in Run, NEW r \in Run
    PROVE  /\ ~Later(table, q, q)
           /\ Later(table, q, r) => ~Later(table, r, q)
<1>1. EndedAt(table[q]) \in Nat /\ EndedAt(table[r]) \in Nat /\ q \in Nat /\ r \in Nat
  BY SnapshotFacts, Sizes
<1>2. QED BY <1>1 DEF Later

\* With one finished run more than the registry shows, exactly the oldest goes.
LEMMA TheOldestGoes ==
    ASSUME NEW table \in [Run -> Snapshot], Cardinality(Over(table)) <= ShownCap + 1
    PROVE  LET kept == Newest(table, Over(table), ShownCap) IN
           \/ kept = Over(table) /\ Cardinality(kept) <= ShownCap
           \/ \E q \in Over(table) :
                  /\ kept = Over(table) \ {q} /\ Cardinality(kept) = ShownCap
                  /\ \A s \in kept : Later(table, s, q)
<1> DEFINE over == Over(table)
           newer(r) == {s \in over : Later(table, s, r)}
           kept == Newest(table, over, ShownCap)
<1>1. over \in SUBSET Run /\ ShownCap \in Nat /\ Cardinality(over) \in Nat
  BY Sizes DEF Over
<1>2. \A r \in over : r \in kept <=> Cardinality(newer(r)) < ShownCap
  BY DEF Newest
<1>3. kept \subseteq over
  BY DEF Newest
<1>4. \A r \in over : newer(r) \subseteq over \ {r} /\ Cardinality(newer(r)) \in Nat
                      /\ Cardinality(newer(r)) <= Cardinality(over) - 1
  <2> TAKE r \in over
  <2>1. newer(r) \subseteq over \ {r}
    BY <1>1, LaterIsAnOrder
  <2>2. over \ {r} \in SUBSET Run /\ newer(r) \in SUBSET Run
    BY <1>1
  <2>3. Cardinality(over \ {r}) = Cardinality(over) - 1
    BY <1>1, Sizes
  <2>4. Cardinality(newer(r)) \in Nat /\ Cardinality(newer(r)) <= Cardinality(over \ {r})
    BY <2>1, <2>2, Sizes
  <2>5. QED BY <2>1, <2>3, <2>4
<1> HIDE DEF over, newer, kept
<1>5. CASE Cardinality(over) <= ShownCap
  <2>1. \A r \in over : Cardinality(newer(r)) < ShownCap
    BY <1>1, <1>4, <1>5
  <2>2. QED BY <1>2, <1>3, <1>5, <2>1 DEF over, kept
<1>6. CASE Cardinality(over) = ShownCap + 1
  <2>1. over # {}
    BY <1>1, <1>6, FS_EmptySet
  <2>2. PICK q \in over : \A s \in over \ {q} : Later(table, s, q)
    BY <1>1, <2>1, Oldest
  <2>3. newer(q) = over \ {q}
    <3>1. \A s \in over \ {q} : s \in newer(q)
      BY <2>2 DEF newer, over
    <3>2. QED BY <1>4, <3>1
  <2>4. Cardinality(over \ {q}) = ShownCap
    BY <1>1, <1>6, Sizes
  <2>5. q \notin kept
    BY <1>1, <1>2, <2>3, <2>4
  <2>6. ASSUME NEW s \in over \ {q} PROVE s \in kept
    <3>1. newer(s) \subseteq (over \ {q}) \ {s}
      <4>1. ~Later(table, q, s)
        BY <1>1, <2>2, <2>6, LaterIsAnOrder
      <4>2. newer(s) \subseteq over \ {s}
        BY <1>4, <2>6
      <4>3. q \notin newer(s)
        BY <4>1 DEF newer
      <4>4. QED BY <4>2, <4>3
    <3>2. (over \ {q}) \ {s} \in SUBSET Run /\ over \ {q} \in SUBSET Run
      BY <1>1
    <3>3. Cardinality((over \ {q}) \ {s}) = ShownCap - 1
      BY <2>4, <2>6, <3>2, Sizes
    <3>4. Cardinality(newer(s)) <= ShownCap - 1
      BY <3>1, <3>2, <3>3, Sizes
    <3>5. Cardinality(newer(s)) < ShownCap
      BY <1>1, <1>4, <2>6, <3>4
    <3>6. QED BY <1>2, <2>6, <3>5
  <2>7. kept = over \ {q}
    BY <1>3, <2>5, <2>6
  <2>8. QED BY <2>2, <2>4, <2>7 DEF over, kept
<1>7. QED BY <1>1, <1>5, <1>6 DEF over

LEMMA Evicted ==
    ASSUME NEW table \in [Run -> Snapshot]
    PROVE  LET kept == Newest(table, Over(table), ShownCap) IN
           /\ EvictTerminal(table) \in [Run -> Snapshot]
           /\ Over(EvictTerminal(table)) = kept
           /\ \A r \in Run : EvictTerminal(table)[r] =
                  IF r \in Over(table) \ kept THEN Absent ELSE table[r]
<1> DEFINE kept == Newest(table, Over(table), ShownCap)
           gone == Over(table) \ kept
<1>1. kept \subseteq Over(table) /\ Over(table) \subseteq Run
  BY DEF Newest, Over
<1>2. EvictTerminal(table) = [r \in Run |-> IF r \in gone THEN Absent ELSE table[r]]
  BY DEF EvictTerminal, Without
<1> HIDE DEF kept, gone
<1>3. EvictTerminal(table) \in [Run -> Snapshot]
  BY <1>2, SnapshotFacts
<1>4. \A r \in Run : r \in Over(EvictTerminal(table)) <=> r \in Over(table) /\ r \notin gone
  <2>1. Absent.state \notin {"succeeded", "failed", "cancelled"}
    BY SnapshotFacts
  <2>2. QED BY <1>2, <2>1 DEF Over
<1>5. \A r \in Run : r \in Over(EvictTerminal(table)) <=> r \in kept
  BY <1>1, <1>4 DEF gone
<1>6. Over(EvictTerminal(table)) \subseteq Run
  BY DEF Over
<1>7. Over(EvictTerminal(table)) = kept
  BY <1>1, <1>5, <1>6
<1>8. QED BY <1>2, <1>3, <1>7 DEF kept, gone

\* What a put leaves in the registry.
LEMMA Puts ==
    ASSUME RunsInv, NEW r \in Run, NEW s \in Snapshot, Put(r, s), r \notin Over(reg), s # Absent
    PROVE  LET table == [reg EXCEPT ![r] = s] IN
           /\ reg' \in [Run -> Snapshot] /\ Cardinality(Over(reg')) <= ShownCap
           /\ \/ reg' = table
              \/ \E q \in Run :
                     /\ reg' = [table EXCEPT ![q] = Absent]
                     /\ q \in Over(table) /\ Over(reg') = Over(table) \ {q}
                     /\ Cardinality(Over(reg')) = ShownCap /\ r \in Over(table)
                     /\ \A x \in Over(reg') : Later(table, x, q)
<1> DEFINE table == [reg EXCEPT ![r] = s]
           kept == Newest(table, Over(table), ShownCap)
<1>1. reg \in [Run -> Snapshot] /\ Cardinality(Over(reg)) <= ShownCap /\ Over(reg) \in SUBSET Run
  BY DEF RunsInv, RunsTyped, Over
<1>2. table \in [Run -> Snapshot] /\ table[r] = s /\ \A q \in Run : q # r => table[q] = reg[q]
  BY <1>1
<1>3. reg' = EvictTerminal(table)
  BY DEF Put
<1> HIDE DEF table
<1>4. Over(table) \in SUBSET Run
  BY DEF Over
<1>5. \A q \in Run : q \in Over(table) <=> (q \in Over(reg) \/ (q = r /\ s.state \in Finished))
  BY <1>2 DEF Over, Finished
<1>6. /\ s.state \in Finished => Over(table) = Over(reg) \cup {r}
      /\ s.state \notin Finished => Over(table) = Over(reg)
  BY <1>1, <1>4, <1>5
<1>7. Cardinality(Over(table)) <= ShownCap + 1
      /\ (s.state \notin Finished => Cardinality(Over(table)) <= ShownCap)
  <2>1. Cardinality(Over(reg) \cup {r}) = Cardinality(Over(reg)) + 1 /\ Cardinality(Over(reg)) \in Nat
    BY <1>1, Sizes
  <2>2. QED BY <1>1, <1>6, <2>1, Sizes
<1> HIDE DEF kept
<1>8. /\ EvictTerminal(table) \in [Run -> Snapshot]
      /\ Over(EvictTerminal(table)) = kept
      /\ \A q \in Run : EvictTerminal(table)[q] = IF q \in Over(table) \ kept THEN Absent ELSE table[q]
  BY <1>2, Evicted DEF kept
<1>9. \/ kept = Over(table) /\ Cardinality(kept) <= ShownCap
      \/ \E q \in Over(table) :
             /\ kept = Over(table) \ {q} /\ Cardinality(kept) = ShownCap
             /\ \A x \in kept : Later(table, x, q)
  BY <1>2, <1>7, TheOldestGoes DEF kept
<1>10. CASE kept = Over(table) /\ Cardinality(kept) <= ShownCap
  <2>1. reg' = table
    BY <1>2, <1>3, <1>8, <1>10
  <2>2. QED BY <1>3, <1>8, <1>10, <2>1 DEF table
<1>11. ASSUME NEW q \in Over(table), kept = Over(table) \ {q}, Cardinality(kept) = ShownCap,
              \A x \in kept : Later(table, x, q)
       PROVE  /\ reg' \in [Run -> Snapshot] /\ Cardinality(Over(reg')) <= ShownCap
              /\ reg' = [table EXCEPT ![q] = Absent] /\ Over(reg') = Over(table) \ {q}
              /\ Cardinality(Over(reg')) = ShownCap /\ r \in Over(table)
              /\ \A x \in Over(reg') : Later(table, x, q)
  <2>1. Over(table) \ kept = {q}
    BY <1>11
  <2>2. reg' = [table EXCEPT ![q] = Absent]
    BY <1>2, <1>3, <1>4, <1>8, <2>1
  <2>3. Cardinality(Over(table)) = ShownCap + 1
    <3>1. Cardinality(Over(table) \ {q}) = Cardinality(Over(table)) - 1 /\ Cardinality(Over(table)) \in Nat
      BY <1>4, Sizes
    <3>2. QED BY <1>11, <3>1, Sizes
  <2>4. r \in Over(table)
    <3>1. s.state \in Finished
      BY <1>7, <2>3, Sizes
    <3>2. QED BY <1>6, <3>1
  <2>5. Cardinality(Over(reg')) <= ShownCap
    BY <1>3, <1>8, <1>11, Sizes
  <2>6. QED BY <1>3, <1>8, <1>11, <2>2, <2>4, <2>5
<1>12. CASE \E q \in Over(table) : /\ kept = Over(table) \ {q} /\ Cardinality(kept) = ShownCap
                                   /\ \A x \in kept : Later(table, x, q)
  BY <1>4, <1>11, <1>12 DEF table
<1>13. QED BY <1>9, <1>10, <1>12

\* A prune never takes a finished run that is shown and has its row.
LEMMA PruneKeeps ==
    ASSUME RunsInv, NEW table \in [Run -> Snapshot], NEW p, NEW r \in Over(reg), table[r] = reg[r],
           \A q \in Run : table[q] # Absent =>
               /\ reg[q] = Absent => Older(table[q], q, r)
               /\ reg[q] # Absent => EndedAt(table[q]) <= EndedAt(reg[q])
    PROVE  Prune(table, p)[r] = reg[r]
<1> DEFINE finished == Over(table) \cap OfProject(p)
           newer == {q \in finished : Later(table, q, r)}
<1>1. /\ reg \in [Run -> Snapshot] /\ r \in Run /\ Over(reg) \in SUBSET Run /\ Live \in SUBSET Run
      /\ Cardinality(Over(reg)) <= ShownCap /\ Cardinality(Live) <= MaxLive
  BY DEF RunsInv, RunsTyped, Over, Live, Kept
<1>2. newer \subseteq (Over(reg) \ {r}) \cup Live
  <2> SUFFICES ASSUME NEW q \in newer, q \notin Live PROVE q \in Over(reg) \ {r}
    OBVIOUS
  <2>1. q \in Run /\ q \in Over(table) /\ Later(table, q, r)
    BY DEF Over
  <2>2. table[q] # Absent
    BY <2>1, SnapshotFacts DEF Over
  <2>3. /\ EndedAt(table[q]) \in Nat /\ EndedAt(reg[q]) \in Nat /\ EndedAt(reg[r]) \in Nat
        /\ q \in Nat /\ r \in Nat
    BY <1>1, <2>1, SnapshotFacts, Sizes
  <2>4. reg[q] # Absent
    BY <2>1, <2>2, <2>3 DEF Later, Older
  <2>5. q # r
    BY <1>1, <2>1, LaterIsAnOrder
  <2>6. q \in Kept(reg)
    BY <1>1, <2>1, <2>4, SnapshotFacts DEF Kept
  <2>7. QED BY <2>5, <2>6 DEF Live
<1>3. Cardinality(newer) < KeptCap
  <2> HIDE DEF newer
  <2>1. /\ Over(reg) \ {r} \in SUBSET Run /\ (Over(reg) \ {r}) \cup Live \in SUBSET Run
        /\ newer \in SUBSET Run
    BY <1>1, <1>2
  <2>2. /\ Cardinality(Over(reg) \ {r}) = Cardinality(Over(reg)) - 1
        /\ Cardinality(Over(reg)) \in Nat /\ Cardinality(Over(reg) \ {r}) \in Nat
        /\ Cardinality(Live) \in Nat
    BY <1>1, <2>1, Sizes
  <2>3. Cardinality((Over(reg) \ {r}) \cup Live) <= Cardinality(Over(reg) \ {r}) + Cardinality(Live)
    <3>1. IsFiniteSet(Over(reg) \ {r}) /\ IsFiniteSet(Live)
      BY <1>1, <2>1, Sizes
    <3>2. (Over(reg) \ {r}) \cap Live \in SUBSET Run
      BY <1>1
    <3>3. Cardinality((Over(reg) \ {r}) \cap Live) \in Nat
      BY <3>2, Sizes
    <3>4. Cardinality((Over(reg) \ {r}) \cup Live) =
              Cardinality(Over(reg) \ {r}) + Cardinality(Live) - Cardinality((Over(reg) \ {r}) \cap Live)
      BY <3>1, FS_Union
    <3>5. QED BY <2>2, <3>3, <3>4
  <2>4. Cardinality(newer) <= Cardinality((Over(reg) \ {r}) \cup Live) /\ Cardinality(newer) \in Nat
        /\ Cardinality((Over(reg) \ {r}) \cup Live) \in Nat
    BY <1>2, <2>1, Sizes
  <2>5. QED BY <1>1, <2>2, <2>3, <2>4, Sizes
<1>4. r \notin finished \ Newest(table, finished, KeptCap)
  BY <1>3 DEF Newest
<1>5. Prune(table, p)[r] = IF r \in finished \ Newest(table, finished, KeptCap) THEN Absent ELSE table[r]
  BY <1>1 DEF Prune, Without
<1>6. QED BY <1>4, <1>5

LEMMA Pruned ==
    ASSUME NEW table \in [Run -> Snapshot], NEW p
    PROVE  Prune(table, p) \in [Run -> Snapshot] /\ \A q \in Run : Prune(table, p)[q] \in {Absent, table[q]}
BY SnapshotFacts DEF Prune, Without

LEMMA PutKeepsRuns ==
    ASSUME RunsInv, NEW r \in Run, NEW s \in Snapshot, Put(r, s), r \notin Over(reg), s # Absent, Dated(s),
           \A x \in Written(r) : EndedAt(x) <= EndedAt(s),
           s.state \in Finished => EndedAt(s) = clock,
           s.state = "running" => Cardinality(Live) < MaxLive
    PROVE  RunsInv'
<1> DEFINE table == [reg EXCEPT ![r] = s]
<1>1. /\ reg \in [Run -> Snapshot] /\ row \in [Run -> Snapshot] /\ unsaved \in [Run -> Snapshot]
      /\ clock \in Nat \ {0} /\ Over(reg) \in SUBSET Run /\ Live \in SUBSET Run
      /\ \A q \in Run : Dated(reg[q]) /\ Dated(row[q]) /\ Dated(unsaved[q])
  BY DEF RunsInv, RunsTyped, Over, Live, Kept
<1>2. /\ unsaved' = [unsaved EXCEPT ![r] = s] /\ UNCHANGED <<clock, row>>
  BY DEF Put
<1>3. /\ reg' \in [Run -> Snapshot] /\ Cardinality(Over(reg')) <= ShownCap
      /\ \/ reg' = table
         \/ \E q \in Run :
                /\ reg' = [table EXCEPT ![q] = Absent]
                /\ q \in Over(table) /\ Over(reg') = Over(table) \ {q}
                /\ Cardinality(Over(reg')) = ShownCap /\ r \in Over(table)
                /\ \A x \in Over(reg') : Later(table, x, q)
  BY Puts
<1>4. /\ table \in [Run -> Snapshot] /\ table[r] = s /\ \A q \in Run : q # r => table[q] = reg[q]
      /\ \A q \in Run : q \in Over(table) <=> (q \in Over(reg) \/ (q = r /\ s.state \in Finished))
  BY <1>1 DEF Over, Finished
<1> HIDE DEF table
<1>5. Over(table) \in SUBSET Run /\ Over(reg') \in SUBSET Run /\ Live' \in SUBSET Run
  BY DEF Over, Live, Kept
<1>6. \A q \in Run : reg'[q] \in {Absent, table[q]}
  BY <1>3, <1>4
<1>7. RunsTyped'
  <2>1. unsaved' \in [Run -> Snapshot]
    BY <1>1, <1>2
  <2>2. \A x : Dated(x)' <=> Dated(x)
    BY <1>2 DEF Dated
  <2>3. Dated(Absent)
    BY <1>1, SnapshotFacts DEF Dated
  <2>4. \A q \in Run : Dated(reg'[q]) /\ Dated(row'[q]) /\ Dated(unsaved'[q])
    <3> TAKE q \in Run
    <3>1. reg'[q] \in {Absent, reg[q], s} /\ row'[q] = row[q] /\ unsaved'[q] \in {unsaved[q], s}
      BY <1>1, <1>2, <1>4, <1>6
    <3>2. QED BY <1>1, <2>3, <3>1
  <2>5. \A q \in Run : (Dated(reg[q]) /\ Dated(row[q]) /\ Dated(unsaved[q]))'
    BY <1>2, <2>4 DEF Dated
  <2>6. QED BY <1>1, <1>2, <1>3, <2>1, <2>5 DEF RunsTyped
<1>8. Cardinality(Live') <= MaxLive
  <2>1. \A q \in Live' : q \in Live \/ (q = r /\ s.state = "running")
    <3> SUFFICES ASSUME NEW q \in Live' PROVE q \in Live \/ (q = r /\ s.state = "running")
      OBVIOUS
    <3>1. q \in Run /\ reg'[q].state = "running"
      BY <1>3, SnapshotFacts DEF Live, Kept, Over, Finished
    <3>2. reg'[q] = table[q]
      BY <1>6, <3>1, SnapshotFacts
    <3>3. CASE q = r
      BY <1>4, <3>1, <3>2, <3>3
    <3>4. CASE q # r
      BY <1>4, <3>1, <3>2, <3>4 DEF Live, Kept, Over
    <3>5. QED BY <3>3, <3>4
  <2>2. Cardinality(Live) <= MaxLive /\ Cardinality(Live) \in Nat
    BY <1>1, Sizes DEF RunsInv
  <2>3. CASE s.state = "running"
    <3>1. Live' \in SUBSET (Live \cup {r}) /\ Live \cup {r} \in SUBSET Run
      BY <1>1, <2>1
    <3>2. Cardinality(Live \cup {r}) <= Cardinality(Live) + 1 /\ Cardinality(Live \cup {r}) \in Nat
      BY <1>1, <2>2, Sizes
    <3>3. Cardinality(Live') <= Cardinality(Live \cup {r}) /\ Cardinality(Live') \in Nat
      BY <1>5, <3>1, Sizes
    <3>4. QED BY <2>2, <2>3, <3>2, <3>3, Sizes
  <2>4. CASE s.state # "running"
    <3>1. Live' \in SUBSET Live
      BY <2>1, <2>4
    <3>2. Cardinality(Live') <= Cardinality(Live) /\ Cardinality(Live') \in Nat
      BY <1>1, <1>5, <3>1, Sizes
    <3>3. QED BY <2>2, <3>2, Sizes
  <2>5. QED BY <2>3, <2>4
\* The snapshots about, and how old they are.
<1>9. \A q \in Run : \A x \in Written(q)' :
          /\ x \in Snapshot /\ EndedAt(x) \in Nat /\ EndedAt(x) <= clock
          /\ q # r => x \in Written(q)
          /\ q = r => EndedAt(x) <= EndedAt(s)
  <2> SUFFICES ASSUME NEW q \in Run, NEW x \in Written(q)'
               PROVE  /\ x \in Snapshot /\ EndedAt(x) \in Nat /\ EndedAt(x) <= clock
                      /\ q # r => x \in Written(q)
                      /\ q = r => EndedAt(x) <= EndedAt(s)
    OBVIOUS
  <2>1. x \in Written(q) \/ (q = r /\ x = s)
    BY <1>1, <1>2 DEF Written
  <2>2. CASE x \in Written(q)
    <3>1. x \in Snapshot /\ Dated(x)
      BY <1>1, <2>2 DEF Written
    <3>2. QED BY <2>2, <3>1, SnapshotFacts DEF Dated
  <2>3. CASE q = r /\ x = s
    BY <2>3, SnapshotFacts DEF Dated
  <2>4. QED BY <2>1, <2>2, <2>3
<1>10. \A q \in Run : reg'[q] # Absent => \A x \in Written(q)' : EndedAt(x) <= EndedAt(reg'[q])
  <2> SUFFICES ASSUME NEW q \in Run, reg'[q] # Absent, NEW x \in Written(q)'
               PROVE  EndedAt(x) <= EndedAt(reg'[q])
    OBVIOUS
  <2>1. reg'[q] = table[q]
    BY <1>6
  <2>2. CASE q = r
    BY <1>4, <1>9, <2>1, <2>2
  <2>3. CASE q # r
    BY <1>4, <1>9, <2>1, <2>3 DEF RunsInv
  <2>4. QED BY <2>2, <2>3
<1>11. \A q \in Run : reg'[q] = Absent => \A x \in Written(q)' : Passed(q, x)'
  <2> SUFFICES ASSUME NEW q \in Run, reg'[q] = Absent, NEW x \in Written(q)'
               PROVE  Passed(q, x)'
    OBVIOUS
  <2> DEFINE after(t) == EndedAt(reg'[t]) > EndedAt(x) \/ (EndedAt(reg'[t]) = EndedAt(x) /\ t > q)
  <2>1. SUFFICES /\ \A t \in Over(reg') : after(t)
                 /\ EndedAt(x) = clock => Cardinality(Over(reg')) >= ShownCap
    BY <1>2 DEF Passed, Older
  <2>2. \A t \in Over(reg') : t \in Over(table) /\ reg'[t] = table[t]
    <3> TAKE t \in Over(reg')
    <3>1. t \in Run /\ reg'[t] # Absent
      BY SnapshotFacts DEF Over
    <3>2. reg'[t] = table[t]
      BY <1>6, <3>1
    <3>3. QED BY <3>1, <3>2 DEF Over
  <2>3. q # r => x \in Written(q)
    BY <1>9
  <2>4. \A t \in Run : EndedAt(reg[t]) \in Nat /\ EndedAt(reg[t]) <= clock /\ t \in Nat
    BY <1>1, SnapshotFacts, Sizes DEF Dated
  <2>5. EndedAt(x) \in Nat /\ EndedAt(x) <= clock
    BY <1>9
  <2>6. CASE reg' = table
    <3>1. q # r /\ reg[q] = Absent
      BY <1>4, <2>6
    <3>2. Passed(q, x)
      BY <2>3, <3>1 DEF RunsInv
    <3>3. Cardinality(Over(reg')) >= Cardinality(Over(reg))
      <4>1. Over(reg) \subseteq Over(reg')
        BY <1>1, <1>4, <2>6
      <4>2. QED BY <1>1, <1>5, <4>1, Sizes
    <3>4. ASSUME r \in Over(reg') PROVE EndedAt(x) # clock
      <4>1. SUFFICES ASSUME EndedAt(x) = clock PROVE FALSE
        OBVIOUS
      <4>2. Cardinality(Over(reg)) >= ShownCap
        BY <3>2, <4>1 DEF Passed
      <4>3. Over(reg) \cup {r} \in SUBSET Over(reg')
        BY <1>1, <1>4, <2>6, <3>4
      <4>4. Cardinality(Over(reg) \cup {r}) = Cardinality(Over(reg)) + 1 /\ Cardinality(Over(reg)) \in Nat
        BY <1>1, Sizes
      <4>5. Cardinality(Over(reg) \cup {r}) <= Cardinality(Over(reg'))
        BY <1>5, <4>3, Sizes
      <4>6. Cardinality(Over(reg')) <= ShownCap /\ Cardinality(Over(reg')) \in Nat /\ ShownCap \in Nat
        BY <1>3, <1>5, Sizes
      <4>7. QED BY <4>2, <4>4, <4>5, <4>6
    <3>5. ASSUME NEW t \in Over(reg') PROVE after(t)
      <4>1. CASE t = r
        <5>1. EndedAt(reg'[t]) = clock
          BY <1>4, <2>2, <3>5, <4>1
        <5>2. QED BY <1>1, <2>5, <3>4, <3>5, <4>1, <5>1
      <4>2. CASE t # r
        <5>1. t \in Over(reg) /\ reg'[t] = reg[t]
          BY <1>4, <1>5, <2>2, <3>5, <4>2
        <5>2. QED BY <3>2, <5>1 DEF Passed, Older
      <4>3. QED BY <4>1, <4>2
    <3>6. EndedAt(x) = clock => Cardinality(Over(reg')) >= ShownCap
      <4>1. Cardinality(Over(reg)) \in Nat /\ Cardinality(Over(reg')) \in Nat /\ ShownCap \in Nat
        BY <1>1, <1>5, Sizes
      <4>2. QED BY <3>2, <3>3, <4>1 DEF Passed
    <3>7. QED BY <3>5, <3>6
  <2>7. ASSUME NEW e \in Run, reg' = [table EXCEPT ![e] = Absent],
               e \in Over(table), Over(reg') = Over(table) \ {e},
               Cardinality(Over(reg')) = ShownCap, r \in Over(table),
               \A t \in Over(reg') : Later(table, t, e)
        PROVE  (\A t \in Over(reg') : after(t)) /\ Cardinality(Over(reg')) >= ShownCap
    <3>0. ShownCap \in Nat
      BY Sizes
    <3>1. Cardinality(Over(reg')) >= ShownCap
      BY <2>7, <3>0
    <3>2. EndedAt(s) = clock /\ EndedAt(table[e]) \in Nat /\ e \in Nat
      BY <1>4, <2>7, SnapshotFacts, Sizes DEF Over, Finished
    <3>3. \A t \in Over(reg') : /\ EndedAt(table[t]) > EndedAt(table[e])
                                   \/ (EndedAt(table[t]) = EndedAt(table[e]) /\ t > e)
                                /\ EndedAt(table[t]) \in Nat /\ t \in Nat
      BY <1>4, <1>5, <2>7, SnapshotFacts, Sizes DEF Later
    <3>4. CASE q = e
      <4>1. EndedAt(x) <= EndedAt(table[e])
        <5>1. CASE e = r
          BY <1>4, <1>9, <3>4, <5>1
        <5>2. CASE e # r
          <6>1. e \in Over(reg) /\ reg[e] # Absent /\ table[e] = reg[e]
            BY <1>4, <2>7, <5>2, SnapshotFacts DEF Over
          <6>2. QED BY <2>3, <3>4, <5>2, <6>1 DEF RunsInv
        <5>3. QED BY <5>1, <5>2
      <4>2. QED BY <2>2, <2>5, <3>1, <3>2, <3>3, <3>4, <4>1
    <3>5. CASE q # e
      <4>1. table[q] = Absent
        BY <1>4, <2>7, <3>5
      <4>2. q # r /\ reg[q] = Absent
        BY <1>4, <4>1
      <4>3. Passed(q, x)
        BY <2>3, <4>2 DEF RunsInv
      <4>4. \A t \in Over(reg) : EndedAt(reg[t]) > EndedAt(x) \/ (EndedAt(reg[t]) = EndedAt(x) /\ t > q)
        BY <4>3 DEF Passed, Older
      <4>5. ASSUME NEW t \in Over(reg') PROVE after(t)
        <5>1. CASE t # r
          <6>1. t \in Over(reg) /\ reg'[t] = reg[t]
            BY <1>4, <1>5, <2>2, <4>5, <5>1
          <6>2. QED BY <4>4, <6>1
        <5>2. CASE t = r
          <6>1. EndedAt(reg'[t]) = clock /\ EndedAt(table[t]) = clock
            BY <1>4, <2>2, <3>2, <4>5, <5>2
          <6>2. e # r /\ e \in Over(reg) /\ table[e] = reg[e]
            BY <1>4, <2>7, <4>5, <5>2
          <6>3. EndedAt(reg[e]) > EndedAt(x) \/ (EndedAt(reg[e]) = EndedAt(x) /\ e > q)
            BY <4>4, <6>2
          <6>4. EndedAt(table[t]) > EndedAt(table[e]) \/ (EndedAt(table[t]) = EndedAt(table[e]) /\ t > e)
            BY <3>3, <4>5
          <6>5. EndedAt(reg[e]) \in Nat /\ EndedAt(reg[e]) <= clock /\ t \in Nat /\ q \in Nat
            BY <2>4, <3>3, <4>5
          <6>6. QED BY <1>1, <2>5, <3>2, <6>1, <6>2, <6>3, <6>4, <6>5
        <5>3. QED BY <5>1, <5>2
      <4>6. QED BY <3>1, <4>5
    <3>6. QED BY <3>4, <3>5
  <2>8. CASE \E e \in Run : /\ reg' = [table EXCEPT ![e] = Absent]
                            /\ e \in Over(table) /\ Over(reg') = Over(table) \ {e}
                            /\ Cardinality(Over(reg')) = ShownCap /\ r \in Over(table)
                            /\ \A t \in Over(reg') : Later(table, t, e)
    <3> HIDE DEF after
    <3>1. PICK e \in Run : /\ reg' = [table EXCEPT ![e] = Absent]
                           /\ e \in Over(table) /\ Over(reg') = Over(table) \ {e}
                           /\ Cardinality(Over(reg')) = ShownCap /\ r \in Over(table)
                           /\ \A t \in Over(reg') : Later(table, t, e)
      BY <2>8
    <3>2. QED BY <2>7, <3>1
  <2>9. QED BY <1>3, <2>6, <2>8
<1>12. \A t \in Over(reg') : /\ unsaved'[t] \in {Absent, reg'[t]}
                             /\ unsaved'[t] = Absent => row'[t] = reg'[t]
  <2> TAKE t \in Over(reg')
  <2>1. t \in Run /\ reg'[t] = table[t] /\ t \in Over(table)
    BY <1>6, SnapshotFacts DEF Over
  <2>2. CASE t = r
    BY <1>1, <1>2, <1>4, <2>1, <2>2
  <2>3. CASE t # r
    <3>1. t \in Over(reg) /\ reg'[t] = reg[t] /\ unsaved'[t] = unsaved[t] /\ row'[t] = row[t]
      BY <1>1, <1>2, <1>4, <2>1, <2>3
    <3>2. QED BY <3>1 DEF RunsInv
  <2>4. QED BY <2>2, <2>3
<1>13. (Cardinality(Over(reg)) <= ShownCap /\ Cardinality(Live) <= MaxLive)'
  BY <1>3, <1>8
<1>14. QED BY <1>7, <1>10, <1>11, <1>12, <1>13 DEF RunsInv

LEMMA RunsStart == StoreInit => RunsInv
<1> SUFFICES ASSUME StoreInit PROVE RunsInv
  OBVIOUS
<1>1. /\ reg = [r \in Run |-> Absent] /\ row = reg /\ unsaved = reg /\ clock = 1
  BY DEF StoreInit
<1>2. RunsTyped
  BY <1>1, SnapshotFacts DEF RunsTyped, Dated
<1>3. Over(reg) = {} /\ Live = {} /\ \A q \in Run : Written(q) = {}
  BY <1>1, SnapshotFacts DEF Over, Live, Kept, Written
<1>4. Cardinality({}) = 0 /\ ShownCap \in Nat /\ MaxLive \in Nat
  BY FS_EmptySet, Sizes
<1>5. Cardinality(Over(reg)) <= ShownCap /\ Cardinality(Live) <= MaxLive
  BY <1>3, <1>4
<1>6. QED BY <1>2, <1>3, <1>5 DEF RunsInv

\* A step on the table alone: what a row says it said already, or was waiting to be said.
LEMMA TableStep ==
    ASSUME RunsInv, NEW table \in [Run -> Snapshot], NEW p, row' \in {table, Prune(table, p)},
           UNCHANGED <<clock, reg>>, unsaved' \in [Run -> Snapshot],
           \A q \in Run : /\ unsaved'[q] \in {Absent, unsaved[q]}
                          /\ table[q] # Absent => \E x \in Written(q) :
                                 /\ EndedAt(table[q]) = EndedAt(x) /\ Dated(table[q]),
           \A q \in Over(reg) : unsaved'[q] = Absent => table[q] = reg[q]
    PROVE  RunsInv'
<1>1. /\ reg \in [Run -> Snapshot] /\ row \in [Run -> Snapshot] /\ unsaved \in [Run -> Snapshot]
      /\ clock \in Nat \ {0}
      /\ \A q \in Run : Dated(reg[q]) /\ Dated(row[q]) /\ Dated(unsaved[q])
  BY DEF RunsInv, RunsTyped
<1>2. row' \in [Run -> Snapshot] /\ \A q \in Run : row'[q] \in {Absent, table[q]}
  BY Pruned
<1>3. /\ Over(reg)' = Over(reg) /\ Live' = Live /\ \A x : Dated(x)' <=> Dated(x)
      /\ \A q, x : Passed(q, x)' <=> Passed(q, x)
  BY DEF Over, Live, Kept, Dated, Passed, Older
<1>4. Dated(Absent)
  BY <1>1, SnapshotFacts DEF Dated
<1>5. RunsTyped'
  <2>1. \A q \in Run : Dated(reg'[q]) /\ Dated(row'[q]) /\ Dated(unsaved'[q])
    <3> TAKE q \in Run
    <3>1. row'[q] \in {Absent, table[q]} /\ unsaved'[q] \in {Absent, unsaved[q]} /\ reg'[q] = reg[q]
      BY <1>2
    <3>2. table[q] # Absent => Dated(table[q])
      OBVIOUS
    <3>3. QED BY <1>1, <1>4, <3>1, <3>2
  <2>2. \A q \in Run : (Dated(reg[q]) /\ Dated(row[q]) /\ Dated(unsaved[q]))'
    BY <2>1 DEF Dated
  <2>3. QED BY <1>1, <1>2, <2>2 DEF RunsTyped
<1>6. \A q \in Run : \A x \in Written(q)' : \E y \in Written(q) : EndedAt(x) = EndedAt(y)
  <2> SUFFICES ASSUME NEW q \in Run, NEW x \in Written(q)' PROVE \E y \in Written(q) : EndedAt(x) = EndedAt(y)
    OBVIOUS
  <2>1. x # Absent /\ (x = row'[q] \/ x = unsaved'[q])
    BY DEF Written
  <2>2. CASE x = row'[q]
    BY <1>2, <2>1, <2>2
  <2>3. CASE x = unsaved'[q]
    BY <2>1, <2>3 DEF Written
  <2>4. QED BY <2>1, <2>2, <2>3
<1>7. \A q \in Run : \A x \in Written(q) : /\ reg[q] = Absent => Passed(q, x)
                                           /\ reg[q] # Absent => EndedAt(x) <= EndedAt(reg[q])
  BY DEF RunsInv
<1>8. \A q \in Run : \A x \in Written(q)' : /\ reg'[q] = Absent => Passed(q, x)'
                                            /\ reg'[q] # Absent => EndedAt(x) <= EndedAt(reg'[q])
  <2> SUFFICES ASSUME NEW q \in Run, NEW x \in Written(q)'
               PROVE  /\ reg[q] = Absent => Passed(q, x)
                      /\ reg[q] # Absent => EndedAt(x) <= EndedAt(reg[q])
    BY <1>3
  <2>1. PICK y \in Written(q) : EndedAt(x) = EndedAt(y)
    BY <1>6
  <2>2. QED BY <1>7, <2>1 DEF Passed, Older
<1>9. \A r \in Over(reg) : unsaved'[r] = Absent => row'[r] = reg[r]
  <2> SUFFICES ASSUME NEW r \in Over(reg), unsaved'[r] = Absent PROVE row'[r] = reg[r]
    OBVIOUS
  <2>1. table[r] = reg[r]
    OBVIOUS
  <2>2. ASSUME NEW q \in Run, table[q] # Absent
        PROVE  /\ reg[q] = Absent => Older(table[q], q, r)
               /\ reg[q] # Absent => EndedAt(table[q]) <= EndedAt(reg[q])
    <3>1. PICK x \in Written(q) : EndedAt(table[q]) = EndedAt(x)
      BY <2>2
    <3>2. QED BY <1>7, <3>1 DEF Passed, Older
  <2>3. Prune(table, p)[r] = reg[r]
    BY <2>1, <2>2, PruneKeeps
  <2>4. QED BY <2>1, <2>3
<1>10. \A r \in Over(reg) : unsaved'[r] \in {Absent, reg[r]}
  <2>1. \A r \in Over(reg) : r \in Run /\ unsaved[r] \in {Absent, reg[r]}
    BY DEF RunsInv, Over
  <2>2. QED BY <2>1
<1>11. Cardinality(Over(reg)) <= ShownCap /\ Cardinality(Live) <= MaxLive
  BY DEF RunsInv
<1>12. (Cardinality(Over(reg)) <= ShownCap /\ Cardinality(Live) <= MaxLive)'
  BY <1>3, <1>11
<1>13. \A r \in Over(reg)' : /\ unsaved'[r] \in {Absent, reg'[r]}
                             /\ unsaved'[r] = Absent => row'[r] = reg'[r]
  BY <1>3, <1>9, <1>10
<1>14. QED BY <1>5, <1>8, <1>12, <1>13 DEF RunsInv

LEMMA StartKeeps == ASSUME RunsInv, NEW r \in Run, Start(r) PROVE RunsInv'
<1>1. PICK state \in {"running", "failed"} : Put(r, [state |-> state, started |-> clock, ended |-> 0])
  BY DEF Start
<1> DEFINE s == [state |-> state, started |-> clock, ended |-> 0]
<1>2. clock \in Nat \ {0}
  BY DEF RunsInv, RunsTyped
<1>3. /\ s \in Snapshot /\ s.state = state /\ s.state # "absent" /\ EndedAt(s) = clock
      /\ s.started = clock /\ s.ended = 0
  BY <1>2 DEF Snapshot, Finished, EndedAt
<1> HIDE DEF s
<1>4. s # Absent /\ Dated(s)
  BY <1>2, <1>3, SnapshotFacts DEF Dated
<1>5. r \notin Over(reg) /\ unsaved[r] = Absent /\ row[r] = Absent
  BY SnapshotFacts DEF Start, Kept, Over, RunsInv, RunsTyped
<1>6. Written(r) = {}
  BY <1>5 DEF Written
<1>7. Put(r, s) /\ Cardinality(Live) < MaxLive
  BY <1>1 DEF s, Start
<1>8. QED BY <1>3, <1>4, <1>5, <1>6, <1>7, PutKeepsRuns

LEMMA EndKeeps == ASSUME RunsInv, NEW r \in Run, End(r) PROVE RunsInv'
<1>1. PICK state \in {"succeeded", "failed", "cancelled"} :
          Put(r, [reg[r] EXCEPT !.state = state, !.ended = clock])
  BY DEF End
<1> DEFINE s == [reg[r] EXCEPT !.state = state, !.ended = clock]
<1>2. /\ clock \in Nat \ {0} /\ reg[r] \in Snapshot /\ Dated(reg[r])
      /\ \A x \in Written(r) : Dated(x)
  BY DEF RunsInv, RunsTyped, Written
<1>3. r \in Kept(reg) /\ r \notin Over(reg)
  BY DEF End, Live
<1>4. reg[r] \in [state : Finished \cup {"running"}, started : Nat, ended : Nat]
  BY <1>2, <1>3, SnapshotFacts DEF Snapshot, Kept
<1>5. /\ s \in [state : Finished \cup {"running"}, started : Nat, ended : Nat]
      /\ s.state = state /\ s.started = reg[r].started /\ s.ended = clock
  BY <1>2, <1>4 DEF Finished
<1> HIDE DEF s
<1>6. s \in Snapshot /\ s # Absent /\ EndedAt(s) = clock
  BY <1>2, <1>5, SnapshotFacts DEF Snapshot, EndedAt
<1>7. Dated(s)
  <2>1. reg[r].started <= clock
    BY <1>2, <1>4, SnapshotFacts DEF Dated
  <2>2. QED BY <1>2, <1>5, <1>6, <2>1 DEF Dated
<1>8. \A x \in Written(r) : EndedAt(x) <= EndedAt(s)
  BY <1>2, <1>6 DEF Dated
<1>9. Put(r, s) /\ s.state # "running"
  BY <1>1, <1>5 DEF s
<1>10. QED BY <1>3, <1>6, <1>7, <1>8, <1>9, PutKeepsRuns

LEMMA ResumeKeeps == ASSUME RunsInv, NEW r \in Run, Resume(r) PROVE RunsInv'
<1>1. /\ row[r].state = "running" /\ reg[r] = Absent /\ Cardinality(Live) < MaxLive
      /\ Put(r, [row[r] EXCEPT !.ended = 0])
  BY DEF Resume
<1>2. row[r] \in Snapshot /\ Dated(row[r])
  BY DEF RunsInv, RunsTyped
<1>3. row[r] \in [state : Finished \cup {"running"}, started : Nat, ended : Nat] /\ row[r].ended = 0
  BY <1>1, <1>2, SnapshotFacts DEF Snapshot, Dated
<1>4. [row[r] EXCEPT !.ended = 0] = row[r]
  BY <1>3
<1>5. unsaved[r] = Absent /\ Put(r, row[r])
  BY <1>1, <1>4 DEF Put
<1>6. Written(r) \subseteq {row[r]}
  BY <1>5 DEF Written
<1>7. r \notin Over(reg) /\ row[r] # Absent /\ row[r].state \notin Finished
  BY <1>1, SnapshotFacts DEF Over, Finished
<1>8. \A x \in Written(r) : EndedAt(x) <= EndedAt(row[r])
  BY <1>2, <1>6, SnapshotFacts
<1>9. QED BY <1>1, <1>2, <1>5, <1>7, <1>8, PutKeepsRuns

LEMMA UpsertKeeps == ASSUME RunsInv, NEW r \in Run, Upsert(r) PROVE RunsInv'
<1> DEFINE written == [row EXCEPT ![r] = unsaved[r]]
<1>1. /\ row \in [Run -> Snapshot] /\ unsaved \in [Run -> Snapshot] /\ unsaved[r] # Absent
      /\ \A q \in Run : Dated(row[q]) /\ Dated(unsaved[q])
  BY DEF RunsInv, RunsTyped, Upsert
<1>2. /\ row' \in {written, Prune(written, ProjectOf[r])}
      /\ unsaved' = [unsaved EXCEPT ![r] = Absent] /\ UNCHANGED <<clock, reg>>
  BY DEF Upsert
<1>3. /\ written \in [Run -> Snapshot] /\ written[r] = unsaved[r]
      /\ \A q \in Run : q # r => written[q] = row[q]
  BY <1>1
<1> HIDE DEF written
<1>4. unsaved' \in [Run -> Snapshot] /\ \A q \in Run : unsaved'[q] \in {Absent, unsaved[q]}
  BY <1>1, <1>2, SnapshotFacts
<1>5. ASSUME NEW q \in Run, written[q] # Absent
      PROVE  \E x \in Written(q) : EndedAt(written[q]) = EndedAt(x) /\ Dated(written[q])
  <2>1. written[q] \in Written(q) /\ Dated(written[q])
    BY <1>1, <1>3, <1>5 DEF Written
  <2>2. QED BY <2>1
<1>6. ASSUME NEW q \in Over(reg), unsaved'[q] = Absent PROVE written[q] = reg[q]
  <2>1. q \in Run /\ unsaved[q] \in {Absent, reg[q]} /\ (unsaved[q] = Absent => row[q] = reg[q])
    BY DEF RunsInv, Over
  <2>2. CASE q = r
    BY <1>1, <1>3, <2>1, <2>2
  <2>3. CASE q # r
    BY <1>1, <1>2, <1>3, <1>6, <2>1, <2>3
  <2>4. QED BY <2>2, <2>3
<1>7. QED BY <1>2, <1>3, <1>4, <1>5, <1>6, TableStep

LEMMA AbandonKeeps == ASSUME RunsInv, NEW r \in Run, Abandon(r) PROVE RunsInv'
<1> DEFINE dropped == [row[r] EXCEPT !.state = "cancelled"]
           table == [row EXCEPT ![r] = dropped]
<1>1. /\ row \in [Run -> Snapshot] /\ unsaved \in [Run -> Snapshot] /\ row[r].state = "running"
      /\ \A q \in Run : Dated(row[q])
  BY DEF RunsInv, RunsTyped, Abandon
<1>2. row' = Prune(table, ProjectOf[r]) /\ UNCHANGED <<clock, reg, unsaved>>
  BY DEF Abandon
<1>3. row[r] \in [state : Finished \cup {"running"}, started : Nat, ended : Nat] /\ row[r] # Absent
  BY <1>1, SnapshotFacts DEF Snapshot
<1>4. /\ dropped \in [state : Finished \cup {"running"}, started : Nat, ended : Nat]
      /\ dropped.state = "cancelled" /\ dropped.started = row[r].started /\ dropped.ended = row[r].ended
  BY <1>3 DEF Finished
<1> HIDE DEF dropped
<1>5. dropped \in Snapshot /\ EndedAt(dropped) = EndedAt(row[r]) /\ Dated(dropped)
  <2>1. dropped \in Snapshot /\ EndedAt(dropped) = EndedAt(row[r])
    BY <1>4 DEF Snapshot, EndedAt
  <2>2. QED BY <1>1, <1>4, <2>1 DEF Dated
<1>6. /\ table \in [Run -> Snapshot] /\ table[r] = dropped
      /\ \A q \in Run : q # r => table[q] = row[q]
  BY <1>1, <1>5
<1> HIDE DEF table
<1>7. ASSUME NEW q \in Run, table[q] # Absent
      PROVE  \E x \in Written(q) : EndedAt(table[q]) = EndedAt(x) /\ Dated(table[q])
  <2>1. row[q] \in Written(q)
    BY <1>3, <1>6, <1>7 DEF Written
  <2>2. EndedAt(table[q]) = EndedAt(row[q]) /\ Dated(table[q])
    BY <1>1, <1>5, <1>6
  <2>3. QED BY <2>1, <2>2
<1>8. ASSUME NEW q \in Over(reg), unsaved'[q] = Absent PROVE table[q] = reg[q]
  <2>1. q \in Run /\ row[q] = reg[q] /\ reg[q].state \in Finished
    BY <1>2, <1>8 DEF RunsInv, Over, Finished
  <2>2. q # r
    BY <1>1, <2>1 DEF Finished
  <2>3. QED BY <1>6, <2>1, <2>2
<1>9. QED BY <1>1, <1>2, <1>6, <1>7, <1>8, TableStep

\* A start finds a table whose rows have all ended before now.
LEMMA RestartKeeps == ASSUME RunsInv, Restart PROVE RunsInv'
<1>1. /\ row \in [Run -> Snapshot] /\ clock \in Nat \ {0} /\ \A q \in Run : Dated(row[q])
  BY DEF RunsInv, RunsTyped
<1>2. /\ reg' = [r \in Run |-> Absent] /\ unsaved' = [r \in Run |-> Absent] /\ clock' = clock + 1
      /\ row' = [r \in Run |-> Prune(row, ProjectOf[r])[r]]
  BY DEF Restart
<1>3. row' \in [Run -> Snapshot] /\ \A q \in Run : row'[q] \in {Absent, row[q]}
  BY <1>1, <1>2, Pruned
<1>4. Over(reg') = {} /\ Live' = {}
  BY <1>2, SnapshotFacts DEF Over, Live, Kept
<1>5. RunsTyped'
  <2>1. \A q \in Run : row'[q] \in Snapshot /\ EndedAt(row'[q]) \in Nat
    BY <1>3, SnapshotFacts
  <2>2. ASSUME NEW q \in Run
        PROVE  /\ row'[q].started <= EndedAt(row'[q]) /\ EndedAt(row'[q]) <= clock
               /\ row'[q].state = "running" => row'[q].ended = 0
    BY <1>1, <1>3, SnapshotFacts DEF Dated
  <2>3. ASSUME NEW q \in Run PROVE Dated(row[q])'
    BY <1>1, <1>2, <2>1, <2>2 DEF Dated
  <2>4. ASSUME NEW q \in Run PROVE (Dated(reg[q]) /\ Dated(unsaved[q]))'
    BY <1>1, <1>2, SnapshotFacts DEF Dated
  <2>5. QED BY <1>1, <1>2, <1>3, <2>3, <2>4, SnapshotFacts DEF RunsTyped
<1>6. \A q \in Run : \A x \in Written(q)' : Passed(q, x)'
  <2> SUFFICES ASSUME NEW q \in Run, NEW x \in Written(q)' PROVE Passed(q, x)'
    OBVIOUS
  <2>1. x = row[q]
    BY <1>2, <1>3 DEF Written
  <2>2. EndedAt(x) \in Nat /\ EndedAt(x) <= clock
    BY <1>1, <2>1, SnapshotFacts DEF Dated
  <2>3. EndedAt(x) # clock'
    BY <1>1, <1>2, <2>2
  <2>4. QED BY <1>4, <2>3 DEF Passed
<1>7. (Cardinality(Over(reg)) <= ShownCap /\ Cardinality(Live) <= MaxLive)'
  <2>1. Cardinality({}) = 0 /\ ShownCap \in Nat /\ MaxLive \in Nat
    BY FS_EmptySet, Sizes
  <2>2. QED BY <1>4, <2>1
<1>8. QED BY <1>2, <1>4, <1>5, <1>6, <1>7 DEF RunsInv

LEMMA TimeKeeps == ASSUME RunsInv, TimePasses PROVE RunsInv'
<1>1. clock \in Nat \ {0} /\ clock' = clock + 1 /\ UNCHANGED <<reg, row, unsaved>>
  BY DEF RunsInv, RunsTyped, TimePasses
<1>2. ASSUME NEW x \in Snapshot, Dated(x) PROVE Dated(x)' /\ EndedAt(x) # clock'
  BY <1>1, <1>2, SnapshotFacts DEF Dated
<1>3. RunsTyped'
  <2>1. {reg, row, unsaved} \subseteq [Run -> Snapshot]
    BY DEF RunsInv, RunsTyped
  <2>2. \A q \in Run : (Dated(reg[q]) /\ Dated(row[q]) /\ Dated(unsaved[q]))'
    <3> TAKE q \in Run
    <3>1. /\ reg[q] \in Snapshot /\ row[q] \in Snapshot /\ unsaved[q] \in Snapshot
          /\ Dated(reg[q]) /\ Dated(row[q]) /\ Dated(unsaved[q])
      BY <2>1 DEF RunsInv, RunsTyped
    <3>2. Dated(reg[q])' /\ Dated(row[q])' /\ Dated(unsaved[q])'
      BY <1>1, <3>1, SnapshotFacts DEF Dated
    <3>3. QED BY <3>2
  <2>3. QED BY <1>1, <2>1, <2>2 DEF RunsTyped
<1>4. \A q \in Run : \A x \in Written(q)' : /\ reg'[q] = Absent => Passed(q, x)'
                                            /\ reg'[q] # Absent => EndedAt(x) <= EndedAt(reg'[q])
  <2> SUFFICES ASSUME NEW q \in Run, NEW x \in Written(q)'
               PROVE  /\ reg'[q] = Absent => Passed(q, x)'
                      /\ reg'[q] # Absent => EndedAt(x) <= EndedAt(reg'[q])
    OBVIOUS
  <2>1. x \in Written(q)
    BY <1>1 DEF Written
  <2>2. x \in Snapshot /\ Dated(x)
    BY <2>1 DEF RunsInv, RunsTyped, Written
  <2>3. EndedAt(x) # clock'
    BY <1>2, <2>2
  <2>4. /\ reg[q] = Absent => Passed(q, x)
        /\ reg[q] # Absent => EndedAt(x) <= EndedAt(reg[q])
    BY <2>1 DEF RunsInv
  <2>5. Over(reg') = Over(reg)
    BY <1>1
  <2>6. Passed(q, x) => Passed(q, x)'
    BY <1>1, <2>3, <2>5 DEF Passed, Older
  <2>7. QED BY <1>1, <2>4, <2>6
<1>5. Over(reg)' = Over(reg) /\ Live' = Live
  BY <1>1 DEF Live
<1>6. QED BY <1>1, <1>3, <1>4, <1>5 DEF RunsInv

LEMMA RunsHold == StoreSpec => []RunsInv
<1>1. RunsInv /\ [StoreNext]_storeVars => RunsInv'
  <2> SUFFICES ASSUME RunsInv, [StoreNext]_storeVars PROVE RunsInv'
    OBVIOUS
  <2>1. CASE UNCHANGED runs
    BY <2>1 DEF runs, RunsInv, RunsTyped, Dated, Over, Live, Kept, Written, Passed, Older
  <2>2. CASE RunsNext
    BY <2>2, StartKeeps, EndKeeps, ResumeKeeps, UpsertKeeps, AbandonKeeps, RestartKeeps, TimeKeeps
       DEF RunsNext
  <2>3. QED BY <2>1, <2>2 DEF StoreNext, storeVars
<1>2. QED BY <1>1, RunsStart, PTL DEF StoreSpec

\* WorkflowRegistry::put and upsert_workflow_run: the two windows differ in what they count
\* and when, and still whatever finished run is shown and was persisted has its row.
THEOREM WhatIsShownIsStored == StoreSpec => []ShownIsStored
<1>1. RunsInv => ShownIsStored
  <2> SUFFICES ASSUME RunsInv, NEW r \in Over(reg), unsaved[r] = Absent PROVE row[r].state # "absent"
    BY DEF ShownIsStored
  <2>1. row[r] = reg[r]
    BY DEF RunsInv
  <2>2. reg[r].state # "absent"
    BY DEF Over
  <2>3. QED BY <2>1, <2>2
<1>2. QED BY <1>1, RunsHold, PTL
====
