-------------------------------- MODULE Mailbox --------------------------------
(***************************************************************************)
(* The inbox of queen_store.rs: messages that agents send one another, and *)
(* the callers that wait for one.                                          *)
(*                                                                         *)
(* Two locks meet here.  Writers keep the database connection until they   *)
(* have notified; the table of channels has a lock of its own, taken for a *)
(* lookup, a subscription, or the last check of a waiter that leaves.  A   *)
(* receiver is told that something changed, not what: it reads again.      *)
(***************************************************************************)
EXTENDS Integers, Sequences, FiniteSets

CONSTANTS
    Waiter,         \* callers of await_inbox
    Box,            \* the mailbox each of them waits on
    Address,          \* mailboxes
    Channel,        \* watch channels
    NoChannel, NoOne,
    PageSize,       \* limit of a read
    MaxMessages     \* MAX_MESSAGES_PER_PROJECT

ASSUME MailboxAssumption ==
    /\ Box \in [Waiter -> Address]
    /\ NoChannel \notin Channel /\ NoOne \notin Address
    /\ PageSize \in Nat \ {0} /\ MaxMessages \in Nat

VARIABLES
    inbox,          \* all messages of the project, by id
    writer,         \* who is to be notified by the writer that holds the connection
    channel,        \* mailbox_waiters
    pc,             \* where each waiter stands
    mine,           \* the channel each waiter was handed
    receiver,       \* the channel it listens to
    changed,        \* its receiver has a change it has not seen
    cancelled,      \* its cancellation token
    cursor          \* the last id it was given, its next afterId

waiters == <<channel, pc, mine, receiver, changed, cancelled, cursor>>
mailVars == <<inbox, writer, waiters>>

Id == DOMAIN inbox

-------------------------------------------------------------------------------
(* Reads and writes.                                                       *)

\* list_inbox: what is unread in the mailbox of w behind its cursor.
Mail(w) == {i \in Id : i > cursor[w] /\ inbox[i].to = Box[w] /\ ~inbox[i].acked}

\* ... ORDER BY id ASC LIMIT.
PageOf(w) == {i \in Mail(w) : Cardinality({j \in Mail(w) : j < i}) < PageSize}

MailInit ==
    /\ inbox = <<>> /\ writer = NoOne
    /\ channel = [a \in Address |-> NoChannel]
    /\ pc = [w \in Waiter |-> "idle"]
    /\ mine = [w \in Waiter |-> NoChannel]
    /\ receiver = [w \in Waiter |-> NoChannel]
    /\ changed = [w \in Waiter |-> FALSE]
    /\ cancelled = [w \in Waiter |-> FALSE]
    /\ cursor = [w \in Waiter |-> 0]

\* Mutant: a full project takes one more message.
InsertPastLimit(before, from, to) ==
    /\ writer = NoOne /\ Len(inbox) <= MaxMessages
    /\ inbox' = Append(before, [from |-> from, to |-> to, acked |-> FALSE])
    /\ writer' = to
    /\ UNCHANGED waiters

\* Insert a message; the connection is kept for the notification.
Insert(before, from, to) ==
    /\ writer = NoOne /\ Len(inbox) < MaxMessages
    /\ inbox' = Append(before, [from |-> from, to |-> to, acked |-> FALSE])
    /\ writer' = to
    /\ UNCHANGED waiters

SendInbox(from, to) == Insert(inbox, from, to)

\* reply_inbox: only the recipient replies; the reply acknowledges.
ReplyInbox(i) ==
    Insert([inbox EXCEPT ![i].acked = TRUE], inbox[i].to, inbox[i].from)

AckInbox(i) ==
    /\ writer = NoOne /\ ~inbox[i].acked
    /\ inbox' = [inbox EXCEPT ![i].acked = TRUE]
    /\ UNCHANGED <<writer, waiters>>

\* ack_inbox_from_sender: a run that is over takes back what nobody read.
AckInboxFromSender(from) ==
    /\ writer = NoOne
    /\ \E i \in Id : inbox[i].from = from /\ ~inbox[i].acked
    /\ inbox' = [i \in Id |-> [inbox[i] EXCEPT !.acked = @ \/ inbox[i].from = from]]
    /\ UNCHANGED <<writer, waiters>>

\* Mutant: only one waiter of the mailbox is woken.
NotifyOne ==
    /\ writer # NoOne /\ writer' = NoOne
    /\ changed' = [changed EXCEPT ![CHOOSE w \in Waiter : TRUE] =
                     channel[writer] # NoChannel]
    /\ UNCHANGED <<inbox, channel, pc, mine, receiver, cancelled, cursor>>

\* Mutant: the notification creates the channel it looks up.
NotifyEntry ==
    /\ writer # NoOne /\ writer' = NoOne
    /\ channel' = [channel EXCEPT ![writer] =
                     IF @ = NoChannel THEN CHOOSE c \in Channel : TRUE ELSE @]
    /\ changed' = [w \in Waiter |-> changed[w] \/ receiver[w] = channel[writer]]
    /\ UNCHANGED <<inbox, pc, mine, receiver, cancelled, cursor>>

\* notify_inbox: a lookup, so that a mailbox without waiters gains no channel.
NotifyInbox ==
    /\ writer # NoOne /\ writer' = NoOne
    /\ changed' = [w \in Waiter |->
                     changed[w] \/ (/\ channel[writer] # NoChannel
                                    /\ receiver[w] = channel[writer])]
    /\ UNCHANGED <<inbox, channel, pc, mine, receiver, cancelled, cursor>>

-------------------------------------------------------------------------------
(* await_inbox.                                                            *)

Unused == Channel \ ({channel[a] : a \in Address} \cup {mine[w] : w \in Waiter})

\* subscribe_mailbox: find or create the channel and subscribe, under one lock.
SubscribeMailbox(w) ==
    /\ pc[w] = "idle"
    /\ \E c \in Channel :
        /\ IF channel[Box[w]] = NoChannel THEN c \in Unused ELSE c = channel[Box[w]]
        /\ channel' = [channel EXCEPT ![Box[w]] = c]
        /\ mine' = [mine EXCEPT ![w] = c]
        /\ receiver' = [receiver EXCEPT ![w] = c]
    /\ pc' = [pc EXCEPT ![w] = "read"]
    /\ UNCHANGED <<inbox, writer, changed, cancelled, cursor>>

Leave(w) == pc' = [pc EXCEPT ![w] = "leave"]

\* One turn of the loop: list_inbox, with the token looked at before and after.
Read(w) ==
    /\ pc[w] = "read" /\ (cancelled[w] \/ writer = NoOne)
    /\ \/ cancelled[w] /\ Leave(w) /\ UNCHANGED cursor
       \/ /\ ~cancelled[w] /\ Leave(w)
          /\ \E last \in PageOf(w) :
                /\ \A i \in PageOf(w) : i <= last
                /\ cursor' = [cursor EXCEPT ![w] = last]
       \/ /\ ~cancelled[w] /\ Mail(w) = {}
          /\ pc' = [pc EXCEPT ![w] = "select"] /\ UNCHANGED cursor
    /\ UNCHANGED <<inbox, writer, channel, mine, receiver, changed, cancelled>>

Wake(w) ==
    /\ pc[w] = "select" /\ changed[w] /\ ~cancelled[w]
    /\ changed' = [changed EXCEPT ![w] = FALSE]
    /\ pc' = [pc EXCEPT ![w] = "read"]
    /\ UNCHANGED <<inbox, writer, channel, mine, receiver, cancelled, cursor>>

\* The select is biased: the token, then the deadline, then the channel.
Cancelled(w) ==
    /\ pc[w] = "select" /\ cancelled[w] /\ Leave(w)
    /\ UNCHANGED <<inbox, writer, channel, mine, receiver, changed, cancelled, cursor>>

\* The deadline, or the caller goes away and the future is dropped where it waits.
TimedOut(w) ==
    /\ pc[w] = "select" /\ ~cancelled[w] /\ Leave(w)
    /\ UNCHANGED <<inbox, writer, channel, mine, receiver, changed, cancelled, cursor>>

Cancel(w) ==
    /\ pc[w] \in {"read", "select"} /\ ~cancelled[w]
    /\ cancelled' = [cancelled EXCEPT ![w] = TRUE]
    /\ UNCHANGED <<inbox, writer, channel, pc, mine, receiver, changed, cursor>>

\* MailboxSubscription::drop, first its receiver, ...
ReleaseReceiver(w) ==
    /\ pc[w] = "leave"
    /\ receiver' = [receiver EXCEPT ![w] = NoChannel]
    /\ changed' = [changed EXCEPT ![w] = FALSE]
    /\ pc' = [pc EXCEPT ![w] = "drop"]
    /\ UNCHANGED <<inbox, writer, channel, mine, cancelled, cursor>>

\* Mutant: whoever leaves takes the channel of its mailbox along.
IdleUnchecked(w) == channel[Box[w]] = mine[w]

\* ... is_ours_and_idle, ...
IsOursAndIdle(w) ==
    channel[Box[w]] = mine[w] /\ \A v \in Waiter : receiver[v] # mine[w]

\* ... then the entry, under the lock of the table.
DropEntry(w) ==
    /\ pc[w] = "drop"
    /\ channel' = [channel EXCEPT ![Box[w]] = IF IsOursAndIdle(w) THEN NoChannel ELSE @]
    /\ mine' = [mine EXCEPT ![w] = NoChannel]
    /\ pc' = [pc EXCEPT ![w] = "idle"]
    /\ cancelled' = [cancelled EXCEPT ![w] = FALSE]
    /\ UNCHANGED <<inbox, writer, receiver, changed, cursor>>

-------------------------------------------------------------------------------
Write ==
    \/ \E from \in Address, to \in Address : SendInbox(from, to)
    \/ \E i \in Id : ReplyInbox(i) \/ AckInbox(i)
    \/ \E from \in Address : AckInboxFromSender(from)

Wait(w) ==
    \/ SubscribeMailbox(w) \/ Read(w) \/ Wake(w)
    \/ Cancelled(w) \/ TimedOut(w) \/ Cancel(w)
    \/ ReleaseReceiver(w) \/ DropEntry(w)

MailNext == Write \/ NotifyInbox \/ \E w \in Waiter : Wait(w)

MailSpec == MailInit /\ [][MailNext]_mailVars

\* A writer that has committed goes on to notify; a waiter that can run is run by the
\* async runtime.  Nothing says that a message is sent, or that a deadline comes first.
MailFairness ==
    /\ WF_mailVars(NotifyInbox)
    /\ \A w \in Waiter :
        WF_mailVars(Read(w)) /\ WF_mailVars(Wake(w)) /\ WF_mailVars(Cancelled(w))
        /\ WF_mailVars(ReleaseReceiver(w)) /\ WF_mailVars(DropEntry(w))

FairMailSpec == MailSpec /\ MailFairness

-------------------------------------------------------------------------------
(* Properties.                                                             *)

MailTypeOK ==
    /\ inbox \in Seq([from : Address, to : Address, acked : BOOLEAN]) /\ Len(inbox) <= MaxMessages
    /\ writer \in Address \cup {NoOne}
    /\ channel \in [Address -> Channel \cup {NoChannel}]
    /\ pc \in [Waiter -> {"idle", "read", "select", "leave", "drop"}]
    /\ mine \in [Waiter -> Channel \cup {NoChannel}]
    /\ receiver \in [Waiter -> Channel \cup {NoChannel}]
    /\ changed \in [Waiter -> BOOLEAN]
    /\ cancelled \in [Waiter -> BOOLEAN]
    /\ cursor \in [Waiter -> Nat]

\* No lost wake-up: a waiter that sleeps while there is mail for it has a change to
\* see, or the writer of that mail has yet to notify (await_inbox: "the only thing
\* preventing a lost wakeup").
NoLostWakeup ==
    \A w \in Waiter :
        pc[w] = "select" /\ Mail(w) # {} => changed[w] \/ writer = Box[w]

\* No channel leaks: one that is in the table belongs to a call that has not returned
\* ("an idle store holds none").
NoLeak ==
    \A a \in Address :
        channel[a] # NoChannel =>
            \E w \in Waiter : Box[w] = a /\ pc[w] # "idle" /\ mine[w] = channel[a]

\* Mail wakes the sleeper without help of its deadline.
Woken ==
    \A w \in Waiter : (pc[w] = "select" /\ Mail(w) # {}) ~> (pc[w] # "select" \/ Mail(w) = {})
=============================================================================
