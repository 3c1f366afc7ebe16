-------------------------------- MODULE Records --------------------------------
(***************************************************************************)
(* Pins and notes of queen_store.rs: records that agents share, guarded by *)
(* a revision.  An agent reads a record, thinks, and writes with the       *)
(* revision it has read; others have written in between.  Every mutation   *)
(* is one immediate transaction under the connection lock, so each is one  *)
(* action.  A refused call changes nothing and has no action.              *)
(*                                                                         *)
(* Content is a stamp: no two writes write the same.                       *)
(***************************************************************************)
EXTENDS Integers, FiniteSets

CONSTANTS
    Agent,      \* the callers
    Key,        \* keys of pins
    MaxPins,    \* MAX_PINS_PER_PROJECT
    MaxNotes,   \* MAX_NOTES_PER_PROJECT
    MaxWrites   \* bound: writes of all callers

ASSUME RecordsAssumption == {MaxPins, MaxNotes, MaxWrites} \subseteq Nat

NoteId == 1 .. MaxWrites
Gone == [rev |-> 0, title |-> 0, body |-> 0, life |-> 0]

VARIABLES
    pin,        \* pins, by key
    note,       \* notes, by id
    nextId,     \* the id of the next note (AUTOINCREMENT)
    copy,       \* what each agent has read, of one record
    writes      \* writes so far

vars == <<pin, note, nextId, copy, writes>>

Nothing == [of |-> "nothing", at |-> 0, what |-> Gone]

Init ==
    /\ pin = [k \in Key |-> Gone]
    /\ note = [i \in NoteId |-> Gone]
    /\ nextId = 1
    /\ copy = [a \in Agent |-> Nothing]
    /\ writes = 0

Exists(record) == record.rev > 0
Present(table) == {x \in DOMAIN table : Exists(table[x])}
Holds(a, table, at) == copy[a].of = table /\ copy[a].at = at

\* A write stamps its content.
Stamped == writes < MaxWrites /\ writes' = writes + 1

\* Mutant: a write leaves the revision as it is.
RevisedInPlace(record, title, body) == [record EXCEPT !.title = title, !.body = body]

Revised(record, title, body) ==
    [rev |-> record.rev + 1, title |-> title, body |-> body, life |-> record.life]

-------------------------------------------------------------------------------
(* Pins.                                                                   *)

ListPins(a, k) ==
    /\ Exists(pin[k])
    /\ copy' = [copy EXCEPT ![a] = [of |-> "pin", at |-> k, what |-> pin[k]]]
    /\ UNCHANGED <<pin, note, nextId, writes>>

\* set_pin without a revision creates.
CreatePin(k) ==
    /\ ~Exists(pin[k]) /\ Cardinality(Present(pin)) < MaxPins
    /\ Stamped
    /\ pin' = [pin EXCEPT ![k] = [rev |-> 1, title |-> 0, body |-> writes + 1,
                                  life |-> writes + 1]]
    /\ UNCHANGED <<note, nextId, copy>>

\* set_pin with the revision that was read.
SetPin(a, k) ==
    /\ Exists(pin[k]) /\ Holds(a, "pin", k) /\ copy[a].what.rev = pin[k].rev
    /\ Stamped
    /\ pin' = [pin EXCEPT ![k] = Revised(@, 0, writes + 1)]
    /\ UNCHANGED <<note, nextId, copy>>

DeletePin(a, k) ==
    /\ Exists(pin[k]) /\ Holds(a, "pin", k) /\ copy[a].what.rev = pin[k].rev
    /\ pin' = [pin EXCEPT ![k] = Gone]
    /\ UNCHANGED <<note, nextId, copy, writes>>

-------------------------------------------------------------------------------
(* Notes.                                                                  *)

\* list_notes and get_note.
GetNote(a, i) ==
    /\ Exists(note[i])
    /\ copy' = [copy EXCEPT ![a] = [of |-> "note", at |-> i, what |-> note[i]]]
    /\ UNCHANGED <<pin, note, nextId, writes>>

\* Mutant: the row after the last one there is, as a table without AUTOINCREMENT.
IdAfterLast == Cardinality(Present(note)) + 1

NewId == nextId

\* Mutant: a full project takes one more note.
CreateNotePastLimit ==
    /\ Cardinality(Present(note)) <= MaxNotes
    /\ Stamped
    /\ note' = [note EXCEPT ![NewId] = [rev |-> 1, title |-> writes + 1, body |-> writes + 1,
                                        life |-> writes + 1]]
    /\ nextId' = nextId + 1
    /\ UNCHANGED <<pin, copy>>

CreateNote ==
    /\ Cardinality(Present(note)) < MaxNotes
    /\ Stamped
    /\ note' = [note EXCEPT ![NewId] = [rev |-> 1, title |-> writes + 1, body |-> writes + 1,
                                        life |-> writes + 1]]
    /\ nextId' = nextId + 1
    /\ UNCHANGED <<pin, copy>>

\* update_note changes the fields it is given and keeps the others.
UpdateNote(a, i) ==
    /\ Exists(note[i]) /\ Holds(a, "note", i) /\ copy[a].what.rev = note[i].rev
    /\ Stamped
    /\ \E fields \in SUBSET {"title", "body"} \ {{}} :
        note' = [note EXCEPT ![i] = Revised(@,
                     IF "title" \in fields THEN writes + 1 ELSE note[i].title,
                     IF "body" \in fields THEN writes + 1 ELSE note[i].body)]
    /\ UNCHANGED <<pin, nextId, copy>>

DeleteNote(a, i) ==
    /\ Exists(note[i]) /\ Holds(a, "note", i) /\ copy[a].what.rev = note[i].rev
    /\ note' = [note EXCEPT ![i] = Gone]
    /\ UNCHANGED <<pin, nextId, copy, writes>>

-------------------------------------------------------------------------------
Next ==
    \/ \E k \in Key : CreatePin(k) \/ \E a \in Agent : ListPins(a, k) \/ SetPin(a, k) \/ DeletePin(a, k)
    \/ CreateNote
    \/ \E a \in Agent, i \in NoteId : GetNote(a, i) \/ UpdateNote(a, i) \/ DeleteNote(a, i)

Spec == Init /\ [][Next]_vars

-------------------------------------------------------------------------------
(* Properties.                                                             *)

Record == [rev : 0 .. MaxWrites, title : 0 .. MaxWrites, body : 0 .. MaxWrites, life : 0 .. MaxWrites]

TypeOK ==
    /\ pin \in [Key -> Record] /\ Cardinality(Present(pin)) <= MaxPins
    /\ note \in [NoteId -> Record] /\ Cardinality(Present(note)) <= MaxNotes
    /\ nextId \in 1 .. MaxWrites + 1
    /\ copy \in [Agent -> [of : {"nothing", "pin", "note"}, at : Key \cup NoteId \cup {0},
                           what : Record]]
    /\ writes \in 0 .. MaxWrites

\* "Stale writes fail without overwriting another agent's change": whoever holds the
\* current revision of a note has read its current content, so a write it is allowed
\* replaces nothing unseen.
NoteRevisionNamesContent ==
    \A a \in Agent, i \in NoteId :
        Holds(a, "note", i) /\ Exists(note[i]) /\ copy[a].what.rev = note[i].rev =>
            copy[a].what = note[i]

\* The same of a pin, as long as it has not been deleted and set again since.
PinRevisionNamesContent ==
    \A a \in Agent, k \in Key :
        /\ Holds(a, "pin", k) /\ Exists(pin[k])
        /\ copy[a].what.rev = pin[k].rev /\ copy[a].what.life = pin[k].life
        => copy[a].what = pin[k]

\* "A stale delete fails without removing newer content": no agent may delete a pin
\* whose content it has not read.
StaleDeleteFails ==
    [][\A a \in Agent, k \in Key :
        Exists(pin[k]) /\ ~Exists(pin'[k]) =>
            \E b \in Agent : Holds(b, "pin", k) /\ copy[b].what = pin[k]]_vars
=============================================================================
