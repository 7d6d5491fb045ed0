------------------------------ MODULE EventList ------------------------------
(***************************************************************************)
(* The MIDI event list of MIDI/event_list.C: events in order of time, note   *)
(* ons linked to their note offs, a selection that always takes both halves  *)
(* of a note, and the editing operations a piano roll performs on them.      *)
(*                                                                         *)
(* Abstractions: the doubly linked list is the sequence of its events;       *)
(* velocities, channels and the bytes of other messages are left out (an     *)
(* event of another kind is a "ctl"); ticks are natural numbers and the 128  *)
(* notes are 0..Notes-1, with the wrap-around of midievent::note().          *)
(***************************************************************************)
EXTENDS Integers, Sequences, FiniteSets, SequencesExt, FiniteSetsExt

CONSTANTS
  Notes,       \* number of notes
  MaxTick,     \* bound: ticks of an event
  MaxEvents,   \* bound: events of the list
  MaxClip,     \* bound: events of the clipboard
  MaxSelected, \* bound: depth of push_selection()
  Takes,       \* recorded takes: events in order of time, neither linked nor selected
  Overlaps,    \* may the user let two notes of one pitch overlap, or have length 0?
  Removes,     \* may the user remove events?
  InsertsTime  \* may insert_time() be called?

Tick == 0..MaxTick
Note == 0..Notes - 1
Op == {"on", "off", "ctl"}
None == 0

Event == [op : Op, note : Note, ts : Nat, sel : Nat, link : Nat]

ASSUME EventListAssumption ==
  /\ Notes \in Nat \ {0} /\ MaxTick \in Nat /\ MaxEvents \in Nat /\ MaxClip \in Nat /\ MaxSelected \in Nat \ {0}
  /\ \A t \in Takes :
       /\ t \in Seq(Event) /\ \A k \in DOMAIN t : t[k].sel = 0 /\ t[k].link = None
       /\ \A j, k \in DOMAIN t : j < k => t[j].ts <= t[k].ts
  /\ {Overlaps, Removes, InsertsTime} \subseteq BOOLEAN

VARIABLES
  heap, \* the events that exist
  list, \* the list: [seq, size]
  clip  \* a second list, the clipboard

vars == <<heap, list, clip>>

EmptyList == [seq |-> <<>>, size |-> 0]

(* A list with the memory its events live in: what the methods work on. *)
With(l) == [ev |-> heap, seq |-> l.seq, size |-> l.size]

Listed(L) == {L.seq[k] : k \in DOMAIN L.seq}
Ons(L) == {x \in Listed(L) : L.ev[x].op = "on"}
Selected(L) == {x \in Listed(L) : L.ev[x].sel = 1}
PosOf(L, x) == CHOOSE k \in DOMAIN L.seq : L.seq[k] = x

-----------------------------------------------------------------------------
(* List primitives *)

(* An unused address; an address some event still links to counts as used. *)
FreshEvent(L) ==
  LET used == DOMAIN L.ev \cup {L.ev[x].link : x \in DOMAIN L.ev}
  IN Min((1..Cardinality(used) + 1) \ used)

Allocate(L, x, r) == [L EXCEPT !.ev = [y \in DOMAIN @ \cup {x} |-> IF y = x THEN r ELSE @[y]]]
Release(L, X) == [L EXCEPT !.ev = [y \in DOMAIN @ \ X |-> @[y]]]

(* insert(): behind the last event that is not later, else at the head *)
Insert(L, x) ==
  LET k == Max({0} \cup {j \in DOMAIN L.seq : L.ev[L.seq[j]].ts <= L.ev[x].ts})
  IN [L EXCEPT !.seq = InsertAt(@, k + 1, x), !.size = @ + 1]

(* mutant: unlink() without --_size *)
UnlinkUncounted(L, x) == [L EXCEPT !.seq = RemoveAt(@, PosOf(L, x))]

Unlink(L, x) == [L EXCEPT !.seq = RemoveAt(@, PosOf(L, x)), !.size = @ - 1]

(* event::link(): mutual *)
Couple(L, a, b) == [L EXCEPT !.ev[a].link = b, !.ev[b].link = a]

(* event::link( NULL ) on every event *)
Unlinked(L) ==
  [L EXCEPT !.ev = [x \in DOMAIN @ |-> IF x \in Listed(L) THEN [@[x] EXCEPT !.link = None] ELSE @[x]]]

(* mutant: note offs that have a note on are not passed over *)
LinkOnTaken(L, on) ==
  LET later == {k \in PosOf(L, on) + 1 .. Len(L.seq) :
                  LET e == L.ev[L.seq[k]]
                  IN e.op = "off" /\ e.note = L.ev[on].note}
  IN IF later # {} THEN Couple(L, on, L.seq[Min(later)]) ELSE L

(* link(): the next note off of that note that has no note on yet; when there  *)
(* is none, one is made at the time of the note on.                            *)
LinkOn(L, on) ==
  LET later == {k \in PosOf(L, on) + 1 .. Len(L.seq) :
                  LET e == L.ev[L.seq[k]]
                  IN e.link = None /\ e.op = "off" /\ e.note = L.ev[on].note}
      off == FreshEvent(L)
      repaired == Allocate(L, off, [L.ev[on] EXCEPT !.op = "off", !.link = None])
  IN IF later # {} THEN Couple(L, on, L.seq[Min(later)])
     ELSE Insert(Couple(repaired, on, off), off)

(* relink(): every note on, in order *)
Relink(L) ==
  FoldLeft(LAMBDA M, x : IF M.ev[x].op = "on" THEN LinkOn(M, x) ELSE M, Unlinked(L), L.seq)

SameEvent(e, f) == e.op = f.op /\ e.note = f.note /\ e.ts = f.ts

(* mix(): an event like that one is there already, or it goes in with its      *)
(* partner.                                                                    *)
Mix(L, x) ==
  LET y == L.ev[x].link
  IN IF \E z \in Listed(L) : SameEvent(L.ev[z], L.ev[x]) THEN Release(L, {x, y})
     ELSE IF y = None THEN Insert(L, x) ELSE Insert(Insert(L, x), y)

-----------------------------------------------------------------------------
(* Selection *)

(* mutant: event::select() does not select the partner *)
MarkAlone(L, X, n) ==
  [L EXCEPT !.ev = [z \in DOMAIN @ |-> IF z \in X THEN [@[z] EXCEPT !.sel = n] ELSE @[z]]]

(* sel of the events X and of their partners *)
Mark(L, X, n) ==
  LET Y == X \cup {L.ev[x].link : x \in X}
  IN [L EXCEPT !.ev = [z \in DOMAIN @ |-> IF z \in Y THEN [@[z] EXCEPT !.sel = n] ELSE @[z]]]

(* select( start, end ): a note off exactly on start does not count *)
InRange(L, s, t) ==
  {x \in Listed(L) : LET e == L.ev[x] IN e.ts >= s /\ e.ts < t /\ ~(e.ts = s /\ e.op = "off")}

(* select( start, end, hi, lo ) *)
NotesIn(L, s, t, hi, lo) ==
  {x \in Ons(L) : LET e == L.ev[x] IN e.ts >= s /\ e.ts < t /\ e.note <= hi /\ e.note >= lo}

InvertSelection(L) ==
  LET heads == {x \in Listed(L) : L.ev[x].op # "off"}
      on == heads \cap Selected(L)
  IN Mark(Mark(L, on, 0), heads \ on, 1)

(* push_selection(), pop_selection() *)
Deepen(L, d) ==
  [L EXCEPT !.ev = [x \in DOMAIN @ |->
     IF x \in Listed(L) /\ L.ev[x].sel > 0 THEN [L.ev[x] EXCEPT !.sel = @ + d] ELSE L.ev[x]]]

SelectionMin(L) ==
  IF Selected(L) = {} THEN 0
  ELSE L.ev[L.seq[Min({k \in DOMAIN L.seq : L.seq[k] \in Selected(L)})]].ts

(* remove() of every event of X *)
RemoveAll(L, X) ==
  FoldLeft(LAMBDA M, x : IF x \in X THEN Unlink(M, x) ELSE M, Release(L, X), L.seq)

(* remove_selected(): the partners are selected too and go the same way *)
RemoveSelected(L) == RemoveAll(L, Selected(L))

-----------------------------------------------------------------------------
(* Editing *)

(* mutant: event::note() does not change the partner *)
SetNoteAlone(L, X, n) ==
  [L EXCEPT !.ev = [z \in DOMAIN @ |-> IF z \in X THEN [@[z] EXCEPT !.note = n[@]] ELSE @[z]]]

(* event::note(): both halves; n says which note becomes which *)
SetNote(L, X, n) ==
  LET Y == X \cup {L.ev[x].link : x \in X}
  IN [L EXCEPT !.ev = [z \in DOMAIN @ |-> IF z \in Y THEN [L.ev[z] EXCEPT !.note = n[@]] ELSE L.ev[z]]]

Later(L, X, o) ==
  [L EXCEPT !.ev = [z \in DOMAIN @ |-> IF z \in X THEN [L.ev[z] EXCEPT !.ts = @ + o] ELSE L.ev[z]]]

(* move() *)
Move(L, x, o) == Insert(Unlink(Later(L, {x}, o), x), x)

(* mutant: the events keep their places *)
NudgeUnsorted(L, o) == IF o < 0 /\ SelectionMin(L) < 0 - o THEN L ELSE Later(L, Selected(L), o)

(* the events of s that are selected, in that order *)
MoveChosen(L, o, s) ==
  FoldLeft(LAMBDA M, x : IF x \in Selected(L) THEN Move(M, x, o) ELSE M, L, s)

(* mutant: the check of the left edge is missing *)
NudgeBeyondZero(L, o) == MoveChosen(L, o, IF o < 0 THEN L.seq ELSE Reverse(L.seq))

(* mutant: from the head in either direction, which meets moved events again *)
NudgeTwice(L, o) == MoveChosen(L, o, L.seq \o L.seq)

(* nudge_selected(): from the head when moving left, from the tail otherwise,  *)
(* and not at all when the selection would start before 0                      *)
Nudge(L, o) ==
  IF o < 0 /\ SelectionMin(L) < 0 - o THEN L
  ELSE MoveChosen(L, o, IF o < 0 THEN L.seq ELSE Reverse(L.seq))

(* copy_selected() of the events of L, into list C of the same memory: times   *)
(* count from the first event of L; the copy of a note comes twice, once from   *)
(* either half, and mix() drops the second.                                     *)
CopyInto(C, L) ==
  LET offset == L.ev[L.seq[1]].ts
      Copied(M, x) ==
        LET a == FreshEvent(M)
            M1 == Allocate(M, a, [L.ev[x] EXCEPT !.ts = @ - offset, !.link = None])
            b == FreshEvent(M1)
            M2 == Allocate(M1, b, [L.ev[L.ev[x].link] EXCEPT !.ts = @ - offset, !.link = None])
        IN IF x \notin Selected(L) THEN M
           ELSE IF L.ev[x].link = None THEN Mix(M1, a) ELSE Mix(Couple(M2, a, b), a)
  IN FoldLeft(Copied, C, L.seq)

(* paste() of the events of C *)
PasteFrom(L, C, offset) ==
  LET Pasted(M, x) ==
        LET a == FreshEvent(M)
        IN Insert(Allocate(M, a, [M.ev[x] EXCEPT !.ts = @ + offset, !.link = None]), a)
  IN Relink(FoldLeft(Pasted, L, C.seq))

(* mutant: the selection is not put aside *)
CutTimeAndSelection(L, s, t) ==
  LET cut == RemoveSelected(Mark(L, InRange(L, s, t), 1))
  IN Later(cut, {x \in Listed(cut) : cut.ev[x].ts >= t}, s - t)

(* delete_time(): the events in the range, with the partners of all of them,    *)
(* then what follows closes up                                                  *)
CutTime(L, s, t) ==
  LET saved == Deepen(L, 1)
      cut == Deepen(RemoveSelected(Mark(saved, InRange(saved, s, t), 1)), -1)
  IN Later(cut, {x \in Listed(cut) : cut.ev[x].ts >= t}, s - t)

(* sort( void ): takes over the head and tail of a new list before it looks at  *)
(* its own, which leaves nothing to look at                                     *)
SortAll(L) == [L EXCEPT !.ev = [y \in DOMAIN @ \ Listed(L) |-> @[y]], !.seq = <<>>]

(* insert_time(): notes that start in the range move with their note offs *)
SpreadTime(L, s, d) ==
  LET X == {x \in Listed(L) : L.ev[x].op # "off" /\ L.ev[x].ts >= s}
  IN SortAll(Later(L, X \cup {L.ev[x].link : x \in X}, d))
-----------------------------------------------------------------------------
(* The steps *)

(* What a player of one instrument produces: notes of one pitch do not overlap *)
(* and last for a while, and no note off is left over.                         *)
Clean(L) ==
  /\ \A x \in Listed(L) : L.ev[x].op = "off" => L.ev[x].link # None
  /\ \A a \in Ons(L) : LET e == L.ev[a] IN
       /\ e.link \in Listed(L)
       /\ L.ev[e.link].ts > e.ts
       /\ \A b \in Ons(L) \ {a} : L.ev[b].note = e.note =>
            \/ L.ev[L.ev[b].link].ts <= e.ts
            \/ L.ev[e.link].ts <= L.ev[b].ts

(* bounds only; size and length differ after an insert_time() *)
InBounds(L, n) ==
  /\ Len(L.seq) <= n /\ L.size <= n
  /\ \A x \in DOMAIN L.ev : L.ev[x].ts <= MaxTick /\ L.ev[x].sel <= MaxSelected

(* Addresses mean nothing but identity: between operations the events of the    *)
(* list, then those of the clipboard, are numbered from 1 in their order, and    *)
(* an event that is gone but linked to has the next number.                      *)
Settle(ev, l, c) ==
  LET order == l.seq \o c.seq
      n == Len(order)
      number == [x \in Range(order) |-> CHOOSE k \in 1..n : order[k] = x]
      Number(x) == IF x = None THEN None ELSE IF x \in DOMAIN number THEN number[x] ELSE n + 1
  IN /\ heap' = [k \in 1..n |-> [ev[order[k]] EXCEPT !.link = Number(@)]]
     /\ list' = [l EXCEPT !.seq = [k \in DOMAIN @ |-> k]]
     /\ clip' = [c EXCEPT !.seq = [k \in DOMAIN @ |-> Len(l.seq) + k]]

Outcome(L) == [seq |-> L.seq, size |-> L.size]

(* an operation on the list leaves it and the memory as L *)
Becomes(L, c) ==
  /\ InBounds(L, MaxEvents)
  /\ Overlaps \/ Clean(L)
  /\ Settle(L.ev, Outcome(L), c)

Change(L) == Becomes(L, clip)

(* the user enters a note or another event *)
EnterNote(n, s, t) ==
  LET L == With(list)
      a == FreshEvent(L)
      L1 == Allocate(L, a, [op |-> "on", note |-> n, ts |-> s, sel |-> 0, link |-> None])
      b == FreshEvent(L1)
      L2 == Allocate(L1, b, [op |-> "off", note |-> n, ts |-> t, sel |-> 0, link |-> None])
  IN s <= t /\ Change(Mix(Couple(L2, a, b), a))

EnterControl(s) ==
  LET L == With(list)
      a == FreshEvent(L)
  IN Change(Mix(Allocate(L, a, [op |-> "ctl", note |-> 0, ts |-> s, sel |-> 0, link |-> None]), a))

(* operator= from a recorded take: its events, in order of time, appended and   *)
(* linked                                                                       *)
Load(take) ==
  LET L == Release(With(list), Listed(With(list)))
      Appended(M, r) ==
        LET a == FreshEvent(M)
        IN [Allocate(M, a, r) EXCEPT !.seq = Append(@, a), !.size = @ + 1]
  IN Change(Relink(FoldLeft(Appended, [L EXCEPT !.seq = <<>>, !.size = 0], take)))

(* _copy(): new events in the same order, selected as those are, linked anew *)
CopyOf(L, C) ==
  LET Copied(M, x) ==
        LET a == FreshEvent(M)
        IN [Allocate(M, a, [M.ev[x] EXCEPT !.link = None]) EXCEPT !.seq = Append(@, a)]
      M == FoldLeft(Copied, L, C.seq)
  IN Relink([M EXCEPT !.size = C.size])

(* operator= from another list *)
Assign == Change(CopyOf([Release(With(list), Listed(list)) EXCEPT !.seq = <<>>], clip))

(* The user deletes one note or event: remove(), of either half. *)
RemoveNote(x) ==
  /\ Removes
  /\ LET both == {x, heap[x].link} \ {None}
     IN Change(RemoveAll(With(list), both))

(* note_duration(), then sort() of the note off *)
Resize(x, d) ==
  LET L == With(list)
      off == heap[x].link
  IN off # None /\ Change(Move(L, off, heap[x].ts + d - heap[off].ts))

SelectRange(s, t) == s < t /\ Change(LET L == With(list) IN Mark(L, InRange(L, s, t), 1))
SelectNotes(s, t, hi, lo) ==
  s < t /\ lo <= hi /\ Change(LET L == With(list) IN Mark(L, NotesIn(L, s, t, hi, lo), 1))
SelectAll == Change(LET L == With(list) IN Mark(L, Listed(L), 1))
SelectNone == Change(LET L == With(list) IN Mark(L, Listed(L), 0))
Invert == Change(InvertSelection(With(list)))
PushSelection == Change(Deepen(With(list), 1))
PopSelection == Change(Deepen(With(list), -1))

RemoveSelection == Removes /\ Change(RemoveSelected(With(list)))

Copy ==
  /\ list.seq # <<>>
  /\ LET C == CopyInto(With(clip), With(list))
     IN InBounds(C, MaxClip) /\ Settle(C.ev, list, Outcome(C))

Paste(offset) == Change(PasteFrom(With(list), With(clip), offset))

(* merge(): the events of the other list itself *)
Merge ==
  Becomes(FoldLeft(Insert, With(list), clip.seq), [seq |-> <<>>, size |-> clip.size - Len(clip.seq)])

Transpose(n) ==
  Change(LET L == With(list)
         IN SetNote(L, Selected(L) \cap Ons(L), [m \in Note |-> (m + n) % Notes]))

Rewrite(m, n) ==
  Change(LET L == With(list)
         IN SetNote(L, {x \in Selected(L) \cap Ons(L) : L.ev[x].note = m}, [k \in Note |-> n]))

NudgeSelected(o) == Change(Nudge(With(list), o))
MoveSelected(t) == Change(LET L == With(list) IN Nudge(L, t - SelectionMin(L)))
DeleteTime(s, t) == Removes /\ s < t /\ Change(CutTime(With(list), s, t))
InsertTime(s, d) == InsertsTime /\ Change(SpreadTime(With(list), s, d))

-----------------------------------------------------------------------------
Init == heap = <<>> /\ list = EmptyList /\ clip = EmptyList

Next ==
  \/ \E n \in Note, s, t \in Tick : EnterNote(n, s, t)
  \/ \E s \in Tick : EnterControl(s)
  \/ \E take \in Takes : Load(take)
  \/ Assign
  \/ \E x \in Listed(list) : RemoveNote(x)
  \/ \E x \in Ons(With(list)), d \in Tick : Resize(x, d)
  \/ \E s, t \in Tick : SelectRange(s, t)
  \/ \E s, t \in Tick, hi, lo \in Note : SelectNotes(s, t, hi, lo)
  \/ SelectAll \/ SelectNone \/ Invert \/ PushSelection \/ PopSelection
  \/ RemoveSelection \/ Copy \/ Merge
  \/ \E o \in Tick : Paste(o)
  \/ \E n \in Note : Transpose(n)
  \/ \E m, n \in Note : Rewrite(m, n)
  \/ \E o \in -MaxTick..MaxTick : NudgeSelected(o)
  \/ \E t \in Tick : MoveSelected(t)
  \/ \E s, t \in Tick : DeleteTime(s, t)
  \/ \E s, d \in Tick : InsertTime(s, d)

Spec == Init /\ [][Next]_vars
-----------------------------------------------------------------------------
(* Properties *)

TypeOK ==
  /\ DOMAIN heap \subseteq Nat \ {None} /\ \A x \in DOMAIN heap : heap[x] \in Event
  /\ \A l \in {list, clip} : l.seq \in Seq(DOMAIN heap) /\ l.size \in Nat

(* Whatever is entered, moved, pasted, cut or merged: the list is in order of   *)
(* time (insert, sort, delete_time rely on it and keep it).                     *)
Sorted ==
  \A l \in {list, clip} : \A k \in 1..Len(l.seq) - 1 : heap[l.seq[k]].ts <= heap[l.seq[k + 1]].ts

(* What verify() is for ("verify that all note ons are linked to note offs"):   *)
(* the other end of a link is an event of the same list, of the same note and   *)
(* the other kind, and links back.                                              *)
NotesArePaired ==
  \A l \in {list, clip} : \A k \in DOMAIN l.seq :
    LET x == l.seq[k]
        y == heap[x].link
    IN /\ heap[x].op = "on" => y # None
       /\ y # None =>
            /\ \E m \in DOMAIN l.seq : l.seq[m] = y
            /\ heap[y].link = x /\ heap[y].note = heap[x].note
            /\ {heap[x].op, heap[y].op} = {"on", "off"}

(* Both halves of a note are selected, pushed and popped together, so that no   *)
(* operation on the selection takes one half.                                   *)
SelectionTakesWholeNotes ==
  \A x \in DOMAIN heap : heap[x].link \in DOMAIN heap => heap[heap[x].link].sel = heap[x].sel

(* size() is the number of events.                                              *)
SizeIsLength == list.size = Len(list.seq) /\ clip.size = Len(clip.seq)

(* no note of the clipboard, pasted at offset o, overlaps one of that pitch *)
PastesBetween(o) ==
  \A x \in Ons(With(list)), y \in Ons(With(clip)) : heap[x].note = heap[y].note =>
    \/ heap[heap[x].link].ts <= heap[y].ts + o
    \/ heap[heap[y].link].ts + o <= heap[x].ts

(* The relink() of a paste gives every note of the list its own note off back,  *)
(* also where a pasted note begins or ends at the same tick, and that of a copy  *)
(* pairs the events as the original does.                                        *)
PasteKeepsNotes ==
  /\ \A o \in Tick : PastesBetween(o) =>
       LET N == PasteFrom(With(list), With(clip), o)
       IN \A x \in Ons(With(list)) : N.ev[x].link = heap[x].link
  /\ LET N == CopyOf(With(EmptyList), list)
     IN /\ Len(N.seq) = Len(list.seq)
        /\ \A k, m \in DOMAIN list.seq :
             N.ev[N.seq[k]].link = N.seq[m] <=> heap[list.seq[k]].link = list.seq[m]

(* Moving a selection moves it as a block: its first event comes to tick t and   *)
(* every other event of it goes as far, the rest stays.                          *)
SelectionMovesAsBlock ==
  LET L == With(list)
  IN \A t \in Tick :
       LET N == Nudge(L, t - SelectionMin(L))
       IN \A x \in Listed(L) :
            N.ev[x].ts = heap[x].ts + (IF x \in Selected(L) THEN t - SelectionMin(L) ELSE 0)

(* "delete events in range and close the gap": nothing is lost but the notes and *)
(* events that touch the range, and the selection survives.                      *)
CutKeepsTheRest ==
  LET L == With(list)
  IN \A s, t \in Tick : s < t =>
       LET N == CutTime(L, s, t)
           gone == Listed(L) \ Listed(N)
       IN /\ \A x \in gone : {x, heap[x].link} \cap InRange(L, s, t) # {}
          /\ \A x \in Listed(N) : N.ev[x].sel = heap[x].sel

(* "insert /l/ ticks of time at /start/", "resort entire list": no event is     *)
(* lost.                                                                         *)
InsertTimeKeepsEvents ==
  LET L == With(list)
  IN \A s, d \in Tick : Len(SpreadTime(L, s, d).seq) = Len(list.seq)
=============================================================================
