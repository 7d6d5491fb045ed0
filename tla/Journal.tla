------------------------------- MODULE Journal -------------------------------
(***************************************************************************)
(* The bidirectional journal of Loggable.C / Loggable.H.                    *)
(*                                                                         *)
(* Every change of a live object is written to an append-only file as a     *)
(* line that holds both the new and the old state.  Reading the file        *)
(* forwards rebuilds the objects (open/replay); reading it backwards from    *)
(* the undo offset and applying each line in reverse is undo, which itself   *)
(* appends the inverse lines.  Lines of one transaction (block_start ..      *)
(* block_end) are queued and written together between two brace lines.       *)
(*                                                                         *)
(* Abstractions: an object is its journaled state, one member of Val;        *)
(* file offsets count lines, not bytes; the dirty counter is kept as         *)
(* "greater than zero"; assertions are compiled in (no NDEBUG).              *)
(*                                                                         *)
(* Each object also carries a ghost tag "born", the number of the user       *)
(* creation it stems from: an object recreated by undo or replay has the     *)
(* tag of the object whose line is applied.  No guard reads it.              *)
(***************************************************************************)
EXTENDS Integers, Sequences

CONSTANTS
  Val,          \* journaled states of an object, as Loggable::get returns them
  Nil,          \* no object / no argument
  MaxId,        \* bound: ids are 1..MaxId
  MaxLogId,     \* bound: the id counter when a call starts that may recreate objects
  MaxBirths,    \* bound: objects created by the user
  MaxLines,     \* bound: lines of the journal file the user fills
  MaxUndoLines, \* bound: lines of the journal file after an undo
  MaxLevel,     \* bound: nesting of block_start
  MaxNest,      \* bound: nesting of log_start
  ImportIds,    \* ids inside the strip files the user may import
  Crashes,      \* may the process die (or exit) and be started again?
  TornWrites,   \* may a crash leave the written block incomplete?
  SavesInSession, \* may snapshot(name) be called while the journal is open?
  CompactsEmpty   \* may compact() be called when no object is live?

Id == 1..MaxId
Birth == 1..MaxBirths

(* A journaled object: its state and its ghost tag. *)
Content == [val : Val, born : Birth]
State == [Id -> Content \cup {Nil}]
Empty == [i \in Id |-> Nil]
Untouched == [i \in Id |-> 0]

Line == [op : {"create", "set", "destroy", "begin", "end"}, id : 0..MaxId,
         new : Content \cup {Nil}, old : Content \cup {Nil}]

CreateLine(i, c) == [op |-> "create", id |-> i, new |-> c, old |-> Nil]
SetLine(i, c, d) == [op |-> "set", id |-> i, new |-> c, old |-> d]
DestroyLine(i, d) == [op |-> "destroy", id |-> i, new |-> Nil, old |-> d]
BraceLine(b) == [op |-> b, id |-> 0, new |-> Nil, old |-> Nil]

ASSUME JournalAssumption ==
  /\ MaxId \in Nat /\ MaxLogId \in Nat /\ MaxBirths \in Nat /\ MaxLines \in Nat /\ MaxUndoLines \in Nat
  /\ MaxLevel \in Nat /\ MaxNest \in Nat
  /\ ImportIds \subseteq Nat \ {0}
  /\ {Crashes, TornWrites, SavesInSession, CompactsEmpty} \subseteq BOOLEAN
  /\ Nil \notin Content

VARIABLES
  \* memory of the process
  mode,      \* "closed", "replay", "load", "open", "undo" or "aborted"
  obj,       \* _loggables[id].loggable
  unj,       \* unjournaled state of the live object: 0 as constructed, or the
             \* tag of the object it was made for
  mem,       \* _loggables[id].unjournaled_state
  nest, old, \* _nest and _old_state of each live object
  logId,     \* _log_id
  level,     \* _level
  pending,   \* _transaction
  dirty,     \* _dirty > 0
  undoOff,   \* _undo_offset
  pos,       \* stream position of _fp (of the replayed file during "replay")
  \* the project directory
  file,      \* the journal
  snap,      \* the snapshot file, as the objects its create lines rebuild
  snapNewer, \* newer("snapshot", journal)
  unjFile,   \* the file "unjournaled"
  \* history variables
  births,    \* objects the user has created so far
  hist,      \* hist[k]: logged state when line k of the file was written
  phist,     \* phist[k]: logged state when pending[k] was queued
  saved,     \* logged state at the last clear_dirty()
  tuned      \* tags of the objects whose unjournaled state was ever changed,
             \* less those a crash lost

mutable == <<obj, unj, mem, nest, old, logId>>
queue == <<pending, phist>>
journal == <<file, hist, snapNewer>>
disk == <<snap, unjFile>>
vars == <<mode, mutable, level, queue, dirty, undoOff, pos, journal, disk,
          births, saved, tuned>>

Live == {i \in Id : obj[i] # Nil}

(* The state the journal is to reproduce: an object being edited counts with *)
(* the state log_start() remembered.                                        *)
Logged == [i \in Id |-> IF nest[i] > 0 THEN old[i] ELSE obj[i]]

(* The last state of history h, which starts in s. *)
After(s, h) == IF h = <<>> THEN s ELSE h[Len(h)]

(* The logged state when the first k lines of the file were written. *)
At(k) == IF k = 0 THEN Empty ELSE hist[k]

(* No transaction and no edit under way: where callers may undo, save, close *)
Quiescent == level = 0 /\ \A i \in Id : nest[i] = 0

(* bound only: a further line and the braces of its block fit the file *)
HasRoom == Len(file) + Len(pending) + (IF level = 0 THEN 1 ELSE 3) <= MaxLines

-----------------------------------------------------------------------------
(* Writing *)

Framed(p) == IF Len(p) > 1 THEN <<BraceLine("begin")>> \o p \o <<BraceLine("end")>> ELSE p

(* the history of those lines, which start in state s *)
FramedStates(s, h) == IF Len(h) > 1 THEN <<s>> \o h \o <<h[Len(h)]>> ELSE h

(* flush() with queue p: the file grows, the queue empties, and the stream    *)
(* is at the end of the file if anything was written, else at /at/.           *)
Flush(p, h, at) ==
  /\ pending' = <<>> /\ phist' = <<>>
  /\ file' = file \o Framed(p)
  /\ hist' = hist \o FramedStates(At(Len(file)), h)
  /\ snapNewer' = (snapNewer /\ p = <<>>)
  /\ pos' = IF p = <<>> THEN at ELSE Len(file')

(* flush() as called by the user's operations: "something done, reset undo    *)
(* index".                                                                    *)
FlushAndReset(p, h) ==
  /\ Flush(p, h, pos)
  /\ undoOff' = IF p = <<>> THEN undoOff ELSE Len(file')

(* log() of one whole line followed by "if ( _level == 0 ) flush()"; s is the *)
(* logged state once the line is in force.                                    *)
Log(l, s) ==
  LET p == Append(pending, l)
      h == Append(phist, s)
  IN IF level = 0 THEN FlushAndReset(p, h)
     ELSE /\ pending' = p /\ phist' = h
          /\ UNCHANGED <<journal, undoOff, pos>>

(* log() of a line while _level is known to be positive. *)
Queue(l, s) ==
  /\ pending' = Append(pending, l)
  /\ phist' = Append(phist, s)

NoLog == UNCHANGED <<queue, journal, undoOff, pos>>

-----------------------------------------------------------------------------
(* Transactions and changes made by the user while the journal is open *)

BlockStart ==
  /\ mode = "open" /\ level < MaxLevel
  /\ level' = level + 1
  /\ NoLog
  /\ UNCHANGED <<mode, mutable, dirty, disk, births, saved, tuned>>

(* mutant: a block_end() without its block_start() *)
BlockEndUnpaired ==
  /\ mode = "open"
  /\ level' = level - 1
  /\ IF level' = 0 THEN FlushAndReset(pending, phist) ELSE NoLog
  /\ UNCHANGED <<mode, mutable, dirty, disk, births, saved, tuned>>

BlockEnd ==
  /\ mode = "open" /\ level > 0
  /\ level' = level - 1
  /\ IF level' = 0 THEN FlushAndReset(pending, phist) ELSE NoLog
  /\ UNCHANGED <<mode, mutable, dirty, disk, births, saved, tuned>>

(* new object, log_create() at the end of its constructor *)
Create(v) ==
  LET i == logId + 1
      c == [val |-> v, born |-> births + 1]
  IN /\ mode = "open" /\ i <= MaxId /\ births < MaxBirths /\ HasRoom
     /\ logId' = i /\ births' = births + 1
     /\ obj' = [obj EXCEPT ![i] = c]
     /\ unj' = [unj EXCEPT ![i] = 0]
     /\ dirty' = TRUE
     /\ Log(CreateLine(i, c), [Logged EXCEPT ![i] = c])
     /\ UNCHANGED <<mode, mem, nest, old, level, disk, saved, tuned>>

LogStart(i) ==
  /\ mode = "open" /\ i \in Live /\ nest[i] < MaxNest
  /\ nest' = [nest EXCEPT ![i] = @ + 1]
  /\ old' = IF old[i] = Nil THEN [old EXCEPT ![i] = obj[i]] ELSE old
  /\ NoLog
  /\ UNCHANGED <<mode, obj, unj, mem, logId, level, dirty, disk, births, saved, tuned>>

(* a journaled property changes, which is allowed after log_start() only *)
Assign(i, v) ==
  /\ mode = "open" /\ i \in Live /\ nest[i] > 0
  /\ obj' = [obj EXCEPT ![i].val = v]
  /\ NoLog
  /\ UNCHANGED <<mode, unj, mem, nest, old, logId, level, dirty, disk, births, saved, tuned>>

(* mutant: the remembered state is not dropped *)
LogEndKeepsOld(i) ==
  /\ mode = "open" /\ i \in Live /\ nest[i] > 0 /\ HasRoom
  /\ nest' = [nest EXCEPT ![i] = @ - 1]
  /\ IF nest'[i] > 0 \/ obj[i] = old[i]
     THEN NoLog /\ dirty' = dirty
     ELSE /\ dirty' = TRUE
          /\ Log(SetLine(i, obj[i], old[i]), [Logged EXCEPT ![i] = obj[i]])
  /\ UNCHANGED <<mode, obj, unj, mem, old, logId, level, disk, births, saved, tuned>>

LogEnd(i) ==
  /\ mode = "open" /\ i \in Live /\ nest[i] > 0 /\ HasRoom
  /\ nest' = [nest EXCEPT ![i] = @ - 1]
  /\ IF nest'[i] > 0
     THEN NoLog /\ UNCHANGED <<old, dirty>>
     ELSE /\ old' = [old EXCEPT ![i] = Nil]
          /\ IF obj[i] # old[i]
             THEN /\ dirty' = TRUE
                  /\ Log(SetLine(i, obj[i], old[i]), [Logged EXCEPT ![i] = obj[i]])
             ELSE /\ dirty' = dirty
                  /\ IF level = 0 THEN FlushAndReset(pending, phist) ELSE NoLog
  /\ UNCHANGED <<mode, obj, unj, mem, logId, level, disk, births, saved, tuned>>

(* a property that is not journaled changes *)
Tune(i) ==
  /\ mode = "open" /\ i \in Live
  /\ unj' = [unj EXCEPT ![i] = obj[i].born]
  /\ NoLog
  /\ tuned' = tuned \cup {obj[i].born}
  /\ UNCHANGED <<mode, obj, mem, nest, old, logId, level, dirty, disk, births, saved>>

-----------------------------------------------------------------------------
(* do_this(): apply one line *)

IsMarker(l) == l.op \in {"begin", "end"}

(* mutant: update_id() is not called, the object keeps the next id *)
MakeObjectNextId(base, i, c) ==
  /\ base < MaxId
  /\ logId' = base + 1
  /\ obj' = [obj EXCEPT ![base + 1] = c]
  /\ unj' = [unj EXCEPT ![base + 1] = mem[i]]
  /\ dirty' = TRUE
  /\ UNCHANGED <<mode, mem>>

(* mutant: update_id() sets the counter to the id, also downwards *)
MakeObjectLowersId(base, i, c) ==
  /\ logId' = i
  /\ obj' = [obj EXCEPT ![i] = c]
  /\ unj' = [unj EXCEPT ![i] = mem[i]]
  /\ dirty' = TRUE
  /\ UNCHANGED <<mode, mem>>

(* "create": the constructor takes the next id, update_id() gives it back and *)
(* takes the line's id, then the remembered unjournaled state is applied.      *)
MakeObject(base, i, c) ==
  /\ logId' = IF base + 1 > i THEN base + 1 ELSE i
  /\ obj' = [obj EXCEPT ![i] = c]
  /\ unj' = [unj EXCEPT ![i] = mem[i]]
  /\ dirty' = TRUE
  /\ UNCHANGED <<mode, mem>>

(* FATAL, or an ASSERT that fails *)
Abort == mode' = "aborted" /\ UNCHANGED <<obj, unj, mem, logId, dirty>>

(* do_this( line, false ) while _fp is NULL: nothing is logged *)
DoForward(l) ==
  \/ /\ l.op = "create"
     /\ IF obj[l.id] = Nil THEN MakeObject(logId, l.id, l.new) ELSE Abort
  \/ /\ l.op = "destroy"
     /\ obj' = [obj EXCEPT ![l.id] = Nil]
     /\ unj' = [unj EXCEPT ![l.id] = 0]
     /\ dirty' = (dirty \/ obj[l.id] # Nil)
     /\ UNCHANGED <<mode, mem, logId>>
  \/ /\ l.op = "set"
     /\ IF obj[l.id] = Nil THEN Abort
        ELSE /\ obj' = [obj EXCEPT ![l.id].val = l.new.val]
             /\ dirty' = (dirty \/ obj[l.id].val # l.new.val)
             /\ UNCHANGED <<mode, unj, mem, logId>>
  \/ /\ IsMarker(l)
     /\ UNCHANGED <<mode, obj, unj, mem, logId, dirty>>

(* mutant: log_destroy() does not call record_unjournaled() *)
DeleteForgets(i) ==
  /\ obj' = [obj EXCEPT ![i] = Nil]
  /\ unj' = [unj EXCEPT ![i] = 0]
  /\ dirty' = TRUE
  /\ UNCHANGED <<mode, mem, logId>>

(* mutant: log_destroy() does not call set_dirty() *)
DeleteClean(i) ==
  /\ mem' = [mem EXCEPT ![i] = unj[i]]
  /\ obj' = [obj EXCEPT ![i] = Nil]
  /\ unj' = [unj EXCEPT ![i] = 0]
  /\ UNCHANGED <<mode, logId, dirty>>

(* delete of a live object with the journal open: log_destroy() remembers the *)
(* unjournaled state, ~Loggable clears the entry                               *)
Delete(i) ==
  /\ mem' = [mem EXCEPT ![i] = unj[i]]
  /\ obj' = [obj EXCEPT ![i] = Nil]
  /\ unj' = [unj EXCEPT ![i] = 0]
  /\ dirty' = TRUE
  /\ UNCHANGED <<mode, logId>>

(* log_start(), set(), log_end() *)
Restore(i, c) ==
  /\ obj' = [obj EXCEPT ![i] = c]
  /\ IF c = obj[i]
     THEN UNCHANGED <<dirty, queue>>
     ELSE dirty' = TRUE /\ Queue(SetLine(i, c, obj[i]), [Logged EXCEPT ![i] = c])
  /\ UNCHANGED <<mode, unj, mem, logId>>

(* do_this( line, true ) inside undo(): create and destroy change places, set  *)
(* takes the old state, and the effect is queued as lines of its own.  A       *)
(* missing object is not destroyed again; a brace is no journal entry.          *)
DoReverse(l) ==
  \/ /\ l.op = "create"
     /\ IF obj[l.id] # Nil
        THEN Delete(l.id) /\ Queue(DestroyLine(l.id, obj[l.id]), [Logged EXCEPT ![l.id] = Nil])
        ELSE UNCHANGED <<mode, obj, unj, mem, logId, dirty, queue>>
  \/ /\ l.op = "destroy"
     /\ IF obj[l.id] = Nil
        THEN /\ MakeObject(logId, l.id, l.old)
             /\ Queue(CreateLine(l.id, l.old), [Logged EXCEPT ![l.id] = l.old])
        ELSE Abort /\ UNCHANGED queue
  \/ /\ l.op = "set"
     /\ IF obj[l.id] # Nil
        THEN Restore(l.id, [obj[l.id] EXCEPT !.val = l.old.val])
        ELSE Abort /\ UNCHANGED queue
  \/ IsMarker(l) /\ Abort /\ UNCHANGED queue

(* The user destroys an object *)
Destroy(i) ==
  /\ mode = "open" /\ i \in Live /\ nest[i] = 0 /\ HasRoom
  /\ Delete(i)
  /\ Log(DestroyLine(i, obj[i]), [Logged EXCEPT ![i] = Nil])
  /\ UNCHANGED <<nest, old, level, disk, births, saved, tuned>>

(* mutant: the import is taken for a replay and not logged *)
ImportUnlogged(k, v) ==
  LET rel == logId + 1
      i == k + rel
      c == [val |-> v, born |-> births + 1]
  IN /\ mode = "open" /\ births < MaxBirths /\ i <= MaxId /\ HasRoom
     /\ births' = births + 1
     /\ IF obj[i] = Nil THEN MakeObject(rel, i, c) ELSE Abort
     /\ NoLog
     /\ UNCHANGED <<nest, old, level, disk, saved, tuned>>

(* Importing a strip: begin_relative_id_mode(), a replay of its one create     *)
(* line with id k and end_relative_id_mode().                                  *)
Import(k, v) ==
  LET rel == logId + 1
      i == k + rel
      c == [val |-> v, born |-> births + 1]
  IN /\ mode = "open" /\ births < MaxBirths /\ i <= MaxId /\ HasRoom
     /\ births' = births + 1
     /\ IF obj[i] = Nil
        THEN /\ MakeObject(rel, i, c)
             /\ Log(CreateLine(i, c), [Logged EXCEPT ![i] = c])
        ELSE Abort /\ NoLog
     /\ UNCHANGED <<nest, old, level, disk, saved, tuned>>

-----------------------------------------------------------------------------
(* undo() *)

UndoesBlock == file[undoOff].op = "end"

(* bound only: the lines undo() will read *)
UndoCost ==
  IF undoOff \in 1..Len(file) /\ UndoesBlock
  THEN CHOOSE n \in 1..undoOff :
         /\ file[undoOff - n + 1].op = "begin"
         /\ \A k \in undoOff - n + 2 .. undoOff : file[k].op # "begin"
  ELSE 1

(* The assertion _undo_offset <= here reads the stream position of this moment *)
(* but is evaluated after the loop; the loop only changes memory.              *)
UndoStart ==
  /\ mode = "open" /\ Quiescent /\ undoOff # 0 /\ Len(file) + UndoCost <= MaxUndoLines /\ logId <= MaxLogId
  /\ IF undoOff > pos
     THEN mode' = "aborted" /\ UNCHANGED <<pos, level>>
     ELSE /\ mode' = "undo"
          /\ level' = level + 1
          /\ pos' = IF UndoesBlock THEN undoOff - 1 ELSE undoOff
  /\ UNCHANGED <<mutable, queue, dirty, undoOff, journal, disk, births, saved, tuned>>

UndoMore == IF UndoesBlock THEN file[pos].op # "begin" ELSE pos = undoOff

(* mutant: the same line is read again *)
UndoLineStuck ==
  /\ mode = "undo" /\ UndoMore
  /\ DoReverse(file[pos])
  /\ UNCHANGED <<nest, old, level, undoOff, pos, journal, disk, births, saved, tuned>>

UndoLine ==
  /\ mode = "undo" /\ UndoMore
  /\ DoReverse(file[pos])
  /\ pos' = pos - 1
  /\ UNCHANGED <<nest, old, level, undoOff, journal, disk, births, saved, tuned>>

(* mutant: the opening brace of the block undone is left to the next undo *)
UndoEndLeavesBrace ==
  /\ mode = "undo" /\ ~UndoMore
  /\ mode' = "open"
  /\ level' = level - 1
  /\ Flush(pending, phist, pos) /\ undoOff' = pos
  /\ UNCHANGED <<mutable, dirty, disk, births, saved, tuned>>

(* block_end() flushes the inverse lines; the undo index then goes to what was *)
(* read last, not to the end of the file.                                      *)
UndoEnd ==
  /\ mode = "undo" /\ ~UndoMore
  /\ mode' = "open"
  /\ level' = level - 1
  /\ LET uo == IF UndoesBlock THEN pos - 1 ELSE pos
     IN Flush(pending, phist, uo) /\ undoOff' = uo
  /\ UNCHANGED <<mutable, dirty, disk, births, saved, tuned>>

-----------------------------------------------------------------------------
(* Snapshots *)

(* The orders in which the snapshot callback may log the live objects *)
SnapshotOrders ==
  UNION {{f \in [1..n -> Live] : \A i \in Live : \E k \in 1..n : f[k] = i /\
             \A m \in 1..n : f[m] = i => m = k} : n \in 0..MaxId}

SnapshotLines(f) == [k \in DOMAIN f |-> CreateLine(f[k], obj[f[k]])]

(* the state after the first k of those lines *)
Partial(f, k) == [i \in Id |-> IF \E m \in 1..k : f[m] = i THEN obj[i] ELSE Nil]

(* snapshot( FILE* ) on another file: its flush() leaves the length of that    *)
(* file in _undo_offset.  The new file is newer than the journal, or has the   *)
(* same second in its time stamp.                                              *)
WriteSnapshot ==
  /\ snap' = obj
  /\ snapNewer' \in BOOLEAN
  /\ \E f \in SnapshotOrders :
       undoOff' = IF f = <<>> THEN undoOff ELSE Len(Framed(SnapshotLines(f)))
  /\ saved' = Logged

(* mutant: a snapshot in the middle of a transaction *)
SnapshotInBlock ==
  /\ SavesInSession /\ mode = "open"
  /\ WriteSnapshot
  /\ dirty' = FALSE
  /\ UNCHANGED <<mode, mutable, level, queue, pos, file, hist, unjFile, births, tuned>>

Snapshot ==
  /\ SavesInSession /\ mode = "open" /\ Quiescent
  /\ WriteSnapshot
  /\ dirty' = FALSE
  /\ UNCHANGED <<mode, mutable, level, queue, pos, file, hist, unjFile, births, tuned>>

(* compact(): truncate the journal and write the snapshot into it *)
Compact ==
  /\ mode = "open" /\ Quiescent /\ (Live # {} \/ CompactsEmpty)
  /\ \E f \in SnapshotOrders :
       LET p == SnapshotLines(f)
           h == [k \in DOMAIN f |-> Partial(f, k)]
       IN /\ Len(p) + 2 <= MaxLines
          /\ file' = Framed(p)
          /\ hist' = FramedStates(Empty, h)
          /\ undoOff' = IF f = <<>> THEN undoOff ELSE Len(file')
          /\ pos' = Len(file')
  /\ snapNewer' = FALSE
  /\ dirty' = FALSE
  /\ saved' = Logged
  /\ UNCHANGED <<mode, mutable, level, queue, disk, births, tuned>>

-----------------------------------------------------------------------------
(* Opening and closing a project, and the death of the process *)

Open ==
  /\ mode = "closed"
  /\ mem' = [i \in Id |-> IF unjFile[i] # 0 THEN unjFile[i] ELSE mem[i]]
  /\ mode' = IF snapNewer THEN "load" ELSE "replay"
  /\ pos' = 0
  /\ UNCHANGED <<obj, unj, nest, old, logId, level, queue, dirty, undoOff,
                 journal, disk, births, saved, tuned>>

(* mutant: the same line is read again *)
ReplayLineStuck ==
  /\ mode = "replay" /\ pos < Len(file)
  /\ DoForward(file[pos + 1])
  /\ UNCHANGED <<nest, old, level, queue, undoOff, pos, journal, disk, births, saved, tuned>>

ReplayLine ==
  /\ mode = "replay" /\ pos < Len(file)
  /\ DoForward(file[pos + 1])
  /\ pos' = pos + 1
  /\ UNCHANGED <<nest, old, level, queue, undoOff, journal, disk, births, saved, tuned>>

(* one line of the snapshot file, whose order is that of its writer *)
LoadLine ==
  /\ mode = "load"
  /\ \E i \in Id : snap[i] # Nil /\ obj[i] = Nil /\ DoForward(CreateLine(i, snap[i]))
  /\ UNCHANGED <<nest, old, level, queue, undoOff, pos, journal, disk, births, saved, tuned>>

(* mutant: open() does not set the undo index *)
OpenEndNoUndoPoint ==
  /\ \/ mode = "replay" /\ pos = Len(file)
     \/ mode = "load" /\ \A i \in Id : snap[i] # Nil => obj[i] # Nil
  /\ mode' = "open"
  /\ dirty' = FALSE
  /\ pos' = Len(file)
  /\ saved' = Logged
  /\ UNCHANGED <<mutable, level, queue, undoOff, journal, disk, births, tuned>>

(* end of the file: clear_dirty(), and the undo index is the journal's end *)
OpenEnd ==
  /\ \/ mode = "replay" /\ pos = Len(file)
     \/ mode = "load" /\ \A i \in Id : snap[i] # Nil => obj[i] # Nil
  /\ mode' = "open"
  /\ dirty' = FALSE
  /\ undoOff' = Len(file) /\ pos' = Len(file)
  /\ saved' = Logged
  /\ UNCHANGED <<mutable, level, queue, journal, disk, births, tuned>>

(* close(): snapshot, unjournaled state of live and of destroyed objects, then *)
(* every object is deleted, which marks the closed project dirty again.        *)
Close ==
  /\ mode = "open" /\ Quiescent /\ logId <= MaxLogId
  /\ WriteSnapshot
  /\ unjFile' = [i \in Id |-> IF i \in Live THEN unj[i] ELSE mem[i]]
  /\ dirty' = (Live # {})
  /\ obj' = Empty /\ unj' = Untouched /\ mem' = Untouched
  /\ mode' = "closed"
  /\ UNCHANGED <<nest, old, logId, level, queue, pos, file, hist, births, tuned>>

FreshProcess ==
  /\ mode' = "closed"
  /\ obj' = Empty /\ unj' = Untouched /\ mem' = Untouched
  /\ nest' = Untouched /\ old' = Empty
  /\ logId' = 0 /\ level' = 0 /\ pending' = <<>> /\ phist' = <<>>
  /\ dirty' = FALSE /\ undoOff' = 0 /\ pos' = 0
  /\ tuned' = {unjFile[i] : i \in Id} \ {0}
  /\ UNCHANGED <<disk, births, saved>>

Crash ==
  /\ Crashes
  /\ FreshProcess
  /\ UNCHANGED journal

(* The process dies inside the flush() of a block: n lines of it are on disk *)
TornFlush ==
  /\ TornWrites
  /\ mode \in {"open", "undo"} /\ level = 1 /\ Len(pending) > 1
  /\ \E n \in 1 .. Len(pending) + 1 :
       /\ file' = file \o SubSeq(Framed(pending), 1, n)
       /\ hist' = hist \o SubSeq(FramedStates(At(Len(file)), phist), 1, n)
  /\ snapNewer' = FALSE
  /\ FreshProcess

-----------------------------------------------------------------------------
Init ==
  /\ mode = "closed"
  /\ obj = Empty /\ unj = Untouched /\ mem = Untouched
  /\ nest = Untouched /\ old = Empty
  /\ logId = 0 /\ level = 0 /\ pending = <<>> /\ phist = <<>>
  /\ dirty = FALSE /\ undoOff = 0 /\ pos = 0
  /\ file = <<>> /\ hist = <<>> /\ snapNewer = FALSE
  /\ snap = Empty /\ unjFile = Untouched
  /\ births = 0 /\ saved = Empty /\ tuned = {}

UserStep ==
  \/ BlockStart \/ BlockEnd
  \/ \E v \in Val : Create(v)
  \/ \E i \in Id : Destroy(i) \/ LogStart(i) \/ LogEnd(i) \/ Tune(i)
  \/ \E i \in Id, v \in Val : Assign(i, v)
  \/ \E k \in ImportIds, v \in Val : Import(k, v)
  \/ UndoStart \/ Snapshot \/ Compact \/ Open \/ Close

(* the loops of replay() and undo() *)
LoopStep == UndoLine \/ UndoEnd \/ ReplayLine \/ LoadLine \/ OpenEnd

Next == UserStep \/ LoopStep \/ Crash \/ TornFlush

Spec == Init /\ [][Next]_vars

(* A call, once begun, runs on; the user owes nothing. *)
FairSpec == Spec /\ WF_vars(LoopStep)
-----------------------------------------------------------------------------
(* Properties *)

TypeOK ==
  /\ mode \in {"closed", "replay", "load", "open", "undo", "aborted"}
  /\ obj \in State /\ old \in State /\ snap \in State /\ saved \in State
  /\ {unj, mem, unjFile} \subseteq [Id -> 0..MaxBirths]
  /\ nest \in [Id -> Nat]
  /\ logId \in Nat /\ level \in Nat /\ undoOff \in Nat /\ pos \in Nat
  /\ births \in 0..MaxBirths /\ tuned \subseteq Birth
  /\ dirty \in BOOLEAN /\ snapNewer \in BOOLEAN
  /\ file \in Seq(Line) /\ pending \in Seq(Line)
  /\ hist \in Seq(State) /\ phist \in Seq(State)

(* Between the states s and t, line l says what happened: read forwards it     *)
(* leads from s to t, read backwards from t to s.                              *)
LineStep(s, l, t) ==
  \/ IsMarker(l) /\ t = s
  \/ l.op = "create" /\ l.id \in Id /\ s[l.id] = Nil /\ l.new # Nil
     /\ t = [s EXCEPT ![l.id] = l.new]
  \/ l.op = "destroy" /\ l.id \in Id /\ l.old # Nil /\ s[l.id] = l.old
     /\ t = [s EXCEPT ![l.id] = Nil]
  \/ l.op = "set" /\ l.id \in Id /\ l.new # Nil /\ l.old # Nil /\ s[l.id] = l.old
     /\ l.new.born = l.old.born
     /\ t = [s EXCEPT ![l.id] = l.new]

(* Lines p take the state s through the states h, line by line. *)
Linked(s, p, h) ==
  /\ Len(h) = Len(p)
  /\ \A k \in 1..Len(p) : LineStep(IF k = 1 THEN s ELSE h[k - 1], p[k], h[k])

(* Every line on disk or queued is bidirectional: it names the state the        *)
(* object really had before and has after it (log_create, log_end, log_destroy  *)
(* and the inverse lines undo() writes), whatever was interleaved or crashed.   *)
JournalIsBidirectional ==
  /\ Linked(Empty, file, hist)
  /\ Linked(At(Len(file)), pending, phist)

(* The journal, with the transaction under way, is all there is to know: its    *)
(* end state is the logged state of the live objects, also after a crash, a     *)
(* reopening, an undo or an undo of an undo.                                    *)
JournalReproducesState ==
  mode \in {"open", "undo"} => After(At(Len(file)), phist) = Logged

(* replay() is at each line where the program was when it wrote the line, so    *)
(* opening brings "the end state back into RAM".                                *)
ReplayRetracesHistory ==
  mode = "replay" => pos <= Len(file) /\ obj = At(pos)

(* No ASSERT and no FATAL of open, replay, undo or update_id fires.             *)
NeverAborts == mode # "aborted"

(* The undo offset is where undo() needs it: the state there is the present     *)
(* one, so that reversing the transaction that ends there undoes something the  *)
(* user can see.                                                                *)
UndoPointIsPresent ==
  mode = "open" /\ level = 0 =>
    undoOff <= Len(file) /\ At(undoOff) = Logged

(* open() may take the snapshot for the journal: when newer() says so they      *)
(* rebuild the same objects.                                                    *)
SnapshotAgreesWithJournal == snapNewer => snap = At(Len(file))

(* A new id is never in use, whichever of replay, undo, import or the snapshot  *)
(* made the live objects.                                                       *)
IdsAreFresh == \A i \in Live : i <= logId

(* dirty() = 0: nothing changed since the last save or open.                    *)
CleanMeansUnchanged == mode = "open" /\ ~dirty => Logged = saved

(* An object keeps its unjournaled state over destruction and undo, close and   *)
(* open.                                                                        *)
UnjournaledSurvives ==
  mode = "open" =>
    \A i \in Live : unj[i] = IF obj[i].born \in tuned THEN obj[i].born ELSE 0

(* Neither undo() nor open() loops forever: whatever they read, each ends with  *)
(* the project open or closed.                                                   *)
LoopsEnd == mode \in {"undo", "replay", "load"} ~> mode \in {"open", "closed"}
=============================================================================
