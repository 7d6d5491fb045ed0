# nonlib-xt in TLA+

A verification of nonlib-xt, the library under the Non programs: the undo
journal and the text of its lines, the MIDI event list, the OSC endpoint, the
JACK client and the client of the session manager. TLC checks the modules on
small instances; for every instance TLAPS proves the invariants of the journal
and of its text, of the event list, of the OSC peers and routes, of the JACK
client and of the NSM client, and that the journal implements a store with undo.

    cd tla
    tlc -config Journal_crash.cfg MCJournal     # likewise every other .cfg
    tlapm JournalProof.tla                      # likewise every other *Proof.tla

## 1. The system

| Part | State | Operations | Talks to |
|---|---|---|---|
| **Journal** (`Loggable.C`) | the registry `_loggables` (object and unjournaled state per id), `_log_id`, `_transaction`, `_level`, `_undo_offset`, `_dirty`; the files journal, `snapshot`, `unjournaled` | `open`, `close`, `log_create/start/end/destroy`, `block_start/end`, `undo`, `snapshot`, `compact`, `replay`, import (`begin_relative_id_mode`) | the program's objects (`get`, `set`, constructors, snapshot callback) |
| **Line text** (`Log_Entry.C`) | the arguments of one line | parse, print, `diff` | Journal |
| File helpers (`file.C`) | none | `newer`, `backwards_afgets`, locks | Journal |
| **MIDI event list** (`MIDI/event_list.C`, `event.C`) | a doubly linked list in order of time, links between note on and note off, a selection depth per event | insert, assign, select, copy, paste, merge, remove, transpose, resize, nudge, insert and delete time | the program's editor |
| MIDI messages (`midievent.C`) | the bytes of one message | accessors | event list |
| **OSC endpoint, peers** (`OSC/Endpoint.C`) | own `_signals`, `_peers` with a mirror of each peer's signals, a scan per peer | `hello`, `/signal/list` and its replies, `created`, `removed`, `renamed` | other endpoints by UDP |
| **OSC endpoint, routes** (same file) | `_translations` from source path to own input, `_learning_path`, values | `connect`, `disconnect`, `learn`, `rename`, values | other endpoints, and its own socket |
| **JACK client** (`JACK/Client.C`, `Port.C`) | `_active_ports`, `_port` and `_connections` of each, `_frozen`, `_client` | `activate`, `shutdown`, `connect`, `disconnect`, `deactivate`, `close`, `name()` | JACK's threads (process, port_connect), other clients |
| **NSM client** (`NSM/Client.C`) | `nsm_addr`, `nsm_is_active` | `announce`, answers to open, save, show and hide, reports | session manager, the program |
| `Thread`, `Mutex`, `dsp`, `string_util`, `debug` | wrappers and pure helpers | | |

What is hard in it:

* **Journal**: the same lines are read forwards by `replay` and backwards by
  `undo`, which writes lines itself; offsets into a file that grows, gets
  truncated or is exchanged for another; crashes between queue and file and in
  the middle of a block; ids that are given back; state outside the journal
  that follows an object by id.
* **Line text**: user strings with quotes, newlines, colons and spaces go through
  a format that uses them all, and the same line is cut apart from both ends.
* **Event list**: every operation re-sorts or re-pairs the list it walks.
* **OSC**: listing, notices, hellos and renames cross each other; routes are
  kept by name while the things named change their names.
* **JACK**: `name()` tears down what JACK's threads are using.
* **NSM**: requests, reports and the registration cross each other, and a server
  thread may run the handlers next to the program's own.

Correctness, per part: the journal reproduces the objects and undo steps back
exactly one transaction; a line restores what it was written for; the list stays sorted and its notes whole; a mirror
converges to what it mirrors; a route goes on connecting the two signals it was
made for; a renamed client is connected as before and no callback sees it half
made; the session manager gets one answer per request and ends up knowing the
program's state. `PROJECT.json` lists the hazards line by line with the properties that
would catch each.

## 2. Modules

| Module | Models | Runs |
|---|---|---|
| `Journal` | Loggable.C | `MCJournal`: journal_crash, journal_save_then_undo |
| `UndoStore` | what the journal promises: a state with undo | through `JournalUndo` |
| `JournalUndo` | the refinement of `UndoStore` by `Journal` | `MCJournal`: journal_undo |
| `JournalProof` | theorems about `Journal` and `JournalUndo`: files, dirty count, unjournaled state, undo, assertions, the refinement of `UndoStore` | tlapm |
| `LogEntry`, `LogEntryProof` | Log_Entry.C, and arguments in Loggable.C | `MCLogEntry`: log_line, log_backslash; tlapm |
| `EventList` | MIDI/event_list.C | `MCEventList`: event_clean, event_raw, event_insert_time |
| `EventListOperations` | lemmas: what each operation makes of any list | tlapm |
| `EventListProof` | theorems about `EventList` | tlapm |
| `OscPeers`, `OscPeersProof` | meeting and mirroring | `MCOscPeers`: osc_peers; tlapm |
| `OscRoutes`, `OscRoutesProof` | translations and values | `MCOscRoutes`: osc_routes; tlapm |
| `JackClient`, `JackProof` | JACK/Client.C, Port.C | `MCJackClient`: jack_rename; tlapm |
| `NsmClient`, `NsmProof` | NSM/Client.C | `MCNsmClient`: nsm_session; tlapm |

The MC modules only add values and symmetry. Operators commented "mutant" are
variants with a plausible bug in them; `PROJECT.json` says which property each
one breaks.

### Journal

An object is its journaled state (a member of `Val`), a line is a record with
the state before and after, the file is the sequence of its lines, and offsets
count lines. `undoOff # 0` stands for the code's `1 != _undo_offset`: reading
backwards to the first byte leaves the stream at 1, and an undo of an empty
file (offset 0) reads nothing and changes nothing. Each object carries a ghost
tag (`born`) that says which creation by the user it goes back to; `hist[k]` is
the state of the program when line k was written. No guard reads either, save
that tags number births for a bound.

One action is one call of the library, except that `undo()` and `open()` are
loops: they begin (`UndoStart`, `Open`), take one step per line (`UndoLine`,
`ReplayLine`, `LoadLine`) and end (`UndoEnd`, `OpenEnd`), so that a crash can
come between any two lines. `Crash` forgets memory and keeps the files;
`TornFlush` cuts a block that is being written. `Flush` also says where `_fp`
stands, as the assertion in `undo()` compares that with the undo offset.

Assumed of the program: `undo`, `snapshot`, `compact` and `close` are called
with no transaction or edit open (`Quiescent`), objects are edited between
`log_start` and `log_end` and not destroyed in between, and an import holds one
strip. Not modelled: read-only mode, progress reports, other threads during
`undo()`; the text of lines is `LogEntry`'s. Switches:

* `SavesInSession`: `snapshot(name)` while the journal is open. The code then
  leaves the offset of the snapshot file in `_undo_offset`
  (run journal_save_then_undo), so runs about undo have it off.
* `CompactsEmpty`: `compact()` without objects leaves the undo offset beyond
  the truncated file, and the next undo fails its assertion; off likewise.
* `Crashes`, `TornWrites`: on in journal_crash, off in journal_undo.

| Run | Question | Bounds |
|---|---|---|
| journal_crash | is every line bidirectional, does replay retrace history, do journal and snapshot agree with the objects, are ids fresh, is a clean project unchanged, with every switch on? | 2 states, 3 ids, 2 births, strip imports, 4 lines by the user and 5 with undos |
| journal_undo | does the journal implement a store with undo, is the undo offset right, does no assertion fire, does unjournaled state follow its object, do `undo()` and `open()` end? | 2 states, 2 ids, 2 births, 4 lines by the user and 9 with undos |
| journal_save_then_undo | finding: the offset after a snapshot | |

Two objects and two states are the least that tell apart one object's line from
another's and a state from its predecessor. A block needs four lines (two and
their braces) and its undo four more; five to nine lines of single changes are
enough for undos, edits after them, and undos of undos. A third id is what an
import or a replay needs to collide with. `UnjournaledSurvives` and the refinement are
checked without crashes: a crash hands out ids again while `unjournaled` still
names the old ones, and the refinement's temporal check over crashing, torn
files is too large for these bounds. What a crash leaves is the subject of
journal_crash, and journal_undo closes and reopens the project. The proof of the
refinement (section 3) includes crashes.

`UndoStore` is the promise: committed states `past`, the state `shown`, and an index
`point` that `Undo` moves one back while the state it shows is appended to `past`,
so that an undo can be undone. `JournalUndo` maps the journal to it: the
committed states are the histories at the offsets of the file outside blocks
(`Places`, those of which `Inside` does not hold), `point` is the rank of
`_undo_offset` among them (`Rank`), and a program in the
middle of `undo()` still shows the state `undo()` began with. The replay and load loops
map to steps without effect, and `OpenEnd` to `Start`. So `ImplementsUndoStore`
says at once that undo takes back one whole transaction, that the offset never
stands inside a block or skips one, and that opening comes back to what was
committed last.

Fairness: `WF(LoopStep)` only. The loops of `undo` and `replay` run in the
caller's thread and nothing in them blocks; users owe no step.

### LogEntry

`Journal` takes a line for two states; this module has their text. One object
with a string and a number is created, changed and destroyed, and the last line
undone; `line` is its command and the characters of its arguments, read back by
`ForwardArguments` and `Parse` (replay) or `ReverseArguments` and `Parse` (undo, which sees the
newline as well). The string's characters stand for the cases the code
distinguishes: newline, quote, backslash, space, colon, the letters that an
escape or a member's name uses, and `mark` for ` << `.

The code's pointers into a text are its places, and its loops say which place
they stop at: the first one with some character (`FirstOf`), the first quote no
backslash belongs to (`ClosingQuote`, `Escaped`), spaces with a colon behind
them (`BareEnd`). `Parse` goes from pair to pair by the place where
`parse_one_pair()` leaves its pointer (`PairAt`).

* log_line: strings of up to 2 characters without backslash and mark, 2 digits: any
  special character before, behind and next to any other. With backslashes
  `ForwardRestores` fails (log_backslash); with marks it and `ReverseRestores` fail, as a
  line is cut at the first ` << ` wherever it stands.

Assumed of the program, as `get()` and `set()` are its own: `get()` names the same
members in the same order, `set()` assigns the members named and reads numbers
as `atoi()` does.

### EventList

The list is a sequence of addresses into a heap of events; every method is an
operator from list to list (`Insert`, `LinkOn`, `Relink`, `Mix`, `Nudge`, ...)
with the loops of the code as folds, in the code's order, over the list as
the code walks it. A freed event leaves the heap, so a link to it shows. After
each operation addresses are renumbered in list order (`Settle`), which only
removes differences no one can see. Velocity, channel and bytes are left out.
The program is taken to delete both halves of a note (`RemoveNote`) and to move the note
off after it set a duration (`Resize`).

* event_clean: notes of one pitch do not overlap (`Clean`, what one instrument
  plays); every operation, 2 pitches, ticks 0..2, 4 events and a clipboard of 2.
* event_raw: overlaps, empty notes, takes that start or end inside a note, and
  `insert_time()`, but nothing removed: `relink()` may then re-pair notes across the
  selection, and removing half of one would leave a link to a freed event.
* event_insert_time: finding, `sort( void )` loses every event.

Three ticks are the least with room before, inside and behind a range, four
events two notes. Not modelled: `append()`, and setters that leave order and
pairing to the caller.

### OscPeers

`net[n][m]` is the queue of datagrams from n to m, each with the ports it goes
from and to; `peers[m][n]` is what m holds about n. One action is one handler or
one call of the program. One host, so peers are told apart by port as in
`address_matches()`, and UDP neither loses nor reorders. A restart takes
another port; a message for the old one is `Undeliverable`. A mirror is a bag
(how many signals of each path), since nothing that is done with it depends on
its order.

* `EditsWhenHalfMet = FALSE`: with TRUE, a signal made after a peer has listed
  us and before its hello has been handled is announced to nobody, and
  `MirrorIsComplete` fails.
* `DeletesWhileScanned = FALSE`: with TRUE, three paths and five edits, a deletion
  moves the list under a scan that counts (`osc_signal_lister`, line 871), and
  `MirrorIsComplete` fails.

A peer that restarts keeps its place in `_peers` with the mirror of its former
process, so `MirrorIsExact` (no stranger and no double) is asked of peers that
have not restarted; `MirrorIsComplete` is asked of all.

Bounds: two nodes of which one edits, two paths, batches of one signal (so that
two signals take three requests), three edits, one hello, two processes per
node. Fairness: an endpoint that is
checked goes on receiving (`run()` loops on `lo_server_recv`, `check()` is
called by the program's timer), hence weak fairness of each `Deliver`; programs owe
nothing.

### OscRoutes

One sender, one receiver that already know each other. `wire` is the ordered
stream from the one to the other, `loop` the receiver's own socket, which a
translated value passes a second time. `routed` and `due` are history: which
signal each connection means and which value each input should end with.
`Options` names what the code does not survive, each found by TLC to break
`RoutesFollowSignals`: renaming or deleting an input under `learn()`
("learning"), deleting a signal that has a route ("routed"), renaming a signal
to its own name ("itself"), connecting signals the receiver has not listed yet
("unscanned"). osc_routes has none of them: two outputs, two inputs, three
paths a side (one free for a rename), two values, six calls, two messages under way.

### JackClient

`ui` is the position of `name()`, one action per call it makes; JACK's process
and port_connect callbacks enter only if they get `_frozen`. Around it the
program adds, activates and shuts down ports, connects and disconnects them,
deactivates and closes the client, and sets `stop_process`, after which a freeze
notes no connections. Connections are pairs of full names, which is why those
between the client's own ports are lost when the name changes:
`ConnectionsRestored` asks only for those with other clients. External, modelled
from how the code uses it: `jack_deactivate()` returns when no process callback runs
and disconnects the ports, closing a client removes them, `jack_port_register` and
`jack_client_open` may fail, another name may be granted. Another program patches before
or after the freeze, not during it. Assertions are compiled in. Two ports, two
foreign ports, two names: each kind of connection and of name change occurs.
Fairness: `name()` goes on, callbacks return, and `jack_deactivate()` is not kept out
forever by process callbacks (strong fairness, as JACK stops calling when asked
to). Deadlock is not checked: a program that closed its client stops.

### NsmClient

A handler is taken in the steps another thread can see (`ReplySetsActive`, `ReplySetsAddress`,
`RunCommand`, `AnswerCommand`, ...). With `threaded = FALSE` the program calls `check()` and
nothing comes between; with TRUE a server thread runs the handlers while the
user changes things. Messages are ordered streams (one host). External: the
manager, which asks for open and save only of a client it has registered and
may refuse one, and the program, which reports everything when it is told that
it is active, and each change as it happens.

`AnswersMatchRequests` holds either way. `ManagerKnowsTheProgram` and `NothingGoesAstray` are asked of
`check()` only: with a thread, `nsm_is_active` is seen before `nsm_addr` is set (lines
296-298), and a change by the user is reported before the answer to a show
request that it follows.

nsm_session: two announcements (accepted or refused), two requests and two
changes, the least in which a refusal meets a request under way and a report
crosses another. Deadlock is not checked: the bounds are used up.

## 3. What is proved

For every value of the constants that meets the module's assumption, which only
gives their types. A hypothesis on a switch is part of the theorem.

| Module | Theorem | Statement |
|---|---|---|
| `JournalProof` | `TypeCorrect` | `TypeOK` |
| | `BidirectionalAlways` | every line on disk or queued leads from the state before it to the state after, and back |
| | `ReproducesAlways` | the journal with the open transaction ends in the logged state of the objects |
| | `ReplayAlwaysRetraces` | replay is at each line where the program was |
| | `SnapshotAlwaysAgrees` | a newer snapshot rebuilds what the journal does |
| | `IdsAlwaysFresh` | no id above `_log_id` is in use |
| | `CleanAlways` | a project that is not dirty is as it was saved or opened (`CleanMeansUnchanged`) |
| | `UnjournaledAlwaysSurvives` | without crashes, unjournaled state follows its object (`UnjournaledSurvives`) |
| | `UndoPointStays` | without snapshots in the session and compactions of nothing, the state at the undo offset is the present one (`UndoPointIsPresent`) |
| | `NeverAbortsUntorn` | and without torn writes, no ASSERT and no FATAL fires (`NeverAborts`) |
| | `JournalImplementsStore` | under the same hypotheses, the journal implements `UndoStore` (`ImplementsUndoStore`) |
| `LogEntryProof` | `EscapeIsRead` | `unescape_in_place()` reads back what `escape()` wrote, for any string without backslash and ` << ` |
| | `ForwardAlwaysRestores` | with such strings, a line read forwards makes the object what it is (`ForwardRestores`) |
| | `ReverseAlwaysRestores` | and read backwards what it was (`ReverseRestores`) |
| | `LineAlwaysNamesTheChange` | and names what changed, on both sides (`LineNamesTheChange`) |
| `EventListProof` | `TypeCorrect` | `TypeOK` |
| | `AlwaysInOrder` | list and clipboard are in order of time (`Sorted`) |
| | `AlwaysPaired` | every note has both halves, linked to each other (`NotesArePaired`) |
| | `WholeNotesSelected` | without overlaps, both halves of a note are marked alike (`SelectionTakesWholeNotes`) |
| | `PasteKeepsThem` | without overlaps, a paste between the notes leaves every note its note off, and a copy is linked as the list is (`PasteKeepsNotes`) |
| | `SizeCounts` | without `insert_time()`, `size()` is the number of events (`SizeIsLength`) |
| | `BlockMoves` | a moved selection keeps its shape and starts at the tick asked for (`SelectionMovesAsBlock`) |
| | `CutKeeps` | `delete_time()` takes what touches the range and keeps the selection (`CutKeepsTheRest`) |
| `OscPeersProof` | `PeerTypes` | `TypeOK` |
| | `MirrorsAreComplete` | without edits when half met and deletions while scanned, a mirror at rest has every signal of its peer (`MirrorIsComplete`) |
| | `MirrorsAreExact` | under the same hypotheses, it has none twice, and at rest no other (`MirrorIsExact`) |
| `OscRoutesProof` | `RouteTypes` | `TypeOK` |
| | `RoutesAreThoseOfSignals` | with no `Options`, routes connect the signals that were connected, under the names they have now (`RoutesFollowSignals`) |
| | `LastValueStays` | with no `Options`, an input ends with the last value (`ValuesReachTheirInput`) |
| `JackProof` | `ClientTypes` | `TypeOK` |
| | `RenameRestores` | after a rename every connection with other clients is as before (`ConnectionsRestored`) |
| | `CallbacksStayOut` | no callback sees ports of a client half made (`CallbacksKeptOut`) |
| `NsmProof` | `ClientTypes` | `TypeOK` |
| | `AnswersInOrder` | one answer per request, in order, threaded or not (`AnswersMatchRequests`) |
| | `ManagerIsInformed` | at rest the manager knows window and dirtiness (`ManagerKnowsTheProgram`) |
| | `NothingSentAstray` | nothing is sent before there is an address (`NothingGoesAstray`) |

The hypotheses are the switches of section 2, each of which TLC shows to break
the property: `SavesInSession` and `CompactsEmpty` leave an undo offset that is no
place of the file, a torn block leaves a brace that undo takes for a line
(`TornWrites`), a crash hands out again ids which `unjournaled` still names
(`Crashes`), a signal made when half met is announced to nobody (`EditsWhenHalfMet`), a deletion
moves the list under a scan that counts (`DeletesWhileScanned`), and each of `Options` sends a route astray.
Those of `LogEntryProof` are about a program whose strings hold no backslash and no ` << ` (`Plain`): with one of them
the line is read as something else (log_backslash).
All theorems of `EventListProof` but `WholeNotesSelected` and `PasteKeepsThem`, which have `~Overlaps`, have the hypothesis `~(Overlaps /\ Removes)`: enter two
notes of one pitch that overlap, select one, paste (whose `relink()` pairs the
marked note on with the unmarked note off), remove the selection, and a note on links to a
freed event. All other results hold
with every switch in any position.

### The journal's files

None of the first six is inductive alone. The inductive invariant `IInv` has five named
parts. `StorageOK`: file and queue are runs of lines linked through their
histories, every closing brace of the file has its opening one before it and
none is in the queue, and the stream is inside the file. `ObjectsOK`: types, and
fresh ids. `EditsOK`: `_nest` and `_old_state` agree, and an object under edit
is the one it was. `ModeOK`: what each mode says of objects and file (in
"replay" the objects equal the history at the stream's position, while the
project is open journal and queue end in `Logged`, a newer snapshot equals the
journal's end). `UndoOK`: an undo under way finds the opening brace it looks for. A torn
block is covered because any prefix of a linked run is one (`LinkedPrefix`).
The proof has one lemma per action
(`CreateStep`, `UndoLineStep`, `TornFlushStep`, ...), over lemmas on runs of lines
(`LinkedConcat`, `LinkedPrefix`, `FramedLinked`) and on what the shared writing
operators do (`FlushWrites`, `LogWrites`, `ReverseWrites`, `SnapshotWrites`).

### Undo, and the store

Every call of the user either keeps file, history and undo offset (`Kept`) or
writes one transaction and puts the offset at the new end (`Commits`):
`UserKeepsOrCommits`. `UndoReady` adds to `IInv` that the state at the offset is
`Logged` while nothing is queued, and that `undo()` passes through the states
of the history on its way back; the latter is why each line it reads applies.
`BlocksOK` says that braces match and do not nest (`Matched`), that the offset is
outside any block, that an undo of a block is inside it, and that every line
changes something (`Telling`: `log_end` writes none otherwise). From these follows that no
assertion fires.

For the refinement `StoreOK` adds that no block is empty (`Filled`), that the ranks
of the places are all numbers up to their count (`Dense`) and that what
`undo()` has passed lies inside the block it undoes and, as soon as one line was passed, something
is queued (`WayOK`). So an undo moves to the place next before and
writes exactly one transaction (`BackToPlace`). What a transaction does to the past
is one lemma about sets of offsets, `PastGrows`: a place
beyond all others is added, the other ranks stay. Each action is then a step of
the store: `MappedChange` (`Work` or `Commit`), `MappedUndo`, `MappedCompact`, `MappedStop`, `MappedStart`, and
`MappedLoop` for the lines of `undo()` and `open()`, which are none.

### Memory

`CleanOK` extends `CleanMeansUnchanged` to an undo under way. For the unjournaled
state there is a map from ids to the object each was given to,
existentially quantified (`BornOK`): whatever names an id, in memory, in the
file, in the snapshot or in the queue, is about that object, no two ids have the same
one, and what is live or remembered of an id is the state of its object. An
import or a creation extends the map at a fresh id, which
is `IdsAreFresh`.

### Line text

What undo and replay make of a line depends only on which line was written, so the invariant
is that the last line is the one for the states before and after it (`LineOK`); the work
is that every such line is `Faithful` (`CreateFaithful`, `DestroyFaithful`, `SetFaithful`). For that:

* `escape()` makes `Neat` text: no newline, no separator, a backslash only before
  an n or a quote, a quote only behind a backslash. Neat text is read alike wherever it
  stands (`NeatEscaped`), so the closing quote of a value is where it was
  written (`ClosingIs`), and unescaping gives each character back (`PlainComes`, `EscapedComes`, `EscapeIsRead`).
* A printed entry is `Free` of newlines and separators, so a line is cut where it was
  put together (`ForwardAlone`, `BothSides`, `ReverseAlone`).
* The pairs of a printed entry come back one by one (`StringFirst`, `NumberLast`, `BothParsed`), also with the
  newline that `backwards_afgets()` leaves at the end: it becomes part of the number's
  text, where `atoi()` does not mind it (`NumberOfDigit`).
* `diff()` leaves on both sides the pairs that changed (`DiffIs`), because two strings never
  have the same escaped text (`SameString`).

`Escaped`, `Parse` and `FlattenSeq` are recursive functions. The prover knows nothing of such a
function until one is shown to exist: `EscapesDefined`, `RunsDefined` (by the distance from the end of the text)
and `FlattenDefined` extend approximations place by place, and `Climb`, that what holds at 0 and goes on
from each number to the next holds for all, is itself proved from the well-foundedness of the naturals.

### Event list

`EInv` (checked by TLC with the constants of all three runs) says of list and clipboard, apart in one memory (`Apart`):
each is `Good`, that is without doubles (`Listable`), in order (`Ordered`), with
every link leading to the other half of a note and every note on having one
(`Paired`), no time or mark below 0; `size()` is off only by what `insert_time()` lost
(`Excess`); and without overlaps both halves are marked alike (`Whole`), no
note has length 0 and no note off is left over (`Strict`), and no notes of the list overlap (`Clean`). `NotesArePaired` is not
inductive alone: removing marked events needs `Whole`, pasting needs that the pasted
events are in order and strict, and dropping an event of the list must not free one of
the clipboard.

`EventListOperations` shows for every operator what it makes of any good
list: most make an *edit* (`Edited`: good, `size()` off by the same, nothing outside the list touched).
The loops are folds. `FoldLeft()` chooses a function on sets of positions,
and `FoldGives` says, from the existence of such a function (`FoldDefined`, a union of
approximations) and that 0..n has no least element where the results could
differ (`Climb`), that its value is the last of n steps; each fold instantiates it
with the set of results each step can have (`Staged`) and shows that it `Leads` there.
`relink()` is the hardest: `Linking` is the invariant of its loop, `Relinked`
what it leaves, and `RelinkPairs` says that it finds the pairs again: of the notes
that got another note off take the one that begins last; the note that got
its note off begins behind that and is one of them. That is an argument backwards from a result without overlaps;
`PasteKeepsNotes` asks for the link of one note whatever the others get, and is proved by counting. The loop serves
note ons of a pitch in their order with the note offs in theirs (`Serving`), because where some one-to-one
`Matches` takes each note on to a later note off and reaches them all, no place has more note offs than note ons in front of it
(`OffsCounted`). So a note on gets the note off with as many before it (`Level`), there is only one (`LevelIsOne`), and for
a note that is alone in its pitch for as long as it lasts that is its own (`AloneIsLevel`, `RelinkServes`).
`PasteServes` and `CopyServes` apply this to the lists that `paste()` and `_copy()` relink.

In `EventListProof`, `SettledGives` says that renumbering changes nothing that matters
(`Renamed`), `EditKeeps` and `ChangeKeeps` that an edit keeps `EInv`, and each step has a lemma. The theorems
ask of `Takes` what the module assumes: events in order of time, neither linked nor marked,
as a recording is before `operator=` links it.

### OSC peers

Both properties are about endpoints at rest, so the invariant has to say what
the messages under way will still bring. `Correspondence` says for each ordered pair of endpoints (`Met(n, m)`)
that there is a *trail*: what n will have of m after each message that is on
its way from m, from what it has now to what it will have in the end
(`IsTrail`). `Mail` says of queue and trail:

* `InOrder`: n only moves on to newer addresses of m, never back.
* `Steady`: only the end of a listing changes how far n's scan has got.
* `Asked`: of n's requests at most one is under way; then no answer is, n is scanning, and it
  asks for what it will not have yet, all before it being `Listed`.
* `Answering`: at most one answer is under way, then no request is, and it
  brings n as far as the next request will say.
* `Complete`: when n will not be scanning any more it will have all of m's signals.
* `Exact`: a first process of m is mirrored without doubles along the trail and
  without strangers at its end; and not at all by one that knows it not and is
  not known to it.

The last record of the trail takes the place of the mirror in every argument: a
call of m's program, or a handler of m that sends, appends one record (`MailPlain`,
`MailTold`, `MailAnswer`, `MailServed`), n's handler drops the first (`MailTake`), what
n sends changes only the requests (`MailBack`, `MailBackTaken`, `MailReplied`), and of what is under way at a
restart nothing is for the new process or from it (`MailNew`, `MailRestart`). Per action these give
`HelloMet`, `EditMet`, `RestartMet` and `DeliverMet`. The two hypotheses enter
in `ProgramEditMet` alone: a notice must go to whoever has m listed, and a deletion must not meet `Asked`.

### OSC routes

The messages on the wire speak of names the sender's signals had when they
were sent. `PastOK` says that there is a run of such namings, one per message and
the last the present one, each leading to the next by what the message tells, such that the
receiver's routes are right for the first of them. A handler drops the first, a call of the program appends
one. `RemovalsOK` keeps a removed signal free of routes, `InputsOK` the inputs' paths apart, and
`ValuesOK` says which value an input will have when the receiver's own socket has been read.

### JACK client

A connection is in JACK until `freeze_ports()` comes to its port, then only noted
(`_connections`), and in JACK again once `thaw_ports()` has come to it: `KeptOK`, with
`InJack` and `InNotes` for where `name()` stands. `LockOK` ties `_frozen` to who runs,
`HandlesOK` says where stale port handles may still be, `LinksOK` that JACK links only live ports.

### NSM client

`RequestsOK` counts: the requests without an answer are those whose answers are
under way, then the one that runs, then those that wait, so the k-th answer
is that of the k-th request. `AddressOK` says that a request comes only after a registration (`Introduced`), and
that the address is set before anything is sent. `KnowledgeOK` says that the last report on its way, or what the
manager has if there is none, is the present state, unless a report or a registration is still to come. `TurnsOK` is what `check()` gives: no handler and
report at once.

### Only model-checked

* Liveness under fairness (`LoopsEnd`, `ScanEnds`, `MeetingIsMutual`, `RenameEnds`): beyond the prover, as is ENABLED.

## 4. Findings

| Run | Line | What |
|---|---|---|
| journal_save_then_undo | Loggable.C:889 | a snapshot with the journal open leaves a foreign undo offset |
| event_insert_time | MIDI/event_list.C:647 | `sort( void )` loses every event |
| log_backslash | Loggable.C:504 | a string with a backslash is not read back as it was |

The switches named above mark further places where the code does not keep a
property; they are listed among the hazards.

## 5. Plan

The modules above are done, in the order journal, events, OSC, JACK, text, NSM,
because the journal is what loses a user's work, and proved about in the order
journal, NSM, OSC routes, JACK, undo, unjournaled state, refinement, OSC peers,
event list, text. What TLC alone checks is listed above with the reason.

### Not modelled

* OSC feedback (`send_feedback`, `suppress_feedback`): it goes to whoever listens at
  the source's path, and the endpoints of this library do nothing with a value
  sent to an output; what a controller makes of it is outside the repository.
* Zombification, latency, sync, timebase, transport and buffers of a JACK
  client: callbacks that pass on to the program.
* `append()` of the event list, velocities; bytes and printing of a MIDI message
  (`midievent.C`).
* `progress`, `message`, broadcasts and `session_is_loaded` of the NSM client: one message
  each, no state.
* Lock files and one-line files of `file.C`: plain I/O.
* `dsp`, `string_util`, `debug` and `Block_Timer` (no state), `Thread` and `Mutex` (wrappers of
  pthread), `nsm.h` (third-party and unused).
