------------------------------ MODULE OscPeers ------------------------------
(***************************************************************************)
(* How OSC endpoints (OSC/Endpoint.C) get to know each other and mirror each  *)
(* other's signals.                                                          *)
(*                                                                         *)
(* An endpoint that hears a hello from a stranger asks it for its signals,    *)
(* in batches, and says hello itself; from then on it is told of every signal *)
(* created, removed or renamed.  One step is one handler, or one call of the  *)
(* program that owns the endpoint.                                           *)
(*                                                                         *)
(* Abstractions: one host, where UDP keeps order between two sockets and      *)
(* loses nothing; a port is the number of the process that has it; paths      *)
(* carry the name of their endpoint and are unique in it; a signal is its     *)
(* path (direction and limits travel with it).  A mirror is a bag: how many    *)
(* signals of each path it has, as nothing depends on their order.             *)
(***************************************************************************)
EXTENDS Integers, Sequences, SequencesExt

CONSTANTS
  Node,                \* endpoints, by name
  Path,                \* paths of signals
  BatchSize,           \* SCAN_BATCH_SIZE
  Editors,             \* endpoints whose program changes its signals
  MaxEdits,            \* bound: changes of signals
  MaxHellos,           \* bound: hellos said by programs
  MaxPort,             \* bound: processes of one endpoint
  EditsWhenHalfMet,    \* may signals change while a peer knows us that we do not know?
  DeletesWhileScanned  \* may signals be deleted while a peer lists them?

ASSUME OscPeersAssumption ==
  /\ BatchSize \in Nat \ {0} /\ MaxEdits \in Nat /\ MaxHellos \in Nat /\ MaxPort \in Nat \ {0}
  /\ Editors \subseteq Node
  /\ {EditsWhenHalfMet, DeletesWhileScanned} \subseteq BOOLEAN

VARIABLES
  port,    \* port[n]: the port n's process listens at
  signals, \* signals[n]: _signals
  peers,   \* peers[n][m]: what n has in _peers about m
  net,     \* net[n][m]: messages from n to m under way
  edits,   \* bound: changes so far
  hellos   \* bound: hellos so far

vars == <<port, signals, peers, net, edits, hellos>>

Peer == [known : BOOLEAN, port : Nat, scanning : BOOLEAN, current : Nat, signals : [Path -> Nat]]
Stranger == [known |-> FALSE, port |-> 0, scanning |-> FALSE, current |-> 0,
             signals |-> [x \in Path |-> 0]]

(* find_peer_signal_by_path() *)
Mirrors(p, x) == p.signals[x] > 0

(* /signal/list without an argument asks for the old listing, without batches *)
Unbatched == -1

Kind == {"hello", "list", "batch", "entry", "done", "created", "removed", "renamed"}
Message == [kind : Kind, from : Nat, to : Nat, paths : Seq(Path), arg : Int]

Others(n) == Node \ {n}
Knows(n, m) == peers[n][m].known

(* n's messages of one kind, to the address it has of each m *)
Letter(n, to, kind, paths, arg) ==
  [kind |-> kind, from |-> port[n], to |-> to, paths |-> paths, arg |-> arg]

Tell(n, kind, paths) ==
  [net EXCEPT ![n] = [m \in Others(n) |->
     IF Knows(n, m) THEN Append(@[m], Letter(n, peers[n][m].port, kind, paths, 0)) ELSE @[m]]]

(* the message m's process is to receive next from n *)
Next1(n, m) == Head(net[n][m])
Arrives(n, m, kind) ==
  net[n][m] # <<>> /\ Next1(n, m).kind = kind /\ Next1(n, m).to = port[m]

(* after that: the answers of m, in one bundle or one after the other *)
Answered(n, m, answers) ==
  [net EXCEPT ![n][m] = Tail(@), ![m][n] = @ \o answers]

(* find_peer_by_address() *)
FromPeer(n, m) == Knows(m, n) /\ peers[m][n].port = Next1(n, m).from

-----------------------------------------------------------------------------
(* Calls of the program *)

(* some m has asked n, or is about to, for signals without n knowing it *)
HalfMet(n) ==
  \E m \in Others(n) : /\ Knows(m, n) /\ peers[m][n].port = port[n]
                       /\ ~(Knows(n, m) /\ peers[n][m].port = port[m])

MayEdit(n) ==
  /\ n \in Editors /\ edits < MaxEdits /\ edits' = edits + 1
  /\ EditsWhenHalfMet \/ ~HalfMet(n)

AddSignal(n, x) ==
  /\ MayEdit(n)
  /\ x \notin ToSet(signals[n])
  /\ signals' = [signals EXCEPT ![n] = Append(@, x)]
  /\ net' = Tell(n, "created", <<x>>)
  /\ UNCHANGED <<port, peers, hellos>>

Without(s, x) == RemoveAt(s, CHOOSE k \in DOMAIN s : s[k] = x)

DelSignal(n, x) ==
  /\ MayEdit(n)
  /\ DeletesWhileScanned \/ \A m \in Others(n) : ~peers[m][n].scanning
  /\ x \in ToSet(signals[n])
  /\ signals' = [signals EXCEPT ![n] = Without(@, x)]
  /\ net' = Tell(n, "removed", <<x>>)
  /\ UNCHANGED <<port, peers, hellos>>

(* Signal::rename() keeps the signal's place in the list *)
Rename(n, x, y) ==
  /\ MayEdit(n)
  /\ x \in ToSet(signals[n]) /\ y \notin ToSet(signals[n])
  /\ signals' = [signals EXCEPT ![n] = [k \in DOMAIN @ |-> IF @[k] = x THEN y ELSE @[k]]]
  /\ net' = Tell(n, "renamed", <<x, y>>)
  /\ UNCHANGED <<port, peers, hellos>>

(* hello( url ): the program knows where m is from its session *)
Hello(n, m) ==
  /\ m # n /\ hellos < MaxHellos
  /\ hellos' = hellos + 1
  /\ net' = [net EXCEPT ![n][m] = Append(@, Letter(n, port[m], "hello", <<>>, 0))]
  /\ UNCHANGED <<port, signals, peers, edits>>

(* n's process ends and another takes its name, at another port, and says      *)
(* hello to everybody                                                          *)
Restart(n) ==
  /\ port[n] < MaxPort
  /\ port' = [port EXCEPT ![n] = @ + 1]
  /\ signals' = [signals EXCEPT ![n] = <<>>]
  /\ peers' = [peers EXCEPT ![n] = [m \in Others(n) |-> Stranger]]
  /\ net' = [net EXCEPT ![n] = [m \in Others(n) |->
       Append(@[m], [Letter(n, port[m], "hello", <<>>, 0) EXCEPT !.from = port[n] + 1])]]
  /\ UNCHANGED <<edits, hellos>>

-----------------------------------------------------------------------------
(* Handlers: m receives a message from n *)

Greeting(m, to) == Letter(m, to, "hello", <<>>, 0)

(* mutant: nobody says hello back *)
OnHelloSilent(n, m) ==
  /\ Arrives(n, m, "hello")
  /\ LET url == Next1(n, m).from
     IN IF Knows(m, n) THEN net' = Answered(n, m, <<>>) /\ UNCHANGED peers
        ELSE /\ peers' = [peers EXCEPT ![m][n] =
                  [Stranger EXCEPT !.known = TRUE, !.port = url, !.scanning = TRUE]]
             /\ net' = Answered(n, m, <<Letter(m, url, "list", <<>>, 0)>>)
  /\ UNCHANGED <<port, signals, edits, hellos>>

(* handle_hello(): scan a stranger from signal 0, and a peer that has moved by  *)
(* the old listing; a known address is no news                                 *)
OnHello(n, m) ==
  /\ Arrives(n, m, "hello")
  /\ LET url == Next1(n, m).from
         p == peers[m][n]
     IN \/ /\ ~p.known
           /\ peers' = [peers EXCEPT ![m][n] =
                [Stranger EXCEPT !.known = TRUE, !.port = url, !.scanning = TRUE]]
           /\ net' = Answered(n, m, <<Letter(m, url, "list", <<>>, 0), Greeting(m, url)>>)
        \/ /\ p.known /\ p.port = url
           /\ net' = Answered(n, m, <<>>)
           /\ UNCHANGED peers
        \/ /\ p.known /\ p.port # url
           /\ peers' = [peers EXCEPT ![m][n] = [p EXCEPT !.port = url, !.scanning = TRUE]]
           /\ net' = Answered(n, m, <<Letter(m, url, "list", <<>>, Unbatched), Greeting(m, url)>>)
  /\ UNCHANGED <<port, signals, edits, hellos>>

(* the signals of one bundle: BatchSize of them from the start asked for, if    *)
(* there are as many                                                           *)
Batch(s, start) ==
  SubSeq(s, start + 1, IF start + BatchSize < Len(s) THEN start + BatchSize ELSE Len(s))

(* mutant: a full batch is taken for the last *)
MoreAfterFull(batch) == IF Len(batch) > BatchSize THEN 1 ELSE 0

(* a full batch may not be the last *)
More(batch) == IF Len(batch) = BatchSize THEN 1 ELSE 0

(* osc_signal_lister(): one batch in a bundle, or every signal in a message of   *)
(* its own                                                                     *)
OnList(n, m) ==
  /\ Arrives(n, m, "list")
  /\ LET msg == Next1(n, m)
         batch == Batch(signals[m], msg.arg)
     IN net' = Answered(n, m,
          IF msg.arg = Unbatched
          THEN [k \in DOMAIN signals[m] |-> Letter(m, msg.from, "entry", <<signals[m][k]>>, 0)]
               \o <<Letter(m, msg.from, "done", <<>>, 0)>>
          ELSE <<Letter(m, msg.from, "batch", batch, More(batch))>>)
  /\ UNCHANGED <<port, signals, peers, edits, hellos>>

(* mutant: osc_reply() takes every signal it is told of *)
MirroredAgain(p, xs) ==
  IF ~p.scanning THEN p
  ELSE [p EXCEPT !.signals = [x \in Path |-> p.signals[x] + IF x \in ToSet(xs) THEN 1 ELSE 0]]

(* osc_reply() with six arguments, for each of xs: only during a scan, and not  *)
(* what is mirrored already                                                     *)
Mirrored(p, xs) ==
  IF ~p.scanning THEN p
  ELSE [p EXCEPT !.signals =
         [x \in Path |-> IF x \in ToSet(xs) /\ ~Mirrors(p, x) THEN 1 ELSE p.signals[x]]]

(* mutant: the next batch starts where this one did *)
NextStartAgain(p, xs) == p.current

(* mutant: batches are counted backwards *)
NextStartBack(p, xs) == p.current - Len(xs)

NextStart(p, xs) == p.current + Len(xs)

(* the bundle of a batch: its signals, then the reply with three arguments      *)
OnBatch(n, m) ==
  /\ Arrives(n, m, "batch")
  /\ LET msg == Next1(n, m)
         p == Mirrored(peers[m][n], msg.paths)
         next == NextStart(p, msg.paths)
     IN \/ /\ ~FromPeer(n, m)
           /\ net' = Answered(n, m, <<>>) /\ UNCHANGED peers
        \/ /\ FromPeer(n, m) /\ msg.arg = 0
           /\ peers' = [peers EXCEPT ![m][n] = [p EXCEPT !.scanning = FALSE]]
           /\ net' = Answered(n, m, <<>>)
        \/ /\ FromPeer(n, m) /\ msg.arg = 1
           /\ peers' = [peers EXCEPT ![m][n] = [p EXCEPT !.current = next]]
           /\ net' = Answered(n, m, <<Letter(m, p.port, "list", <<>>, next)>>)
  /\ UNCHANGED <<port, signals, edits, hellos>>

(* handlers that only change what m knows of n; from an unknown address they    *)
(* do nothing                                                                   *)
Learn(n, m, kind, p) ==
  /\ Arrives(n, m, kind)
  /\ net' = Answered(n, m, <<>>)
  /\ peers' = IF FromPeer(n, m) THEN [peers EXCEPT ![m][n] = p] ELSE peers
  /\ UNCHANGED <<port, signals, edits, hellos>>

OnEntry(n, m) == Learn(n, m, "entry", Mirrored(peers[m][n], Next1(n, m).paths))
OnDone(n, m) == Learn(n, m, "done", [peers[m][n] EXCEPT !.scanning = FALSE])

(* osc_sig_created() does not look whether the signal is mirrored already *)
OnCreated(n, m) ==
  Learn(n, m, "created", [peers[m][n] EXCEPT !.signals[Next1(n, m).paths[1]] = @ + 1])

OnRemoved(n, m) ==
  LET p == peers[m][n]
      x == Next1(n, m).paths[1]
  IN Learn(n, m, "removed", IF Mirrors(p, x) THEN [p EXCEPT !.signals[x] = @ - 1] ELSE p)

OnRenamed(n, m) ==
  LET p == peers[m][n]
      x == Next1(n, m).paths
  IN Learn(n, m, "renamed",
           IF Mirrors(p, x[1])
           THEN [p EXCEPT !.signals = [y \in Path |-> p.signals[y]
                + (IF y = x[2] THEN 1 ELSE 0) - (IF y = x[1] THEN 1 ELSE 0)]] ELSE p)

(* nobody listens at that port any more *)
Undeliverable(n, m) ==
  /\ net[n][m] # <<>> /\ Next1(n, m).to # port[m]
  /\ net' = Answered(n, m, <<>>)
  /\ UNCHANGED <<port, signals, peers, edits, hellos>>

Deliver(n, m) ==
  \/ OnHello(n, m) \/ OnList(n, m) \/ OnBatch(n, m) \/ OnEntry(n, m) \/ OnDone(n, m)
  \/ OnCreated(n, m) \/ OnRemoved(n, m) \/ OnRenamed(n, m) \/ Undeliverable(n, m)

-----------------------------------------------------------------------------
Init ==
  /\ port = [n \in Node |-> 1]
  /\ signals = [n \in Node |-> <<>>]
  /\ peers = [n \in Node |-> [m \in Others(n) |-> Stranger]]
  /\ net = [n \in Node |-> [m \in Others(n) |-> <<>>]]
  /\ edits = 0 /\ hellos = 0

Program(n) ==
  \/ \E x \in Path : AddSignal(n, x) \/ DelSignal(n, x)
  \/ \E x, y \in Path : Rename(n, x, y)
  \/ \E m \in Others(n) : Hello(n, m)
  \/ Restart(n)

Next ==
  \/ \E n \in Node : Program(n)
  \/ \E n \in Node : \E m \in Others(n) : Deliver(n, m)

Spec == Init /\ [][Next]_vars

(* Every endpoint goes on receiving (run() or check() called again and again);   *)
(* its program need not do anything.                                             *)
FairSpec == Spec /\ \A n \in Node : \A m \in Others(n) : WF_vars(Deliver(n, m))
-----------------------------------------------------------------------------
(* Properties *)

TypeOK ==
  /\ port \in [Node -> Nat] /\ signals \in [Node -> Seq(Path)]
  /\ \A n \in Node : peers[n] \in [Others(n) -> Peer] /\ net[n] \in [Others(n) -> Seq(Message)]
  /\ edits \in Nat /\ hellos \in Nat

Acquainted(n, m) ==
  /\ Knows(n, m) /\ peers[n][m].port = port[m]
  /\ Knows(m, n) /\ peers[m][n].port = port[n]

(* n has finished its scan of m and no message is under way *)
Settled(n, m) ==
  Acquainted(n, m) /\ ~peers[n][m].scanning /\ net[n][m] = <<>> /\ net[m][n] = <<>>

(* Once scan and notices have come to rest, every signal of a peer is mirrored:  *)
(* the scan by batches, notices that overtake nothing and the scan after a move   *)
(* leave no gap.                                                                  *)
MirrorIsComplete ==
  \A n \in Node : \A m \in Others(n) :
    Settled(n, m) => \A x \in ToSet(signals[m]) : Mirrors(peers[n][m], x)

(* Of a peer that has not restarted (a ghost of the old process and a notice of   *)
(* the new one give two), a signal is mirrored once at any time, although both    *)
(* the listing and a notice may tell of it (osc_reply() looks, osc_sig_created()  *)
(* does not), and once at rest the mirror holds nothing else.                     *)
MirrorIsExact ==
  \A n \in Node : \A m \in Others(n) : port[m] = 1 =>
    \A x \in Path : /\ peers[n][m].signals[x] <= 1
                    /\ Settled(n, m) /\ Mirrors(peers[n][m], x) => x \in ToSet(signals[m])

(* A scan comes to an end.                                                        *)
ScanEnds ==
  \A n \in Node : \A m \in Others(n) : peers[n][m].scanning ~> ~peers[n][m].scanning

(* When one has met the other, the other comes to know the one.                   *)
MeetingIsMutual ==
  \A n \in Node : \A m \in Others(n) : Knows(n, m) ~> Knows(m, n)
=============================================================================
