----------------------------- MODULE OscRoutes ------------------------------
(***************************************************************************)
(* How the values of one endpoint's output signals reach the input signals of *)
(* another (OSC/Endpoint.C).                                                 *)
(*                                                                         *)
(* The receiver keeps _translations, from the path a value comes under to the *)
(* path of one of its inputs.  connect, disconnect and learn() fill it, and   *)
(* renames on both sides rewrite it.  A value that is translated goes through *)
(* the receiver's own socket a second time, under the path of the input.      *)
(*                                                                         *)
(* Abstractions: the endpoints know each other (OscPeers shows how); one       *)
(* sends, the other receives, and messages from one socket arrive in order; a  *)
(* path belongs to one side; values are compared only.  Feedback is left out:  *)
(* an output signal ignores it.                                              *)
(***************************************************************************)
EXTENDS Naturals, Sequences

CONSTANTS
  Out, In,           \* output signals of the sender, input signals of the receiver
  OutPath, InPath,   \* paths
  Value, Default,    \* values; the one signals are made with
  Nobody,            \* no path, no signal
  MaxChanges,        \* bound: calls other than value()
  MaxMessages,       \* bound: messages under way, when the sender sends another
  Options            \* what programs may do although routes get lost, see below

(* "learning": rename or delete an input that is being learned; "routed": delete  *)
(* a signal that has, or may yet get, a route; "itself": rename a signal to the    *)
(* name it has; "unscanned": connect before the receiver has listed the signals    *)
ASSUME OscRoutesAssumption ==
  /\ MaxChanges \in Nat /\ MaxMessages \in Nat
  /\ OutPath \cap InPath = {} /\ Default \in Value /\ Nobody \notin Out \cup In \cup OutPath \cup InPath
  /\ Options \subseteq {"learning", "routed", "itself", "unscanned"}

VARIABLES
  outPath,   \* paths of the sender's signals, Nobody for those that do not exist
  outValue,  \* their values
  inPath,    \* paths of the receiver's signals
  inValue,   \* their values
  mirror,    \* the receiver's mirror of the sender's signals
  routes,    \* _translations
  learning,  \* _learning_path
  wire,      \* messages from the sender under way
  loop,      \* translated values under way, from the receiver to itself
  changes,   \* bound: calls so far
  routed,    \* history: the input each output was last connected to
  due        \* history: the value each input should end with, Nobody if one went astray

sender == <<outPath, outValue>>
receiver == <<inPath, inValue, mirror, routes, learning, loop>>
history == <<routed, due>>
vars == <<sender, receiver, wire, changes, history>>

AnyPath == OutPath \cup InPath
Kind == {"value", "created", "removed", "renamed", "connect", "disconnect"}

(* sig is history: whose message it is *)
Message ==
  [kind : Kind, path : OutPath, other : AnyPath \cup {Nobody}, value : Value \cup {Nobody}, sig : Out]
Translated == [path : InPath, value : Value]

Route(x) == routes[x]
InOf(y) == {d \in In : inPath[d] = y}
Change == changes < MaxChanges /\ changes' = changes + 1

-----------------------------------------------------------------------------
(* The sender's program *)

Send(kind, s, other, v) ==
  /\ Len(wire) + Len(loop) < MaxMessages
  /\ wire' = Append(wire, [kind |-> kind, path |-> outPath[s], other |-> other, value |-> v, sig |-> s])

(* Signal::value() *)
SetValue(s, v) ==
  /\ outPath[s] # Nobody /\ v # outValue[s]
  /\ outValue' = [outValue EXCEPT ![s] = v]
  /\ Send("value", s, Nobody, v)
  /\ UNCHANGED <<outPath, receiver, changes, history>>

(* connect_signal() and disconnect_signal() name the input by its path of now    *)
Connect(s, d) ==
  /\ Change /\ outPath[s] # Nobody /\ inPath[d] # Nobody
  /\ Send("connect", s, inPath[d], Nobody)
  /\ UNCHANGED <<sender, receiver, history>>

Disconnect(s, d) ==
  /\ Change /\ outPath[s] # Nobody /\ inPath[d] # Nobody
  /\ Send("disconnect", s, inPath[d], Nobody)
  /\ UNCHANGED <<sender, receiver, history>>

FreeOut(s, x) ==
  \A t \in Out : outPath[t] = x => t = s /\ "itself" \in Options

RenameOut(s, x) ==
  /\ Change /\ outPath[s] # Nobody /\ FreeOut(s, x)
  /\ Send("renamed", s, x, Nobody)
  /\ outPath' = [outPath EXCEPT ![s] = x]
  /\ UNCHANGED <<outValue, receiver, history>>

DeleteOut(s) ==
  /\ Change /\ outPath[s] # Nobody
  /\ "routed" \in Options \/ (routed[s] = Nobody /\ \A k \in DOMAIN wire : wire[k].sig # s)
  /\ Send("removed", s, Nobody, Nobody)
  /\ outPath' = [outPath EXCEPT ![s] = Nobody]
  /\ UNCHANGED <<outValue, receiver, history>>

(* add_signal() *)
CreateOut(s, x) ==
  /\ Change /\ outPath[s] = Nobody /\ \A t \in Out : outPath[t] # x
  /\ Len(wire) + Len(loop) < MaxMessages
  /\ wire' = Append(wire, [kind |-> "created", path |-> x, other |-> Nobody, value |-> Nobody, sig |-> s])
  /\ outPath' = [outPath EXCEPT ![s] = x]
  /\ outValue' = [outValue EXCEPT ![s] = Default]
  /\ UNCHANGED <<receiver, history>>

-----------------------------------------------------------------------------
(* The receiver's program *)

NotLearned(d) == "learning" \in Options \/ learning # inPath[d]

(* values under way to the path y may miss their input or find another *)
Astray(d, y) ==
  IF \E k \in DOMAIN loop : loop[k].path \in {inPath[d], y} THEN [due EXCEPT ![d] = Nobody] ELSE due

FreeIn(d, y) == \A e \in In : inPath[e] = y => e = d /\ "itself" \in Options

(* mutant: the translations to the input keep its old path *)
RenameInOnly(d, y) ==
  /\ Change /\ inPath[d] # Nobody /\ NotLearned(d)
  /\ FreeIn(d, y)
  /\ inPath' = [inPath EXCEPT ![d] = y]
  /\ due' = Astray(d, y)
  /\ UNCHANGED <<sender, inValue, mirror, routes, learning, loop, wire, routed>>

(* Signal::rename() and rename_translation_destination() *)
RenameIn(d, y) ==
  /\ Change /\ inPath[d] # Nobody /\ NotLearned(d)
  /\ FreeIn(d, y)
  /\ inPath' = [inPath EXCEPT ![d] = y]
  /\ routes' = [x \in AnyPath |-> IF routes[x] = inPath[d] THEN y ELSE routes[x]]
  /\ due' = Astray(d, y)
  /\ UNCHANGED <<sender, inValue, mirror, learning, loop, wire, routed>>

(* del_signal() leaves the translations to it *)
DeleteIn(d) ==
  /\ Change /\ inPath[d] # Nobody /\ NotLearned(d)
  /\ "routed" \in Options \/ \A s \in Out : routed[s] # d
  /\ inPath' = [inPath EXCEPT ![d] = Nobody]
  /\ routed' = [s \in Out |-> IF routed[s] = d THEN Nobody ELSE routed[s]]
  /\ UNCHANGED <<sender, inValue, mirror, routes, learning, loop, wire, due>>

(* learn() *)
Learn(d) ==
  /\ Change /\ inPath[d] # Nobody
  /\ learning' = inPath[d]
  /\ UNCHANGED <<sender, inPath, inValue, mirror, routes, loop, wire, history>>

-----------------------------------------------------------------------------
(* The receiver's handlers *)

Arrives(kind) == wire # <<>> /\ Head(wire).kind = kind /\ wire' = Tail(wire)
Got == Head(wire)

OnCreated ==
  /\ Arrives("created")
  /\ mirror' = mirror \cup {Got.path}
  /\ UNCHANGED <<sender, inPath, inValue, routes, learning, loop, changes, history>>

(* osc_sig_removed() leaves the translations from it *)
OnRemoved ==
  /\ Arrives("removed")
  /\ mirror' = mirror \ {Got.path}
  /\ UNCHANGED <<sender, inPath, inValue, routes, learning, loop, changes, history>>

(* rename_translation_source() *)
RenamedSource(x, y) ==
  IF Route(x) = Nobody THEN routes ELSE [[routes EXCEPT ![y] = routes[x]] EXCEPT ![x] = Nobody]

(* osc_sig_renamed(): only for a mirrored signal *)
OnRenamed ==
  /\ Arrives("renamed")
  /\ IF Got.path \in mirror
     THEN /\ mirror' = (mirror \ {Got.path}) \cup {Got.other}
          /\ routes' = RenamedSource(Got.path, Got.other)
     ELSE UNCHANGED <<mirror, routes>>
  /\ UNCHANGED <<sender, inPath, inValue, learning, loop, changes, history>>

(* osc_sig_connect(): a source has one destination, the last *)
OnConnect ==
  /\ Arrives("connect")
  /\ IF InOf(Got.other) = {} THEN UNCHANGED <<routes, routed>>
     ELSE /\ routes' = [routes EXCEPT ![Got.path] = Got.other]
          /\ \E d \in InOf(Got.other) : routed' = [routed EXCEPT ![Got.sig] = d]
  /\ UNCHANGED <<sender, inPath, inValue, mirror, learning, loop, changes, due>>

(* osc_sig_disconnect() removes the route of the source, wherever it leads       *)
OnDisconnect ==
  /\ Arrives("disconnect")
  /\ IF InOf(Got.other) = {} THEN UNCHANGED <<routes, routed>>
     ELSE /\ routes' = [routes EXCEPT ![Got.path] = Nobody]
          /\ routed' = [routed EXCEPT ![Got.sig] = Nobody]
  /\ UNCHANGED <<sender, inPath, inValue, mirror, learning, loop, changes, due>>

(* osc_generic() on a value under path x: learn the path, or translate it, or     *)
(* nothing                                                                     *)
LearnPath(x) ==
  /\ learning # Nobody
  /\ routes' = [routes EXCEPT ![x] = learning]
  /\ learning' = Nobody

OnValueLearned ==
  /\ Arrives("value") /\ LearnPath(Got.path)
  /\ routed' = [routed EXCEPT ![Got.sig] = IF InOf(learning) = {} THEN Nobody
                                           ELSE CHOOSE d \in InOf(learning) : TRUE]
  /\ UNCHANGED <<sender, inPath, inValue, mirror, loop, changes, due>>

(* mutant: the value goes on under the path it came by *)
OnValueUntranslated ==
  /\ Arrives("value") /\ learning = Nobody
  /\ loop' = IF Route(Got.path) = Nobody THEN loop
             ELSE Append(loop, [path |-> Got.path, value |-> Got.value])
  /\ due' = IF routed[Got.sig] = Nobody THEN due ELSE [due EXCEPT ![routed[Got.sig]] = Got.value]
  /\ UNCHANGED <<sender, inPath, inValue, mirror, routes, learning, changes, routed>>

(* mutant: the value overtakes those that wait in the socket *)
OnValueAhead ==
  /\ Arrives("value") /\ learning = Nobody
  /\ LET y == Route(Got.path)
     IN loop' = IF y = Nobody THEN loop ELSE <<[path |-> y, value |-> Got.value]>> \o loop
  /\ due' = IF routed[Got.sig] = Nobody THEN due ELSE [due EXCEPT ![routed[Got.sig]] = Got.value]
  /\ UNCHANGED <<sender, inPath, inValue, mirror, routes, learning, changes, routed>>

OnValue ==
  /\ Arrives("value") /\ learning = Nobody
  /\ LET y == Route(Got.path)
     IN loop' = IF y = Nobody THEN loop ELSE Append(loop, [path |-> y, value |-> Got.value])
  /\ due' = IF routed[Got.sig] = Nobody THEN due ELSE [due EXCEPT ![routed[Got.sig]] = Got.value]
  /\ UNCHANGED <<sender, inPath, inValue, mirror, routes, learning, changes, routed>>

(* a translated value comes back: osc_sig_handler() of the input of that path       *)
OnTranslated ==
  /\ loop # <<>>
  /\ \E d \in InOf(Head(loop).path) : inValue' = [inValue EXCEPT ![d] = Head(loop).value]
  /\ loop' = Tail(loop)
  /\ UNCHANGED <<sender, inPath, mirror, routes, learning, wire, changes, history>>

(* or of none: osc_generic() again                                                *)
OnStrayLearned ==
  /\ loop # <<>> /\ InOf(Head(loop).path) = {}
  /\ LearnPath(Head(loop).path)
  /\ loop' = Tail(loop)
  /\ UNCHANGED <<sender, inPath, inValue, mirror, wire, changes, history>>

OnStray ==
  /\ loop # <<>> /\ InOf(Head(loop).path) = {} /\ learning = Nobody
  /\ LET y == Route(Head(loop).path)
     IN IF y = Nobody THEN loop' = Tail(loop) /\ UNCHANGED due
        ELSE /\ loop' = Append(Tail(loop), [Head(loop) EXCEPT !.path = y])
             /\ due' = [d \in In |-> IF inPath[d] = y THEN Nobody ELSE due[d]]
  /\ UNCHANGED <<sender, inPath, inValue, mirror, routes, learning, wire, changes, routed>>

-----------------------------------------------------------------------------
Init ==
  /\ outPath \in [Out -> OutPath] /\ \A s, t \in Out : outPath[s] = outPath[t] => s = t
  /\ inPath \in [In -> InPath] /\ \A d, e \in In : inPath[d] = inPath[e] => d = e
  /\ outValue = [s \in Out |-> Default] /\ inValue = [d \in In |-> Default]
  /\ mirror \in {OutPath \cap {outPath[s] : s \in Out}} \cup (IF "unscanned" \in Options THEN {{}} ELSE {})
  /\ routes = [x \in AnyPath |-> Nobody] /\ learning = Nobody
  /\ wire = <<>> /\ loop = <<>> /\ changes = 0
  /\ routed = [s \in Out |-> Nobody] /\ due = [d \in In |-> Default]

SenderStep ==
  \E s \in Out :
    \/ \E v \in Value : SetValue(s, v)
    \/ \E d \in In : Connect(s, d) \/ Disconnect(s, d)
    \/ \E x \in OutPath : RenameOut(s, x) \/ CreateOut(s, x)
    \/ DeleteOut(s)

ReceiverStep ==
  \E d \in In : (\E y \in InPath : RenameIn(d, y)) \/ DeleteIn(d) \/ Learn(d)

Receive ==
  \/ OnCreated \/ OnRemoved \/ OnRenamed \/ OnConnect \/ OnDisconnect
  \/ OnValue \/ OnValueLearned \/ OnTranslated \/ OnStray \/ OnStrayLearned

Next == SenderStep \/ ReceiverStep \/ Receive

Spec == Init /\ [][Next]_vars
-----------------------------------------------------------------------------
(* Properties *)

TypeOK ==
  /\ outPath \in [Out -> OutPath \cup {Nobody}] /\ outValue \in [Out -> Value]
  /\ inPath \in [In -> InPath \cup {Nobody}] /\ inValue \in [In -> Value]
  /\ mirror \subseteq OutPath /\ routes \in [AnyPath -> InPath \cup {Nobody}]
  /\ learning \in InPath \cup {Nobody} /\ changes \in Nat
  /\ wire \in Seq(Message) /\ loop \in Seq(Translated)
  /\ routed \in [Out -> In \cup {Nobody}] /\ due \in [In -> Value \cup {Nobody}]

(* The path the values of path x should go to. *)
Wanted(x) ==
  {inPath[routed[s]] : s \in {t \in Out : outPath[t] = x /\ routed[t] # Nobody}}

(* A connection is one of signals, not of names: once the sender's notices have   *)
(* been handled, _translations leads from the path each connected output has now    *)
(* to the path its input has now, and from no other path of the sender.             *)
RoutesFollowSignals ==
  wire = <<>> =>
    \A x \in OutPath : Wanted(x) = IF Route(x) = Nobody THEN {} ELSE {Route(x)}

(* An input ends with the last value of the outputs connected to it, although each  *)
(* value waits in the receiver's socket twice, unless a rename sent one astray.      *)
ValuesReachTheirInput ==
  loop = <<>> => \A d \in In : inPath[d] # Nobody /\ due[d] # Nobody => inValue[d] = due[d]
=============================================================================
