----------------------------- MODULE JackClient -----------------------------
(***************************************************************************)
(* A JACK client that changes its name (JACK/Client.C, JACK/Port.C).          *)
(*                                                                         *)
(* JACK cannot rename a client, so Client::name() notes the connections of    *)
(* its ports, closes the client, opens another and makes the ports and their  *)
(* connections anew, while JACK's threads call back.  The mutex _frozen keeps *)
(* the callbacks out of the new client until init() is through.              *)
(*                                                                         *)
(* External, modelled from how the code uses it: jack_deactivate() waits for  *)
(* the process callback and disconnects all ports of the client; a closed     *)
(* client has no ports and no new callbacks; ports are named by the name of    *)
(* their client and their own.                                               *)
(***************************************************************************)
EXTENDS Naturals, FiniteSets

CONSTANTS
  Port,       \* Port objects of the program
  Foreign,    \* ports of other clients
  Name,       \* names JACK may give to the client
  Elsewhere,  \* the client name of foreign ports
  Closed      \* no client: _client is NULL

ASSUME JackClientAssumption ==
  Elsewhere \notin Name /\ Closed \notin Name /\ Port \cap Foreign = {}

VARIABLES
  ui,      \* what name() is about to do; "idle" outside it, "aborted" after an ASSERT, "closed" after close()
  todo,    \* ports the loop of freeze_ports() or thaw_ports() has still to visit
  ports,   \* _active_ports
  handle,  \* handle[p]: _port of p is NULL, of the open client, or of a closed one
  saved,   \* saved[p]: _connections of p
  client,  \* _client, by its name
  active,  \* does JACK call process()?
  frozen,  \* who holds _frozen
  inside,  \* callbacks being run
  stopping, \* stop_process: the program is about to quit
  links,   \* connections, as JACK has them
  wired    \* history: ports that were connected, and not disconnected since

vars == <<ui, todo, ports, handle, saved, client, active, frozen, inside, stopping, links, wired>>

Callback == {"process", "port_connect"}
Free == "nobody"

(* full port names *)
End == [of : Name \cup {Elsewhere}, port : Port \cup Foreign]
Of(x) == IF x \in Foreign THEN Elsewhere ELSE client
EndOf(x) == [of |-> Of(x), port |-> x]
Live(p) == p \in ports /\ handle[p] = "live"
Ends == Foreign \cup {p \in Port : Live(p)}

-----------------------------------------------------------------------------
(* The program, in the thread that also calls name() *)

AddPort(p) ==
  /\ ui = "idle" /\ p \notin ports
  /\ ports' = ports \cup {p}
  /\ handle' = [handle EXCEPT ![p] = "none"]
  /\ UNCHANGED <<ui, todo, saved, client, active, frozen, inside, links, wired, stopping>>

(* JACK may refuse to register the port *)
Activate(p) ==
  /\ ui = "idle" /\ client # Closed
  /\ p \in ports /\ handle[p] = "none"
  /\ \E h \in {"none", "live"} : handle' = [handle EXCEPT ![p] = h]
  /\ UNCHANGED <<ui, todo, ports, saved, client, active, frozen, inside, links, wired, stopping>>

(* Port::shutdown(); without a client there is nothing left to unregister *)
Shutdown(p) ==
  /\ ui \in {"idle", "closed"} /\ p \in ports
  /\ handle' = [handle EXCEPT ![p] = "none"]
  /\ ports' = ports \ {p}
  /\ links' = {l \in links : EndOf(p) \notin l}
  /\ wired' = {w \in wired : p \notin w}
  /\ UNCHANGED <<ui, todo, saved, client, active, frozen, inside, stopping>>

(* Port::connect(): nothing to do for ports that are connected already *)
Connect(p, x) ==
  /\ ui = "idle" /\ client # Closed /\ active
  /\ Live(p) /\ x \in Ends \ {p}
  /\ links' = links \cup {{EndOf(p), EndOf(x)}}
  /\ wired' = wired \cup {{p, x}}
  /\ UNCHANGED <<ui, todo, ports, handle, saved, client, active, frozen, inside, stopping>>

Disconnect(p, x) ==
  /\ ui = "idle" /\ client # Closed /\ active
  /\ Live(p) /\ x \in Ends \ {p}
  /\ links' = links \ {{EndOf(p), EndOf(x)}}
  /\ wired' = wired \ {{p, x}}
  /\ UNCHANGED <<ui, todo, ports, handle, saved, client, active, frozen, inside, stopping>>

(* the program sets stop_process, in any of its threads, before it quits *)
StopProcess ==
  /\ ~stopping /\ stopping' = TRUE
  /\ UNCHANGED <<ui, todo, ports, handle, saved, client, active, frozen, inside, links, wired>>

(* Client::deactivate() *)
DeactivateClient ==
  /\ ui = "idle" /\ client # Closed /\ active /\ "process" \notin inside
  /\ active' = FALSE
  /\ links' = {} /\ wired' = {}
  /\ UNCHANGED <<ui, todo, ports, handle, saved, client, frozen, inside, stopping>>

(* jack_client_close(): the ports of the client, and so their connections, are    *)
(* gone; the objects keep their handles                                          *)
ClientClosed ==
  /\ client' = Closed
  /\ handle' = [p \in Port |-> IF Live(p) THEN "stale" ELSE handle[p]]
  /\ links' = {}

(* Client::close(), at the latest in the destructor *)
Close ==
  /\ ui = "idle" /\ "process" \notin inside
  /\ ui' = "closed" /\ active' = FALSE
  /\ ClientClosed
  /\ UNCHANGED <<todo, ports, saved, frozen, inside, wired, stopping>>

-----------------------------------------------------------------------------
(* Client::name(): freeze_ports(), jack_deactivate(), jack_client_close(),     *)
(* lock, init(), unlock, thaw_ports()                                         *)

Rename ==
  /\ ui = "idle" /\ client # Closed
  /\ ui' = "freeze" /\ todo' = ports
  /\ UNCHANGED <<ports, handle, saved, client, active, frozen, inside, links, wired, stopping>>

(* mutant: of the names only the first is noted *)
FreezeOne(p) ==
  /\ ui = "freeze" /\ p \in todo
  /\ todo' = todo \ {p}
  /\ \E s \in SUBSET {e \in End : {EndOf(p), e} \in links} :
       Cardinality(s) <= 1 /\ saved' = [saved EXCEPT ![p] = s]
  /\ UNCHANGED <<ui, ports, handle, client, active, frozen, inside, links, wired, stopping>>

(* mutant: the port objects are noted, not the names *)
FreezeObjects(p) ==
  /\ ui = "freeze" /\ p \in todo
  /\ todo' = todo \ {p}
  /\ saved' = [saved EXCEPT ![p] = {x \in Ends : {EndOf(p), EndOf(x)} \in links}]
  /\ UNCHANGED <<ui, ports, handle, client, active, frozen, inside, links, wired, stopping>>

(* Port::freeze(): connections() tells of none once the program is stopping, and *)
(* fails its ASSERT for a port without a handle                                 *)
Freeze(p) ==
  /\ ui = "freeze" /\ p \in todo
  /\ todo' = todo \ {p}
  /\ IF stopping
     THEN /\ saved' = [saved EXCEPT ![p] = {}]
          /\ wired' = {w \in wired : p \notin w}
          /\ UNCHANGED ui
     ELSE IF handle[p] = "none"
     THEN ui' = "aborted" /\ UNCHANGED <<saved, wired>>
     ELSE /\ saved' = [saved EXCEPT ![p] = {e \in End : e # EndOf(p) /\ {EndOf(p), e} \in links}]
          /\ UNCHANGED <<ui, wired>>
  /\ UNCHANGED <<ports, handle, client, active, frozen, inside, links, stopping>>

Deactivate ==
  /\ ui = "freeze" /\ todo = {}
  /\ "process" \notin inside
  /\ ui' = "close" /\ active' = FALSE
  /\ links' = {}
  /\ UNCHANGED <<todo, ports, handle, saved, client, frozen, inside, wired, stopping>>

CloseClient ==
  /\ ui = "close"
  /\ ui' = "lock"
  /\ ClientClosed
  /\ UNCHANGED <<todo, ports, saved, active, frozen, inside, wired, stopping>>

(* mutant: name() does not take _frozen *)
LockNothing ==
  /\ ui = "lock" /\ ui' = "init"
  /\ UNCHANGED <<todo, ports, handle, saved, client, active, frozen, inside, links, wired, stopping>>

Lock ==
  /\ ui = "lock" /\ frozen = Free
  /\ ui' = "init" /\ frozen' = "ui"
  /\ UNCHANGED <<todo, ports, handle, saved, client, active, inside, links, wired, stopping>>

(* init( s ) opens a client, under the name JACK grants, and activates it; it    *)
(* may fail, and there is no client then                                       *)
InitClient ==
  /\ ui = "init"
  /\ ui' = "unlock"
  /\ \/ /\ client' \in Name /\ active' = TRUE
        /\ UNCHANGED wired
     \/ /\ wired' = {} /\ UNCHANGED <<client, active>>
  /\ UNCHANGED <<todo, ports, handle, saved, frozen, inside, links, stopping>>

Unlock ==
  /\ ui = "unlock"
  /\ ui' = "thaw" /\ todo' = ports /\ frozen' = Free
  /\ UNCHANGED <<ports, handle, saved, client, active, inside, links, wired, stopping>>

(* Port::thaw(): register the port and connect it to every name noted, where    *)
(* such a port exists; without a port nothing is connected                     *)
Thaw(p) ==
  /\ ui = "thaw" /\ p \in todo
  /\ todo' = todo \ {p}
  /\ saved' = [saved EXCEPT ![p] = {}]
  /\ \/ /\ client # Closed
        /\ handle' = [handle EXCEPT ![p] = "live"]
        /\ links' = links \cup {{EndOf(p), e} : e \in {EndOf(x) : x \in Ends} \cap saved[p]}
        /\ UNCHANGED wired
     \/ /\ handle' = [handle EXCEPT ![p] = "none"]
        /\ wired' = {w \in wired : p \notin w}
        /\ UNCHANGED links
  /\ UNCHANGED <<ui, ports, client, active, frozen, inside, stopping>>

RenameEnd ==
  /\ ui = "thaw" /\ todo = {}
  /\ ui' = "idle"
  /\ UNCHANGED <<todo, ports, handle, saved, client, active, frozen, inside, links, wired, stopping>>

-----------------------------------------------------------------------------
(* JACK's threads *)

(* the static process() and port_connect() give up when _frozen is taken         *)
Enter(c) ==
  /\ client # Closed /\ c \notin inside
  /\ c = "process" => active /\ ~stopping
  /\ frozen = Free
  /\ inside' = inside \cup {c} /\ frozen' = c
  /\ UNCHANGED <<ui, todo, ports, handle, saved, client, active, links, wired, stopping>>

(* mutant: the callback keeps _frozen *)
LeaveLocked(c) ==
  /\ c \in inside
  /\ inside' = inside \ {c}
  /\ UNCHANGED <<ui, todo, ports, handle, saved, client, active, frozen, links, wired, stopping>>

Leave(c) ==
  /\ c \in inside
  /\ inside' = inside \ {c} /\ frozen' = Free
  /\ UNCHANGED <<ui, todo, ports, handle, saved, client, active, links, wired, stopping>>

(* A patchbay connects or disconnects a port of this client.  It does not while  *)
(* the connections are being noted: what it did then would be lost.              *)
Patch(p, x) ==
  /\ ui \in {"idle", "thaw"} /\ client # Closed /\ active
  /\ Live(p) /\ x \in Ends \ {p}
  /\ LET l == {EndOf(p), EndOf(x)}
     IN IF l \in links THEN links' = links \ {l} /\ wired' = wired \ {{p, x}}
        ELSE links' = links \cup {l} /\ wired' = wired \cup {{p, x}}
  /\ UNCHANGED <<ui, todo, ports, handle, saved, client, active, frozen, inside, stopping>>

-----------------------------------------------------------------------------
Init ==
  /\ ui = "idle" /\ todo = {} /\ ports = {}
  /\ handle = [p \in Port |-> "none"] /\ saved = [p \in Port |-> {}]
  /\ client \in Name /\ active = TRUE
  /\ frozen = Free /\ inside = {} /\ stopping = FALSE /\ links = {} /\ wired = {}

NameStep ==
  \/ \E p \in Port : Freeze(p) \/ Thaw(p)
  \/ Deactivate \/ CloseClient \/ Lock \/ InitClient \/ Unlock \/ RenameEnd

Next ==
  \/ \E p \in Port : AddPort(p) \/ Activate(p) \/ Shutdown(p)
  \/ \E p \in Port : \E x \in Port \cup Foreign : Connect(p, x) \/ Disconnect(p, x)
  \/ StopProcess \/ DeactivateClient \/ Close
  \/ Rename \/ NameStep
  \/ \E c \in Callback : Enter(c) \/ Leave(c)
  \/ \E p \in Port : \E x \in Port \cup Foreign : Patch(p, x)

Spec == Init /\ [][Next]_vars

(* Callbacks return; name() goes on, and is not kept waiting by a process        *)
(* callback called over and over (JACK stops calling it when asked to).           *)
FairSpec ==
  /\ Spec
  /\ WF_vars(NameStep) /\ SF_vars(Deactivate)
  /\ \A c \in Callback : WF_vars(Leave(c))
-----------------------------------------------------------------------------
(* Properties *)

TypeOK ==
  /\ ui \in {"idle", "freeze", "close", "lock", "init", "unlock", "thaw", "aborted", "closed"}
  /\ todo \subseteq Port /\ ports \subseteq Port
  /\ handle \in [Port -> {"none", "live", "stale"}] /\ saved \in [Port -> SUBSET End]
  /\ client \in Name \cup {Closed} /\ {active, stopping} \subseteq BOOLEAN
  /\ frozen \in Callback \cup {Free, "ui"} /\ inside \subseteq Callback
  /\ links \subseteq SUBSET End /\ wired \subseteq SUBSET (Port \cup Foreign)

Linked(w) == {EndOf(x) : x \in w} \in links

(* After a rename every connection with another client is there again and no     *)
(* other has appeared, whatever ports could not be registered (comment of         *)
(* Client::name(): "restore our connections").                                   *)
ConnectionsRestored ==
  ui = "idle" /\ client # Closed =>
    \A p \in Port : \A f \in Foreign : Linked({p, f}) <=> {p, f} \in wired

(* No callback runs while the new client is opened, nor two at a time, and       *)
(* process() meets ports of the closed client only while thaw_ports() runs.       *)
CallbacksKeptOut ==
  /\ Cardinality(inside) <= 1
  /\ ui \in {"init", "unlock"} => inside = {}
  /\ "process" \in inside /\ (\E p \in ports : handle[p] = "stale") => ui = "thaw"

(* A rename comes to an end, in the assertion or as name() returns.              *)
RenameEnds == ui = "freeze" ~> ui \in {"idle", "aborted"}
=============================================================================
