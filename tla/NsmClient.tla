------------------------------ MODULE NsmClient ------------------------------
(***************************************************************************)
(* A client of the Non Session Manager: NSM/Client.C, between the session     *)
(* manager and the program that derives from it.                              *)
(*                                                                         *)
(* The program either calls check() from its own thread (init) or lets a      *)
(* server thread run the handlers (init_thread, start).  A handler is taken   *)
(* in the steps another thread can see; with check() nothing comes between.   *)
(* Messages are datagrams on one host: none is lost or overtaken.             *)
(*                                                                         *)
(* External: the manager, which asks for open and save only of a client it    *)
(* has registered, and the program, which reports its state from              *)
(* command_active() and after each change.                                    *)
(***************************************************************************)
EXTENDS Integers, Sequences, FiniteSets

CONSTANTS
  MaxAnnounces, \* bound: calls of announce()
  MaxRequests,  \* bound: messages of the manager besides its answers to announce
  MaxChanges    \* bound: changes made by the user

ASSUME NsmClientAssumption == {MaxAnnounces, MaxRequests, MaxChanges} \subseteq Nat

Request == {"open", "save"}
Command == Request \cup {"show", "hide"}
Answer == [of : Request, ok : BOOLEAN]
Idle == "idle"
NoHandler == [kind |-> "none", ok |-> TRUE, at |-> 0]

VARIABLES
  threaded,  \* init_thread() rather than init()
  active,    \* nsm_is_active
  addr,      \* is nsm_addr set?
  handler,   \* the message being handled, how far, and what the command returned
  ui,        \* what the program's thread still has to report: "gui", "dirty" or Idle
  gui,       \* is the program's window shown?
  dirty,     \* has the program unsaved changes?
  toClient, toManager, \* messages under way
  manager,   \* what the manager knows: [registered, gui, dirty]
  asked,     \* its requests without an answer, oldest first
  due,       \* history: the answers the program gave to those of them it has handled
  astray,    \* history: was anything sent to no address?
  announces, requests, changes

program == <<gui, dirty, ui>>
bounds == <<announces, requests, changes>>
vars == <<threaded, active, addr, handler, program, toClient, toManager,
          manager, asked, due, astray, bounds>>

Msg(k) == [kind |-> k]

-----------------------------------------------------------------------------
(* Sending *)

(* lo_send_from( nsm_addr, ... ) of some messages, one after the other *)
SendToManager(ms) ==
  IF addr THEN toManager' = toManager \o ms /\ UNCHANGED astray
  ELSE astray' = (astray \/ ms # <<>>) /\ UNCHANGED toManager

GuiMsg(shown) == [kind |-> "gui", is |-> shown]
DirtyMsg(d) == [kind |-> "dirty", is |-> d]

(* is_dirty(), is_clean() *)
ReportDirty(d) ==
  IF active THEN SendToManager(<<DirtyMsg(d)>>) ELSE UNCHANGED <<toManager, astray>>

(* nsm_send_is_hidden(), nsm_send_is_shown(): to nsm_url, not to nsm_addr *)
SendGui(shown) ==
  /\ toManager' = IF active THEN Append(toManager, GuiMsg(shown)) ELSE toManager
  /\ UNCHANGED astray

(* command_active() of the program: report everything, nsm_is_active being set *)
ReportAll ==
  /\ toManager' = toManager \o <<GuiMsg(gui)>> \o (IF addr THEN <<DirtyMsg(dirty)>> ELSE <<>>)
  /\ astray' = (astray \/ ~addr)

-----------------------------------------------------------------------------
(* The program's thread *)

(* with check() the handlers run in this thread *)
UiFree == ui = Idle /\ (threaded \/ handler = NoHandler)

Announce ==
  /\ UiFree /\ announces < MaxAnnounces
  /\ announces' = announces + 1
  /\ toManager' = Append(toManager, Msg("announce"))
  /\ UNCHANGED <<threaded, active, addr, handler, program, toClient, manager, asked, due,
                 astray, requests, changes>>

(* the user shows or hides the window, or edits; the report follows *)
UserChange(what) ==
  /\ UiFree /\ changes < MaxChanges
  /\ changes' = changes + 1
  /\ gui' = IF what = "gui" THEN ~gui ELSE gui
  /\ dirty' = (dirty \/ what = "dirty")
  /\ ui' = what
  /\ UNCHANGED <<threaded, active, addr, handler, toClient, toManager, manager, asked, due,
                 astray, announces, requests>>

UserReport ==
  /\ ui # Idle
  /\ IF ui = "gui" THEN SendGui(gui) ELSE ReportDirty(dirty)
  /\ ui' = Idle
  /\ UNCHANGED <<threaded, active, addr, handler, gui, dirty, toClient, manager, asked, due, bounds>>

-----------------------------------------------------------------------------
(* The handlers *)

(* a message is taken from the socket *)
Receive ==
  /\ handler = NoHandler /\ (threaded \/ ui = Idle)
  /\ toClient # <<>>
  /\ handler' = [kind |-> Head(toClient).kind, ok |-> TRUE, at |-> 1]
  /\ toClient' = Tail(toClient)
  /\ UNCHANGED <<threaded, active, addr, program, toManager, manager, asked, due, astray, bounds>>

Handling(k, n) == handler.kind = k /\ handler.at = n
Step == handler' = [handler EXCEPT !.at = @ + 1]
Done == handler' = NoHandler

(* osc_announce_reply(): the flag, then the address, then the program *)
ReplySetsActive ==
  /\ Handling("registered", 1) /\ Step
  /\ active' = TRUE
  /\ UNCHANGED <<threaded, addr, program, toClient, toManager, manager, asked, due, astray, bounds>>

(* mutant: the address of the manager is not kept *)
ReplyForgetsAddress ==
  /\ Handling("registered", 2) /\ Step
  /\ UNCHANGED <<threaded, active, addr, program, toClient, toManager, manager, asked, due, astray, bounds>>

ReplySetsAddress ==
  /\ Handling("registered", 2) /\ Step
  /\ addr' = TRUE
  /\ UNCHANGED <<threaded, active, program, toClient, toManager, manager, asked, due, astray, bounds>>

(* mutant: command_active() is not called *)
ReplySilent ==
  /\ Handling("registered", 3) /\ Done
  /\ UNCHANGED <<threaded, active, addr, program, toClient, toManager, manager, asked, due, astray, bounds>>

ReplyTellsProgram ==
  /\ Handling("registered", 3) /\ Done
  /\ ReportAll
  /\ UNCHANGED <<threaded, active, addr, program, toClient, manager, asked, due, bounds>>

(* osc_error(): the address stays *)
HandleError ==
  /\ Handling("refused", 1) /\ Done
  /\ active' = FALSE
  /\ UNCHANGED <<threaded, addr, program, toClient, toManager, manager, asked, due, astray, bounds>>

(* command_open(), command_save() of the program; when they succeed there is    *)
(* nothing left to save, which the program reports                              *)
RunCommand(k, ok) ==
  /\ Handling(k, 1)
  /\ handler' = [handler EXCEPT !.at = 2, !.ok = ok]
  /\ dirty' = (dirty /\ ~ok)
  /\ due' = Append(due, [of |-> k, ok |-> ok])
  /\ IF ok THEN ReportDirty(FALSE) ELSE UNCHANGED <<toManager, astray>>
  /\ UNCHANGED <<threaded, active, addr, gui, ui, toClient, manager, asked, bounds>>

(* mutant: a failure is not answered *)
AnswerOnlySuccess(k) ==
  /\ Handling(k, 2) /\ Done
  /\ SendToManager(IF handler.ok THEN <<[kind |-> "answer", of |-> k, ok |-> TRUE]>> ELSE <<>>)
  /\ UNCHANGED <<threaded, active, addr, program, toClient, manager, asked, due, bounds>>

(* OSC_REPLY, OSC_REPLY_ERR: to nsm_addr, active or not *)
AnswerCommand(k) ==
  /\ Handling(k, 2) /\ Done
  /\ SendToManager(<<[kind |-> "answer", of |-> k, ok |-> handler.ok]>>)
  /\ UNCHANGED <<threaded, active, addr, program, toClient, manager, asked, due, bounds>>

(* osc_show_gui(), osc_hide_gui(): command_show_gui() ... *)
RunGui(k) ==
  /\ Handling(k, 1) /\ Step
  /\ gui' = (k = "show")
  /\ UNCHANGED <<threaded, active, addr, dirty, ui, toClient, toManager, manager, asked, due, astray, bounds>>

(* mutant: the handler does not come to its end *)
ReportGuiUnfinished(k) ==
  /\ Handling(k, 2) /\ Step
  /\ toManager' = Append(toManager, GuiMsg(k = "show"))
  /\ UNCHANGED <<threaded, active, addr, program, toClient, manager, asked, due, astray, bounds>>

(* ... then a report to the source of the message *)
ReportGui(k) ==
  /\ Handling(k, 2) /\ Done
  /\ toManager' = Append(toManager, GuiMsg(k = "show"))
  /\ UNCHANGED <<threaded, active, addr, program, toClient, manager, asked, due, astray, bounds>>

-----------------------------------------------------------------------------
(* The manager *)

(* a client that announces itself counts as shown and clean *)
Welcomed == [registered |-> TRUE, gui |-> TRUE, dirty |-> FALSE]

ManagerReceive ==
  /\ toManager # <<>>
  /\ LET m == Head(toManager) IN
     /\ toManager' = Tail(toManager)
     /\ \/ /\ m.kind = "announce"
           /\ \E ok \in BOOLEAN :
                /\ manager' = IF ok THEN Welcomed ELSE [manager EXCEPT !.registered = FALSE]
                /\ toClient' = Append(toClient, Msg(IF ok THEN "registered" ELSE "refused"))
           /\ UNCHANGED <<asked, due>>
        \/ /\ m.kind = "gui"
           /\ manager' = [manager EXCEPT !.gui = m.is]
           /\ UNCHANGED <<toClient, asked, due>>
        \/ /\ m.kind = "dirty"
           /\ manager' = [manager EXCEPT !.dirty = m.is]
           /\ UNCHANGED <<toClient, asked, due>>
        \/ /\ m.kind = "answer"
           /\ asked' = Tail(asked) /\ due' = Tail(due)
           /\ UNCHANGED <<toClient, manager>>
  /\ UNCHANGED <<threaded, active, addr, handler, program, astray, bounds>>

ManagerAsk(k) ==
  /\ manager.registered /\ requests < MaxRequests
  /\ requests' = requests + 1
  /\ toClient' = Append(toClient, Msg(k))
  /\ asked' = IF k \in Request THEN Append(asked, k) ELSE asked
  /\ UNCHANGED <<threaded, active, addr, handler, program, toManager, manager, due, astray,
                 announces, changes>>

-----------------------------------------------------------------------------
Init ==
  /\ threaded \in BOOLEAN
  /\ active = FALSE /\ addr = FALSE /\ handler = NoHandler
  /\ ui = Idle /\ gui \in BOOLEAN /\ dirty = FALSE
  /\ toClient = <<>> /\ toManager = <<>>
  /\ manager = [registered |-> FALSE, gui |-> TRUE, dirty |-> FALSE]
  /\ asked = <<>> /\ due = <<>> /\ astray = FALSE
  /\ announces = 0 /\ requests = 0 /\ changes = 0

HandlerStep ==
  \/ ReplySetsActive \/ ReplySetsAddress \/ ReplyTellsProgram \/ HandleError
  \/ \E k \in Request : (\E ok \in BOOLEAN : RunCommand(k, ok)) \/ AnswerCommand(k)
  \/ \E k \in {"show", "hide"} : RunGui(k) \/ ReportGui(k)

Next ==
  \/ Announce \/ (\E w \in {"gui", "dirty"} : UserChange(w)) \/ UserReport
  \/ Receive \/ HandlerStep
  \/ ManagerReceive \/ \E k \in Command : ManagerAsk(k)

Spec == Init /\ [][Next]_vars
-----------------------------------------------------------------------------
(* Properties *)

TypeOK ==
  /\ {threaded, active, addr, gui, dirty, astray} \subseteq BOOLEAN
  /\ ui \in {Idle, "gui", "dirty"}
  /\ \/ handler = NoHandler
     \/ handler.kind = "registered" /\ handler.at \in 1..3
     \/ handler.kind = "refused" /\ handler.at = 1
     \/ handler.kind \in Command /\ handler.ok \in BOOLEAN /\ handler.at \in 1..2
  /\ manager \in [registered : BOOLEAN, gui : BOOLEAN, dirty : BOOLEAN]
  /\ asked \in Seq(Request) /\ due \in Seq(Answer)

(* How many of the first n messages of a queue are of the kinds K? *)
Count(queue, K, n) == Cardinality({j \in 1..n : queue[j].kind \in K})

AtRest == toClient = <<>> /\ toManager = <<>> /\ handler = NoHandler /\ ui = Idle

(* Each open and save of the manager is answered once, in its order, with what   *)
(* the program returned, and none is left without an answer, also when the       *)
(* client was refused in between or another registration is under way (OSC_REPLY *)
(* sends to nsm_addr whatever nsm_is_active says).                               *)
AnswersMatchRequests ==
  LET running == \E k \in Request : Handling(k, 2)
  IN /\ Len(due) <= Len(asked) /\ \A k \in DOMAIN due : due[k].of = asked[k]
     /\ Count(toManager, {"answer"}, Len(toManager)) = Len(due) - (IF running THEN 1 ELSE 0)
     /\ \A k \in DOMAIN toManager :
          LET m == toManager[k]
          IN m.kind = "answer" => due[Count(toManager, {"answer"}, k)] = [of |-> m.of, ok |-> m.ok]
     /\ AtRest => asked = <<>>

(* When nothing is under way, the manager knows whether the window is shown and  *)
(* whether there is anything to save: reports of the program, answers to show    *)
(* and hide and the registration cross each other without one being dropped or   *)
(* overtaken.  With a server thread this does not hold: a change by the user     *)
(* between command_show_gui() and its report is reported first.                  *)
ManagerKnowsTheProgram ==
  ~threaded /\ AtRest /\ active => manager.gui = gui /\ manager.dirty = dirty

(* Nothing is sent before nsm_addr is set.  With a server thread                  *)
(* nsm_is_active is seen before the address is.                                   *)
NothingGoesAstray == ~threaded => ~astray
=============================================================================
