----------------------------- MODULE JackProof -----------------------------
(***************************************************************************)
(* What a JACK client keeps to through its renames, for any ports, any       *)
(* foreign ports and any names.                                              *)
(***************************************************************************)
EXTENDS JackClient, TLAPS, FiniteSetTheorems

-----------------------------------------------------------------------------
(* The inductive invariant *)

(* _frozen is held by the callback that runs or by name(), around init() *)
LockOK ==
  /\ frozen = "ui" <=> ui \in {"init", "unlock"}
  /\ frozen \in Callback => inside = {frozen}
  /\ frozen \notin Callback => inside = {}
  /\ "process" \in inside => active

ClientOK ==
  /\ active => client # Closed
  /\ ui \in {"freeze", "close"} => client # Closed
  /\ ui \in {"lock", "init", "closed"} => client = Closed
  /\ ui \in {"close", "lock", "init"} => ~active
  /\ todo \subseteq ports
  /\ ui \notin {"freeze", "thaw", "aborted"} => todo = {}

(* handles of the closed client are left only until thaw_ports() comes to them *)
HandlesOK ==
  \A p \in Port :
    /\ p \notin ports => handle[p] = "none"
    /\ handle[p] = "stale" =>
         ui \in {"lock", "init", "unlock", "closed"} \/ (ui = "thaw" /\ p \in todo)
    /\ ui \in {"lock", "init", "unlock"} \/ (ui = "thaw" /\ p \in todo) => handle[p] # "live"

(* the connection of p with f, in JACK, in the history and among the names noted *)
Link(p, f) == {EndOf(p), EndOf(f)} \in links
Wire(p, f) == {p, f} \in wired
Note(p, f) == EndOf(f) \in saved[p]

LinksOK ==
  /\ client = Closed \/ ui \in {"close", "unlock"} => links = {}
  /\ \A p \in Port : \A f \in Foreign :
       (Link(p, f) => Live(p)) /\ (Wire(p, f) => p \in ports)

(* a connection is in JACK until freeze_ports() comes to its port, then only        *)
(* noted, and in JACK again once thaw_ports() has come to it                       *)
InJack(p) ==
  \/ ui = "idle" /\ client # Closed
  \/ ui = "freeze" /\ p \in todo
  \/ ui = "thaw" /\ client # Closed /\ p \notin todo

InNotes(p) ==
  \/ ui = "freeze" /\ p \in ports \ todo
  \/ ui \in {"close", "lock", "init"} /\ p \in ports
  \/ ui = "unlock" /\ client # Closed /\ p \in ports
  \/ ui = "thaw" /\ client # Closed /\ p \in todo

KeptOK ==
  \A p \in Port : \A f \in Foreign :
    /\ InJack(p) => (Link(p, f) <=> Wire(p, f))
    /\ InNotes(p) => (Note(p, f) <=> Wire(p, f))

IInv == TypeOK /\ LockOK /\ ClientOK /\ HandlesOK /\ LinksOK /\ KeptOK

-----------------------------------------------------------------------------
(* Names of ports *)

LEMMA EndsDiffer ==
  ASSUME NEW x, NEW y, EndOf(x) = EndOf(y)
  PROVE  x = y
BY DEF EndOf

LEMMA EndTypes ==
  ASSUME NEW x \in Port \cup Foreign, client \in Name
  PROVE  EndOf(x) \in End
BY DEF EndOf, Of, End

(* while the client keeps its name, so do the ports *)
LEMMA NamesKept ==
  ASSUME client' = client
  PROVE  \A x : EndOf(x)' = EndOf(x)
BY DEF EndOf, Of

-----------------------------------------------------------------------------
(* Every step keeps every part of the invariant *)

LEMMA TypesKept ==
  ASSUME IInv, Next
  PROVE  TypeOK'
<1> USE DEF IInv
<1>1. ASSUME NEW p \in Port, AddPort(p) PROVE TypeOK'
  BY <1>1 DEF AddPort, TypeOK
<1>2. ASSUME NEW p \in Port, Activate(p) PROVE TypeOK'
  BY <1>2 DEF Activate, TypeOK
<1>3. ASSUME NEW p \in Port, Shutdown(p) PROVE TypeOK'
  BY <1>3 DEF Shutdown, TypeOK
<1>4. ASSUME NEW p \in Port, NEW x \in Port \cup Foreign, Connect(p, x) PROVE TypeOK'
  BY <1>4, EndTypes DEF Connect, TypeOK
<1>5. ASSUME NEW p \in Port, NEW x \in Port \cup Foreign, Disconnect(p, x) PROVE TypeOK'
  BY <1>5 DEF Disconnect, TypeOK
<1>6. ASSUME StopProcess PROVE TypeOK'
  BY <1>6 DEF StopProcess, TypeOK
<1>7. ASSUME DeactivateClient PROVE TypeOK'
  BY <1>7 DEF DeactivateClient, TypeOK
<1>8. ASSUME Close PROVE TypeOK'
  BY <1>8 DEF Close, ClientClosed, TypeOK
<1>9. ASSUME Rename PROVE TypeOK'
  BY <1>9 DEF Rename, TypeOK
<1>10. ASSUME NEW p \in Port, Freeze(p) PROVE TypeOK'
  <2>1. saved' \in [Port -> SUBSET End]
    <3>1. \E s \in SUBSET End : saved' \in {saved, [saved EXCEPT ![p] = s]}
      <4>1. {e \in End : e # EndOf(p) /\ {EndOf(p), e} \in links} \in SUBSET End /\ {} \in SUBSET End
        OBVIOUS
      <4> QED BY <1>10, <4>1 DEF Freeze
    <3> QED BY <3>1 DEF TypeOK
  <2>2. wired' \subseteq SUBSET (Port \cup Foreign)
    BY <1>10 DEF Freeze, TypeOK
  <2>3. todo' \subseteq Port /\ ui' \in {ui, "aborted"}
    BY <1>10 DEF Freeze, TypeOK
  <2> QED BY <1>10, <2>1, <2>2, <2>3 DEF Freeze, TypeOK
<1>11. ASSUME NEW p \in Port, Thaw(p) PROVE TypeOK'
  BY <1>11, EndTypes DEF Thaw, TypeOK
<1>12. ASSUME Deactivate PROVE TypeOK'
  BY <1>12 DEF Deactivate, TypeOK
<1>13. ASSUME CloseClient PROVE TypeOK'
  BY <1>13 DEF CloseClient, ClientClosed, TypeOK
<1>14. ASSUME Lock PROVE TypeOK'
  BY <1>14 DEF Lock, TypeOK
<1>15. ASSUME InitClient PROVE TypeOK'
  BY <1>15 DEF InitClient, TypeOK
<1>16. ASSUME Unlock PROVE TypeOK'
  BY <1>16 DEF Unlock, TypeOK
<1>17. ASSUME RenameEnd PROVE TypeOK'
  BY <1>17 DEF RenameEnd, TypeOK
<1>18. ASSUME NEW c \in Callback, Enter(c) PROVE TypeOK'
  BY <1>18 DEF Enter, TypeOK
<1>19. ASSUME NEW c \in Callback, Leave(c) PROVE TypeOK'
  BY <1>19 DEF Leave, TypeOK
<1>20. ASSUME NEW p \in Port, NEW x \in Port \cup Foreign, Patch(p, x) PROVE TypeOK'
  BY <1>20, EndTypes DEF Patch, TypeOK
<1> QED
  BY <1>1, <1>2, <1>3, <1>4, <1>5, <1>6, <1>7, <1>8, <1>9, <1>10, <1>11, <1>12, <1>13,
     <1>14, <1>15, <1>16, <1>17, <1>18, <1>19, <1>20 DEF Next, NameStep

LEMMA LockKept ==
  ASSUME IInv, Next
  PROVE  LockOK'
<1> USE DEF IInv
<1>1. ASSUME NEW p \in Port, AddPort(p) PROVE LockOK'
  BY <1>1 DEF AddPort, LockOK
<1>2. ASSUME NEW p \in Port, Activate(p) PROVE LockOK'
  BY <1>2 DEF Activate, LockOK
<1>3. ASSUME NEW p \in Port, Shutdown(p) PROVE LockOK'
  BY <1>3 DEF Shutdown, LockOK
<1>4. ASSUME NEW p \in Port, NEW x \in Port \cup Foreign, Connect(p, x) PROVE LockOK'
  BY <1>4 DEF Connect, LockOK
<1>5. ASSUME NEW p \in Port, NEW x \in Port \cup Foreign, Disconnect(p, x) PROVE LockOK'
  BY <1>5 DEF Disconnect, LockOK
<1>6. ASSUME StopProcess PROVE LockOK'
  BY <1>6 DEF StopProcess, LockOK
<1>7. ASSUME DeactivateClient PROVE LockOK'
  BY <1>7 DEF DeactivateClient, LockOK
<1>8. ASSUME Close PROVE LockOK'
  BY <1>8 DEF Close, LockOK
<1>9. ASSUME Rename PROVE LockOK'
  BY <1>9 DEF Rename, LockOK
<1>10. ASSUME NEW p \in Port, Freeze(p) PROVE LockOK'
  BY <1>10 DEF Freeze, LockOK
<1>11. ASSUME NEW p \in Port, Thaw(p) PROVE LockOK'
  BY <1>11 DEF Thaw, LockOK
<1>12. ASSUME Deactivate PROVE LockOK'
  BY <1>12 DEF Deactivate, LockOK
<1>13. ASSUME CloseClient PROVE LockOK'
  BY <1>13 DEF CloseClient, LockOK
<1>14. ASSUME Lock PROVE LockOK'
  BY <1>14 DEF Lock, LockOK, Free, Callback
<1>15. ASSUME InitClient PROVE LockOK'
  BY <1>15 DEF InitClient, LockOK
<1>16. ASSUME Unlock PROVE LockOK'
  BY <1>16 DEF Unlock, LockOK, Free, Callback
<1>17. ASSUME RenameEnd PROVE LockOK'
  BY <1>17 DEF RenameEnd, LockOK
<1>18. ASSUME NEW c \in Callback, Enter(c) PROVE LockOK'
  BY <1>18 DEF Enter, LockOK, Free, Callback
<1>19. ASSUME NEW c \in Callback, Leave(c) PROVE LockOK'
  BY <1>19 DEF Leave, LockOK, Free, Callback
<1>20. ASSUME NEW p \in Port, NEW x \in Port \cup Foreign, Patch(p, x) PROVE LockOK'
  BY <1>20 DEF Patch, LockOK
<1> QED
  BY <1>1, <1>2, <1>3, <1>4, <1>5, <1>6, <1>7, <1>8, <1>9, <1>10, <1>11, <1>12, <1>13,
     <1>14, <1>15, <1>16, <1>17, <1>18, <1>19, <1>20 DEF Next, NameStep

LEMMA ClientKept ==
  ASSUME IInv, Next
  PROVE  ClientOK'
<1> USE DEF IInv
<1>1. ASSUME NEW p \in Port, AddPort(p) PROVE ClientOK'
  BY <1>1 DEF AddPort, ClientOK
<1>2. ASSUME NEW p \in Port, Activate(p) PROVE ClientOK'
  BY <1>2 DEF Activate, ClientOK
<1>3. ASSUME NEW p \in Port, Shutdown(p) PROVE ClientOK'
  BY <1>3 DEF Shutdown, ClientOK
<1>4. ASSUME NEW p \in Port, NEW x \in Port \cup Foreign, Connect(p, x) PROVE ClientOK'
  BY <1>4 DEF Connect, ClientOK
<1>5. ASSUME NEW p \in Port, NEW x \in Port \cup Foreign, Disconnect(p, x) PROVE ClientOK'
  BY <1>5 DEF Disconnect, ClientOK
<1>6. ASSUME StopProcess PROVE ClientOK'
  BY <1>6 DEF StopProcess, ClientOK
<1>7. ASSUME DeactivateClient PROVE ClientOK'
  BY <1>7 DEF DeactivateClient, ClientOK
<1>8. ASSUME Close PROVE ClientOK'
  BY <1>8 DEF Close, ClientClosed, ClientOK
<1>9. ASSUME Rename PROVE ClientOK'
  BY <1>9 DEF Rename, ClientOK
<1>10. ASSUME NEW p \in Port, Freeze(p) PROVE ClientOK'
  BY <1>10 DEF Freeze, ClientOK
<1>11. ASSUME NEW p \in Port, Thaw(p) PROVE ClientOK'
  BY <1>11 DEF Thaw, ClientOK
<1>12. ASSUME Deactivate PROVE ClientOK'
  BY <1>12 DEF Deactivate, ClientOK
<1>13. ASSUME CloseClient PROVE ClientOK'
  BY <1>13 DEF CloseClient, ClientClosed, ClientOK
<1>14. ASSUME Lock PROVE ClientOK'
  BY <1>14 DEF Lock, ClientOK
<1>15. ASSUME InitClient PROVE ClientOK'
  BY <1>15, JackClientAssumption DEF InitClient, ClientOK
<1>16. ASSUME Unlock PROVE ClientOK'
  BY <1>16 DEF Unlock, ClientOK
<1>17. ASSUME RenameEnd PROVE ClientOK'
  BY <1>17 DEF RenameEnd, ClientOK
<1>18. ASSUME NEW c \in Callback, Enter(c) PROVE ClientOK'
  BY <1>18 DEF Enter, ClientOK
<1>19. ASSUME NEW c \in Callback, Leave(c) PROVE ClientOK'
  BY <1>19 DEF Leave, ClientOK
<1>20. ASSUME NEW p \in Port, NEW x \in Port \cup Foreign, Patch(p, x) PROVE ClientOK'
  BY <1>20 DEF Patch, ClientOK
<1> QED
  BY <1>1, <1>2, <1>3, <1>4, <1>5, <1>6, <1>7, <1>8, <1>9, <1>10, <1>11, <1>12, <1>13,
     <1>14, <1>15, <1>16, <1>17, <1>18, <1>19, <1>20 DEF Next, NameStep

LEMMA HandlesKept ==
  ASSUME IInv, Next
  PROVE  HandlesOK'
<1> USE DEF IInv
<1>1. ASSUME NEW p \in Port, AddPort(p) PROVE HandlesOK'
  BY <1>1 DEF AddPort, HandlesOK
<1>2. ASSUME NEW p \in Port, Activate(p) PROVE HandlesOK'
  BY <1>2 DEF Activate, HandlesOK
<1>3. ASSUME NEW p \in Port, Shutdown(p) PROVE HandlesOK'
  BY <1>3 DEF Shutdown, TypeOK, HandlesOK
<1>4. ASSUME NEW p \in Port, NEW x \in Port \cup Foreign, Connect(p, x) PROVE HandlesOK'
  BY <1>4 DEF Connect, HandlesOK
<1>5. ASSUME NEW p \in Port, NEW x \in Port \cup Foreign, Disconnect(p, x) PROVE HandlesOK'
  BY <1>5 DEF Disconnect, HandlesOK
<1>6. ASSUME StopProcess PROVE HandlesOK'
  BY <1>6 DEF StopProcess, HandlesOK
<1>7. ASSUME DeactivateClient PROVE HandlesOK'
  BY <1>7 DEF DeactivateClient, HandlesOK
<1>8. ASSUME Close PROVE HandlesOK'
  BY <1>8 DEF Close, ClientClosed, Live, HandlesOK
<1>9. ASSUME Rename PROVE HandlesOK'
  BY <1>9 DEF Rename, HandlesOK
<1>10. ASSUME NEW p \in Port, Freeze(p) PROVE HandlesOK'
  BY <1>10 DEF Freeze, HandlesOK
<1>11. ASSUME NEW p \in Port, Thaw(p) PROVE HandlesOK'
  BY <1>11 DEF Thaw, TypeOK, ClientOK, HandlesOK
<1>12. ASSUME Deactivate PROVE HandlesOK'
  BY <1>12 DEF Deactivate, HandlesOK
<1>13. ASSUME CloseClient PROVE HandlesOK'
  BY <1>13 DEF CloseClient, ClientClosed, Live, HandlesOK
<1>14. ASSUME Lock PROVE HandlesOK'
  BY <1>14 DEF Lock, HandlesOK
<1>15. ASSUME InitClient PROVE HandlesOK'
  BY <1>15 DEF InitClient, HandlesOK
<1>16. ASSUME Unlock PROVE HandlesOK'
  BY <1>16 DEF Unlock, HandlesOK
<1>17. ASSUME RenameEnd PROVE HandlesOK'
  BY <1>17 DEF RenameEnd, HandlesOK
<1>18. ASSUME NEW c \in Callback, Enter(c) PROVE HandlesOK'
  BY <1>18 DEF Enter, HandlesOK
<1>19. ASSUME NEW c \in Callback, Leave(c) PROVE HandlesOK'
  BY <1>19 DEF Leave, HandlesOK
<1>20. ASSUME NEW p \in Port, NEW x \in Port \cup Foreign, Patch(p, x) PROVE HandlesOK'
  BY <1>20 DEF Patch, HandlesOK
<1> QED
  BY <1>1, <1>2, <1>3, <1>4, <1>5, <1>6, <1>7, <1>8, <1>9, <1>10, <1>11, <1>12, <1>13,
     <1>14, <1>15, <1>16, <1>17, <1>18, <1>19, <1>20 DEF Next, NameStep

-----------------------------------------------------------------------------
(* What connecting and disconnecting do to connections *)

LEMMA LinksSame ==
  ASSUME client' = client, links' = links
  PROVE  \A q, f : Link(q, f)' <=> Link(q, f)
BY DEF Link, EndOf, Of

LEMMA Joined ==
  ASSUME NEW p, NEW x, client' = client,
         links' = links \cup {{EndOf(p), EndOf(x)}}, wired' = wired \cup {{p, x}}
  PROVE  \A q, f : /\ Link(q, f)' <=> Link(q, f) \/ {q, f} = {p, x}
                   /\ Wire(q, f)' <=> Wire(q, f) \/ {q, f} = {p, x}
<1> TAKE q, f
<1>1. EndOf(q)' = EndOf(q) /\ EndOf(f)' = EndOf(f)
  BY NamesKept
<1>2. Link(q, f)' <=> Link(q, f) \/ {EndOf(q), EndOf(f)} = {EndOf(p), EndOf(x)}
  BY <1>1 DEF Link
<1>3. {EndOf(q), EndOf(f)} = {EndOf(p), EndOf(x)} <=> {q, f} = {p, x}
  <2>1. ASSUME {EndOf(q), EndOf(f)} = {EndOf(p), EndOf(x)} PROVE {q, f} = {p, x}
    <3>1. \/ EndOf(q) = EndOf(p) /\ EndOf(f) = EndOf(x)
          \/ EndOf(q) = EndOf(x) /\ EndOf(f) = EndOf(p)
      BY <2>1
    <3> QED BY <3>1, EndsDiffer
  <2>2. ASSUME {q, f} = {p, x} PROVE {EndOf(q), EndOf(f)} = {EndOf(p), EndOf(x)}
    BY <2>2
  <2> QED BY <2>1, <2>2
<1>4. Wire(q, f)' <=> Wire(q, f) \/ {q, f} = {p, x}
  BY DEF Wire
<1> QED BY <1>2, <1>3, <1>4

LEMMA Parted ==
  ASSUME NEW p, NEW x, client' = client,
         links' = links \ {{EndOf(p), EndOf(x)}}, wired' = wired \ {{p, x}}
  PROVE  \A q, f : /\ Link(q, f)' <=> Link(q, f) /\ {q, f} # {p, x}
                   /\ Wire(q, f)' <=> Wire(q, f) /\ {q, f} # {p, x}
<1> TAKE q, f
<1>1. EndOf(q)' = EndOf(q) /\ EndOf(f)' = EndOf(f)
  BY NamesKept
<1>2. Link(q, f)' <=> Link(q, f) /\ {EndOf(q), EndOf(f)} # {EndOf(p), EndOf(x)}
  BY <1>1 DEF Link
<1>3. {EndOf(q), EndOf(f)} = {EndOf(p), EndOf(x)} <=> {q, f} = {p, x}
  <2>1. ASSUME {EndOf(q), EndOf(f)} = {EndOf(p), EndOf(x)} PROVE {q, f} = {p, x}
    <3>1. \/ EndOf(q) = EndOf(p) /\ EndOf(f) = EndOf(x)
          \/ EndOf(q) = EndOf(x) /\ EndOf(f) = EndOf(p)
      BY <2>1
    <3> QED BY <3>1, EndsDiffer
  <2>2. ASSUME {q, f} = {p, x} PROVE {EndOf(q), EndOf(f)} = {EndOf(p), EndOf(x)}
    BY <2>2
  <2> QED BY <2>1, <2>2
<1>4. Wire(q, f)' <=> Wire(q, f) /\ {q, f} # {p, x}
  BY DEF Wire
<1> QED BY <1>2, <1>3, <1>4

(* a step of the shape that the three of them share *)
LEMMA PatchingSteps ==
  ASSUME IInv, NEW p \in Port, NEW x \in Port \cup Foreign,
         Connect(p, x) \/ Disconnect(p, x) \/ Patch(p, x)
  PROVE  /\ LinksOK'
         /\ KeptOK'
<1> USE DEF IInv
<1>1. /\ client # Closed /\ ui \in {"idle", "thaw"} /\ Live(p) /\ x \in Ends
      /\ UNCHANGED <<ui, todo, ports, handle, saved, client>>
  BY DEF Connect, Disconnect, Patch
<1>2. \/ \A q, f : /\ Link(q, f)' <=> Link(q, f) \/ {q, f} = {p, x}
                   /\ Wire(q, f)' <=> Wire(q, f) \/ {q, f} = {p, x}
      \/ \A q, f : /\ Link(q, f)' <=> Link(q, f) /\ {q, f} # {p, x}
                   /\ Wire(q, f)' <=> Wire(q, f) /\ {q, f} # {p, x}
  <2>1. client' = client
    BY <1>1
  <2>2. \/ links' = links \cup {{EndOf(p), EndOf(x)}} /\ wired' = wired \cup {{p, x}}
        \/ links' = links \ {{EndOf(p), EndOf(x)}} /\ wired' = wired \ {{p, x}}
    BY DEF Connect, Disconnect, Patch
  <2>3. CASE links' = links \cup {{EndOf(p), EndOf(x)}} /\ wired' = wired \cup {{p, x}}
    BY <2>1, <2>3, Joined, Zenon
  <2>4. CASE links' = links \ {{EndOf(p), EndOf(x)}} /\ wired' = wired \ {{p, x}}
    BY <2>1, <2>4, Parted, Zenon
  <2> QED BY <2>2, <2>3, <2>4
<1>3. \A q \in Port : \A f \in Foreign : {q, f} = {p, x} => Live(q)
  BY <1>1, JackClientAssumption DEF Ends
<1>4. \A q : Live(q)' <=> Live(q)
  BY <1>1 DEF Live
<1>5. \A q \in Port : Live(q) => q \in ports /\ ~(ui = "thaw" /\ q \in todo)
  BY DEF HandlesOK, Live
<1>6. \A q \in Port : \A f \in Foreign : (Link(q, f)' => Live(q)') /\ (Wire(q, f)' => q \in ports')
  BY <1>1, <1>2, <1>3, <1>4, <1>5 DEF LinksOK
<1>7. LinksOK'
  BY <1>1, <1>6 DEF LinksOK
<1>8. ASSUME NEW q \in Port, NEW f \in Foreign PROVE InJack(q)' => (Link(q, f)' <=> Wire(q, f)')
  <2>1. InJack(q)' <=> InJack(q)
    BY <1>1 DEF InJack
  <2>2. InJack(q) => (Link(q, f) <=> Wire(q, f))
    BY DEF KeptOK
  <2> QED BY <1>2, <2>1, <2>2
<1>9. ASSUME NEW q \in Port, NEW f \in Foreign PROVE InNotes(q)' => (Note(q, f)' <=> Wire(q, f)')
  <2>1. (InNotes(q)' <=> InNotes(q)) /\ (InNotes(q) => ui = "thaw" /\ q \in todo)
    BY <1>1 DEF InNotes
  <2>2. InNotes(q) => (Note(q, f) <=> Wire(q, f))
    BY DEF KeptOK
  <2>3. Note(q, f)' <=> Note(q, f)
    BY <1>1, NamesKept DEF Note
  <2>4. InNotes(q) => {q, f} # {p, x}
    BY <1>3, <1>5, <2>1
  <2> QED BY <1>2, <2>1, <2>2, <2>3, <2>4
<1>10. KeptOK'
  BY <1>8, <1>9 DEF KeptOK
<1> QED BY <1>7, <1>10

(* the port that thaw_ports() comes to gets the connections noted, and no other *)
LEMMA ThawLinks ==
  ASSUME NEW p \in Port, client' = client,
         links' = links \cup {{EndOf(p), e} : e \in {EndOf(x) : x \in Ends} \cap saved[p]}
  PROVE  \A q \in Port : \A f \in Foreign :
           Link(q, f)' <=> Link(q, f) \/ (q = p /\ Note(p, f))
<1> TAKE q \in Port
<1> TAKE f \in Foreign
<1>1. EndOf(q)' = EndOf(q) /\ EndOf(f)' = EndOf(f)
  BY NamesKept
<1>2. p # f /\ q # f /\ f \in Ends
  BY JackClientAssumption DEF Ends
<1>3. ASSUME Link(q, f)', ~Link(q, f) PROVE q = p /\ Note(p, f)
  <2>1. {EndOf(q), EndOf(f)} \in {{EndOf(p), e} : e \in {EndOf(x) : x \in Ends} \cap saved[p]}
    BY <1>1, <1>3 DEF Link
  <2>2. PICK x \in Ends : EndOf(x) \in saved[p] /\ {EndOf(q), EndOf(f)} = {EndOf(p), EndOf(x)}
    BY <2>1
  <2>3. {q, f} = {p, x}
    <3>1. \/ EndOf(q) = EndOf(p) /\ EndOf(f) = EndOf(x)
          \/ EndOf(q) = EndOf(x) /\ EndOf(f) = EndOf(p)
      BY <2>2
    <3> QED BY <3>1, EndsDiffer
  <2>4. q = p /\ x = f
    BY <2>3, <1>2
  <2> QED BY <2>2, <2>4 DEF Note
<1>4. ASSUME q = p, Note(p, f) PROVE Link(q, f)'
  <2>1. EndOf(f) \in {EndOf(x) : x \in Ends} \cap saved[p]
    BY <1>2, <1>4 DEF Note
  <2>2. {EndOf(q), EndOf(f)} \in links'
    BY <2>1, <1>4
  <2> QED BY <2>2, <1>1 DEF Link
<1>5. Link(q, f) => Link(q, f)'
  BY <1>1 DEF Link
<1> QED BY <1>3, <1>4, <1>5

LEMMA LinksKept ==
  ASSUME IInv, Next
  PROVE  LinksOK'
<1> USE DEF IInv
<1>1. ASSUME NEW p \in Port, AddPort(p) PROVE LinksOK'
  BY <1>1 DEF AddPort, LinksOK, Link, Wire, Live, EndOf, Of
<1>2. ASSUME NEW p \in Port, Activate(p) PROVE LinksOK'
  BY <1>2 DEF Activate, LinksOK, Link, Wire, Live, EndOf, Of
<1>3. ASSUME NEW p \in Port, Shutdown(p) PROVE LinksOK'
  BY <1>3 DEF Shutdown, LinksOK, Link, Wire, Live, EndOf, Of
<1>4. ASSUME NEW p \in Port, NEW x \in Port \cup Foreign, Connect(p, x) PROVE LinksOK'
  BY <1>4, PatchingSteps
<1>5. ASSUME NEW p \in Port, NEW x \in Port \cup Foreign, Disconnect(p, x) PROVE LinksOK'
  BY <1>5, PatchingSteps
<1>6. ASSUME StopProcess PROVE LinksOK'
  BY <1>6 DEF StopProcess, LinksOK, Link, Wire, Live, EndOf, Of
<1>7. ASSUME DeactivateClient PROVE LinksOK'
  BY <1>7 DEF DeactivateClient, LinksOK, Link, Wire
<1>8. ASSUME Close PROVE LinksOK'
  BY <1>8 DEF Close, ClientClosed, LinksOK, Link, Wire
<1>9. ASSUME Rename PROVE LinksOK'
  BY <1>9 DEF Rename, LinksOK, Link, Wire, Live, EndOf, Of
<1>10. ASSUME NEW p \in Port, Freeze(p) PROVE LinksOK'
  BY <1>10 DEF Freeze, LinksOK, Link, Wire, Live, EndOf, Of
<1>11. ASSUME NEW p \in Port, Thaw(p) PROVE LinksOK'
  <2>1. /\ ui = "thaw" /\ p \in ports /\ p \in todo /\ ui' = ui /\ ports' = ports /\ client' = client
        /\ todo' = todo \ {p}
    BY <1>11 DEF Thaw, ClientOK
  <2>2. CASE client = Closed
    <3>1. links' = links /\ links = {}
      BY <1>11, <2>2 DEF Thaw, LinksOK
    <3>2. \A q, f : ~Link(q, f)'
      BY <3>1 DEF Link
    <3>3. \A q, f : Wire(q, f)' => Wire(q, f)
      BY <1>11, <2>2 DEF Thaw, Wire
    <3> QED BY <2>1, <3>1, <3>2, <3>3 DEF LinksOK
  <2>3. CASE client # Closed /\ handle' = [handle EXCEPT ![p] = "live"] /\ UNCHANGED wired
             /\ links' = links \cup {{EndOf(p), e} : e \in {EndOf(x) : x \in Ends} \cap saved[p]}
    <3>1. \A q \in Port : \A f \in Foreign : Link(q, f)' <=> Link(q, f) \/ (q = p /\ Note(p, f))
      BY <2>1, <2>3, ThawLinks
    <3>2. \A q \in Port : Live(q)' <=> Live(q) \/ q = p
      BY <2>1, <2>3 DEF Live, TypeOK
    <3>3. \A q, f : Wire(q, f)' <=> Wire(q, f)
      BY <2>3 DEF Wire
    <3> QED BY <2>1, <2>3, <3>1, <3>2, <3>3 DEF LinksOK
  <2>4. CASE client # Closed /\ handle' = [handle EXCEPT ![p] = "none"] /\ UNCHANGED links
             /\ wired' = {w \in wired : p \notin w}
    <3>1. \A q \in Port : Live(q)' <=> Live(q) /\ q # p
      BY <2>1, <2>4 DEF Live, TypeOK
    <3>2. \A q, f : Link(q, f)' <=> Link(q, f)
      BY <2>1, <2>4, LinksSame
    <3>3. \A q, f : Wire(q, f)' => Wire(q, f)
      BY <2>4 DEF Wire
    <3>4. ~Live(p)
      BY <2>1 DEF HandlesOK, Live
    <3> QED BY <2>1, <2>4, <3>1, <3>2, <3>3, <3>4 DEF LinksOK
  <2> QED BY <1>11, <2>2, <2>3, <2>4 DEF Thaw
<1>12. ASSUME Deactivate PROVE LinksOK'
  BY <1>12 DEF Deactivate, LinksOK, Link, Wire
<1>13. ASSUME CloseClient PROVE LinksOK'
  BY <1>13 DEF CloseClient, ClientClosed, LinksOK, Link, Wire
<1>14. ASSUME Lock PROVE LinksOK'
  BY <1>14 DEF Lock, ClientOK, LinksOK, Link, Wire
<1>15. ASSUME InitClient PROVE LinksOK'
  BY <1>15 DEF InitClient, ClientOK, LinksOK, Link, Wire
<1>16. ASSUME Unlock PROVE LinksOK'
  BY <1>16 DEF Unlock, LinksOK, Link, Wire
<1>17. ASSUME RenameEnd PROVE LinksOK'
  BY <1>17 DEF RenameEnd, LinksOK, Link, Wire, Live, EndOf, Of
<1>18. ASSUME NEW c \in Callback, Enter(c) PROVE LinksOK'
  BY <1>18 DEF Enter, LinksOK, Link, Wire, Live, EndOf, Of
<1>19. ASSUME NEW c \in Callback, Leave(c) PROVE LinksOK'
  BY <1>19 DEF Leave, LinksOK, Link, Wire, Live, EndOf, Of
<1>20. ASSUME NEW p \in Port, NEW x \in Port \cup Foreign, Patch(p, x) PROVE LinksOK'
  BY <1>20, PatchingSteps
<1> QED
  BY <1>1, <1>2, <1>3, <1>4, <1>5, <1>6, <1>7, <1>8, <1>9, <1>10, <1>11, <1>12, <1>13,
     <1>14, <1>15, <1>16, <1>17, <1>18, <1>19, <1>20 DEF Next, NameStep

LEMMA ConnectionsKept ==
  ASSUME IInv, Next
  PROVE  KeptOK'
<1> USE DEF IInv
<1>1. ASSUME NEW p \in Port, AddPort(p) PROVE KeptOK'
  BY <1>1 DEF AddPort, KeptOK, InJack, InNotes, Link, Wire, EndOf, Of
<1>2. ASSUME NEW p \in Port, Activate(p) PROVE KeptOK'
  BY <1>2 DEF Activate, KeptOK, InJack, InNotes, Link, Wire, EndOf, Of
<1>3. ASSUME NEW p \in Port, Shutdown(p) PROVE KeptOK'
  <2>1. ui \in {"idle", "closed"} /\ UNCHANGED <<ui, todo, client>>
    BY <1>3 DEF Shutdown
  <2>2. ASSUME NEW q \in Port, NEW f \in Foreign PROVE Link(q, f)' <=> Link(q, f) /\ q # p
    <3>1. EndOf(q)' = EndOf(q) /\ EndOf(f)' = EndOf(f)
      BY <2>1, NamesKept
    <3>2. Link(q, f)' <=> Link(q, f) /\ EndOf(p) \notin {EndOf(q), EndOf(f)}
      BY <1>3, <3>1 DEF Shutdown, Link
    <3>3. p # f
      BY JackClientAssumption
    <3> QED BY <3>2, <3>3, EndsDiffer
  <2>3. \A q \in Port : \A f \in Foreign : Wire(q, f)' <=> Wire(q, f) /\ q # p
    BY <1>3, JackClientAssumption DEF Shutdown, Wire
  <2>4. \A q : (InJack(q)' <=> InJack(q)) /\ ~InNotes(q)'
    BY <2>1 DEF InJack, InNotes
  <2> QED BY <2>2, <2>3, <2>4 DEF KeptOK
<1>4. ASSUME NEW p \in Port, NEW x \in Port \cup Foreign, Connect(p, x) PROVE KeptOK'
  BY <1>4, PatchingSteps
<1>5. ASSUME NEW p \in Port, NEW x \in Port \cup Foreign, Disconnect(p, x) PROVE KeptOK'
  BY <1>5, PatchingSteps
<1>6. ASSUME StopProcess PROVE KeptOK'
  BY <1>6 DEF StopProcess, KeptOK, InJack, InNotes, Link, Wire, Note, EndOf, Of
<1>7. ASSUME DeactivateClient PROVE KeptOK'
  BY <1>7 DEF DeactivateClient, KeptOK, InNotes, Link, Wire
<1>8. ASSUME Close PROVE KeptOK'
  BY <1>8 DEF Close, KeptOK, InJack, InNotes
<1>9. ASSUME Rename PROVE KeptOK'
  BY <1>9 DEF Rename, KeptOK, InJack, InNotes, Link, Wire, EndOf, Of
<1>10. ASSUME NEW p \in Port, Freeze(p) PROVE KeptOK'
  <2>1. ui = "freeze" /\ p \in todo /\ todo' = todo \ {p} /\ UNCHANGED <<ports, client, links>>
    BY <1>10 DEF Freeze
  <2>2. \A q, f : Link(q, f)' <=> Link(q, f)
    BY <2>1, NamesKept DEF Link
  <2>3. ASSUME NEW q \in Port, q # p, NEW f \in Foreign
        PROVE  /\ InJack(q)' => (Link(q, f)' <=> Wire(q, f)')
               /\ InNotes(q)' => (Note(q, f)' <=> Wire(q, f)')
    <3>1. (InJack(q)' => InJack(q)) /\ (InNotes(q)' => InNotes(q))
      BY <1>10, <2>1, <2>3 DEF Freeze, InJack, InNotes
    <3>2. Wire(q, f)' <=> Wire(q, f)
      BY <1>10, <2>3, JackClientAssumption DEF Freeze, Wire
    <3>3. saved'[q] = saved[q]
      BY <1>10, <2>3 DEF Freeze, TypeOK
    <3>4. Note(q, f)' <=> Note(q, f)
      BY <3>3, <2>1, NamesKept DEF Note
    <3> QED BY <3>1, <3>2, <3>4, <2>2 DEF KeptOK
  <2>4. ASSUME NEW f \in Foreign, InNotes(p)' PROVE Note(p, f)' <=> Wire(p, f)'
    <3>1. CASE stopping
      <4>1. saved'[p] = {} /\ wired' = {w \in wired : p \notin w}
        BY <1>10, <3>1 DEF Freeze, TypeOK
      <4> QED BY <4>1 DEF Note, Wire
    <3>2. CASE ~stopping
      <4>1. saved' = [saved EXCEPT ![p] = {e \in End : e # EndOf(p) /\ {EndOf(p), e} \in links}]
            /\ wired' = wired
        BY <1>10, <3>2, <2>4 DEF Freeze, InNotes
      <4>2. saved'[p] = {e \in End : e # EndOf(p) /\ {EndOf(p), e} \in links}
        BY <4>1 DEF TypeOK
      <4>3. client \in Name
        BY <2>1 DEF ClientOK, TypeOK
      <4>4. EndOf(f) \in End /\ EndOf(f) # EndOf(p)
        BY <4>3, EndTypes, EndsDiffer, JackClientAssumption
      <4>5. EndOf(f)' = EndOf(f)
        BY <2>1, NamesKept
      <4>6. Note(p, f)' <=> Link(p, f)
        BY <4>2, <4>4, <4>5 DEF Note, Link
      <4>7. Link(p, f) <=> Wire(p, f)
        BY <2>1 DEF KeptOK, InJack
      <4> QED BY <4>1, <4>6, <4>7 DEF Wire
    <3> QED BY <3>1, <3>2
  <2>5. ~InJack(p)'
    BY <1>10, <2>1 DEF Freeze, InJack
  <2> QED BY <2>3, <2>4, <2>5 DEF KeptOK
<1>11. ASSUME NEW p \in Port, Thaw(p) PROVE KeptOK'
  <2>1. ui = "thaw" /\ p \in todo /\ todo' = todo \ {p} /\ UNCHANGED <<ui, ports, client>>
    BY <1>11 DEF Thaw
  <2>2. CASE client = Closed
    BY <2>1, <2>2 DEF KeptOK, InJack, InNotes
  <2>3. CASE client # Closed
    <3>1. ~Live(p)
      BY <2>1 DEF HandlesOK, Live
    <3>2. ASSUME NEW q \in Port, q # p, NEW f \in Foreign
          PROVE  /\ Link(q, f)' <=> Link(q, f)
                 /\ Wire(q, f)' <=> Wire(q, f)
                 /\ Note(q, f)' <=> Note(q, f)
      <4>1. Link(q, f)' <=> Link(q, f)
        <5>1. \/ links' = links
              \/ links' = links \cup {{EndOf(p), e} : e \in {EndOf(x) : x \in Ends} \cap saved[p]}
          BY <1>11 DEF Thaw
        <5>2. CASE links' = links
          BY <5>2, <2>1, LinksSame
        <5>3. CASE links' = links \cup {{EndOf(p), e} : e \in {EndOf(x) : x \in Ends} \cap saved[p]}
          BY <5>3, <2>1, <3>2, ThawLinks
        <5> QED BY <5>1, <5>2, <5>3
      <4>2. Wire(q, f)' <=> Wire(q, f)
        BY <1>11, <3>2, JackClientAssumption DEF Thaw, Wire
      <4>3. saved'[q] = saved[q]
        BY <1>11, <3>2 DEF Thaw, TypeOK
      <4>4. Note(q, f)' <=> Note(q, f)
        BY <4>3, <2>1, NamesKept DEF Note
      <4> QED BY <4>1, <4>2, <4>4
    <3>3. \A q : q # p => (InJack(q)' <=> InJack(q)) /\ (InNotes(q)' <=> InNotes(q))
      BY <2>1 DEF InJack, InNotes
    <3>4. ~InNotes(p)' /\ InNotes(p)
      BY <2>1, <2>3 DEF InNotes
    <3>5. ASSUME NEW f \in Foreign PROVE Link(p, f)' <=> Wire(p, f)'
      <4>1. ~Link(p, f) /\ (Note(p, f) <=> Wire(p, f))
        BY <3>1, <3>4 DEF LinksOK, KeptOK
      <4>2. CASE UNCHANGED wired
                 /\ links' = links \cup {{EndOf(p), e} : e \in {EndOf(x) : x \in Ends} \cap saved[p]}
        BY <4>1, <4>2, <2>1, ThawLinks DEF Wire
      <4>3. CASE wired' = {w \in wired : p \notin w} /\ UNCHANGED links
        BY <4>1, <4>3, <2>1, NamesKept DEF Link, Wire
      <4> QED BY <1>11, <4>2, <4>3 DEF Thaw
    <3>6. ASSUME NEW q \in Port, NEW f \in Foreign
          PROVE  /\ InJack(q)' => (Link(q, f)' <=> Wire(q, f)')
                 /\ InNotes(q)' => (Note(q, f)' <=> Wire(q, f)')
      <4>1. CASE q = p
        BY <4>1, <3>4, <3>5
      <4>2. CASE q # p
        BY <4>2, <3>2, <3>3 DEF KeptOK
      <4> QED BY <4>1, <4>2
    <3> QED BY <3>6 DEF KeptOK
  <2> QED BY <2>2, <2>3
<1>12. ASSUME Deactivate PROVE KeptOK'
  BY <1>12 DEF Deactivate, KeptOK, InJack, InNotes, Wire, Note, EndOf, Of
<1>13. ASSUME CloseClient PROVE KeptOK'
  BY <1>13 DEF CloseClient, KeptOK, InJack, InNotes, Wire, Note, EndOf, Of
<1>14. ASSUME Lock PROVE KeptOK'
  BY <1>14 DEF Lock, KeptOK, InJack, InNotes, Wire, Note, EndOf, Of
<1>15. ASSUME InitClient PROVE KeptOK'
  BY <1>15 DEF InitClient, ClientOK, KeptOK, InJack, InNotes, Wire, Note, EndOf, Of
<1>16. ASSUME Unlock PROVE KeptOK'
  BY <1>16 DEF Unlock, LinksOK, KeptOK, InJack, InNotes, Link, Wire, Note, EndOf, Of
<1>17. ASSUME RenameEnd PROVE KeptOK'
  BY <1>17 DEF RenameEnd, KeptOK, InJack, InNotes, Link, Wire, EndOf, Of
<1>18. ASSUME NEW c \in Callback, Enter(c) PROVE KeptOK'
  BY <1>18 DEF Enter, KeptOK, InJack, InNotes, Link, Wire, Note, EndOf, Of
<1>19. ASSUME NEW c \in Callback, Leave(c) PROVE KeptOK'
  BY <1>19 DEF Leave, KeptOK, InJack, InNotes, Link, Wire, Note, EndOf, Of
<1>20. ASSUME NEW p \in Port, NEW x \in Port \cup Foreign, Patch(p, x) PROVE KeptOK'
  BY <1>20, PatchingSteps
<1> QED
  BY <1>1, <1>2, <1>3, <1>4, <1>5, <1>6, <1>7, <1>8, <1>9, <1>10, <1>11, <1>12, <1>13,
     <1>14, <1>15, <1>16, <1>17, <1>18, <1>19, <1>20 DEF Next, NameStep

-----------------------------------------------------------------------------
(* The theorems *)

LEMMA Starts ==
  Init => IInv
<1> SUFFICES ASSUME Init PROVE IInv
  OBVIOUS
<1>1. TypeOK /\ LockOK /\ ClientOK /\ HandlesOK
  BY JackClientAssumption DEF Init, TypeOK, LockOK, ClientOK, HandlesOK, Free, Callback
<1>2. LinksOK /\ KeptOK
  BY DEF Init, LinksOK, KeptOK, InJack, InNotes, Link, Wire
<1> QED BY <1>1, <1>2 DEF IInv

LEMMA Inductive ==
  Spec => []IInv
<1>1. IInv /\ Next => IInv'
  BY TypesKept, LockKept, ClientKept, HandlesKept, LinksKept, ConnectionsKept DEF IInv
<1>2. IInv /\ UNCHANGED vars => IInv'
  BY DEF vars, IInv, TypeOK, LockOK, ClientOK, HandlesOK, LinksOK, KeptOK, InJack, InNotes,
         Link, Wire, Note, Live, EndOf, Of
<1> QED BY Starts, <1>1, <1>2, PTL DEF Spec

(* Every variable keeps its type: connections join names of ports, and no port   *)
(* notes anything else (Port::freeze() and thaw()).                              *)
THEOREM ClientTypes == Spec => []TypeOK
<1>1. IInv => TypeOK
  BY DEF IInv
<1> QED BY Inductive, <1>1, PTL

(* Whatever the ports, their connections and the names JACK gives: after name()   *)
(* the connections with other clients are those there were before it, but for     *)
(* ports that could not be registered again (Client::name()).                    *)
THEOREM RenameRestores == Spec => []ConnectionsRestored
<1>1. IInv => ConnectionsRestored
  <2> SUFFICES ASSUME IInv, ui = "idle", client # Closed, NEW p \in Port, NEW f \in Foreign
               PROVE  Linked({p, f}) <=> {p, f} \in wired
    BY DEF ConnectionsRestored
  <2>1. Link(p, f) <=> Wire(p, f)
    BY DEF IInv, KeptOK, InJack
  <2>2. {EndOf(x) : x \in {p, f}} = {EndOf(p), EndOf(f)}
    OBVIOUS
  <2> QED BY <2>1, <2>2 DEF Linked, Link, Wire
<1> QED BY Inductive, <1>1, PTL

(* _frozen keeps the callbacks apart from each other and from init(), and only     *)
(* thaw_ports() lets process() meet a port of the closed client (Client::process(), *)
(* port_connect() and name()).                                                   *)
THEOREM CallbacksStayOut == Spec => []CallbacksKeptOut
<1>1. IInv => CallbacksKeptOut
  <2> SUFFICES ASSUME IInv PROVE CallbacksKeptOut
    OBVIOUS
  <2>1. Cardinality(inside) <= 1
    <3>1. inside = {} \/ inside = {frozen}
      BY DEF IInv, LockOK
    <3>2. Cardinality({}) = 0 /\ Cardinality({frozen}) = 1
      BY FS_EmptySet, FS_Singleton
    <3> QED BY <3>1, <3>2
  <2>2. ui \in {"init", "unlock"} => inside = {}
    BY DEF IInv, LockOK, Callback
  <2>3. ASSUME "process" \in inside, NEW p \in ports, handle[p] = "stale" PROVE ui = "thaw"
    BY <2>2, <2>3 DEF IInv, TypeOK, LockOK, ClientOK, HandlesOK
  <2> QED BY <2>1, <2>2, <2>3 DEF CallbacksKeptOut
<1> QED BY Inductive, <1>1, PTL
=============================================================================
