--------------------------- MODULE OscRoutesProof ---------------------------
(***************************************************************************)
(* Routes follow their signals, and values their routes, for any number of   *)
(* signals, paths, values and calls, in programs that do none of what        *)
(* Options allows.                                                           *)
(***************************************************************************)
EXTENDS OscRoutes, TLAPS, SequenceTheorems

-----------------------------------------------------------------------------
(* The inductive invariant *)

(* what a message of each kind carries *)
Carries(m) ==
  /\ m.kind \in {"connect", "disconnect"} => m.other \in InPath
  /\ m.kind = "renamed" => m.other \in OutPath
  /\ m.kind = "value" => m.value \in Value

WireOK == \A k \in 1..Len(wire) : Carries(wire[k])

Distinct(p) == \A s, t \in DOMAIN p : p[s] = p[t] /\ p[s] # Nobody => s = t

(* an input that is being learned is there *)
InputsOK ==
  /\ Distinct(inPath)
  /\ learning # Nobody => \E d \in In : inPath[d] = learning

(* a signal is removed when nothing of it is under way and it has no route *)
RemovalsOK ==
  \A k \in 1..Len(wire) :
    wire[k].kind = "removed" =>
      routed[wire[k].sig] = Nobody /\ \A j \in 1..k - 1 : wire[j].sig # wire[k].sig

(* The paths of the sender's signals at a moment of the past; message m was sent   *)
(* when they were p, and tells that they are q.                                    *)
Paths == [Out -> OutPath \cup {Nobody}]

Tells(m, p, q) ==
  /\ m.kind = "created" => p[m.sig] = Nobody /\ q = [p EXCEPT ![m.sig] = m.path]
  /\ m.kind # "created" => p[m.sig] = m.path
  /\ m.kind = "removed" => q = [p EXCEPT ![m.sig] = Nobody]
  /\ m.kind = "renamed" => q = [p EXCEPT ![m.sig] = m.other] /\ m.other # m.path
  /\ m.kind \notin {"created", "removed", "renamed"} => q = p

(* past[k] is what the paths were when the k-th message of w was sent; they are p now *)
IsPast(past, w, p) ==
  /\ past \in Seq(Paths) /\ Len(past) = Len(w) + 1
  /\ past[Len(w) + 1] = p
  /\ \A k \in 1..Len(w) : Tells(w[k], past[k], past[k + 1])
  /\ \A k \in 1..Len(past) : Distinct(past[k])

(* the receiver knows the sender's signals as they were at p *)
Knows(p) ==
  /\ mirror = {p[s] : s \in Out} \ {Nobody}
  /\ \A s \in Out :
       routed[s] # Nobody =>
         /\ p[s] # Nobody /\ inPath[routed[s]] # Nobody
         /\ routes[p[s]] = inPath[routed[s]]
  /\ \A x \in OutPath :
       routes[x] # Nobody => \E s \in Out : p[s] = x /\ routed[s] # Nobody

PastOK == \E past : IsPast(past, wire, outPath) /\ Knows(past[1])

(* a signal with the path y that has the value now ends with the value v *)
EndsWith(q, y, now, v) ==
  \/ now = v /\ \A k \in 1..Len(q) : q[k].path # y
  \/ \E k \in 1..Len(q) :
       /\ q[k].path = y /\ q[k].value = v
       /\ \A i \in k + 1 .. Len(q) : q[i].path # y

ValuesOK ==
  \A d \in In :
    inPath[d] # Nobody /\ due[d] # Nobody => EndsWith(loop, inPath[d], inValue[d], due[d])

IInv == TypeOK /\ WireOK /\ InputsOK /\ RemovalsOK /\ PastOK /\ ValuesOK

-----------------------------------------------------------------------------
(* Queues *)

LEMMA Appended ==
  ASSUME NEW S, NEW q \in Seq(S), NEW x \in S
  PROVE  /\ Len(q) \in Nat
         /\ Append(q, x) \in Seq(S) /\ Len(Append(q, x)) = Len(q) + 1
         /\ \A k \in 1..Len(q) : Append(q, x)[k] = q[k]
         /\ Append(q, x)[Len(q) + 1] = x
OBVIOUS

LEMMA Taken ==
  ASSUME NEW S, NEW q \in Seq(S), q # <<>>
  PROVE  /\ Len(q) \in Nat /\ Len(q) > 0 /\ Head(q) = q[1] /\ Head(q) \in S
         /\ Tail(q) \in Seq(S) /\ Len(Tail(q)) = Len(q) - 1
         /\ \A k \in 1..Len(q) - 1 : Tail(q)[k] = q[k + 1]
OBVIOUS

LEMMA PastSend ==
  ASSUME NEW w \in Seq(Message), NEW m \in Message, NEW past, NEW p, NEW q \in Paths,
         IsPast(past, w, p), Tells(m, p, q), Distinct(q)
  PROVE  IsPast(Append(past, q), Append(w, m), q)
<1> DEFINE past2 == Append(past, q)
           w2 == Append(w, m)
<1>1. past \in Seq(Paths) /\ Len(past) = Len(w) + 1 /\ past[Len(w) + 1] = p
  BY DEF IsPast
<1>2. /\ Len(w) \in Nat /\ Len(w2) = Len(w) + 1 /\ w2[Len(w) + 1] = m
      /\ \A k \in 1..Len(w) : w2[k] = w[k]
  BY Appended
<1>3. /\ past2 \in Seq(Paths) /\ Len(past2) = Len(w) + 2 /\ past2[Len(w) + 2] = q
      /\ \A k \in 1..Len(w) + 1 : past2[k] = past[k]
  BY <1>1, <1>2, Appended
<1> HIDE DEF past2, w2
<1>4. ASSUME NEW k \in 1..Len(w2)
      PROVE  Tells(w2[k], past2[k], past2[k + 1])
  <2>1. CASE k = Len(w) + 1
    BY <1>1, <1>2, <1>3, <2>1
  <2>2. CASE k \in 1..Len(w)
    <3>1. k \in 1..Len(w) + 1 /\ k + 1 \in 1..Len(w) + 1
      BY <1>2, <2>2
    <3> QED BY <1>2, <1>3, <2>2, <3>1 DEF IsPast
  <2> QED BY <1>2, <2>1, <2>2
<1>5. ASSUME NEW k \in 1..Len(past2)
      PROVE  Distinct(past2[k])
  <2>1. CASE k = Len(w) + 2
    BY <1>3, <2>1
  <2>2. CASE k \in 1..Len(w) + 1
    BY <1>1, <1>3, <2>2 DEF IsPast
  <2> QED BY <1>2, <1>3, <2>1, <2>2
<1>6. IsPast(past2, w2, q)
  BY <1>2, <1>3, <1>4, <1>5 DEF IsPast
<1> QED BY <1>6 DEF past2, w2

LEMMA PastReceive ==
  ASSUME NEW w \in Seq(Message), w # <<>>, NEW past, NEW p, IsPast(past, w, p)
  PROVE  /\ IsPast(Tail(past), Tail(w), p) /\ Tail(past)[1] = past[2]
         /\ Tells(Head(w), past[1], past[2])
         /\ past[1] \in Paths /\ past[2] \in Paths
         /\ Distinct(past[1]) /\ Distinct(past[2])
<1>1. past \in Seq(Paths) /\ Len(past) = Len(w) + 1 /\ past[Len(w) + 1] = p
  BY DEF IsPast
<1>2. /\ Len(w) \in Nat /\ Len(w) > 0 /\ Len(Tail(w)) = Len(w) - 1 /\ Head(w) = w[1]
      /\ \A k \in 1..Len(w) - 1 : Tail(w)[k] = w[k + 1]
  BY Taken
<1>3. /\ Tail(past) \in Seq(Paths) /\ Len(Tail(past)) = Len(w)
      /\ \A k \in 1..Len(w) : Tail(past)[k] = past[k + 1]
  <2>1. past # <<>>
    BY <1>1, <1>2
  <2> QED BY <1>1, <1>2, <2>1, Taken
<1>4. ASSUME NEW k \in 1..Len(Tail(w))
      PROVE  Tells(Tail(w)[k], Tail(past)[k], Tail(past)[k + 1])
  <2>1. k \in 1..Len(w) - 1 /\ k \in 1..Len(w) /\ k + 1 \in 1..Len(w)
    BY <1>2
  <2> QED BY <1>2, <1>3, <2>1 DEF IsPast
<1>5. ASSUME NEW k \in 1..Len(Tail(past))
      PROVE  Distinct(Tail(past)[k])
  <2>1. k + 1 \in 1..Len(past)
    BY <1>1, <1>2, <1>3
  <2> QED BY <1>3, <2>1 DEF IsPast
<1>6. Tail(past)[Len(Tail(w)) + 1] = p /\ Len(Tail(past)) = Len(Tail(w)) + 1
  BY <1>1, <1>2, <1>3
<1>7. IsPast(Tail(past), Tail(w), p)
  BY <1>3, <1>4, <1>5, <1>6 DEF IsPast
<1>8. /\ 1 \in 1..Len(w) /\ 1 \in 1..Len(past) /\ 2 \in 1..Len(past)
      /\ 1 + 1 = 2
  BY <1>1, <1>2
<1>9. past[1] \in Paths /\ past[2] \in Paths
  BY <1>1, <1>8
<1>10. Distinct(past[1]) /\ Distinct(past[2]) /\ Tells(w[1], past[1], past[1 + 1])
  BY <1>8 DEF IsPast
<1> QED BY <1>2, <1>3, <1>7, <1>8, <1>9, <1>10

LEMMA EndsAppend ==
  ASSUME NEW S, NEW q \in Seq(S), NEW m \in S, NEW y, NEW now, NEW v
  PROVE  /\ m.path # y /\ EndsWith(q, y, now, v) => EndsWith(Append(q, m), y, now, v)
         /\ m.path = y /\ m.value = v => EndsWith(Append(q, m), y, now, v)
<1>1. ASSUME m.path # y, now = v, \A k \in 1..Len(q) : q[k].path # y
      PROVE  EndsWith(Append(q, m), y, now, v)
  BY <1>1, Appended DEF EndsWith
<1>2. ASSUME m.path # y,
             NEW k \in 1..Len(q), q[k].path = y, q[k].value = v,
             \A i \in k + 1 .. Len(q) : q[i].path # y
      PROVE  EndsWith(Append(q, m), y, now, v)
  <2>1. k \in 1..Len(Append(q, m)) /\ Append(q, m)[k] = q[k]
    BY Appended
  <2>2. \A i \in k + 1 .. Len(Append(q, m)) : Append(q, m)[i].path # y
    BY <1>2, Appended
  <2> QED BY <2>1, <2>2, <1>2 DEF EndsWith
<1>3. ASSUME m.path = y, m.value = v
      PROVE  EndsWith(Append(q, m), y, now, v)
  <2>1. Len(q) + 1 \in 1..Len(Append(q, m)) /\ Append(q, m)[Len(q) + 1] = m
    BY Appended
  <2>2. (Len(q) + 1) + 1 .. Len(Append(q, m)) = {}
    BY Appended
  <2> QED BY <2>1, <2>2, <1>3 DEF EndsWith
<1> QED BY <1>1, <1>2, <1>3 DEF EndsWith

LEMMA EndsTail ==
  ASSUME NEW S, NEW q \in Seq(S), q # <<>>, NEW y, NEW now, NEW v, EndsWith(q, y, now, v)
  PROVE  EndsWith(Tail(q), y, IF Head(q).path = y THEN Head(q).value ELSE now, v)
<1> DEFINE next == IF Head(q).path = y THEN Head(q).value ELSE now
<1>1. /\ Len(q) \in Nat /\ Head(q) = q[1] /\ Len(q) > 0 /\ Len(Tail(q)) = Len(q) - 1
      /\ \A k \in 1..Len(q) - 1 : Tail(q)[k] = q[k + 1]
  BY Taken
<1>2. CASE now = v /\ \A k \in 1..Len(q) : q[k].path # y
  BY <1>1, <1>2 DEF EndsWith
<1>3. ASSUME NEW k \in 1..Len(q), q[k].path = y, q[k].value = v,
             \A i \in k + 1 .. Len(q) : q[i].path # y
      PROVE  EndsWith(Tail(q), y, next, v)
  <2>1. CASE k = 1
    BY <2>1, <1>1, <1>3 DEF EndsWith
  <2>2. CASE k # 1
    <3>1. k - 1 \in 1..Len(Tail(q)) /\ Tail(q)[k - 1] = q[k]
      BY <2>2, <1>1
    <3>2. \A i \in (k - 1) + 1 .. Len(Tail(q)) : Tail(q)[i].path # y
      BY <1>1, <1>3
    <3> QED BY <3>1, <3>2, <1>3 DEF EndsWith
  <2> QED BY <2>1, <2>2
<1> QED BY <1>2, <1>3 DEF EndsWith

-----------------------------------------------------------------------------
(* Types, whatever programs do *)

LEMMA Names ==
  /\ \A x \in AnyPath : x # Nobody
  /\ \A x \in OutPath : x \notin InPath
  /\ \A s \in Out : s # Nobody
  /\ \A d \in In : d # Nobody
  /\ Default \in Value
BY OscRoutesAssumption DEF AnyPath

LEMMA SendTypes ==
  ASSUME TypeOK, WireOK, NEW kind \in Kind, NEW s \in Out, outPath[s] # Nobody,
         NEW other \in AnyPath \cup {Nobody}, NEW v \in Value \cup {Nobody},
         Send(kind, s, other, v),
         kind \in {"connect", "disconnect"} => other \in InPath,
         kind = "renamed" => other \in OutPath,
         kind = "value" => v \in Value
  PROVE  /\ wire' \in Seq(Message) /\ WireOK'
         /\ \E m \in Message :
              /\ wire' = Append(wire, m)
              /\ m.kind = kind /\ m.path = outPath[s] /\ m.other = other /\ m.sig = s
<1> DEFINE m == [kind |-> kind, path |-> outPath[s], other |-> other, value |-> v, sig |-> s]
<1>1. m \in Message /\ Carries(m)
  BY DEF TypeOK, Message, Carries
<1>2. wire' = Append(wire, m) /\ wire \in Seq(Message)
  BY DEF Send, TypeOK
<1>3. /\ m.kind = kind /\ m.path = outPath[s] /\ m.other = other /\ m.sig = s
  OBVIOUS
<1> HIDE DEF m
<1>4. WireOK'
  BY <1>1, <1>2, Appended DEF WireOK
<1> QED BY <1>1, <1>2, <1>3, <1>4

LEMMA ArriveTypes ==
  ASSUME TypeOK, WireOK, NEW kind, Arrives(kind)
  PROVE  /\ wire # <<>> /\ wire' = Tail(wire) /\ wire' \in Seq(Message) /\ WireOK'
         /\ Got \in Message /\ Got.kind = kind /\ Carries(Got)
         /\ Got.path \in OutPath /\ Got.sig \in Out /\ Got.path \in AnyPath
<1>1. wire \in Seq(Message) /\ wire # <<>> /\ wire' = Tail(wire) /\ Got = Head(wire) /\ Got.kind = kind
  BY DEF TypeOK, Arrives, Got
<1>2. WireOK' /\ Carries(Got)
  BY <1>1, Taken DEF WireOK
<1>3. wire' \in Seq(Message) /\ Got \in Message
  BY <1>1, Taken
<1>4. Got.path \in OutPath /\ Got.sig \in Out
  BY <1>3 DEF Message
<1> QED BY <1>1, <1>2, <1>3, <1>4 DEF AnyPath

LEMMA SenderTypes ==
  ASSUME TypeOK, WireOK, NEW s \in Out,
         \/ \E v \in Value : SetValue(s, v)
         \/ \E d \in In : Connect(s, d) \/ Disconnect(s, d)
         \/ \E x \in OutPath : RenameOut(s, x) \/ CreateOut(s, x)
         \/ DeleteOut(s)
  PROVE  TypeOK' /\ WireOK'
<1> USE DEF TypeOK, sender, receiver, history
<1>1. ASSUME NEW v \in Value, SetValue(s, v)
      PROVE  TypeOK' /\ WireOK'
  <2>1. wire' \in Seq(Message) /\ WireOK'
    BY <1>1, SendTypes DEF SetValue, Kind
  <2> QED BY <1>1, <2>1 DEF SetValue
<1>2. ASSUME NEW d \in In, Connect(s, d) \/ Disconnect(s, d)
      PROVE  TypeOK' /\ WireOK'
  <2>1. outPath[s] # Nobody /\ inPath[d] \in InPath
    BY <1>2 DEF Connect, Disconnect
  <2>2. wire' \in Seq(Message) /\ WireOK'
    BY <1>2, <2>1, SendTypes DEF Connect, Disconnect, Kind, AnyPath
  <2>3. changes' \in Nat
    BY <1>2 DEF Connect, Disconnect, Change
  <2> QED BY <1>2, <2>2, <2>3 DEF Connect, Disconnect
<1>3. ASSUME NEW x \in OutPath, RenameOut(s, x)
      PROVE  TypeOK' /\ WireOK'
  <2>1. wire' \in Seq(Message) /\ WireOK'
    BY <1>3, SendTypes DEF RenameOut, Kind, AnyPath
  <2>2. changes' \in Nat /\ outPath' \in [Out -> OutPath \cup {Nobody}]
    BY <1>3 DEF RenameOut, Change
  <2> QED BY <1>3, <2>1, <2>2 DEF RenameOut
<1>4. ASSUME NEW x \in OutPath, CreateOut(s, x)
      PROVE  TypeOK' /\ WireOK'
  <2> DEFINE m == [kind |-> "created", path |-> x, other |-> Nobody, value |-> Nobody, sig |-> s]
  <2>1. m \in Message /\ Carries(m)
    BY DEF Message, Carries, Kind
  <2>2. wire' = Append(wire, m)
    BY <1>4 DEF CreateOut
  <2> HIDE DEF m
  <2>3. wire' \in Seq(Message) /\ WireOK'
    BY <2>1, <2>2, Appended DEF WireOK
  <2>4. /\ changes' \in Nat /\ outPath' \in [Out -> OutPath \cup {Nobody}]
        /\ outValue' \in [Out -> Value]
    BY <1>4, Names DEF CreateOut, Change
  <2> QED BY <1>4, <2>3, <2>4 DEF CreateOut
<1>5. ASSUME DeleteOut(s)
      PROVE  TypeOK' /\ WireOK'
  <2>1. wire' \in Seq(Message) /\ WireOK'
    BY <1>5, SendTypes DEF DeleteOut, Kind
  <2>2. changes' \in Nat /\ outPath' \in [Out -> OutPath \cup {Nobody}]
    BY <1>5 DEF DeleteOut, Change
  <2> QED BY <1>5, <2>1, <2>2 DEF DeleteOut
<1> QED BY <1>1, <1>2, <1>3, <1>4, <1>5

LEMMA ReceiverTypes ==
  ASSUME TypeOK, WireOK, NEW d \in In,
         (\E y \in InPath : RenameIn(d, y)) \/ DeleteIn(d) \/ Learn(d)
  PROVE  TypeOK' /\ WireOK'
<1> USE DEF TypeOK, sender, receiver, history
<1>1. ASSUME NEW y \in InPath, RenameIn(d, y)
      PROVE  TypeOK' /\ WireOK'
  <2>1. /\ inPath' \in [In -> InPath \cup {Nobody}] /\ routes' \in [AnyPath -> InPath \cup {Nobody}]
        /\ changes' \in Nat
    BY <1>1 DEF RenameIn, Change
  <2>2. due' \in [In -> Value \cup {Nobody}]
    BY <1>1 DEF RenameIn, Astray
  <2> QED BY <1>1, <2>1, <2>2 DEF RenameIn, WireOK
<1>2. ASSUME DeleteIn(d)
      PROVE  TypeOK' /\ WireOK'
  <2>1. /\ inPath' \in [In -> InPath \cup {Nobody}] /\ routed' \in [Out -> In \cup {Nobody}]
        /\ changes' \in Nat
    BY <1>2 DEF DeleteIn, Change
  <2> QED BY <1>2, <2>1 DEF DeleteIn, WireOK
<1>3. ASSUME Learn(d)
      PROVE  TypeOK' /\ WireOK'
  <2>1. changes' \in Nat
    BY <1>3 DEF Learn, Change
  <2> QED BY <1>3, <2>1 DEF Learn, WireOK
<1> QED BY <1>1, <1>2, <1>3

LEMMA ReceiveTypes ==
  ASSUME TypeOK, WireOK, Receive
  PROVE  TypeOK' /\ WireOK'
<1> USE DEF TypeOK, sender, receiver, history
<1>1. ASSUME OnCreated
      PROVE  TypeOK' /\ WireOK'
  <2>1. Arrives("created")
    BY <1>1 DEF OnCreated
  <2>2. wire' \in Seq(Message) /\ WireOK' /\ Got.path \in OutPath
    BY <2>1, ArriveTypes
  <2> QED BY <1>1, <2>2 DEF OnCreated
<1>2. ASSUME OnRemoved
      PROVE  TypeOK' /\ WireOK'
  <2>1. Arrives("removed")
    BY <1>2 DEF OnRemoved
  <2>2. wire' \in Seq(Message) /\ WireOK' /\ Got.path \in OutPath
    BY <2>1, ArriveTypes
  <2> QED BY <1>2, <2>2 DEF OnRemoved
<1>3. ASSUME OnRenamed
      PROVE  TypeOK' /\ WireOK'
  <2>1. Arrives("renamed")
    BY <1>3 DEF OnRenamed
  <2>2. wire' \in Seq(Message) /\ WireOK' /\ Got.path \in OutPath /\ Got.other \in OutPath
    BY <2>1, ArriveTypes DEF Carries
  <2>3. RenamedSource(Got.path, Got.other) \in [AnyPath -> InPath \cup {Nobody}]
    BY <2>2 DEF RenamedSource, AnyPath
  <2>4. mirror' \subseteq OutPath /\ routes' \in [AnyPath -> InPath \cup {Nobody}]
    BY <1>3, <2>2, <2>3 DEF OnRenamed
  <2> QED BY <1>3, <2>2, <2>4 DEF OnRenamed
<1>4. ASSUME OnConnect \/ OnDisconnect
      PROVE  TypeOK' /\ WireOK'
  <2>1. Arrives("connect") \/ Arrives("disconnect")
    BY <1>4 DEF OnConnect, OnDisconnect
  <2>2. /\ wire' \in Seq(Message) /\ WireOK'
        /\ Got.other \in InPath /\ Got.path \in AnyPath /\ Got.sig \in Out
    BY <2>1, ArriveTypes DEF Carries
  <2>3. routes' \in [AnyPath -> InPath \cup {Nobody}] /\ routed' \in [Out -> In \cup {Nobody}]
    <3>1. CASE OnConnect
      <4>1. CASE InOf(Got.other) = {}
        BY <3>1, <4>1 DEF OnConnect
      <4>2. CASE InOf(Got.other) # {}
        <5>1. PICK d \in InOf(Got.other) : routed' = [routed EXCEPT ![Got.sig] = d]
          BY <3>1, <4>2 DEF OnConnect
        <5>2. d \in In
          BY DEF InOf
        <5> QED BY <2>2, <3>1, <4>2, <5>1, <5>2 DEF OnConnect
      <4> QED BY <4>1, <4>2
    <3>2. CASE OnDisconnect
      BY <2>2, <3>2 DEF OnDisconnect
    <3> QED BY <1>4, <3>1, <3>2
  <2> QED BY <1>4, <2>2, <2>3 DEF OnConnect, OnDisconnect
<1>5. ASSUME OnValueLearned
      PROVE  TypeOK' /\ WireOK'
  <2>1. Arrives("value") /\ LearnPath(Got.path)
    BY <1>5 DEF OnValueLearned
  <2>2. wire' \in Seq(Message) /\ WireOK' /\ Got.path \in AnyPath /\ Got.sig \in Out
    BY <2>1, ArriveTypes
  <2>3. routes' \in [AnyPath -> InPath \cup {Nobody}] /\ learning' = Nobody
    BY <2>1, <2>2 DEF LearnPath
  <2>4. InOf(learning) # {} => (CHOOSE d \in InOf(learning) : TRUE) \in In
    BY DEF InOf
  <2>5. routed' \in [Out -> In \cup {Nobody}]
    BY <1>5, <2>2, <2>4 DEF OnValueLearned
  <2> QED BY <1>5, <2>2, <2>3, <2>5 DEF OnValueLearned
<1>6. ASSUME OnValue
      PROVE  TypeOK' /\ WireOK'
  <2>1. Arrives("value")
    BY <1>6 DEF OnValue
  <2>2. /\ wire' \in Seq(Message) /\ WireOK'
        /\ Got.value \in Value /\ Got.path \in AnyPath /\ Got.sig \in Out
    BY <2>1, ArriveTypes DEF Carries
  <2>3. loop' \in Seq(Translated)
    <3>1. \/ loop' = loop
          \/ /\ Route(Got.path) # Nobody
             /\ loop' = Append(loop, [path |-> Route(Got.path), value |-> Got.value])
      BY <1>6 DEF OnValue
    <3>2. Route(Got.path) # Nobody =>
            [path |-> Route(Got.path), value |-> Got.value] \in Translated
      BY <2>2 DEF Route, Translated
    <3>3. \A x \in Translated : Append(loop, x) \in Seq(Translated)
      OBVIOUS
    <3> HIDE DEF TypeOK
    <3>4. loop \in Seq(Translated)
      BY DEF TypeOK
    <3> QED BY <3>1, <3>2, <3>3, <3>4, Zenon
  <2>4. due' \in [In -> Value \cup {Nobody}]
    <3>1. due' = IF routed[Got.sig] = Nobody THEN due ELSE [due EXCEPT ![routed[Got.sig]] = Got.value]
      BY <1>6 DEF OnValue
    <3>2. Got.value \in Value
      BY <2>2
    <3> QED BY <3>1, <3>2
  <2> QED BY <1>6, <2>2, <2>3, <2>4 DEF OnValue
<1>7. ASSUME OnTranslated \/ OnStrayLearned \/ OnStray
      PROVE  TypeOK' /\ WireOK'
  <2>1. loop # <<>> /\ UNCHANGED <<outPath, outValue, inPath, mirror, wire, changes, routed>>
    BY <1>7 DEF OnTranslated, OnStrayLearned, OnStray
  <2>2. /\ Head(loop) \in Translated /\ Tail(loop) \in Seq(Translated)
        /\ Head(loop).path \in InPath /\ Head(loop).path \in AnyPath /\ Head(loop).value \in Value
    <3>1. Head(loop) \in Translated /\ Tail(loop) \in Seq(Translated)
      BY <2>1, Taken
    <3> QED BY <3>1 DEF Translated, AnyPath
  <2>3. WireOK'
    BY <2>1 DEF WireOK
  <2>4. CASE OnTranslated
    <3>1. inValue' \in [In -> Value]
      BY <2>2, <2>4 DEF OnTranslated
    <3> QED BY <2>1, <2>2, <2>3, <2>4, <3>1 DEF OnTranslated
  <2>5. CASE OnStrayLearned
    <3>1. routes' \in [AnyPath -> InPath \cup {Nobody}] /\ learning' = Nobody
      BY <2>2, <2>5 DEF OnStrayLearned, LearnPath
    <3> QED BY <2>1, <2>2, <2>3, <2>5, <3>1 DEF OnStrayLearned
  <2>6. CASE OnStray
    <3> DEFINE y == Route(Head(loop).path)
    <3>1. CASE y = Nobody
      BY <2>1, <2>2, <2>3, <2>6, <3>1 DEF OnStray
    <3>2. CASE y # Nobody
      <4>1. y \in InPath
        BY <2>2, <3>2 DEF Route
      <4> HIDE DEF y
      <4>2. [Head(loop) EXCEPT !.path = y] \in Translated
        BY <2>2, <4>1 DEF Translated
      <4>3. /\ loop' = Append(Tail(loop), [Head(loop) EXCEPT !.path = y])
            /\ due' = [d \in In |-> IF inPath[d] = y THEN Nobody ELSE due[d]]
        BY <2>6, <3>2 DEF OnStray, y
      <4>4. loop' \in Seq(Translated) /\ due' \in [In -> Value \cup {Nobody}]
        BY <2>2, <4>2, <4>3
      <4> QED BY <2>1, <2>3, <2>6, <4>4 DEF OnStray
    <3> QED BY <3>1, <3>2
  <2> QED BY <1>7, <2>4, <2>5, <2>6
<1> QED BY <1>1, <1>2, <1>3, <1>4, <1>5, <1>6, <1>7 DEF Receive

LEMMA NextTypes == TypeOK /\ WireOK /\ [Next]_vars => TypeOK' /\ WireOK'
<1> SUFFICES ASSUME TypeOK, WireOK, [Next]_vars
             PROVE  TypeOK' /\ WireOK'
  OBVIOUS
<1>1. CASE SenderStep
  BY <1>1, SenderTypes DEF SenderStep
<1>2. CASE ReceiverStep
  BY <1>2, ReceiverTypes DEF ReceiverStep
<1>3. CASE Receive
  BY <1>3, ReceiveTypes
<1>4. CASE UNCHANGED vars
  BY <1>4 DEF vars, sender, receiver, history, TypeOK, WireOK
<1> QED BY <1>1, <1>2, <1>3, <1>4 DEF Next

LEMMA InitTypes == Init => TypeOK /\ WireOK
<1> SUFFICES ASSUME Init
             PROVE  TypeOK /\ WireOK
  OBVIOUS
<1>1. mirror \subseteq OutPath
  BY DEF Init
<1>2. wire \in Seq(Message) /\ loop \in Seq(Translated) /\ WireOK
  BY DEF Init, WireOK
<1>3. /\ outPath \in [Out -> OutPath \cup {Nobody}] /\ inPath \in [In -> InPath \cup {Nobody}]
      /\ outValue \in [Out -> Value] /\ inValue \in [In -> Value]
  BY Names DEF Init
<1>4. /\ routes \in [AnyPath -> InPath \cup {Nobody}] /\ learning \in InPath \cup {Nobody}
      /\ routed \in [Out -> In \cup {Nobody}] /\ due \in [In -> Value \cup {Nobody}]
      /\ changes \in Nat
  BY Names DEF Init
<1> QED BY <1>1, <1>2, <1>3, <1>4 DEF TypeOK

(* Endpoint: the tables of signals, peers and translations keep their types, also *)
(* in programs that lose routes.                                                  *)
THEOREM RouteTypes == Spec => []TypeOK
<1>1. TypeOK /\ WireOK => TypeOK
  OBVIOUS
<1> QED BY InitTypes, NextTypes, PTL DEF Spec

-----------------------------------------------------------------------------
(* The sender *)

LEMMA SendKeeps ==
  ASSUME IInv, NEW m \in Message, wire' = Append(wire, m), outPath' \in Paths,
         UNCHANGED <<receiver, history>>,
         Tells(m, outPath, outPath'), Distinct(outPath'),
         m.kind = "removed" =>
           routed[m.sig] = Nobody /\ \A j \in 1..Len(wire) : wire[j].sig # m.sig
  PROVE  InputsOK' /\ RemovalsOK' /\ PastOK' /\ ValuesOK'
<1> USE DEF receiver, history
<1>1. InputsOK' /\ ValuesOK'
  BY DEF IInv, InputsOK, ValuesOK
<1>2. wire \in Seq(Message)
  BY DEF IInv, TypeOK
<1>3. /\ Len(wire) \in Nat /\ Len(wire') = Len(wire) + 1 /\ wire'[Len(wire) + 1] = m
      /\ \A k \in 1..Len(wire) : wire'[k] = wire[k]
  BY <1>2, Appended
<1>4. RemovalsOK'
  <2>1. SUFFICES ASSUME NEW k \in 1..Len(wire'), wire'[k].kind = "removed"
                 PROVE  /\ routed[wire'[k].sig] = Nobody
                        /\ \A j \in 1..k - 1 : wire'[j].sig # wire'[k].sig
    BY DEF RemovalsOK
  <2>2. \A j \in 1..k - 1 : j \in 1..Len(wire)
    BY <1>3
  <2>3. CASE k = Len(wire) + 1
    BY <1>3, <2>1, <2>2, <2>3
  <2>4. CASE k \in 1..Len(wire)
    BY <1>3, <2>1, <2>2, <2>4 DEF IInv, RemovalsOK
  <2> QED BY <1>3, <2>3, <2>4
<1>5. PastOK'
  <2>1. PICK past : IsPast(past, wire, outPath) /\ Knows(past[1])
    BY DEF IInv, PastOK
  <2>2. PICK next : next = Append(past, outPath')
    OBVIOUS
  <2>3. ASSUME NEW q \in Paths, Tells(m, outPath, q), Distinct(q)
        PROVE  IsPast(Append(past, q), Append(wire, m), q) /\ Append(past, q)[1] = past[1]
    <3>1. IsPast(past, wire, outPath)
      BY <2>1
    <3>2. wire \in Seq(Message) /\ m \in Message
      BY <1>2
    <3>3. IsPast(Append(past, q), Append(wire, m), q)
      BY <2>3, <3>1, <3>2, PastSend
    <3>4. Append(past, q)[1] = past[1]
      BY <2>3, <3>1, <3>2, Appended DEF IsPast
    <3> QED BY <3>3, <3>4
  <2>4. IsPast(next, wire', outPath') /\ next[1] = past[1]
    BY <2>2, <2>3
  <2>5. Knows(next[1])'
    BY <2>1, <2>4 DEF Knows
  <2> QED BY <2>4, <2>5 DEF PastOK
<1> QED BY <1>1, <1>4, <1>5

LEMMA DistinctChange ==
  ASSUME NEW p \in Paths, Distinct(p), NEW s \in Out, NEW x, \A t \in Out : p[t] # x
  PROVE  Distinct([p EXCEPT ![s] = x])
BY DEF Distinct, Paths

LEMMA SenderKeeps ==
  ASSUME Options = {}, IInv, NEW s \in Out,
         \/ \E v \in Value : SetValue(s, v)
         \/ \E d \in In : Connect(s, d) \/ Disconnect(s, d)
         \/ \E x \in OutPath : RenameOut(s, x) \/ CreateOut(s, x)
         \/ DeleteOut(s)
  PROVE  InputsOK' /\ RemovalsOK' /\ PastOK' /\ ValuesOK'
<1>1. TypeOK /\ WireOK /\ outPath \in Paths
  BY DEF IInv, TypeOK, Paths
<1>2. Distinct(outPath)
  <2>1. PICK past : IsPast(past, wire, outPath)
    BY DEF IInv, PastOK
  <2>2. Len(wire) + 1 \in 1..Len(past)
    BY <1>1, <2>1 DEF IsPast, TypeOK
  <2> QED BY <2>1, <2>2 DEF IsPast
<1>3. ASSUME NEW v \in Value, SetValue(s, v)
      PROVE  InputsOK' /\ RemovalsOK' /\ PastOK' /\ ValuesOK'
  <2>1. outPath[s] # Nobody /\ Send("value", s, Nobody, v)
    BY <1>3 DEF SetValue
  <2>2. PICK m \in Message : wire' = Append(wire, m) /\ m.kind = "value" /\ m.path = outPath[s] /\ m.sig = s
    BY <1>1, <2>1, SendTypes DEF Kind
  <2>3. outPath' = outPath /\ UNCHANGED <<receiver, history>>
    BY <1>3 DEF SetValue
  <2>4. Tells(m, outPath, outPath')
    BY <2>2, <2>3 DEF Tells
  <2> QED BY <1>1, <1>2, <2>2, <2>3, <2>4, SendKeeps
<1>4. ASSUME NEW d \in In, Connect(s, d) \/ Disconnect(s, d)
      PROVE  InputsOK' /\ RemovalsOK' /\ PastOK' /\ ValuesOK'
  <2>1. PICK kind \in {"connect", "disconnect"} :
          outPath[s] # Nobody /\ inPath[d] \in InPath /\ Send(kind, s, inPath[d], Nobody)
    BY <1>1, <1>4 DEF Connect, Disconnect, TypeOK
  <2>2. PICK m \in Message : wire' = Append(wire, m) /\ m.kind = kind /\ m.path = outPath[s] /\ m.sig = s
    BY <1>1, <2>1, SendTypes DEF Kind, AnyPath
  <2>3. outPath' = outPath /\ UNCHANGED <<receiver, history>>
    BY <1>4 DEF Connect, Disconnect, sender
  <2>4. Tells(m, outPath, outPath')
    BY <2>1, <2>2, <2>3 DEF Tells
  <2> QED BY <1>1, <1>2, <2>1, <2>2, <2>3, <2>4, SendKeeps
<1>5. ASSUME NEW x \in OutPath, RenameOut(s, x)
      PROVE  InputsOK' /\ RemovalsOK' /\ PastOK' /\ ValuesOK'
  <2>1. /\ outPath[s] # Nobody /\ Send("renamed", s, x, Nobody)
        /\ outPath' = [outPath EXCEPT ![s] = x] /\ UNCHANGED <<receiver, history>>
        /\ \A t \in Out : outPath[t] # x
    BY <1>5 DEF RenameOut, FreeOut
  <2>2. PICK m \in Message :
          wire' = Append(wire, m) /\ m.kind = "renamed" /\ m.path = outPath[s] /\ m.other = x /\ m.sig = s
    BY <1>1, <2>1, SendTypes DEF Kind, AnyPath
  <2>3. outPath' \in Paths /\ Distinct(outPath')
    BY <1>1, <1>2, <2>1, DistinctChange DEF Paths
  <2>4. Tells(m, outPath, outPath')
    BY <2>1, <2>2 DEF Tells
  <2> QED BY <1>1, <2>1, <2>2, <2>3, <2>4, SendKeeps
<1>6. ASSUME NEW x \in OutPath, CreateOut(s, x)
      PROVE  InputsOK' /\ RemovalsOK' /\ PastOK' /\ ValuesOK'
  <2> DEFINE m == [kind |-> "created", path |-> x, other |-> Nobody, value |-> Nobody, sig |-> s]
  <2>1. /\ outPath[s] = Nobody /\ wire' = Append(wire, m)
        /\ outPath' = [outPath EXCEPT ![s] = x] /\ UNCHANGED <<receiver, history>>
        /\ \A t \in Out : outPath[t] # x
    BY <1>6 DEF CreateOut
  <2>2. m \in Message /\ m.kind = "created" /\ m.path = x /\ m.sig = s
    BY DEF Message, Kind
  <2> HIDE DEF m
  <2>3. outPath' \in Paths /\ Distinct(outPath')
    BY <1>1, <1>2, <2>1, DistinctChange DEF Paths
  <2>4. Tells(m, outPath, outPath')
    BY <2>1, <2>2 DEF Tells
  <2> QED BY <1>1, <2>1, <2>2, <2>3, <2>4, SendKeeps
<1>7. ASSUME DeleteOut(s)
      PROVE  InputsOK' /\ RemovalsOK' /\ PastOK' /\ ValuesOK'
  <2>1. /\ outPath[s] # Nobody /\ Send("removed", s, Nobody, Nobody)
        /\ outPath' = [outPath EXCEPT ![s] = Nobody] /\ UNCHANGED <<receiver, history>>
        /\ routed[s] = Nobody /\ \A j \in DOMAIN wire : wire[j].sig # s
    BY <1>7 DEF DeleteOut
  <2>2. PICK m \in Message : wire' = Append(wire, m) /\ m.kind = "removed" /\ m.path = outPath[s] /\ m.sig = s
    <3>1. outPath[s] # Nobody /\ Send("removed", s, Nobody, Nobody)
      BY <2>1
    <3> QED BY <1>1, <3>1, SendTypes DEF Kind
  <2>3. outPath' \in Paths /\ Distinct(outPath')
    BY <1>1, <1>2, <2>1 DEF Paths, Distinct
  <2>4. Tells(m, outPath, outPath')
    BY <2>1, <2>2 DEF Tells
  <2>5. \A j \in 1..Len(wire) : wire[j].sig # s
    BY <1>1, <2>1 DEF TypeOK
  <2> QED BY <1>1, <2>1, <2>2, <2>3, <2>4, <2>5, SendKeeps
<1> QED BY <1>3, <1>4, <1>5, <1>6, <1>7

-----------------------------------------------------------------------------
(* The receiver's handlers *)

(* The message that arrives takes what the receiver knows from p to q. *)
LEMMA ArriveKnows ==
  ASSUME IInv, NEW kind, Arrives(kind), UNCHANGED outPath
  PROVE  \E p, q \in Paths :
           /\ Knows(p) /\ Tells(Got, p, q) /\ Distinct(p) /\ Distinct(q)
           /\ Knows(q)' => PastOK'
<1>1. wire \in Seq(Message) /\ wire # <<>> /\ wire' = Tail(wire) /\ Got = Head(wire)
  BY DEF IInv, TypeOK, Arrives, Got
<1>2. PICK past : IsPast(past, wire, outPath) /\ Knows(past[1])
  BY DEF IInv, PastOK
<1>3. PICK next : next = Tail(past)
  OBVIOUS
<1>4. /\ IsPast(next, wire', outPath') /\ next[1] = past[2]
      /\ Tells(Got, past[1], past[2])
      /\ past[1] \in Paths /\ past[2] \in Paths
      /\ Distinct(past[1]) /\ Distinct(past[2])
  BY <1>1, <1>2, <1>3, PastReceive
<1>5. PICK q : q = past[2]
  OBVIOUS
<1>6. Knows(q)' => PastOK'
  BY <1>4, <1>5 DEF PastOK
<1> QED BY <1>2, <1>4, <1>5, <1>6

LEMMA ArriveRemovals ==
  ASSUME IInv, NEW kind, Arrives(kind),
         \A s \in Out : s # Got.sig => routed'[s] = routed[s]
  PROVE  RemovalsOK'
<1>1. /\ wire \in Seq(Message) /\ wire # <<>> /\ wire' = Tail(wire) /\ Got = Head(wire)
      /\ wire' \in Seq(Message)
  BY Taken DEF IInv, TypeOK, Arrives, Got
<1>2. /\ Len(wire) \in Nat /\ Len(wire) > 0 /\ Len(wire') = Len(wire) - 1 /\ Got = wire[1]
      /\ \A k \in 1..Len(wire) - 1 : wire'[k] = wire[k + 1]
  BY <1>1, Taken
<1>3. SUFFICES ASSUME NEW k \in 1..Len(wire'), wire'[k].kind = "removed"
               PROVE  /\ routed'[wire'[k].sig] = Nobody
                      /\ \A j \in 1..k - 1 : wire'[j].sig # wire'[k].sig
  BY DEF RemovalsOK
<1>4. k + 1 \in 1..Len(wire) /\ wire'[k] = wire[k + 1] /\ 1 \in 1..k
  BY <1>2
<1>5. /\ routed[wire[k + 1].sig] = Nobody
      /\ \A j \in 1..k : wire[j].sig # wire[k + 1].sig
  BY <1>2, <1>3, <1>4 DEF IInv, RemovalsOK
<1>6. wire'[k].sig \in Out
  <2>1. wire'[k] \in Message
    BY <1>1
  <2> QED BY <2>1 DEF Message
<1>7. \A j \in 1..k - 1 : j + 1 \in 1..k /\ wire'[j] = wire[j + 1]
  BY <1>2
<1> QED BY <1>2, <1>4, <1>5, <1>6, <1>7

LEMMA CreatedKeeps ==
  ASSUME Options = {}, IInv, OnCreated \/ OnRemoved
  PROVE  InputsOK' /\ RemovalsOK' /\ PastOK' /\ ValuesOK'
<1>1. /\ UNCHANGED <<outPath, inPath, inValue, routes, learning, loop, routed, due>>
      /\ Arrives("created") \/ Arrives("removed")
  BY DEF OnCreated, OnRemoved, sender, history
<1>2. InputsOK' /\ ValuesOK'
  BY <1>1 DEF IInv, InputsOK, ValuesOK
<1>3. RemovalsOK'
  BY <1>1, ArriveRemovals
<1>4. PICK p \in Paths, q \in Paths :
        /\ Knows(p) /\ Tells(Got, p, q) /\ Distinct(p) /\ Distinct(q)
        /\ Knows(q)' => PastOK'
  BY <1>1, ArriveKnows
<1>5. Got.path \in OutPath /\ Got.path # Nobody /\ Got.sig \in Out
  BY <1>1, ArriveTypes, Names DEF IInv, AnyPath
<1> DEFINE s == Got.sig
<1>6. CASE OnCreated
  <2>1. /\ p[s] = Nobody /\ q = [p EXCEPT ![s] = Got.path]
        /\ mirror' = mirror \cup {Got.path}
    BY <1>4, <1>6 DEF Tells, OnCreated, Arrives, Got
  <2>2. q[s] = Got.path /\ \A t \in Out : t # s => q[t] = p[t]
    BY <1>5, <2>1 DEF Paths
  <2>3. routed[s] = Nobody
    BY <1>4, <1>5, <2>1 DEF Knows
  <2>4. mirror' = {q[t] : t \in Out} \ {Nobody}
    BY <1>4, <1>5, <2>1, <2>2 DEF Knows
  <2>5. Knows(q)'
    BY <1>1, <1>4, <2>1, <2>2, <2>3, <2>4 DEF Knows
  <2> QED BY <1>2, <1>3, <1>4, <2>5
<1>7. CASE OnRemoved
  <2>1. /\ p[s] = Got.path /\ q = [p EXCEPT ![s] = Nobody]
        /\ mirror' = mirror \ {Got.path}
    BY <1>4, <1>7 DEF Tells, OnRemoved, Arrives, Got
  <2>2. q[s] = Nobody /\ \A t \in Out : t # s => q[t] = p[t]
    BY <1>5, <2>1 DEF Paths
  <2>3. routed[s] = Nobody
    <3>1. wire \in Seq(Message) /\ wire # <<>> /\ Got = Head(wire) /\ Got.kind = "removed"
      BY <1>7 DEF OnRemoved, Arrives, Got, IInv, TypeOK
    <3>2. 1 \in 1..Len(wire) /\ Got = wire[1]
      BY <3>1
    <3> QED BY <3>1, <3>2 DEF IInv, RemovalsOK
  <2>4. \A t \in Out : t # s => p[t] # Got.path
    BY <1>4, <1>5, <2>1 DEF Distinct, Paths
  <2>5. mirror' = {q[t] : t \in Out} \ {Nobody}
    BY <1>4, <1>5, <2>1, <2>2, <2>4 DEF Knows
  <2>6. Knows(q)'
    BY <1>1, <1>4, <2>1, <2>2, <2>3, <2>5 DEF Knows
  <2> QED BY <1>2, <1>3, <1>4, <2>6
<1> QED BY <1>6, <1>7

LEMMA RenamedKeeps ==
  ASSUME Options = {}, IInv, OnRenamed
  PROVE  InputsOK' /\ RemovalsOK' /\ PastOK' /\ ValuesOK'
<1>1. /\ UNCHANGED <<outPath, inPath, inValue, learning, loop, routed, due>>
      /\ Arrives("renamed")
  BY DEF OnRenamed, sender, history
<1>2. InputsOK' /\ ValuesOK'
  BY <1>1 DEF IInv, InputsOK, ValuesOK
<1>3. RemovalsOK'
  BY <1>1, ArriveRemovals
<1>4. PICK p \in Paths, q \in Paths :
        /\ Knows(p) /\ Tells(Got, p, q) /\ Distinct(p) /\ Distinct(q)
        /\ Knows(q)' => PastOK'
  BY <1>1, ArriveKnows
<1> DEFINE s == Got.sig
           x == Got.path
           y == Got.other
<1>5. /\ x \in OutPath /\ x # Nobody /\ s \in Out /\ y \in OutPath /\ y # Nobody
      /\ x \in AnyPath /\ y \in AnyPath
  BY <1>1, ArriveTypes, Names DEF IInv, AnyPath, Carries
<1>6. p[s] = x /\ q = [p EXCEPT ![s] = y] /\ y # x
  BY <1>1, <1>4 DEF Tells, Arrives, Got
<1>7. q[s] = y /\ \A t \in Out : t # s => q[t] = p[t]
  BY <1>5, <1>6 DEF Paths
<1>8. \A t \in Out : t # s => p[t] # x /\ p[t] # y
  BY <1>4, <1>5, <1>6, <1>7 DEF Distinct, Paths
<1>9. x \in mirror
  BY <1>4, <1>5, <1>6 DEF Knows
<1>10. mirror' = (mirror \ {x}) \cup {y} /\ routes' = RenamedSource(x, y)
  BY <1>9 DEF OnRenamed
<1> HIDE DEF s, x, y
<1>11. mirror' = {q[t] : t \in Out} \ {Nobody}
  <2>1. mirror = {p[t] : t \in Out} \ {Nobody}
    BY <1>4 DEF Knows
  <2> QED BY <1>5, <1>6, <1>7, <1>8, <1>10, <2>1
<1>12. routes \in [AnyPath -> InPath \cup {Nobody}] /\ OutPath \subseteq AnyPath
  BY DEF IInv, TypeOK, AnyPath
<1>13. /\ \A t \in Out : routed[t] # Nobody =>
            p[t] # Nobody /\ inPath[routed[t]] # Nobody /\ routes[p[t]] = inPath[routed[t]]
       /\ \A z \in OutPath : routes[z] # Nobody => \E t \in Out : p[t] = z /\ routed[t] # Nobody
  BY <1>4 DEF Knows
<1>14. CASE routes[x] = Nobody
  <2>1. routes' = routes
    BY <1>10, <1>14 DEF RenamedSource, Route
  <2>2. routed[s] = Nobody
    BY <1>5, <1>6, <1>13, <1>14
  <2>3. Knows(q)'
    BY <1>1, <1>5, <1>6, <1>7, <1>11, <1>13, <2>1, <2>2 DEF Knows
  <2> QED BY <1>2, <1>3, <1>4, <2>3
<1>15. CASE routes[x] # Nobody
  <2>1. routes' = [[routes EXCEPT ![y] = routes[x]] EXCEPT ![x] = Nobody]
    BY <1>10, <1>15 DEF RenamedSource, Route
  <2>2. /\ routes'[y] = routes[x] /\ routes'[x] = Nobody
        /\ \A z \in OutPath : z # x /\ z # y => routes'[z] = routes[z]
    BY <1>5, <1>6, <1>12, <2>1
  <2>3. routed[s] # Nobody
    BY <1>5, <1>8, <1>13, <1>15
  <2>4. ASSUME NEW t \in Out, routed[t] # Nobody
        PROVE  q[t] # Nobody /\ routes'[q[t]] = inPath[routed[t]]
    <3>1. CASE t = s
      BY <1>5, <1>6, <1>7, <1>13, <2>2, <2>3, <3>1
    <3>2. CASE t # s
      <4>1. q[t] = p[t] /\ p[t] # x /\ p[t] # y /\ p[t] # Nobody /\ p[t] \in OutPath
        BY <1>7, <1>8, <1>13, <2>4, <3>2 DEF Paths
      <4> QED BY <1>13, <2>2, <2>4, <4>1
    <3> QED BY <3>1, <3>2
  <2>5. ASSUME NEW z \in OutPath, routes'[z] # Nobody
        PROVE  \E t \in Out : q[t] = z /\ routed[t] # Nobody
    <3>1. CASE z = y
      BY <1>5, <1>7, <2>3, <3>1
    <3>2. CASE z # y
      <4>1. z # x /\ routes[z] # Nobody
        BY <2>2, <2>5, <3>2
      <4>2. PICK t \in Out : p[t] = z /\ routed[t] # Nobody
        BY <1>13, <4>1
      <4>3. t # s
        BY <1>6, <4>1, <4>2
      <4> QED BY <1>7, <4>2, <4>3
    <3> QED BY <3>1, <3>2
  <2>6. Knows(q)'
    BY <1>1, <1>11, <1>13, <2>4, <2>5 DEF Knows
  <2> QED BY <1>2, <1>3, <1>4, <2>6
<1> QED BY <1>14, <1>15

(* A signal of the sender gets a new route, or loses the one it had. *)
LEMMA Rerouted ==
  ASSUME NEW p \in Paths, Knows(p), Distinct(p), NEW s \in Out, p[s] \in OutPath,
         routes \in [AnyPath -> InPath \cup {Nobody}], routed \in [Out -> In \cup {Nobody}],
         NEW y, NEW d, routes' = [routes EXCEPT ![p[s]] = y], routed' = [routed EXCEPT ![s] = d],
         UNCHANGED <<inPath, mirror>>,
         \/ y = Nobody /\ d = Nobody
         \/ y # Nobody /\ d # Nobody /\ inPath[d] = y
  PROVE  Knows(p)'
<1>1. p[s] \in AnyPath /\ OutPath \subseteq AnyPath /\ \A x \in OutPath : x # Nobody
  BY Names DEF AnyPath
<1>2. /\ routes'[p[s]] = y /\ routed'[s] = d
      /\ \A x \in OutPath : x # p[s] => routes'[x] = routes[x]
      /\ \A t \in Out : t # s => routed'[t] = routed[t]
  BY <1>1
<1>3. \A t \in Out : p[t] = p[s] => t = s
  BY <1>1 DEF Distinct, Paths
<1>4. /\ \A t \in Out : routed[t] # Nobody =>
           p[t] # Nobody /\ inPath[routed[t]] # Nobody /\ routes[p[t]] = inPath[routed[t]]
      /\ \A x \in OutPath : routes[x] # Nobody => \E t \in Out : p[t] = x /\ routed[t] # Nobody
      /\ mirror = {p[t] : t \in Out} \ {Nobody}
  BY DEF Knows
<1>5. ASSUME NEW t \in Out, routed'[t] # Nobody
      PROVE  p[t] # Nobody /\ inPath[routed'[t]] # Nobody /\ routes'[p[t]] = inPath[routed'[t]]
  <2>1. CASE t = s
    BY <1>1, <1>2, <1>5, <2>1
  <2>2. CASE t # s
    <3>1. p[t] # Nobody /\ p[t] # p[s] /\ p[t] \in OutPath
      BY <1>2, <1>3, <1>4, <1>5, <2>2 DEF Paths
    <3> QED BY <1>2, <1>4, <1>5, <2>2, <3>1
  <2> QED BY <2>1, <2>2
<1>6. ASSUME NEW x \in OutPath, routes'[x] # Nobody
      PROVE  \E t \in Out : p[t] = x /\ routed'[t] # Nobody
  <2>1. CASE x = p[s]
    BY <1>2, <1>6, <2>1
  <2>2. CASE x # p[s]
    BY <1>2, <1>4, <1>6, <2>2
  <2> QED BY <2>1, <2>2
<1> QED BY <1>4, <1>5, <1>6 DEF Knows

LEMMA ConnectKeeps ==
  ASSUME Options = {}, IInv, OnConnect \/ OnDisconnect
  PROVE  InputsOK' /\ RemovalsOK' /\ PastOK' /\ ValuesOK'
<1>1. /\ UNCHANGED <<outPath, inPath, inValue, mirror, learning, loop, due>>
      /\ Arrives("connect") \/ Arrives("disconnect")
  BY DEF OnConnect, OnDisconnect, sender
<1>2. InputsOK' /\ ValuesOK'
  BY <1>1 DEF IInv, InputsOK, ValuesOK
<1>3. PICK p \in Paths, q \in Paths :
        /\ Knows(p) /\ Tells(Got, p, q) /\ Distinct(p) /\ Distinct(q)
        /\ Knows(q)' => PastOK'
  BY <1>1, ArriveKnows
<1>4. /\ Got.path \in OutPath /\ Got.sig \in Out /\ Got.other \in InPath /\ Got.other # Nobody
      /\ p[Got.sig] = Got.path /\ q = p
  <2>1. Got.kind \in {"connect", "disconnect"}
    BY <1>1 DEF Arrives, Got
  <2>2. Got.path \in OutPath /\ Got.sig \in Out /\ Got.other \in InPath
    BY <1>1, <2>1, ArriveTypes DEF IInv, Carries
  <2> QED BY <1>3, <2>1, <2>2, Names DEF Tells, AnyPath
<1>5. /\ routes \in [AnyPath -> InPath \cup {Nobody}] /\ routed \in [Out -> In \cup {Nobody}]
  BY DEF IInv, TypeOK
<1>6. CASE InOf(Got.other) = {}
  <2>1. routes' = routes /\ routed' = routed
    BY <1>6 DEF OnConnect, OnDisconnect
  <2>2. RemovalsOK'
    BY <1>1, <2>1, ArriveRemovals
  <2>3. Knows(q)'
    BY <1>1, <1>3, <1>4, <2>1 DEF Knows
  <2> QED BY <1>2, <1>3, <2>2, <2>3
<1>7. CASE InOf(Got.other) # {}
  <2>1. PICK y, d : /\ routes' = [routes EXCEPT ![Got.path] = y]
                    /\ routed' = [routed EXCEPT ![Got.sig] = d]
                    /\ \/ y = Nobody /\ d = Nobody
                       \/ y # Nobody /\ d # Nobody /\ inPath[d] = y
    <3>1. CASE OnConnect
      <4>1. PICK d \in InOf(Got.other) : routed' = [routed EXCEPT ![Got.sig] = d]
        BY <1>7, <3>1 DEF OnConnect
      <4>2. d # Nobody /\ inPath[d] = Got.other
        BY Names DEF InOf
      <4>3. routes' = [routes EXCEPT ![Got.path] = Got.other]
        BY <1>7, <3>1 DEF OnConnect
      <4> QED BY <1>4, <4>1, <4>2, <4>3
    <3>2. CASE OnDisconnect
      BY <1>7, <3>2 DEF OnDisconnect
    <3> QED BY <3>1, <3>2
  <2>2. RemovalsOK'
    <3>1. \A s \in Out : s # Got.sig => routed'[s] = routed[s]
      BY <1>5, <2>1
    <3> QED BY <1>1, <3>1, ArriveRemovals
  <2>3. Knows(p)'
    BY <1>1, <1>3, <1>4, <1>5, <2>1, Rerouted
  <2> QED BY <1>2, <1>3, <1>4, <2>2, <2>3
<1> QED BY <1>6, <1>7

LEMMA LearnedKeeps ==
  ASSUME Options = {}, IInv, OnValueLearned
  PROVE  InputsOK' /\ RemovalsOK' /\ PastOK' /\ ValuesOK'
<1>1. /\ UNCHANGED <<outPath, inPath, inValue, mirror, loop, due>>
      /\ Arrives("value") /\ learning # Nobody /\ learning' = Nobody
      /\ routes' = [routes EXCEPT ![Got.path] = learning]
  BY DEF OnValueLearned, LearnPath, sender
<1>2. InputsOK' /\ ValuesOK'
  BY <1>1 DEF IInv, InputsOK, ValuesOK
<1>3. PICK p \in Paths, q \in Paths :
        /\ Knows(p) /\ Tells(Got, p, q) /\ Distinct(p) /\ Distinct(q)
        /\ Knows(q)' => PastOK'
  BY <1>1, ArriveKnows
<1>4. Got.path \in OutPath /\ Got.sig \in Out /\ p[Got.sig] = Got.path /\ q = p
  BY <1>1, <1>3, ArriveTypes DEF IInv, Tells
<1>5. /\ routes \in [AnyPath -> InPath \cup {Nobody}] /\ routed \in [Out -> In \cup {Nobody}]
  BY DEF IInv, TypeOK
<1> DEFINE d == CHOOSE e \in InOf(learning) : TRUE
<1>6. InOf(learning) # {}
  BY <1>1 DEF IInv, InputsOK, InOf
<1>7. d \in InOf(learning)
  BY <1>6
<1>8. d # Nobody /\ inPath[d] = learning
  BY <1>7, Names DEF InOf
<1>9. routed' = [routed EXCEPT ![Got.sig] = d]
  BY <1>6 DEF OnValueLearned
<1> HIDE DEF d
<1>10. RemovalsOK'
  <2>1. \A s \in Out : s # Got.sig => routed'[s] = routed[s]
    BY <1>5, <1>9
  <2> QED BY <1>1, <2>1, ArriveRemovals
<1>11. Knows(p)'
  BY <1>1, <1>3, <1>4, <1>5, <1>8, <1>9, Rerouted
<1> QED BY <1>2, <1>3, <1>4, <1>10, <1>11

LEMMA ValueKeeps ==
  ASSUME Options = {}, IInv, OnValue
  PROVE  InputsOK' /\ RemovalsOK' /\ PastOK' /\ ValuesOK'
<1>1. /\ UNCHANGED <<outPath, inPath, inValue, mirror, routes, learning, routed>>
      /\ Arrives("value")
  BY DEF OnValue, sender
<1>2. InputsOK'
  BY <1>1 DEF IInv, InputsOK
<1>3. RemovalsOK'
  BY <1>1, ArriveRemovals
<1>4. PICK p \in Paths, q \in Paths :
        /\ Knows(p) /\ Tells(Got, p, q) /\ Distinct(p) /\ Distinct(q)
        /\ Knows(q)' => PastOK'
  BY <1>1, ArriveKnows
<1>5. /\ Got.path \in OutPath /\ Got.sig \in Out /\ Got.value \in Value /\ p[Got.sig] = Got.path
      /\ q = p /\ Got.path # Nobody
  BY <1>1, <1>4, ArriveTypes, Names DEF IInv, Carries, Tells, AnyPath
<1>6. PastOK'
  BY <1>1, <1>4, <1>5 DEF Knows
<1> DEFINE s == Got.sig
           y == Route(Got.path)
           m == [path |-> y, value |-> Got.value]
<1>7. y # Nobody <=> routed[s] # Nobody
  <2>1. \A t \in Out : p[t] = p[s] => t = s
    BY <1>4, <1>5 DEF Distinct, Paths
  <2> QED BY <1>4, <1>5, <2>1 DEF Knows, Route
<1>8. CASE routed[s] = Nobody
  <2>1. loop' = loop /\ due' = due
    BY <1>7, <1>8 DEF OnValue
  <2>2. ValuesOK'
    BY <1>1, <2>1 DEF IInv, ValuesOK
  <2> QED BY <1>2, <1>3, <1>6, <2>2
<1>9. CASE routed[s] # Nobody
  <2>1. loop' = Append(loop, m) /\ due' = [due EXCEPT ![routed[s]] = Got.value]
    BY <1>7, <1>9 DEF OnValue
  <2>2. y \in InPath /\ inPath[routed[s]] = y /\ routed[s] \in In
    <3>1. Got.path \in AnyPath
      BY <1>5 DEF AnyPath
    <3>2. routes[Got.path] \in InPath \cup {Nobody} /\ routed[s] \in In \cup {Nobody}
      BY <1>5, <3>1 DEF IInv, TypeOK
    <3> QED BY <1>4, <1>5, <1>7, <1>9, <3>2 DEF Knows, Route
  <2>3. m \in Translated /\ m.path = y /\ m.value = Got.value /\ loop \in Seq(Translated)
    BY <1>5, <2>2 DEF Translated, IInv, TypeOK
  <2> HIDE DEF m
  <2>4. ASSUME NEW e \in In, inPath[e] # Nobody, due'[e] # Nobody
        PROVE  EndsWith(loop', inPath[e], inValue[e], due'[e])
    <3>1. due \in [In -> Value \cup {Nobody}]
      BY DEF IInv, TypeOK
    <3>2. CASE e = routed[s]
      <4>1. due'[e] = Got.value
        BY <2>1, <2>2, <3>1, <3>2
      <4> QED BY <2>1, <2>2, <2>3, <3>2, <4>1, EndsAppend
    <3>3. CASE e # routed[s]
      <4>1. due'[e] = due[e]
        BY <2>1, <2>2, <3>1, <3>3
      <4>2. inPath[e] # y
        BY <2>2, <2>4, <3>3 DEF IInv, InputsOK, Distinct, TypeOK
      <4>3. EndsWith(loop, inPath[e], inValue[e], due[e])
        BY <2>4, <4>1 DEF IInv, ValuesOK
      <4> QED BY <2>1, <2>3, <4>1, <4>2, <4>3, EndsAppend
    <3> QED BY <3>2, <3>3
  <2>5. ValuesOK'
    BY <1>1, <2>4 DEF ValuesOK
  <2> QED BY <1>2, <1>3, <1>6, <2>5
<1> QED BY <1>8, <1>9

(* What the receiver does by itself leaves the messages of the sender alone. *)
LEMMA LocalKeeps ==
  ASSUME IInv, UNCHANGED <<outPath, wire, mirror>>,
         \A p \in Paths : Knows(p) => Knows(p)',
         \A s \in Out : routed'[s] = routed[s]
  PROVE  RemovalsOK' /\ PastOK'
<1>1. wire \in Seq(Message)
  BY DEF IInv, TypeOK
<1>2. RemovalsOK'
  <2>1. \A k \in 1..Len(wire) : wire[k].sig \in Out
    <3>1. \A k \in 1..Len(wire) : wire[k] \in Message
      BY <1>1
    <3> QED BY <3>1 DEF Message
  <2> QED BY <2>1 DEF IInv, RemovalsOK
<1>3. PastOK'
  <2>1. PICK past : IsPast(past, wire, outPath) /\ Knows(past[1])
    BY DEF IInv, PastOK
  <2>2. past[1] \in Paths
    <3>1. past \in Seq(Paths) /\ Len(past) >= 1
      BY <1>1, <2>1 DEF IsPast
    <3> QED BY <3>1
  <2>3. Knows(past[1])'
    <3>1. PICK p : p = past[1]
      OBVIOUS
    <3> QED BY <2>1, <2>2, <3>1
  <2> QED BY <2>1, <2>3 DEF PastOK
<1> QED BY <1>2, <1>3

LEMMA TranslatedKeeps ==
  ASSUME Options = {}, IInv, OnTranslated \/ OnStrayLearned \/ OnStray
  PROVE  InputsOK' /\ RemovalsOK' /\ PastOK' /\ ValuesOK'
<1>1. /\ loop # <<>> /\ loop \in Seq(Translated)
      /\ UNCHANGED <<outPath, inPath, mirror, wire, routed>>
  BY DEF OnTranslated, OnStrayLearned, OnStray, sender, history, IInv, TypeOK
<1> DEFINE m == Head(loop)
<1>2. /\ m \in Translated /\ Tail(loop) \in Seq(Translated)
      /\ m.path \in InPath /\ m.value \in Value /\ m.path # Nobody /\ m.path \notin OutPath
  <2>1. m \in Translated /\ Tail(loop) \in Seq(Translated)
    BY <1>1, Taken
  <2> QED BY <2>1, Names DEF Translated, AnyPath
<1>3. \A x \in OutPath : routes'[x] = routes[x]
  BY <1>2 DEF OnTranslated, OnStrayLearned, OnStray, LearnPath, IInv, TypeOK, AnyPath
<1>4. InputsOK'
  BY <1>1 DEF OnTranslated, OnStrayLearned, OnStray, LearnPath, IInv, InputsOK
<1>5. RemovalsOK' /\ PastOK'
  <2>1. ASSUME NEW p \in Paths, Knows(p)
        PROVE  Knows(p)'
    <3>1. \A s \in Out : p[s] # Nobody => p[s] \in OutPath
      BY DEF Paths
    <3> QED BY <1>1, <1>3, <2>1, <3>1 DEF Knows
  <2> QED BY <1>1, <2>1, LocalKeeps
<1>6. ASSUME NEW e \in In, inPath[e] # Nobody, due[e] # Nobody
      PROVE  EndsWith(Tail(loop), inPath[e], IF m.path = inPath[e] THEN m.value ELSE inValue[e], due[e])
  <2>1. EndsWith(loop, inPath[e], inValue[e], due[e])
    BY <1>6 DEF IInv, ValuesOK
  <2> QED BY <1>1, <2>1, EndsTail
<1>7. ValuesOK'
  <2>1. CASE OnTranslated
    <3>1. PICK d \in InOf(m.path) : inValue' = [inValue EXCEPT ![d] = m.value]
      BY <2>1 DEF OnTranslated
    <3>2. d \in In /\ inPath[d] = m.path /\ inValue \in [In -> Value]
      BY DEF InOf, IInv, TypeOK
    <3>3. loop' = Tail(loop) /\ due' = due
      BY <2>1 DEF OnTranslated, history
    <3>4. ASSUME NEW e \in In, inPath[e] # Nobody
          PROVE  inValue'[e] = IF m.path = inPath[e] THEN m.value ELSE inValue[e]
      <4>1. e # d => inPath[e] # m.path
        BY <1>2, <3>2, <3>4 DEF IInv, InputsOK, Distinct, TypeOK
      <4> QED BY <3>1, <3>2, <4>1
    <3>5. ASSUME NEW e \in In, inPath[e] # Nobody, due[e] # Nobody
          PROVE  EndsWith(Tail(loop), inPath[e], inValue'[e], due[e])
      BY <1>6, <3>4, <3>5
    <3> QED BY <1>1, <3>3, <3>5 DEF ValuesOK
  <2>2. ASSUME InOf(m.path) = {}, UNCHANGED inValue,
               NEW e \in In, inPath[e] # Nobody, due[e] # Nobody
        PROVE  EndsWith(Tail(loop), inPath[e], inValue[e], due[e])
    <3>1. inPath[e] # m.path
      BY <2>2 DEF InOf
    <3> QED BY <1>6, <2>2, <3>1
  <2>3. CASE OnStrayLearned
    <3>1. /\ InOf(m.path) = {} /\ UNCHANGED <<inValue, due>> /\ loop' = Tail(loop)
      BY <2>3 DEF OnStrayLearned, history
    <3> QED BY <1>1, <2>2, <3>1 DEF ValuesOK
  <2>4. CASE OnStray
    <3> DEFINE y == Route(m.path)
               n == [m EXCEPT !.path = y]
    <3>1. InOf(m.path) = {} /\ UNCHANGED inValue
      BY <2>4 DEF OnStray
    <3>2. CASE y = Nobody
      <4>1. loop' = Tail(loop) /\ due' = due
        BY <2>4, <3>2 DEF OnStray
      <4> QED BY <1>1, <2>2, <3>1, <4>1 DEF ValuesOK
    <3>3. CASE y # Nobody
      <4>1. /\ loop' = Append(Tail(loop), n)
            /\ due' = [d \in In |-> IF inPath[d] = y THEN Nobody ELSE due[d]]
        BY <2>4, <3>3 DEF OnStray
      <4>2. y \in InPath
        <5>1. m.path \in AnyPath
          BY <1>2 DEF AnyPath
        <5> QED BY <3>3, <5>1 DEF Route, IInv, TypeOK
      <4> HIDE DEF y
      <4>3. n \in Translated /\ n.path = y
        BY <1>2, <4>2 DEF Translated
      <4> HIDE DEF n
      <4>4. ASSUME NEW e \in In, inPath[e] # Nobody, due'[e] # Nobody
            PROVE  EndsWith(loop', inPath[e], inValue[e], due'[e])
        <5>1. due'[e] = due[e] /\ inPath[e] # y
          BY <4>1, <4>4
        <5>2. EndsWith(Tail(loop), inPath[e], inValue[e], due[e])
          BY <2>2, <3>1, <4>4, <5>1
        <5> QED BY <1>2, <4>1, <4>3, <5>1, <5>2, EndsAppend
      <4> QED BY <1>1, <3>1, <4>4 DEF ValuesOK
    <3> QED BY <3>2, <3>3
  <2> QED BY <2>1, <2>3, <2>4
<1> QED BY <1>4, <1>5, <1>7

-----------------------------------------------------------------------------
(* The receiver's program *)

LEMMA RenameInKeeps ==
  ASSUME Options = {}, IInv, NEW d \in In, NEW y \in InPath, RenameIn(d, y)
  PROVE  InputsOK' /\ RemovalsOK' /\ PastOK' /\ ValuesOK'
<1>1. /\ inPath[d] # Nobody /\ learning # inPath[d] /\ \A e \in In : inPath[e] # y
      /\ inPath' = [inPath EXCEPT ![d] = y]
      /\ routes' = [x \in AnyPath |-> IF routes[x] = inPath[d] THEN y ELSE routes[x]]
      /\ due' = Astray(d, y)
      /\ UNCHANGED <<outPath, inValue, mirror, learning, loop, wire, routed>>
  BY DEF RenameIn, NotLearned, FreeIn, sender
<1>2. inPath \in [In -> InPath \cup {Nobody}] /\ y # Nobody /\ due \in [In -> Value \cup {Nobody}]
      /\ routed \in [Out -> In \cup {Nobody}] /\ Distinct(inPath)
  BY Names DEF IInv, TypeOK, InputsOK, AnyPath
<1>3. inPath'[d] = y /\ \A e \in In : e # d => inPath'[e] = inPath[e] /\ inPath[e] # inPath[d]
  BY <1>1, <1>2 DEF Distinct
<1>4. InputsOK'
  <2>1. Distinct(inPath')
    BY <1>1, <1>2 DEF Distinct
  <2>2. learning # Nobody => \E e \in In : inPath'[e] = learning
    <3>1. learning # Nobody => \E e \in In : inPath[e] = learning
      BY DEF IInv, InputsOK
    <3> QED BY <1>1, <1>3, <3>1
  <2> QED BY <1>1, <2>1, <2>2 DEF InputsOK
<1>5. RemovalsOK' /\ PastOK'
  <2>1. ASSUME NEW p \in Paths, Knows(p)
        PROVE  Knows(p)'
    <3>1. OutPath \subseteq AnyPath
      BY DEF AnyPath
    <3>2. ASSUME NEW s \in Out, routed[s] # Nobody
          PROVE  p[s] # Nobody /\ inPath'[routed[s]] # Nobody /\ routes'[p[s]] = inPath'[routed[s]]
      <4>1. /\ p[s] # Nobody /\ inPath[routed[s]] # Nobody /\ routes[p[s]] = inPath[routed[s]]
        BY <2>1, <3>2 DEF Knows
      <4>2. p[s] \in AnyPath /\ routed[s] \in In
        BY <1>2, <3>1, <3>2, <4>1 DEF Paths
      <4> QED BY <1>1, <1>2, <1>3, <4>1, <4>2
    <3>3. ASSUME NEW x \in OutPath, routes'[x] # Nobody
          PROVE  \E s \in Out : p[s] = x /\ routed[s] # Nobody
      <4>1. routes[x] # Nobody
        BY <1>1, <3>1, <3>3
      <4> QED BY <2>1, <4>1 DEF Knows
    <3> QED BY <1>1, <2>1, <3>2, <3>3 DEF Knows
  <2> QED BY <1>1, <2>1, LocalKeeps
<1>6. ValuesOK'
  <2>1. ASSUME NEW e \in In, inPath'[e] # Nobody, due'[e] # Nobody
        PROVE  EndsWith(loop, inPath'[e], inValue[e], due'[e])
    <3>1. CASE e = d
      <4>1. \A k \in DOMAIN loop : loop[k].path \notin {inPath[d], y}
        BY <1>1, <1>2, <2>1, <3>1 DEF Astray
      <4>2. due' = due /\ \A k \in 1..Len(loop) : loop[k].path # inPath[d] /\ loop[k].path # y
        BY <1>1, <4>1 DEF Astray, IInv, TypeOK
      <4>3. EndsWith(loop, inPath[d], inValue[d], due[d])
        BY <1>1, <2>1, <3>1, <4>2 DEF IInv, ValuesOK
      <4>4. inValue[d] = due[d]
        BY <4>2, <4>3 DEF EndsWith
      <4> QED BY <1>3, <3>1, <4>2, <4>4 DEF EndsWith
    <3>2. CASE e # d
      <4>1. due'[e] = due[e]
        BY <1>1, <1>2, <3>2 DEF Astray
      <4> QED BY <1>3, <2>1, <3>2, <4>1 DEF IInv, ValuesOK
    <3> QED BY <3>1, <3>2
  <2> QED BY <1>1, <2>1 DEF ValuesOK
<1> QED BY <1>4, <1>5, <1>6

LEMMA DeleteInKeeps ==
  ASSUME Options = {}, IInv, NEW d \in In, DeleteIn(d)
  PROVE  InputsOK' /\ RemovalsOK' /\ PastOK' /\ ValuesOK'
<1>1. /\ inPath[d] # Nobody /\ learning # inPath[d] /\ \A s \in Out : routed[s] # d
      /\ inPath' = [inPath EXCEPT ![d] = Nobody]
      /\ routed' = [s \in Out |-> IF routed[s] = d THEN Nobody ELSE routed[s]]
      /\ UNCHANGED <<outPath, inValue, mirror, routes, learning, loop, wire, due>>
  BY DEF DeleteIn, NotLearned, sender
<1>2. inPath \in [In -> InPath \cup {Nobody}] /\ routed \in [Out -> In \cup {Nobody}] /\ Distinct(inPath)
  BY DEF IInv, TypeOK, InputsOK
<1>3. inPath'[d] = Nobody /\ \A e \in In : e # d => inPath'[e] = inPath[e]
  BY <1>1, <1>2
<1>4. \A s \in Out : routed'[s] = routed[s]
  BY <1>1
<1>5. InputsOK'
  <2>1. Distinct(inPath')
    BY <1>1, <1>2 DEF Distinct
  <2>2. learning # Nobody => \E e \in In : inPath'[e] = learning
    <3>1. learning # Nobody => \E e \in In : inPath[e] = learning
      BY DEF IInv, InputsOK
    <3> QED BY <1>1, <1>3, <3>1
  <2> QED BY <1>1, <2>1, <2>2 DEF InputsOK
<1>6. RemovalsOK' /\ PastOK'
  <2>1. ASSUME NEW p \in Paths, Knows(p)
        PROVE  Knows(p)'
    <3>1. \A s \in Out : routed[s] # Nobody => inPath'[routed[s]] = inPath[routed[s]]
      BY <1>1, <1>2, <1>3
    <3> QED BY <1>1, <1>4, <2>1, <3>1 DEF Knows
  <2> QED BY <1>1, <1>4, <2>1, LocalKeeps
<1>7. ValuesOK'
  BY <1>1, <1>3 DEF IInv, ValuesOK
<1> QED BY <1>5, <1>6, <1>7

LEMMA LearnKeeps ==
  ASSUME Options = {}, IInv, NEW d \in In, Learn(d)
  PROVE  InputsOK' /\ RemovalsOK' /\ PastOK' /\ ValuesOK'
<1>1. /\ learning' = inPath[d]
      /\ UNCHANGED <<outPath, inPath, inValue, mirror, routes, loop, wire, routed, due>>
  BY DEF Learn, sender, history
<1>2. InputsOK' /\ ValuesOK'
  BY <1>1 DEF IInv, InputsOK, ValuesOK
<1>3. \A p \in Paths : Knows(p) => Knows(p)'
  BY <1>1 DEF Knows
<1>4. RemovalsOK' /\ PastOK'
  BY <1>1, <1>3, LocalKeeps
<1> QED BY <1>2, <1>4

-----------------------------------------------------------------------------
(* The invariant *)

LEMMA InitIInv == Options = {} /\ Init => IInv
<1> SUFFICES ASSUME Options = {}, Init
             PROVE  IInv
  OBVIOUS
<1>1. TypeOK /\ WireOK
  BY InitTypes
<1>2. /\ outPath \in [Out -> OutPath] /\ \A s, t \in Out : outPath[s] = outPath[t] => s = t
      /\ inPath \in [In -> InPath] /\ \A d, e \in In : inPath[d] = inPath[e] => d = e
      /\ mirror = OutPath \cap {outPath[s] : s \in Out}
      /\ routes = [x \in AnyPath |-> Nobody] /\ learning = Nobody
      /\ wire = <<>> /\ loop = <<>>
      /\ inValue = [d \in In |-> Default]
      /\ routed = [s \in Out |-> Nobody] /\ due = [d \in In |-> Default]
  BY DEF Init
<1>3. InputsOK
  BY <1>2 DEF InputsOK, Distinct
<1>4. RemovalsOK
  BY <1>2 DEF RemovalsOK
<1>5. PastOK
  <2>1. outPath \in Paths /\ Distinct(outPath)
    BY <1>2 DEF Paths, Distinct
  <2>2. IsPast(<<outPath>>, wire, outPath)
    <3>1. Len(wire) = 0 /\ Len(<<outPath>>) = 1 /\ <<outPath>>[1] = outPath
          /\ <<outPath>> \in Seq(Paths)
      BY <1>2, <2>1
    <3> QED BY <2>1, <3>1 DEF IsPast
  <2>3. Knows(outPath)
    <3>1. mirror = {outPath[s] : s \in Out} \ {Nobody}
      BY <1>2, Names DEF AnyPath
    <3>2. OutPath \subseteq AnyPath
      BY DEF AnyPath
    <3> QED BY <1>2, <3>1, <3>2 DEF Knows
  <2> QED BY <2>2, <2>3 DEF PastOK
<1>6. ValuesOK
  BY <1>2 DEF ValuesOK, EndsWith
<1> QED BY <1>1, <1>3, <1>4, <1>5, <1>6 DEF IInv

LEMMA NextIInv == Options = {} /\ IInv /\ [Next]_vars => IInv'
<1> SUFFICES ASSUME Options = {}, IInv, [Next]_vars
             PROVE  IInv'
  OBVIOUS
<1>1. TypeOK' /\ WireOK'
  BY NextTypes DEF IInv
<1>2. CASE SenderStep
  BY <1>1, <1>2, SenderKeeps DEF SenderStep, IInv
<1>3. CASE ReceiverStep
  BY <1>1, <1>3, RenameInKeeps, DeleteInKeeps, LearnKeeps DEF ReceiverStep, IInv
<1>4. CASE Receive
  <2>1. InputsOK' /\ RemovalsOK' /\ PastOK' /\ ValuesOK'
    BY <1>4, CreatedKeeps, RenamedKeeps, ConnectKeeps, LearnedKeeps, ValueKeeps, TranslatedKeeps
       DEF Receive
  <2> QED BY <1>1, <2>1 DEF IInv
<1>5. CASE UNCHANGED vars
  <2>1. /\ UNCHANGED <<outPath, inPath, inValue, mirror, routes, learning, loop, wire, routed, due>>
    BY <1>5 DEF vars, sender, receiver, history
  <2>2. InputsOK' /\ ValuesOK'
    BY <2>1 DEF IInv, InputsOK, ValuesOK
  <2>3. \A p \in Paths : Knows(p) => Knows(p)'
    BY <2>1 DEF Knows
  <2>4. RemovalsOK' /\ PastOK'
    BY <2>1, <2>3, LocalKeeps
  <2> QED BY <1>1, <2>2, <2>4 DEF IInv
<1> QED BY <1>2, <1>3, <1>4, <1>5 DEF Next

LEMMA Invariance == Options = {} => (Spec => []IInv)
<1> SUFFICES ASSUME Options = {}
             PROVE  Spec => []IInv
  OBVIOUS
<1>1. Init => IInv
  BY InitIInv
<1>2. IInv /\ [Next]_vars => IInv'
  BY NextIInv
<1> QED BY <1>1, <1>2, PTL DEF Spec

-----------------------------------------------------------------------------
(* What follows *)

(* _translations: osc_sig_connect(), osc_sig_disconnect(), osc_sig_renamed(),        *)
(* rename_translation_source() and rename_translation_destination(), learn() and     *)
(* osc_generic(), in a program that does none of what Options allows: when the       *)
(* notices of the sender have been handled, the routes are those of the signals.     *)
THEOREM RoutesAreThoseOfSignals == Options = {} => (Spec => []RoutesFollowSignals)
<1> SUFFICES ASSUME Options = {}
             PROVE  Spec => []RoutesFollowSignals
  OBVIOUS
<1>1. ASSUME IInv
      PROVE  RoutesFollowSignals
  <2>1. SUFFICES ASSUME wire = <<>>, NEW x \in OutPath
                 PROVE  Wanted(x) = IF Route(x) = Nobody THEN {} ELSE {Route(x)}
    BY DEF RoutesFollowSignals
  <2>2. PICK past : IsPast(past, wire, outPath) /\ Knows(past[1])
    BY <1>1 DEF IInv, PastOK
  <2>3. past[1] = outPath /\ Len(past) = 1
    BY <2>1, <2>2 DEF IsPast
  <2>4. Knows(outPath) /\ Distinct(outPath) /\ outPath \in [Out -> OutPath \cup {Nobody}] /\ x # Nobody
    BY <1>1, <2>2, <2>3, Names DEF IsPast, IInv, TypeOK, AnyPath
  <2>5. CASE Route(x) = Nobody
    <3>1. \A t \in Out : outPath[t] = x => routed[t] = Nobody
      BY <2>4, <2>5 DEF Knows, Route
    <3> QED BY <2>5, <3>1 DEF Wanted
  <2>6. CASE Route(x) # Nobody
    <3>1. PICK s \in Out : outPath[s] = x /\ routed[s] # Nobody
      BY <2>4, <2>6 DEF Knows, Route
    <3>2. inPath[routed[s]] = Route(x)
      BY <2>4, <3>1 DEF Knows, Route
    <3>3. \A t \in Out : outPath[t] = x => t = s
      BY <2>4, <3>1 DEF Distinct
    <3>4. {t \in Out : outPath[t] = x /\ routed[t] # Nobody} = {s}
      BY <3>1, <3>3
    <3> QED BY <2>6, <3>2, <3>4 DEF Wanted
  <2> QED BY <2>5, <2>6
<1> QED BY <1>1, Invariance, PTL

(* osc_generic(), osc_sig_handler(): in such a program an input ends with the last   *)
(* value that was sent to it, though each value passes through two queues.           *)
THEOREM LastValueStays == Options = {} => (Spec => []ValuesReachTheirInput)
<1> SUFFICES ASSUME Options = {}
             PROVE  Spec => []ValuesReachTheirInput
  OBVIOUS
<1>1. ASSUME IInv
      PROVE  ValuesReachTheirInput
  <2>1. SUFFICES ASSUME loop = <<>>, NEW d \in In, inPath[d] # Nobody, due[d] # Nobody
                 PROVE  inValue[d] = due[d]
    BY DEF ValuesReachTheirInput
  <2>2. EndsWith(loop, inPath[d], inValue[d], due[d])
    BY <1>1, <2>1 DEF IInv, ValuesOK
  <2> QED BY <2>1, <2>2 DEF EndsWith
<1> QED BY <1>1, Invariance, PTL
=============================================================================
