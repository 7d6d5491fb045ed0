---------------------------- MODULE JournalProof ----------------------------
(***************************************************************************)
(* What the journal keeps to, and that it implements UndoStore: for every    *)
(* set of states, every number of ids and lines, and every choice of the     *)
(* environment's options, but for undo().  Undo is right where the program   *)
(* does not save in the middle of a session and does not compact an empty    *)
(* project, the two ways in which Loggable.C loses its undo index.           *)
(***************************************************************************)
EXTENDS JournalUndo, TLAPS, SequenceTheorems, FiniteSetTheorems

-----------------------------------------------------------------------------
(* Histories: runs of lines can be put one after the other, cut and framed. *)

LEMMA Singleton ==
  ASSUME NEW S, NEW x \in S
  PROVE  <<x>> \in Seq(S)
OBVIOUS

LEMMA ConcatIndex ==
  ASSUME NEW S, NEW p \in Seq(S), NEW q \in Seq(S)
  PROVE  /\ p \o q \in Seq(S)
         /\ Len(p) \in Nat /\ Len(q) \in Nat /\ Len(p \o q) = Len(p) + Len(q)
         /\ \A k \in 1..Len(p) : (p \o q)[k] = p[k]
         /\ \A k \in 1..Len(q) : (p \o q)[Len(p) + k] = q[k]
OBVIOUS

LEMMA PrefixIndex ==
  ASSUME NEW S, NEW p \in Seq(S), NEW n \in 0..Len(p)
  PROVE  /\ SubSeq(p, 1, n) \in Seq(S) /\ Len(SubSeq(p, 1, n)) = n
         /\ Len(p) \in Nat
         /\ \A k \in 1..n : SubSeq(p, 1, n)[k] = p[k]
OBVIOUS

LEMMA AfterState ==
  ASSUME NEW s \in State, NEW h \in Seq(State)
  PROVE  After(s, h) \in State
BY DEF After

LEMMA LinkedEmpty ==
  ASSUME NEW s
  PROVE  Linked(s, <<>>, <<>>) /\ After(s, <<>>) = s
BY DEF Linked, After

(* A run followed by a run that starts where the first ends is a run. *)
LEMMA LinkedConcat ==
  ASSUME NEW s \in State, NEW p \in Seq(Line), NEW g \in Seq(State),
         NEW q \in Seq(Line), NEW h \in Seq(State),
         Linked(s, p, g), Linked(After(s, g), q, h)
  PROVE  /\ Linked(s, p \o q, g \o h)
         /\ After(s, g \o h) = After(After(s, g), h)
<1>1. Len(g) = Len(p) /\ Len(h) = Len(q)
  BY DEF Linked
<1>2. Len(p \o q) = Len(p) + Len(q) /\ Len(g \o h) = Len(g) + Len(h)
  OBVIOUS
<1>3. After(s, g \o h) = After(After(s, g), h)
  <2>1. CASE h = <<>>
    BY <2>1 DEF After
  <2>2. CASE h # <<>>
    <3>1. Len(h) > 0 /\ g \o h # <<>>
      BY <2>2
    <3>2. (g \o h)[Len(g) + Len(h)] = h[Len(h)]
      BY <3>1
    <3> QED BY <3>1, <3>2, <2>2, <1>2 DEF After
  <2> QED BY <2>1, <2>2
<1>4. ASSUME NEW k \in 1..Len(p \o q)
      PROVE  LineStep(IF k = 1 THEN s ELSE (g \o h)[k - 1], (p \o q)[k], (g \o h)[k])
  <2>1. CASE k <= Len(p)
    <3>1. (p \o q)[k] = p[k] /\ (g \o h)[k] = g[k] /\ (k # 1 => (g \o h)[k - 1] = g[k - 1])
      BY <1>1, <1>2, <2>1
    <3> QED BY <3>1, <2>1, <1>2 DEF Linked
  <2>2. CASE k > Len(p)
    <3> DEFINE m == k - Len(p)
    <3>1. m \in 1..Len(q)
      BY <1>2, <2>2
    <3>2. (p \o q)[k] = q[m] /\ (g \o h)[k] = h[m]
      BY <1>1, <1>2, <2>2, <3>1
    <3>3. LineStep(IF m = 1 THEN After(s, g) ELSE h[m - 1], q[m], h[m])
      BY <3>1 DEF Linked
    <3>4. (IF k = 1 THEN s ELSE (g \o h)[k - 1]) = (IF m = 1 THEN After(s, g) ELSE h[m - 1])
      <4>1. CASE m = 1 /\ Len(g) = 0
        BY <4>1, <1>1 DEF After
      <4>2. CASE m = 1 /\ Len(g) > 0
        BY <4>2, <1>1, <1>2, <2>2 DEF After
      <4>3. CASE m # 1
        BY <4>3, <1>1, <1>2, <3>1, <2>2
      <4>4. Len(g) = 0 \/ Len(g) > 0
        OBVIOUS
      <4> QED BY <4>1, <4>2, <4>3, <4>4
    <3> QED BY <3>2, <3>3, <3>4
  <2>3. k <= Len(p) \/ k > Len(p)
    OBVIOUS
  <2> QED BY <2>1, <2>2, <2>3
<1> QED BY <1>1, <1>2, <1>3, <1>4 DEF Linked

(* One more line, if it says what happened. *)
LEMMA LinkedAppend ==
  ASSUME NEW s \in State, NEW p \in Seq(Line), NEW h \in Seq(State),
         NEW l \in Line, NEW t \in State,
         Linked(s, p, h), LineStep(After(s, h), l, t)
  PROVE  Linked(s, Append(p, l), Append(h, t)) /\ After(s, Append(h, t)) = t
<1>1. Len(h) = Len(p)
  BY DEF Linked
<1>2. After(s, Append(h, t)) = t
  <2>1. Append(h, t) # <<>> /\ Append(h, t)[Len(Append(h, t))] = t
    OBVIOUS
  <2> QED BY <2>1 DEF After
<1>3. ASSUME NEW k \in 1..Len(Append(p, l))
      PROVE  LineStep(IF k = 1 THEN s ELSE Append(h, t)[k - 1], Append(p, l)[k], Append(h, t)[k])
  <2>1. CASE k <= Len(p)
    BY <2>1, <1>1 DEF Linked
  <2>2. CASE k = Len(p) + 1
    <3>1. (IF k = 1 THEN s ELSE Append(h, t)[k - 1]) = After(s, h)
      BY <2>2, <1>1 DEF After
    <3>2. Append(p, l)[k] = l /\ Append(h, t)[k] = t
      BY <2>2, <1>1
    <3> QED BY <3>1, <3>2
  <2>3. k <= Len(p) \/ k = Len(p) + 1
    OBVIOUS
  <2> QED BY <2>1, <2>2, <2>3
<1> QED BY <1>1, <1>2, <1>3 DEF Linked

(* A prefix of a run is a run: what a torn write leaves. *)
LEMMA LinkedPrefix ==
  ASSUME NEW s \in State, NEW p \in Seq(Line), NEW h \in Seq(State),
         Linked(s, p, h), NEW n \in 0..Len(p)
  PROVE  Linked(s, SubSeq(p, 1, n), SubSeq(h, 1, n))
<1>1. Len(h) = Len(p)
  BY DEF Linked
<1>2. Len(SubSeq(p, 1, n)) = n /\ Len(SubSeq(h, 1, n)) = n
  BY <1>1
<1>3. ASSUME NEW k \in 1..n
      PROVE  LineStep(IF k = 1 THEN s ELSE SubSeq(h, 1, n)[k - 1], SubSeq(p, 1, n)[k], SubSeq(h, 1, n)[k])
  <2>1. SubSeq(p, 1, n)[k] = p[k] /\ SubSeq(h, 1, n)[k] = h[k]
    BY <1>1
  <2>2. k # 1 => SubSeq(h, 1, n)[k - 1] = h[k - 1]
    BY <1>1
  <2>3. LineStep(IF k = 1 THEN s ELSE h[k - 1], p[k], h[k])
    BY DEF Linked
  <2> QED BY <2>1, <2>2, <2>3
<1> QED BY <1>2, <1>3 DEF Linked

LEMMA BraceLineType ==
  /\ BraceLine("begin") \in Line /\ BraceLine("end") \in Line
  /\ \A s : LineStep(s, BraceLine("begin"), s) /\ LineStep(s, BraceLine("end"), s)
BY JournalAssumption DEF BraceLine, Line, LineStep, IsMarker

(* The braces of flush() change no state. *)
LEMMA FramedLinked ==
  ASSUME NEW s \in State, NEW p \in Seq(Line), NEW h \in Seq(State), Linked(s, p, h)
  PROVE  /\ Framed(p) \in Seq(Line) /\ FramedStates(s, h) \in Seq(State)
         /\ Linked(s, Framed(p), FramedStates(s, h))
         /\ After(s, FramedStates(s, h)) = After(s, h)
         /\ (p # <<>> => Framed(p) # <<>>) /\ (p = <<>> => Framed(p) = <<>>)
<1>1. Len(h) = Len(p)
  BY DEF Linked
<1>2. CASE ~(Len(p) > 1)
  <2>1. Framed(p) = p /\ FramedStates(s, h) = h
    BY <1>1, <1>2 DEF Framed, FramedStates
  <2> QED BY <2>1
<1>3. CASE Len(p) > 1
  <2> DEFINE b == <<BraceLine("begin")>>
             e == <<BraceLine("end")>>
             z == h[Len(h)]
  <2>0. Len(h) \in 1..Len(h)
    BY <1>1, <1>3
  <2>1. b \in Seq(Line) /\ e \in Seq(Line)
    <3>1. BraceLine("begin") \in Line /\ BraceLine("end") \in Line
      BY BraceLineType
    <3> QED BY <3>1, Singleton
  <2>2. z \in State
    BY <2>0
  <2>3. <<s>> \in Seq(State) /\ <<z>> \in Seq(State)
    BY <2>2
  <2>4. ASSUME NEW t \in State
        PROVE  /\ Linked(t, b, <<t>>) /\ Linked(t, e, <<t>>)
               /\ After(t, <<t>>) = t
    <3>1. <<t>>[1] = t /\ Len(<<t>>) = 1 /\ <<t>> # <<>>
      OBVIOUS
    <3>2. b[1] = BraceLine("begin") /\ Len(b) = 1 /\ e[1] = BraceLine("end") /\ Len(e) = 1
      OBVIOUS
    <3>3. LineStep(t, BraceLine("begin"), t) /\ LineStep(t, BraceLine("end"), t)
      BY BraceLineType
    <3>4. \A k \in 1..1 : k = 1
      OBVIOUS
    <3> HIDE DEF b, e
    <3> QED BY <3>1, <3>2, <3>3, <3>4 DEF Linked, After
  <2>5. After(s, h) = z
    <3>1. h # <<>>
      BY <2>0
    <3> QED BY <3>1 DEF After
  <2> HIDE DEF b, e, z
  <2>6. /\ Linked(s, b \o p, <<s>> \o h)
        /\ After(s, <<s>> \o h) = z
    <3>1. Linked(s, b, <<s>>) /\ After(s, <<s>>) = s
      BY <2>4
    <3>2. Linked(After(s, <<s>>), p, h)
      BY <3>1
    <3> DEFINE c == <<s>>
    <3>3. c \in Seq(State) /\ b \in Seq(Line)
      BY <2>1, <2>3
    <3>4. Linked(s, b, c) /\ Linked(After(s, c), p, h)
      BY <3>1, <3>2
    <3> HIDE DEF c
    <3>5. /\ Linked(s, b \o p, c \o h)
          /\ After(s, c \o h) = After(After(s, c), h)
      BY <3>3, <3>4, LinkedConcat
    <3> QED BY <3>1, <3>5, <2>5 DEF c
  <2>7. b \o p \in Seq(Line) /\ <<s>> \o h \in Seq(State)
    BY <2>1, <2>3
  <2>8. /\ Linked(s, (b \o p) \o e, (<<s>> \o h) \o <<z>>)
        /\ After(s, (<<s>> \o h) \o <<z>>) = z
    <3>1. Linked(z, e, <<z>>) /\ After(z, <<z>>) = z
      BY <2>2, <2>4
    <3> DEFINE f == b \o p
               g == <<s>> \o h
               x == <<z>>
    <3>2. Linked(s, f, g) /\ After(s, g) = z /\ f \in Seq(Line) /\ g \in Seq(State)
      BY <2>6, <2>7
    <3>3. Linked(z, e, x) /\ After(z, x) = z /\ x \in Seq(State)
      BY <2>3, <3>1
    <3> HIDE DEF f, g, x
    <3>4. Linked(After(s, g), e, x)
      BY <3>2, <3>3
    <3>5. /\ Linked(s, f \o e, g \o x)
          /\ After(s, g \o x) = After(After(s, g), x)
      BY <2>1, <3>2, <3>3, <3>4, LinkedConcat
    <3>6. After(s, g \o x) = z
      BY <3>2, <3>3, <3>5
    <3> QED BY <3>5, <3>6 DEF f, g, x
  <2>9. Framed(p) = (b \o p) \o e /\ FramedStates(s, h) = (<<s>> \o h) \o <<z>>
    <3>1. /\ Framed(p) = b \o p \o e
          /\ FramedStates(s, h) = <<s>> \o h \o <<z>>
      BY <1>1, <1>3 DEF Framed, FramedStates, b, e, z
    <3> QED BY <3>1
  <2>10. (b \o p) \o e \in Seq(Line) /\ (<<s>> \o h) \o <<z>> \in Seq(State)
    BY <2>1, <2>3, <2>7
  <2>11. (b \o p) \o e # <<>> /\ p # <<>>
    <3>1. Len((b \o p) \o e) = Len(b) + Len(p) + Len(e)
      BY <2>1, <2>7
    <3> QED BY <3>1, <1>3, <2>1
  <2> QED BY <2>5, <2>8, <2>9, <2>10, <2>11
<1> QED BY <1>2, <1>3

-----------------------------------------------------------------------------
(* The inductive invariant *)

(* No closing brace without an opening one before it. *)
Opened(p) ==
  \A k \in 1..Len(p) : p[k].op = "end" => \E j \in 1..k - 1 : p[j].op = "begin"

NoMarkers(p) == \A k \in 1..Len(p) : ~IsMarker(p[k])

(* The state at the end of the journal and of the transaction under way. *)
End == After(At(Len(file)), phist)

(* the journal on disk and in the queue *)
StorageOK ==
  /\ file \in Seq(Line) /\ pending \in Seq(Line)
  /\ hist \in Seq(State) /\ phist \in Seq(State)
  /\ JournalIsBidirectional
  /\ Opened(file) /\ NoMarkers(pending)
  /\ pos \in 0..Len(file)
  /\ undoOff \in Nat /\ snapNewer \in BOOLEAN

(* the objects and the table of ids *)
ObjectsOK ==
  /\ mode \in {"closed", "replay", "load", "open", "undo", "aborted"}
  /\ obj \in State /\ old \in State /\ snap \in State /\ saved \in State
  /\ {unj, mem, unjFile} \subseteq [Id -> 0..MaxBirths]
  /\ nest \in [Id -> Nat]
  /\ logId \in Nat /\ level \in Nat
  /\ births \in 0..MaxBirths /\ tuned \subseteq Birth
  /\ dirty \in BOOLEAN
  /\ IdsAreFresh

(* an object under edit exists, and stays the same object *)
EditsOK ==
  /\ \A i \in Id : nest[i] > 0 <=> old[i] # Nil
  /\ \A i \in Id : nest[i] > 0 => obj[i] # Nil /\ obj[i].born = old[i].born
  /\ mode \in {"closed", "replay", "load", "undo"} => \A i \in Id : nest[i] = 0

(* what each mode says of the other variables *)
ModeOK ==
  /\ mode \in {"closed", "replay", "load"} => level = 0
  /\ mode = "undo" => level = 1
  /\ mode # "aborted" /\ level = 0 => pending = <<>>
  /\ mode = "closed" => obj = Empty
  /\ mode = "replay" => obj = At(pos)
  /\ mode = "load" => snapNewer /\ \A i \in Id : obj[i] \in {Nil, snap[i]}
  /\ mode \in {"open", "undo"} => End = Logged
  /\ snapNewer => snap = At(Len(file))

(* undo() reads lines that exist, and finds the brace it looks for *)
UndoOK ==
  mode = "undo" =>
    /\ undoOff \in 1..Len(file)
    /\ IF UndoesBlock
       THEN pos < undoOff /\ \E j \in 1..pos : file[j].op = "begin"
       ELSE pos \in {undoOff - 1, undoOff}

IInv == StorageOK /\ ObjectsOK /\ EditsOK /\ ModeOK /\ UndoOK

-----------------------------------------------------------------------------
(* Writing keeps the journal a history. *)

LEMMA AtEnd ==
  ASSUME StorageOK
  PROVE  /\ Len(hist) = Len(file)
         /\ At(Len(file)) = After(Empty, hist)
         /\ At(Len(file)) \in State /\ End \in State
         /\ Empty \in State
<1>1. Len(hist) = Len(file)
  BY DEF StorageOK, JournalIsBidirectional, Linked
<1>2. Empty \in State
  BY DEF Empty, State
<1>3. At(Len(file)) = After(Empty, hist)
  <2>1. hist = <<>> <=> Len(hist) = 0
    BY DEF StorageOK
  <2> QED BY <1>1, <2>1 DEF At, After
<1>4. At(Len(file)) \in State
  BY <1>2, <1>3, AfterState DEF StorageOK
<1>5. End \in State
  BY <1>4, AfterState DEF StorageOK, End
<1> QED BY <1>1, <1>2, <1>3, <1>4, <1>5

LEMMA FramedOpened ==
  ASSUME NEW p \in Seq(Line), NoMarkers(p)
  PROVE  Opened(Framed(p))
<1>1. CASE ~(Len(p) > 1)
  BY <1>1 DEF Framed, Opened, NoMarkers, IsMarker
<1>2. CASE Len(p) > 1
  <2> DEFINE b == <<BraceLine("begin")>>
             e == <<BraceLine("end")>>
             q == b \o p \o e
  <2>1. Framed(p) = q
    BY <1>2 DEF Framed
  <2>2. b \in Seq(Line) /\ e \in Seq(Line) /\ Len(b) = 1 /\ Len(e) = 1
    BY BraceLineType, Singleton
  <2>3. b[1].op = "begin"
    BY DEF BraceLine
  <2> HIDE DEF b, e
  <2> DEFINE r == b \o p
  <2>4. /\ r \in Seq(Line) /\ Len(r) = Len(p) + 1 /\ r[1] = b[1]
    BY <2>2, ConcatIndex
  <2> HIDE DEF r
  <2>5. /\ Len(r \o e) = Len(r) + 1
        /\ (r \o e)[1] = r[1] /\ Len(r) \in Nat
    <3>1. 1 \in 1..Len(r) /\ r \in Seq(Line) /\ e \in Seq(Line) /\ Len(e) = 1
      BY <2>2, <2>4
    <3>2. /\ Len(r \o e) = Len(r) + Len(e) /\ Len(r) \in Nat
          /\ \A k \in 1..Len(r) : (r \o e)[k] = r[k]
      BY <3>1, ConcatIndex
    <3> QED BY <3>1, <3>2
  <2>6. q = r \o e
    BY DEF r
  <2> HIDE DEF q
  <2>7. q[1].op = "begin"
    BY <2>3, <2>4, <2>5, <2>6
  <2>8. ASSUME NEW k \in 1..Len(q), q[k].op = "end"
        PROVE  \E j \in 1..k - 1 : q[j].op = "begin"
    <3>1. k # 1
      BY <2>7, <2>8
    <3>2. 1 \in 1..k - 1
      BY <2>4, <2>5, <2>6, <3>1
    <3> QED BY <3>2, <2>7
  <2> QED BY <2>1, <2>8 DEF Opened
<1> QED BY <1>1, <1>2

LEMMA OpenedConcat ==
  ASSUME NEW p \in Seq(Line), NEW q \in Seq(Line), Opened(p), Opened(q)
  PROVE  Opened(p \o q)
<1>1. ASSUME NEW k \in 1..Len(p \o q), (p \o q)[k].op = "end"
      PROVE  \E j \in 1..k - 1 : (p \o q)[j].op = "begin"
  <2>1. CASE k <= Len(p)
    <3>1. k \in 1..Len(p) /\ (p \o q)[k] = p[k]
      BY <2>1
    <3>2. PICK j \in 1..k - 1 : p[j].op = "begin"
      BY <1>1, <3>1 DEF Opened
    <3>3. j \in 1..Len(p)
      BY <3>1, <3>2
    <3>4. (p \o q)[j] = p[j]
      BY <3>3, ConcatIndex
    <3> QED BY <3>2, <3>4
  <2>2. CASE k > Len(p)
    <3> DEFINE m == k - Len(p)
    <3>1. m \in 1..Len(q) /\ (p \o q)[k] = q[m]
      BY <2>2
    <3> HIDE DEF m
    <3>2. PICK j \in 1..m - 1 : q[j].op = "begin"
      BY <1>1, <3>1 DEF Opened
    <3>3. j \in 1..Len(q) /\ Len(p) + j \in 1..k - 1
      BY <3>1, <3>2 DEF m
    <3>4. (p \o q)[Len(p) + j] = q[j]
      BY <3>3, ConcatIndex
    <3> QED BY <3>2, <3>3, <3>4
  <2>3. k <= Len(p) \/ k > Len(p)
    OBVIOUS
  <2> QED BY <2>1, <2>2, <2>3
<1> QED BY <1>1 DEF Opened

LEMMA OpenedPrefix ==
  ASSUME NEW p \in Seq(Line), Opened(p), NEW n \in 0..Len(p)
  PROVE  Opened(SubSeq(p, 1, n))
<1> DEFINE q == SubSeq(p, 1, n)
<1>1. Len(q) = n /\ Len(p) \in Nat /\ \A k \in 1..n : q[k] = p[k]
  BY PrefixIndex
<1> HIDE DEF q
<1>2. ASSUME NEW k \in 1..n, q[k].op = "end"
      PROVE  \E j \in 1..k - 1 : q[j].op = "begin"
  <2>1. k \in 1..Len(p) /\ p[k].op = "end"
    BY <1>1, <1>2
  <2>2. PICK j \in 1..k - 1 : p[j].op = "begin"
    BY <2>1 DEF Opened
  <2>3. j \in 1..n
    BY <2>2
  <2>4. q[j] = p[j]
    BY <1>1, <2>3
  <2> QED BY <2>2, <2>4
<1>3. Opened(q)
  BY <1>1, <1>2 DEF Opened
<1> QED BY <1>3 DEF q

(* The journal on disk grows by lines that continue its history. *)
LEMMA Grow ==
  ASSUME StorageOK,
         NEW p \in Seq(Line), NEW h \in Seq(State),
         Linked(At(Len(file)), p, h), Opened(p),
         file' = file \o p, hist' = hist \o h
  PROVE  /\ file' \in Seq(Line) /\ hist' \in Seq(State)
         /\ Linked(Empty, file', hist')
         /\ At(Len(file))' = After(At(Len(file)), h)
         /\ Opened(file')
         /\ Len(file) \in Nat /\ Len(file') \in Nat /\ Len(file') >= Len(file)
         /\ \A k \in 0..Len(file) : At(k)' = At(k)
         /\ \A k \in 1..Len(file) : file'[k] = file[k]
<1>1. /\ Len(hist) = Len(file) /\ At(Len(file)) = After(Empty, hist)
      /\ Empty \in State
  BY AtEnd
<1>2. file \in Seq(Line) /\ hist \in Seq(State) /\ Linked(Empty, file, hist) /\ Opened(file)
  BY DEF StorageOK, JournalIsBidirectional
<1>3. /\ Linked(Empty, file \o p, hist \o h)
      /\ After(Empty, hist \o h) = After(After(Empty, hist), h)
  BY <1>1, <1>2, LinkedConcat
<1>4. Opened(file \o p)
  BY <1>2, OpenedConcat
<1>5. /\ file \o p \in Seq(Line) /\ Len(file \o p) = Len(file) + Len(p)
      /\ Len(file) \in Nat /\ Len(p) \in Nat
      /\ \A k \in 1..Len(file) : (file \o p)[k] = file[k]
  BY <1>2, ConcatIndex
<1>6. /\ hist \o h \in Seq(State) /\ Len(hist \o h) = Len(hist) + Len(h)
      /\ \A k \in 1..Len(hist) : (hist \o h)[k] = hist[k]
  BY <1>2, ConcatIndex
<1>7. Len(h) = Len(p)
  BY DEF Linked
<1>8. At(Len(file))' = After(Empty, hist')
  <2>1. Len(file') = Len(hist') /\ hist' \in Seq(State)
    BY <1>1, <1>5, <1>6, <1>7
  <2>2. hist' = <<>> <=> Len(hist') = 0
    BY <2>1
  <2> QED BY <2>1, <2>2 DEF At, After, Empty
<1>9. \A k \in 0..Len(file) : At(k)' = At(k)
  BY <1>1, <1>6 DEF At, Empty
<1> QED BY <1>1, <1>3, <1>4, <1>5, <1>6, <1>8, <1>9

(* What a step that writes leaves behind. *)
Written ==
  /\ \A k \in 0..Len(file) : At(k)' = At(k)
  /\ \A k \in 1..Len(file) : file'[k] = file[k]
  /\ Len(file) \in Nat /\ Len(file') \in Nat /\ Len(file') >= Len(file)
  /\ snapNewer' => snapNewer /\ At(Len(file))' = At(Len(file))

LEMMA FlushWrites ==
  ASSUME StorageOK,
         NEW p \in Seq(Line), NEW h \in Seq(State), NEW at \in 0..Len(file),
         Linked(At(Len(file)), p, h), NoMarkers(p),
         Flush(p, h, at), undoOff' \in Nat
  PROVE  /\ StorageOK' /\ Written
         /\ pending' = <<>>
         /\ End' = After(At(Len(file)), h) /\ At(Len(file))' = After(At(Len(file)), h)
<1> DEFINE s == At(Len(file))
           q == Framed(p)
           g == FramedStates(s, h)
<1>1. s \in State
  BY AtEnd
<1>2. /\ q \in Seq(Line) /\ g \in Seq(State) /\ Linked(s, q, g)
      /\ After(s, g) = After(s, h) /\ (p = <<>> => q = <<>>)
  BY <1>1, FramedLinked
<1>3. Opened(q)
  BY FramedOpened
<1>4. /\ file' = file \o q /\ hist' = hist \o g /\ pending' = <<>> /\ phist' = <<>>
      /\ snapNewer' = (snapNewer /\ p = <<>>)
      /\ pos' = IF p = <<>> THEN at ELSE Len(file')
  BY DEF Flush
<1> HIDE DEF q, g
<1>5. /\ file' \in Seq(Line) /\ hist' \in Seq(State)
      /\ Linked(Empty, file', hist')
      /\ At(Len(file))' = After(s, g)
      /\ Opened(file')
      /\ Len(file) \in Nat /\ Len(file') \in Nat /\ Len(file') >= Len(file)
      /\ \A k \in 0..Len(file) : At(k)' = At(k)
      /\ \A k \in 1..Len(file) : file'[k] = file[k]
  BY <1>2, <1>3, <1>4, Grow
<1>6. JournalIsBidirectional'
  <2>1. Linked(At(Len(file))', <<>>, <<>>)
    BY LinkedEmpty
  <2> QED BY <1>4, <1>5, <2>1 DEF JournalIsBidirectional, Empty
<1>7. End' = At(Len(file))'
  BY <1>4, LinkedEmpty DEF End
<1>8. pos' \in 0..Len(file')
  BY <1>4, <1>5
<1>9. NoMarkers(pending') /\ pending' \in Seq(Line) /\ phist' \in Seq(State)
  BY <1>4 DEF NoMarkers
<1>10. snapNewer' \in BOOLEAN /\ (snapNewer' => snapNewer /\ p = <<>>)
  BY <1>4 DEF StorageOK
<1>11. p = <<>> => After(s, g) = s
  <2>1. p = <<>> => h = <<>>
    BY DEF Linked
  <2> QED BY <1>2, <2>1, LinkedEmpty
<1>12. StorageOK'
  BY <1>5, <1>6, <1>8, <1>9, <1>10 DEF StorageOK
<1>13. Written
  BY <1>5, <1>10, <1>11 DEF Written
<1> QED BY <1>2, <1>4, <1>5, <1>7, <1>12, <1>13

(* A line that says what happened continues the transaction. *)
LEMMA NextLine ==
  ASSUME StorageOK, NEW l \in Line, NEW s \in State,
         LineStep(End, l, s), ~IsMarker(l)
  PROVE  /\ Append(pending, l) \in Seq(Line) /\ Append(phist, s) \in Seq(State)
         /\ Linked(At(Len(file)), Append(pending, l), Append(phist, s))
         /\ After(At(Len(file)), Append(phist, s)) = s
         /\ NoMarkers(Append(pending, l)) /\ Append(pending, l) # <<>>
<1>1. At(Len(file)) \in State
  BY AtEnd
<1>2. /\ pending \in Seq(Line) /\ phist \in Seq(State)
      /\ Linked(At(Len(file)), pending, phist)
  BY DEF StorageOK, JournalIsBidirectional
<1>3. /\ Linked(At(Len(file)), Append(pending, l), Append(phist, s))
      /\ After(At(Len(file)), Append(phist, s)) = s
  BY <1>1, <1>2, LinkedAppend DEF End
<1> DEFINE q == Append(pending, l)
<1>4. /\ q \in Seq(Line) /\ Len(q) = Len(pending) + 1 /\ Len(pending) \in Nat
      /\ q[Len(pending) + 1] = l
      /\ \A k \in 1..Len(pending) : q[k] = pending[k]
  BY <1>2
<1>5. Append(phist, s) \in Seq(State)
  BY <1>2
<1> HIDE DEF q
<1>6. NoMarkers(q) /\ q # <<>>
  <2>1. \A k \in 1..Len(pending) + 1 : k \in 1..Len(pending) \/ k = Len(pending) + 1
    BY <1>4
  <2>2. \A k \in 1..Len(pending) : ~IsMarker(pending[k])
    BY DEF StorageOK, NoMarkers
  <2> QED BY <1>4, <2>1, <2>2 DEF NoMarkers
<1> QED BY <1>3, <1>4, <1>5, <1>6 DEF q

LEMMA QueueWrites ==
  ASSUME StorageOK, NEW l \in Line, NEW s \in State,
         LineStep(End, l, s), ~IsMarker(l), Queue(l, s),
         UNCHANGED journal, pos' \in 0..Len(file), undoOff' \in Nat
  PROVE  StorageOK' /\ Written /\ End' = s
<1>1. Len(file) \in Nat
  BY DEF StorageOK
<1>2. /\ pending' \in Seq(Line) /\ phist' \in Seq(State)
      /\ Linked(At(Len(file)), pending', phist')
      /\ After(At(Len(file)), phist') = s
      /\ NoMarkers(pending')
  BY NextLine DEF Queue
<1>3. file' = file /\ hist' = hist /\ snapNewer' = snapNewer
  BY DEF journal
<1>4. At(Len(file))' = At(Len(file)) /\ \A k : At(k)' = At(k)
  BY <1>3 DEF At, Empty
<1>5. End' = s
  BY <1>2, <1>4 DEF End
<1>6. JournalIsBidirectional'
  BY <1>2, <1>3, <1>4 DEF JournalIsBidirectional, StorageOK, Empty
<1>7. StorageOK'
  BY <1>2, <1>3, <1>6 DEF StorageOK
<1>8. Written
  BY <1>1, <1>3, <1>4 DEF Written
<1> QED BY <1>5, <1>7, <1>8

(* A step that writes nothing. *)
LEMMA NothingWritten ==
  ASSUME StorageOK, UNCHANGED <<queue, journal>>, pos' \in 0..Len(file), undoOff' \in Nat
  PROVE  StorageOK' /\ Written /\ End' = End /\ pending' = pending
<1>1. Len(file) \in Nat
  BY DEF StorageOK
<1>2. /\ file' = file /\ hist' = hist /\ snapNewer' = snapNewer
      /\ pending' = pending /\ phist' = phist
  BY DEF journal, queue
<1>3. At(Len(file))' = At(Len(file)) /\ \A k : At(k)' = At(k)
  BY <1>2 DEF At, Empty
<1>4. JournalIsBidirectional'
  BY <1>2, <1>3 DEF JournalIsBidirectional, StorageOK, Empty
<1>5. StorageOK'
  BY <1>2, <1>4 DEF StorageOK
<1> QED BY <1>1, <1>2, <1>3, <1>5 DEF Written, End

(* flush() by the user's operations: what was queued is on disk. *)
LEMMA UserFlush ==
  ASSUME StorageOK, FlushAndReset(pending, phist)
  PROVE  StorageOK' /\ Written /\ End' = End /\ pending' = <<>>
<1>1. /\ pending \in Seq(Line) /\ phist \in Seq(State) /\ NoMarkers(pending)
      /\ Linked(At(Len(file)), pending, phist) /\ pos \in 0..Len(file)
      /\ undoOff \in Nat /\ file \in Seq(Line)
  BY DEF StorageOK, JournalIsBidirectional
<1>2. Flush(pending, phist, pos)
  BY DEF FlushAndReset
<1>3. file' = file \o Framed(pending)
  BY <1>2 DEF Flush
<1>4. Framed(pending) \in Seq(Line)
  BY <1>1, AtEnd, FramedLinked
<1>5. undoOff' \in Nat
  BY <1>1, <1>3, <1>4 DEF FlushAndReset
<1> QED BY <1>1, <1>2, <1>5, FlushWrites DEF End

(* One line is logged by a user's operation. *)
LEMMA LogWrites ==
  ASSUME StorageOK, NEW l \in Line, NEW s \in State,
         LineStep(End, l, s), ~IsMarker(l), Log(l, s)
  PROVE  /\ StorageOK' /\ Written /\ End' = s
         /\ level = 0 => pending' = <<>>
<1>1. CASE level # 0
  <2>1. Queue(l, s) /\ UNCHANGED <<journal, undoOff, pos>>
    BY <1>1 DEF Log, Queue
  <2>2. pos' \in 0..Len(file) /\ undoOff' \in Nat
    BY <2>1 DEF StorageOK
  <2> QED BY <1>1, <2>1, <2>2, QueueWrites
<1>2. CASE level = 0
  <2> DEFINE p == Append(pending, l)
             h == Append(phist, s)
  <2>1. FlushAndReset(p, h)
    BY <1>2 DEF Log
  <2>2. /\ p \in Seq(Line) /\ h \in Seq(State) /\ NoMarkers(p)
        /\ Linked(At(Len(file)), p, h) /\ After(At(Len(file)), h) = s
    BY NextLine
  <2> HIDE DEF p, h
  <2>3. Flush(p, h, pos) /\ pos \in 0..Len(file) /\ file \in Seq(Line) /\ undoOff \in Nat
    BY <2>1 DEF FlushAndReset, StorageOK
  <2>4. file' = file \o Framed(p)
    BY <2>3 DEF Flush
  <2>5. Framed(p) \in Seq(Line)
    BY <2>2, AtEnd, FramedLinked
  <2>6. undoOff' \in Nat
    BY <2>1, <2>3, <2>4, <2>5 DEF FlushAndReset
  <2> QED BY <2>2, <2>3, <2>6, FlushWrites
<1> QED BY <1>1, <1>2

-----------------------------------------------------------------------------
(* One lemma per action. *)

LEMMA LoggedState ==
  ASSUME ObjectsOK
  PROVE  Logged \in State
BY DEF ObjectsOK, Logged, State

(* An object that is not under edit changes. *)
LEMMA LoggedUpdate ==
  ASSUME obj \in State, NEW i \in Id, nest[i] = 0, NEW c,
         obj' = [obj EXCEPT ![i] = c], UNCHANGED <<nest, old>>
  PROVE  Logged' = [Logged EXCEPT ![i] = c]
<1>1. ASSUME NEW j \in Id
      PROVE  (IF nest'[j] > 0 THEN old'[j] ELSE obj'[j])
               = [Logged EXCEPT ![i] = c][j]
  BY DEF Logged, State
<1> QED BY <1>1 DEF Logged

(* What remains to be shown of a step that writes while the journal is open. *)
LEMMA OpenStep ==
  ASSUME IInv, StorageOK', ObjectsOK', EditsOK', Written, mode' = "open",
         End' = Logged', level' = 0 => pending' = <<>>, snap' = snap
  PROVE  IInv'
<1>1. snapNewer' => snap' = At(Len(file))'
  BY DEF Written, IInv, ModeOK
<1>2. ModeOK'
  BY <1>1 DEF ModeOK
<1> QED BY <1>2 DEF IInv, UndoOK

LEMMA BlockStartStep == IInv /\ BlockStart => IInv'
<1> SUFFICES ASSUME IInv, BlockStart PROVE IInv'
  OBVIOUS
<1> USE DEF BlockStart, NoLog
<1>1. StorageOK' /\ Written /\ End' = End
  <2>1. UNCHANGED <<queue, journal>> /\ pos' \in 0..Len(file) /\ undoOff' \in Nat
    BY DEF IInv, StorageOK
  <2> QED BY <2>1, NothingWritten DEF IInv
<1>2. ObjectsOK'
  BY DEF IInv, ObjectsOK, mutable, disk, IdsAreFresh, Live
<1>3. EditsOK'
  BY DEF IInv, EditsOK, mutable
<1>4. End' = Logged'
  BY <1>1 DEF IInv, ModeOK, mutable, Logged
<1>5. level' # 0 /\ mode' = "open" /\ snap' = snap
  BY DEF IInv, ObjectsOK, disk
<1> QED BY <1>1, <1>2, <1>3, <1>4, <1>5, OpenStep

LEMMA BlockEndStep == IInv /\ BlockEnd => IInv'
<1> SUFFICES ASSUME IInv, BlockEnd PROVE IInv'
  OBVIOUS
<1> USE DEF BlockEnd, NoLog
<1>1. /\ StorageOK' /\ Written /\ End' = End
      /\ level' = 0 => pending' = <<>>
  <2>1. CASE level' = 0
    BY <2>1, UserFlush DEF IInv
  <2>2. CASE level' # 0
    <3>1. UNCHANGED <<queue, journal>> /\ pos' \in 0..Len(file) /\ undoOff' \in Nat
      BY <2>2 DEF IInv, StorageOK
    <3> QED BY <2>2, <3>1, NothingWritten DEF IInv
  <2> QED BY <2>1, <2>2
<1>2. ObjectsOK'
  BY DEF IInv, ObjectsOK, mutable, disk, IdsAreFresh, Live
<1>3. EditsOK'
  BY DEF IInv, EditsOK, mutable
<1>4. End' = Logged'
  BY <1>1 DEF IInv, ModeOK, mutable, Logged
<1>5. mode' = "open" /\ snap' = snap
  BY DEF disk
<1> QED BY <1>1, <1>2, <1>3, <1>4, <1>5, OpenStep
(* The lines log_create(), log_destroy() and log_end() write. *)
LEMMA CreateLineStep ==
  ASSUME NEW s \in State, NEW i \in Id, NEW c \in Content, s[i] = Nil
  PROVE  /\ CreateLine(i, c) \in Line /\ ~IsMarker(CreateLine(i, c))
         /\ [s EXCEPT ![i] = c] \in State
         /\ LineStep(s, CreateLine(i, c), [s EXCEPT ![i] = c])
BY JournalAssumption DEF CreateLine, Line, IsMarker, State, LineStep, Id

LEMMA DestroyLineStep ==
  ASSUME NEW s \in State, NEW i \in Id, s[i] # Nil
  PROVE  /\ DestroyLine(i, s[i]) \in Line /\ ~IsMarker(DestroyLine(i, s[i]))
         /\ [s EXCEPT ![i] = Nil] \in State
         /\ LineStep(s, DestroyLine(i, s[i]), [s EXCEPT ![i] = Nil])
BY JournalAssumption DEF DestroyLine, Line, IsMarker, State, LineStep, Id

LEMMA SetLineStep ==
  ASSUME NEW s \in State, NEW i \in Id, NEW c \in Content, s[i] # Nil, c.born = s[i].born
  PROVE  /\ SetLine(i, c, s[i]) \in Line /\ ~IsMarker(SetLine(i, c, s[i]))
         /\ [s EXCEPT ![i] = c] \in State
         /\ LineStep(s, SetLine(i, c, s[i]), [s EXCEPT ![i] = c])
BY JournalAssumption DEF SetLine, Line, IsMarker, State, LineStep, Id

(* An object with a new id appears, whether the user made it or imported it. *)
LEMMA Appears ==
  ASSUME IInv, mode = "open", NEW i \in Id, i > logId, NEW c \in Content,
         obj' = [obj EXCEPT ![i] = c], UNCHANGED <<nest, old>>,
         Log(CreateLine(i, c), [Logged EXCEPT ![i] = c])
  PROVE  /\ StorageOK' /\ Written /\ End' = Logged'
         /\ level = 0 => pending' = <<>>
         /\ obj' \in State
         /\ mode' = "open" => EditsOK'
<1>1. obj \in State /\ obj[i] = Nil /\ nest[i] \in Nat /\ nest \in [Id -> Nat]
  BY DEF IInv, ObjectsOK, IdsAreFresh, Live, Id
<1>2. nest[i] = 0
  BY <1>1 DEF IInv, EditsOK
<1>3. Logged \in State /\ Logged[i] = Nil /\ End = Logged
  BY <1>1, <1>2, LoggedState DEF IInv, Logged, ModeOK
<1>4. /\ CreateLine(i, c) \in Line /\ ~IsMarker(CreateLine(i, c))
      /\ [Logged EXCEPT ![i] = c] \in State
      /\ LineStep(Logged, CreateLine(i, c), [Logged EXCEPT ![i] = c])
  BY <1>3, CreateLineStep
<1>5. /\ StorageOK' /\ Written /\ End' = [Logged EXCEPT ![i] = c]
      /\ level = 0 => pending' = <<>>
  BY <1>3, <1>4, LogWrites DEF IInv
<1>6. Logged' = [Logged EXCEPT ![i] = c]
  BY <1>1, <1>2, LoggedUpdate
<1>7. obj' \in State
  BY <1>1 DEF State
<1>8. mode' = "open" => EditsOK'
  BY <1>1, <1>2 DEF IInv, EditsOK, State
<1> QED BY <1>5, <1>6, <1>7, <1>8

LEMMA CreateStep == ASSUME IInv, NEW v \in Val, Create(v) PROVE IInv'
<1> DEFINE i == logId + 1
           c == [val |-> v, born |-> births + 1]
<1>1. i \in Id /\ i > logId /\ c \in Content /\ births' \in 0..MaxBirths
  BY JournalAssumption DEF Create, IInv, ObjectsOK, Content, Birth, Id
<1>2. /\ mode = "open" /\ mode' = "open" /\ level' = level /\ snap' = snap
      /\ obj' = [obj EXCEPT ![i] = c] /\ UNCHANGED <<nest, old>>
      /\ Log(CreateLine(i, c), [Logged EXCEPT ![i] = c])
      /\ logId' = i
  BY DEF Create, disk
<1> HIDE DEF c
<1>3. /\ StorageOK' /\ Written /\ End' = Logged'
      /\ level = 0 => pending' = <<>>
      /\ obj' \in State
      /\ EditsOK'
  BY <1>1, <1>2, Appears
<1>4. ObjectsOK'
  <2>1. IdsAreFresh'
    BY <1>2, <1>3 DEF IInv, ObjectsOK, IdsAreFresh, Live, State, Id
  <2>2. unj' \in [Id -> 0..MaxBirths]
    <3>1. unj \in [Id -> 0..MaxBirths] /\ unj' = [unj EXCEPT ![i] = 0]
      BY DEF Create, IInv, ObjectsOK
    <3>2. 0 \in 0..MaxBirths
      BY JournalAssumption
    <3> QED BY <3>1, <3>2
  <2> QED BY <1>1, <1>2, <1>3, <2>1, <2>2 DEF Create, IInv, ObjectsOK, disk
<1> QED BY <1>2, <1>3, <1>4, OpenStep

LEMMA ImportStep ==
  ASSUME IInv, NEW k \in ImportIds, NEW v \in Val, Import(k, v) PROVE IInv'
<1> DEFINE i == k + (logId + 1)
           c == [val |-> v, born |-> births + 1]
<1>1. /\ i \in Id /\ i > logId + 1 /\ i > logId /\ c \in Content /\ births' \in 0..MaxBirths
      /\ logId \in Nat /\ i \in Nat
  BY JournalAssumption DEF Import, IInv, ObjectsOK, Content, Birth, Id
<1>2. obj[i] = Nil
  BY <1>1 DEF IInv, ObjectsOK, IdsAreFresh, Live, Id
<1>3. /\ mode = "open" /\ level' = level /\ snap' = snap
      /\ UNCHANGED <<nest, old>>
      /\ MakeObject(logId + 1, i, c)
      /\ Log(CreateLine(i, c), [Logged EXCEPT ![i] = c])
  BY <1>2 DEF Import, disk
<1>4. mode' = "open" /\ obj' = [obj EXCEPT ![i] = c] /\ mem' = mem /\ dirty' = TRUE
      /\ unj' = [unj EXCEPT ![i] = mem[i]] /\ logId' \in Nat /\ logId' >= i /\ logId' >= logId
  BY <1>1, <1>3 DEF MakeObject
<1> HIDE DEF c
<1>5. /\ StorageOK' /\ Written /\ End' = Logged'
      /\ level = 0 => pending' = <<>>
      /\ obj' \in State
      /\ EditsOK'
  BY <1>1, <1>3, <1>4, Appears
<1>6. ObjectsOK'
  <2>1. IdsAreFresh'
    BY <1>1, <1>4, <1>5 DEF IInv, ObjectsOK, IdsAreFresh, Live, State, Id
  <2>2. unj' \in [Id -> 0..MaxBirths]
    BY <1>1, <1>4 DEF IInv, ObjectsOK
  <2> QED BY <1>1, <1>3, <1>4, <1>5, <2>1, <2>2 DEF Import, IInv, ObjectsOK, disk
<1> QED BY <1>3, <1>4, <1>5, <1>6, OpenStep

LEMMA DestroyStep == ASSUME IInv, NEW i \in Id, Destroy(i) PROVE IInv'
<1>1. /\ mode = "open" /\ mode' = "open" /\ level' = level /\ snap' = snap
      /\ obj[i] # Nil /\ nest[i] = 0 /\ UNCHANGED <<nest, old>>
      /\ obj' = [obj EXCEPT ![i] = Nil] /\ logId' = logId
      /\ Log(DestroyLine(i, obj[i]), [Logged EXCEPT ![i] = Nil])
  BY DEF Destroy, Delete, disk, Live
<1>2. obj \in State /\ nest \in [Id -> Nat]
  BY DEF IInv, ObjectsOK
<1>3. Logged \in State /\ Logged[i] = obj[i] /\ End = Logged
  BY <1>1, <1>2, LoggedState DEF IInv, Logged, ModeOK
<1>4. /\ DestroyLine(i, obj[i]) \in Line /\ ~IsMarker(DestroyLine(i, obj[i]))
      /\ [Logged EXCEPT ![i] = Nil] \in State
      /\ LineStep(Logged, DestroyLine(i, obj[i]), [Logged EXCEPT ![i] = Nil])
  BY <1>1, <1>3, DestroyLineStep
<1>5. /\ StorageOK' /\ Written /\ End' = [Logged EXCEPT ![i] = Nil]
      /\ level = 0 => pending' = <<>>
  BY <1>1, <1>3, <1>4, LogWrites DEF IInv
<1>6. Logged' = [Logged EXCEPT ![i] = Nil]
  BY <1>1, <1>2, LoggedUpdate
<1>7. ObjectsOK'
  <2>1. IdsAreFresh'
    BY <1>1, <1>2 DEF IInv, ObjectsOK, IdsAreFresh, Live, State
  <2>2. unj' \in [Id -> 0..MaxBirths] /\ mem' \in [Id -> 0..MaxBirths]
    BY JournalAssumption DEF Destroy, Delete, IInv, ObjectsOK
  <2>3. obj' \in State
    BY <1>1, <1>2 DEF State
  <2> QED BY <1>1, <2>1, <2>2, <2>3 DEF Destroy, Delete, IInv, ObjectsOK, disk
<1>8. EditsOK'
  BY <1>1, <1>2 DEF IInv, EditsOK, State
<1> QED BY <1>1, <1>5, <1>6, <1>7, <1>8, OpenStep

LEMMA LogStartStep == ASSUME IInv, NEW i \in Id, LogStart(i) PROVE IInv'
<1>1. /\ mode = "open" /\ mode' = "open" /\ level' = level /\ snap' = snap
      /\ obj[i] # Nil /\ obj' = obj /\ nest' = [nest EXCEPT ![i] = @ + 1]
      /\ old' = IF old[i] = Nil THEN [old EXCEPT ![i] = obj[i]] ELSE old
      /\ UNCHANGED <<queue, journal, undoOff, pos>>
  BY DEF LogStart, NoLog, disk, Live
<1>2. obj \in State /\ old \in State /\ nest \in [Id -> Nat]
  BY DEF IInv, ObjectsOK
<1>3. StorageOK' /\ Written /\ End' = End /\ pending' = pending
  BY <1>1, NothingWritten DEF IInv, StorageOK
<1>4. Logged' = Logged
  BY <1>1, <1>2 DEF IInv, EditsOK, Logged, State
<1>5. ObjectsOK'
  <2>1. old' \in State /\ nest' \in [Id -> Nat]
    BY <1>1, <1>2 DEF State
  <2> QED BY <1>1, <2>1 DEF LogStart, IInv, ObjectsOK, disk, IdsAreFresh, Live
<1>6. EditsOK'
  BY <1>1, <1>2 DEF IInv, EditsOK, State
<1> QED BY <1>1, <1>3, <1>4, <1>5, <1>6, OpenStep DEF IInv, ModeOK

LEMMA AssignStep == ASSUME IInv, NEW i \in Id, NEW v \in Val, Assign(i, v) PROVE IInv'
<1>1. /\ mode = "open" /\ mode' = "open" /\ level' = level /\ snap' = snap
      /\ obj[i] # Nil /\ nest[i] > 0 /\ UNCHANGED <<nest, old>>
      /\ obj' = [obj EXCEPT ![i].val = v]
      /\ UNCHANGED <<queue, journal, undoOff, pos>>
  BY DEF Assign, NoLog, disk, Live
<1>2. obj \in State /\ old \in State /\ nest \in [Id -> Nat] /\ obj[i] \in Content
  BY <1>1 DEF IInv, ObjectsOK, State
<1>3. StorageOK' /\ Written /\ End' = End /\ pending' = pending
  BY <1>1, NothingWritten DEF IInv, StorageOK
<1>4. Logged' = Logged
  BY <1>1, <1>2 DEF Logged, State
<1>5. /\ obj'[i] \in Content /\ obj'[i].born = obj[i].born
      /\ obj' \in [Id -> Content \cup {Nil}]
      /\ \A j \in Id : j # i => obj'[j] = obj[j]
  BY <1>1, <1>2 DEF Content, State
<1>6. ObjectsOK'
  BY <1>1, <1>2, <1>5 DEF Assign, IInv, ObjectsOK, disk, IdsAreFresh, Live, State
<1>7. EditsOK'
  <2>1. obj'[i] # Nil
    BY <1>5, JournalAssumption
  <2> QED BY <1>1, <1>5, <2>1 DEF IInv, EditsOK
<1> QED BY <1>1, <1>3, <1>4, <1>6, <1>7, OpenStep DEF IInv, ModeOK
LEMMA LogEndStep == ASSUME IInv, NEW i \in Id, LogEnd(i) PROVE IInv'
<1>1. /\ mode = "open" /\ mode' = "open" /\ level' = level /\ snap' = snap
      /\ obj[i] # Nil /\ nest[i] > 0 /\ nest' = [nest EXCEPT ![i] = @ - 1]
      /\ obj' = obj
  BY DEF LogEnd, disk, Live
<1>2. obj \in State /\ old \in State /\ nest \in [Id -> Nat] /\ nest[i] \in Nat
  BY DEF IInv, ObjectsOK
<1>3. /\ Logged \in State /\ Logged[i] = old[i] /\ End = Logged
      /\ old[i] # Nil /\ obj[i].born = old[i].born /\ obj[i] \in Content
  BY <1>1, <1>2, LoggedState DEF IInv, Logged, ModeOK, EditsOK, State
<1>4. nest'[i] = nest[i] - 1 /\ \A j \in Id : j # i => nest'[j] = nest[j]
  BY <1>1, <1>2
<1>5. CASE nest'[i] > 0
  <2>1. old' = old /\ dirty' = dirty /\ UNCHANGED <<queue, journal, undoOff, pos>>
    BY <1>5 DEF LogEnd, NoLog
  <2>2. StorageOK' /\ Written /\ End' = End /\ pending' = pending
    BY <2>1, NothingWritten DEF IInv, StorageOK
  <2>3. Logged' = Logged
    BY <1>1, <1>4, <1>5, <2>1 DEF Logged
  <2>4. ObjectsOK'
    <3>1. nest' \in [Id -> Nat]
      BY <1>1, <1>2, <1>4, <1>5
    <3> QED BY <1>1, <2>1, <3>1 DEF LogEnd, IInv, ObjectsOK, disk, IdsAreFresh, Live
  <2>5. EditsOK'
    BY <1>1, <1>4, <1>5, <2>1 DEF IInv, EditsOK
  <2> QED BY <1>1, <1>3, <2>2, <2>3, <2>4, <2>5, OpenStep DEF IInv, ModeOK
<1>6. CASE ~(nest'[i] > 0)
  <2>1. nest'[i] = 0 /\ old' = [old EXCEPT ![i] = Nil]
    BY <1>1, <1>2, <1>4, <1>6 DEF LogEnd
  <2>2. Logged' = [Logged EXCEPT ![i] = obj[i]]
    <3>1. ASSUME NEW j \in Id
          PROVE  (IF nest'[j] > 0 THEN old'[j] ELSE obj'[j])
                   = [Logged EXCEPT ![i] = obj[i]][j]
      BY <1>1, <1>2, <1>4, <2>1 DEF Logged, State
    <3> QED BY <3>1 DEF Logged
  <2>3. /\ StorageOK' /\ Written /\ End' = Logged' /\ dirty' \in BOOLEAN
        /\ level' = 0 => pending' = <<>>
    <3>1. CASE obj[i] # old[i]
      <4>1. Log(SetLine(i, obj[i], Logged[i]), [Logged EXCEPT ![i] = obj[i]]) /\ dirty' = TRUE
        BY <1>3, <1>6, <3>1 DEF LogEnd
      <4>2. /\ SetLine(i, obj[i], Logged[i]) \in Line /\ ~IsMarker(SetLine(i, obj[i], Logged[i]))
            /\ [Logged EXCEPT ![i] = obj[i]] \in State
            /\ LineStep(Logged, SetLine(i, obj[i], Logged[i]), [Logged EXCEPT ![i] = obj[i]])
        BY <1>3, SetLineStep
      <4> QED BY <1>1, <1>3, <2>2, <4>1, <4>2, LogWrites DEF IInv
    <3>2. CASE obj[i] = old[i]
      <4>1. [Logged EXCEPT ![i] = obj[i]] = Logged
        BY <1>3, <3>2 DEF State
      <4>2. dirty' = dirty /\ IF level = 0 THEN FlushAndReset(pending, phist) ELSE NoLog
        BY <1>6, <3>2 DEF LogEnd
      <4>3. /\ StorageOK' /\ Written /\ End' = End
            /\ level = 0 => pending' = <<>>
        <5>1. CASE level = 0
          BY <4>2, <5>1, UserFlush DEF IInv
        <5>2. CASE level # 0
          <6>1. UNCHANGED <<queue, journal>> /\ pos' \in 0..Len(file) /\ undoOff' \in Nat
            BY <4>2, <5>2 DEF IInv, StorageOK, NoLog
          <6> QED BY <5>2, <6>1, NothingWritten DEF IInv
        <5> QED BY <5>1, <5>2
      <4> QED BY <1>1, <1>3, <2>2, <4>1, <4>2, <4>3 DEF IInv, ObjectsOK
    <3> QED BY <3>1, <3>2
  <2>4. ObjectsOK'
    <3>1. nest' \in [Id -> Nat] /\ old' \in State
      BY <1>1, <1>2, <1>4, <2>1 DEF State
    <3> QED BY <1>1, <2>3, <3>1 DEF LogEnd, IInv, ObjectsOK, disk, IdsAreFresh, Live
  <2>5. EditsOK'
    BY <1>1, <1>2, <1>4, <2>1 DEF IInv, EditsOK, State
  <2> QED BY <1>1, <2>3, <2>4, <2>5, OpenStep
<1> QED BY <1>5, <1>6

LEMMA TuneStep == ASSUME IInv, NEW i \in Id, Tune(i) PROVE IInv'
<1>1. /\ mode = "open" /\ mode' = "open" /\ level' = level /\ snap' = snap
      /\ obj[i] # Nil /\ UNCHANGED <<obj, nest, old>>
      /\ UNCHANGED <<queue, journal, undoOff, pos>>
  BY DEF Tune, NoLog, disk, Live
<1>2. obj[i] \in Content
  BY <1>1 DEF IInv, ObjectsOK, State
<1>3. StorageOK' /\ Written /\ End' = End /\ pending' = pending
  BY <1>1, NothingWritten DEF IInv, StorageOK
<1>4. Logged' = Logged
  BY <1>1 DEF Logged
<1>5. ObjectsOK'
  <2>1. obj[i].born \in Birth /\ obj[i].born \in 0..MaxBirths
    BY <1>2, JournalAssumption DEF Content, Birth
  <2>2. unj' \in [Id -> 0..MaxBirths] /\ tuned' \subseteq Birth
    BY <2>1 DEF Tune, IInv, ObjectsOK
  <2> QED BY <1>1, <2>2 DEF Tune, IInv, ObjectsOK, disk, IdsAreFresh, Live
<1>6. EditsOK'
  BY <1>1 DEF IInv, EditsOK
<1> QED BY <1>1, <1>3, <1>4, <1>5, <1>6, OpenStep DEF IInv, ModeOK

-----------------------------------------------------------------------------
(* undo() *)

LEMMA UndoStartStep == ASSUME IInv, UndoStart PROVE IInv'
<1>1. /\ mode = "open" /\ level = 0 /\ (\A i \in Id : nest[i] = 0) /\ undoOff # 0
      /\ UNCHANGED <<obj, unj, mem, nest, old, logId, queue, dirty, undoOff, journal,
                     snap, unjFile, births, saved, tuned>>
  BY DEF UndoStart, Quiescent, mutable, disk
<1>2. /\ pos \in 0..Len(file) /\ undoOff \in Nat /\ Len(file) \in Nat
      /\ file' = file /\ undoOff' = undoOff /\ snapNewer' = snapNewer
  BY <1>1 DEF IInv, StorageOK, journal
<1>3. \/ mode' = "aborted" /\ pos' = pos /\ level' = level
      \/ /\ mode' = "undo" /\ level' = 1 /\ undoOff <= pos
         /\ pos' = IF UndoesBlock THEN undoOff - 1 ELSE undoOff
  BY <1>1, <1>2 DEF UndoStart
<1>4. pos' \in 0..Len(file)
  BY <1>1, <1>2, <1>3
<1>5. StorageOK' /\ Written /\ End' = End
  BY <1>1, <1>2, <1>4, NothingWritten DEF IInv
<1>6. ObjectsOK'
  BY <1>1, <1>3 DEF IInv, ObjectsOK, IdsAreFresh, Live
<1>7. EditsOK'
  BY <1>1 DEF IInv, EditsOK
<1>8. ModeOK'
  BY <1>1, <1>2, <1>3, <1>5 DEF IInv, ModeOK, Written, Logged
<1>9. UndoOK'
  <2>1. CASE mode' = "undo" /\ UndoesBlock
    <3>1. undoOff \in 1..Len(file)
      BY <1>1, <1>2, <1>3, <2>1
    <3>2. PICK j \in 1..undoOff - 1 : file[j].op = "begin"
      BY <2>1, <3>1 DEF IInv, StorageOK, Opened, UndoesBlock
    <3> QED BY <1>2, <1>3, <2>1, <3>1, <3>2 DEF UndoOK, UndoesBlock
  <2>2. CASE mode' = "undo" /\ ~UndoesBlock
    BY <1>1, <1>2, <1>3, <2>2 DEF UndoOK, UndoesBlock
  <2> QED BY <2>1, <2>2 DEF UndoOK
<1> QED BY <1>5, <1>6, <1>7, <1>8, <1>9 DEF IInv

(* What the history says of a line on disk. *)
LEMMA LineOnDisk ==
  ASSUME StorageOK, NEW k \in 1..Len(file)
  PROVE  /\ file[k] \in Line /\ LineStep(At(k - 1), file[k], At(k))
         /\ At(k - 1) \in State /\ At(k) \in State
<1>1. /\ Len(hist) = Len(file) /\ hist \in Seq(State) /\ file \in Seq(Line)
      /\ LineStep(IF k = 1 THEN Empty ELSE hist[k - 1], file[k], hist[k])
  BY DEF StorageOK, JournalIsBidirectional, Linked
<1>2. At(k) = hist[k] /\ At(k - 1) = IF k = 1 THEN Empty ELSE hist[k - 1]
  BY DEF At
<1>3. At(k) \in State /\ At(k - 1) \in State
  BY <1>1, <1>2, AtEnd
<1> QED BY <1>1, <1>2, <1>3

(* A line of a history has the arguments its operation needs. *)
LEMMA LinePlausible ==
  ASSUME NEW s \in State, NEW t \in State, NEW l \in Line, LineStep(s, l, t)
  PROVE  \/ IsMarker(l)
         \/ l.op = "create" /\ l.id \in Id /\ l.new \in Content
         \/ l.op = "destroy" /\ l.id \in Id /\ l.old \in Content
         \/ /\ l.op = "set" /\ l.id \in Id /\ l.new \in Content /\ l.old \in Content
            /\ l.new.born = l.old.born
BY DEF LineStep, Line
(* do_this( line, true ): whatever the line, the inverse that is queued says    *)
(* what happened to the objects, or the program stops.                          *)
LEMMA ReverseWrites ==
  ASSUME IInv, mode = "undo",
         NEW s \in State, NEW t \in State, NEW l \in Line, LineStep(s, l, t),
         DoReverse(l), UNCHANGED <<nest, old, journal>>,
         pos' \in 0..Len(file), undoOff' = undoOff
  PROVE  /\ StorageOK' /\ Written
         /\ obj' \in State /\ logId' \in Nat /\ dirty' \in BOOLEAN /\ IdsAreFresh'
         /\ unj' \in [Id -> 0..MaxBirths] /\ mem' \in [Id -> 0..MaxBirths]
         /\ mode' \in {"undo", "aborted"}
         /\ mode' = "undo" => End' = obj'
<1>1. /\ obj \in State /\ logId \in Nat /\ dirty \in BOOLEAN /\ IdsAreFresh
      /\ unj \in [Id -> 0..MaxBirths] /\ mem \in [Id -> 0..MaxBirths]
      /\ undoOff' \in Nat
  BY DEF IInv, ObjectsOK, StorageOK
<1>2. (\A i \in Id : nest[i] = 0) /\ Logged = obj /\ End = obj
  <2>1. \A i \in Id : nest[i] = 0
    BY DEF IInv, EditsOK
  <2> QED BY <1>1, <2>1 DEF IInv, ModeOK, Logged, State
<1>3. ASSUME UNCHANGED queue
      PROVE  StorageOK' /\ Written /\ End' = End
  BY <1>1, <1>3, NothingWritten DEF IInv
<1>4. ASSUME NEW m \in Line, NEW u \in State, LineStep(obj, m, u), ~IsMarker(m), Queue(m, u)
      PROVE  StorageOK' /\ Written /\ End' = u
  BY <1>1, <1>2, <1>4, QueueWrites DEF IInv
<1>5. ASSUME Abort, UNCHANGED queue
      PROVE  /\ StorageOK' /\ Written /\ mode' = "aborted"
             /\ UNCHANGED <<obj, unj, mem, logId, dirty>>
  BY <1>3, <1>5 DEF Abort
<1>6. 0 \in 0..MaxBirths
  BY JournalAssumption
<1>7. CASE IsMarker(l)
  <2>1. Abort /\ UNCHANGED queue
    BY <1>7 DEF DoReverse, IsMarker
  <2> QED BY <1>1, <1>5, <2>1 DEF IdsAreFresh, Live
<1>8. CASE l.op = "create" /\ l.id \in Id
  <2>1. CASE obj[l.id] # Nil
    <3>1. /\ Delete(l.id)
          /\ Queue(DestroyLine(l.id, obj[l.id]), [Logged EXCEPT ![l.id] = Nil])
      BY <1>8, <2>1 DEF DoReverse, IsMarker
    <3>2. /\ StorageOK' /\ Written /\ End' = [obj EXCEPT ![l.id] = Nil]
      BY <1>1, <1>2, <1>4, <1>8, <2>1, <3>1, DestroyLineStep
    <3>3. obj' = [obj EXCEPT ![l.id] = Nil] /\ obj' \in State
      BY <1>1, <3>1 DEF Delete, State
    <3>4. unj' \in [Id -> 0..MaxBirths] /\ mem' \in [Id -> 0..MaxBirths]
      BY <1>1, <1>6, <1>8, <3>1 DEF Delete
    <3>5. IdsAreFresh'
      BY <1>1, <1>8, <3>1, <3>3 DEF Delete, IdsAreFresh, Live, State
    <3> QED BY <1>1, <3>1, <3>2, <3>3, <3>4, <3>5 DEF Delete
  <2>2. CASE obj[l.id] = Nil
    <3>1. UNCHANGED <<mode, obj, unj, mem, logId, dirty, queue>>
      BY <1>8, <2>2 DEF DoReverse, IsMarker
    <3> QED BY <1>1, <1>2, <1>3, <3>1 DEF IdsAreFresh, Live
  <2> QED BY <2>1, <2>2
<1>9. CASE l.op = "destroy" /\ l.id \in Id /\ l.old \in Content
  <2>1. CASE obj[l.id] = Nil
    <3>1. /\ MakeObject(logId, l.id, l.old)
          /\ Queue(CreateLine(l.id, l.old), [Logged EXCEPT ![l.id] = l.old])
      BY <1>9, <2>1 DEF DoReverse, IsMarker
    <3>2. /\ StorageOK' /\ Written /\ End' = [obj EXCEPT ![l.id] = l.old]
      BY <1>1, <1>2, <1>4, <1>9, <2>1, <3>1, CreateLineStep
    <3>3. obj' = [obj EXCEPT ![l.id] = l.old] /\ obj' \in State
      BY <1>1, <1>9, <3>1 DEF MakeObject, State
    <3>4. unj' \in [Id -> 0..MaxBirths] /\ mem' = mem
      BY <1>1, <1>9, <3>1 DEF MakeObject
    <3>5. logId' \in Nat /\ logId' >= logId /\ logId' >= l.id
      BY <1>1, <1>9, <3>1 DEF MakeObject, Id
    <3>6. IdsAreFresh'
      BY <1>1, <1>9, <3>3, <3>5 DEF IdsAreFresh, Live, State, Id
    <3> QED BY <1>1, <3>1, <3>2, <3>3, <3>4, <3>5, <3>6 DEF MakeObject
  <2>2. CASE obj[l.id] # Nil
    <3>1. Abort /\ UNCHANGED queue
      BY <1>9, <2>2 DEF DoReverse, IsMarker
    <3> QED BY <1>1, <1>5, <3>1 DEF IdsAreFresh, Live
  <2> QED BY <2>1, <2>2
<1>10. CASE l.op = "set" /\ l.id \in Id /\ l.old \in Content
  <2>1. CASE obj[l.id] # Nil
    <3> DEFINE c == [obj[l.id] EXCEPT !.val = l.old.val]
    <3>1. Restore(l.id, c)
      BY <1>10, <2>1 DEF DoReverse, IsMarker
    <3>2. c \in Content /\ c.born = obj[l.id].born
      BY <1>1, <1>10, <2>1 DEF Content, State
    <3> HIDE DEF c
    <3>3. obj' = [obj EXCEPT ![l.id] = c] /\ UNCHANGED <<mode, unj, mem, logId>>
      BY <3>1 DEF Restore
    <3>4. obj' \in State
      BY <1>1, <3>2, <3>3 DEF State
    <3>5. IdsAreFresh'
      BY <1>1, <1>10, <2>1, <3>3 DEF IdsAreFresh, Live, State
    <3>6. CASE c = obj[l.id]
      <4>1. UNCHANGED <<dirty, queue>>
        BY <3>1, <3>6 DEF Restore
      <4>2. obj' = obj
        BY <1>1, <3>3, <3>6 DEF State
      <4> QED BY <1>1, <1>2, <1>3, <3>3, <3>4, <3>5, <4>1, <4>2
    <3>7. CASE c # obj[l.id]
      <4>1. dirty' = TRUE /\ Queue(SetLine(l.id, c, obj[l.id]), [Logged EXCEPT ![l.id] = c])
        BY <3>1, <3>7 DEF Restore
      <4>2. StorageOK' /\ Written /\ End' = [obj EXCEPT ![l.id] = c]
        BY <1>1, <1>2, <1>4, <1>10, <2>1, <3>2, <4>1, SetLineStep, SMTT(40)
      <4> QED BY <1>1, <3>3, <3>4, <3>5, <4>1, <4>2
    <3> QED BY <3>6, <3>7
  <2>2. CASE obj[l.id] = Nil
    <3>1. Abort /\ UNCHANGED queue
      BY <1>10, <2>2 DEF DoReverse, IsMarker
    <3> QED BY <1>1, <1>5, <3>1 DEF IdsAreFresh, Live
  <2> QED BY <2>1, <2>2
<1> QED BY <1>7, <1>8, <1>9, <1>10, LinePlausible

LEMMA UndoLineStep == ASSUME IInv, UndoLine PROVE IInv'
<1>1. /\ mode = "undo" /\ UndoMore /\ DoReverse(file[pos]) /\ pos' = pos - 1
      /\ UNCHANGED <<nest, old, level, undoOff, journal, snap, unjFile, births, saved, tuned>>
  BY DEF UndoLine, disk
<1>2. /\ undoOff \in 1..Len(file) /\ pos \in 0..Len(file) /\ Len(file) \in Nat
      /\ IF UndoesBlock
         THEN pos < undoOff /\ \E j \in 1..pos : file[j].op = "begin"
         ELSE pos \in {undoOff - 1, undoOff}
  BY <1>1 DEF IInv, UndoOK, StorageOK
<1>3. pos \in 1..Len(file)
  BY <1>1, <1>2 DEF UndoMore
<1>4. /\ file[pos] \in Line /\ LineStep(At(pos - 1), file[pos], At(pos))
      /\ At(pos - 1) \in State /\ At(pos) \in State
  BY <1>3, LineOnDisk DEF IInv
<1>5. pos' \in 0..Len(file)
  BY <1>1, <1>3
<1>6. /\ StorageOK' /\ Written
      /\ obj' \in State /\ logId' \in Nat /\ dirty' \in BOOLEAN /\ IdsAreFresh'
      /\ unj' \in [Id -> 0..MaxBirths] /\ mem' \in [Id -> 0..MaxBirths]
      /\ mode' \in {"undo", "aborted"}
      /\ mode' = "undo" => End' = obj'
  BY <1>1, <1>4, <1>5, ReverseWrites
<1>7. ObjectsOK'
  BY <1>1, <1>6 DEF IInv, ObjectsOK
<1>8. EditsOK'
  BY <1>1 DEF IInv, EditsOK
<1>9. ModeOK'
  <2>1. Logged' = obj'
    BY <1>1, <1>6 DEF IInv, EditsOK, Logged, State
  <2>2. snapNewer' => snap' = At(Len(file))'
    BY <1>1, <1>6 DEF IInv, ModeOK, Written
  <2> QED BY <1>1, <1>6, <2>1, <2>2 DEF IInv, ModeOK
<1>10. UndoOK'
  <2>1. file' = file /\ undoOff' = undoOff /\ UndoesBlock' = UndoesBlock
    BY <1>1 DEF journal, UndoesBlock
  <2>2. CASE UndoesBlock
    <3>1. PICK j \in 1..pos : file[j].op = "begin"
      BY <1>2, <2>2
    <3>2. j # pos
      BY <1>1, <2>2, <3>1 DEF UndoMore
    <3>3. j \in 1..pos'
      BY <1>1, <1>3, <3>2
    <3> QED BY <1>1, <1>2, <2>1, <2>2, <3>1, <3>3 DEF UndoOK
  <2>3. CASE ~UndoesBlock
    BY <1>1, <1>2, <2>1, <2>3 DEF UndoOK, UndoMore
  <2> QED BY <2>2, <2>3
<1> QED BY <1>6, <1>7, <1>8, <1>9, <1>10 DEF IInv

LEMMA UndoEndStep == ASSUME IInv, UndoEnd PROVE IInv'
<1> DEFINE uo == IF UndoesBlock THEN pos - 1 ELSE pos
<1>1. /\ mode = "undo" /\ ~UndoMore /\ mode' = "open" /\ level' = level - 1
      /\ Flush(pending, phist, uo) /\ undoOff' = uo
      /\ UNCHANGED <<obj, unj, mem, nest, old, logId, dirty, snap, unjFile, births, saved, tuned>>
  BY DEF UndoEnd, disk, mutable
<1>2. /\ undoOff \in 1..Len(file) /\ pos \in 0..Len(file) /\ Len(file) \in Nat
      /\ IF UndoesBlock
         THEN pos < undoOff /\ \E j \in 1..pos : file[j].op = "begin"
         ELSE pos \in {undoOff - 1, undoOff}
  BY <1>1 DEF IInv, UndoOK, StorageOK
<1>3. uo \in 0..Len(file) /\ uo \in Nat
  BY <1>2
<1> HIDE DEF uo
<1>4. /\ StorageOK' /\ Written /\ pending' = <<>> /\ End' = End
  BY <1>1, <1>3, FlushWrites DEF IInv, StorageOK, JournalIsBidirectional, End
<1>5. ObjectsOK'
  BY <1>1 DEF IInv, ObjectsOK, IdsAreFresh, Live, ModeOK
<1>6. EditsOK'
  BY <1>1 DEF IInv, EditsOK
<1>7. End' = Logged'
  BY <1>1, <1>4 DEF IInv, ModeOK, Logged
<1> QED BY <1>1, <1>4, <1>5, <1>6, <1>7, OpenStep
-----------------------------------------------------------------------------
(* Snapshots *)

(* Between transactions the journal's end is the state of the objects. *)
LEMMA QuiescentState ==
  ASSUME IInv, mode = "open", Quiescent
  PROVE  /\ pending = <<>> /\ phist = <<>>
         /\ Logged = obj /\ At(Len(file)) = obj /\ End = obj
         /\ level = 0 /\ \A i \in Id : nest[i] = 0
<1>1. level = 0 /\ \A i \in Id : nest[i] = 0
  BY DEF Quiescent
<1>2. pending = <<>>
  BY <1>1 DEF IInv, ModeOK
<1>3. phist \in Seq(State) /\ Len(phist) = Len(pending)
  BY DEF IInv, StorageOK, JournalIsBidirectional, Linked
<1>4. phist = <<>>
  BY <1>2, <1>3
<1>5. obj \in State
  BY DEF IInv, ObjectsOK
<1>6. Logged = obj
  BY <1>1, <1>5 DEF Logged, State
<1>7. End = Logged /\ End = At(Len(file))
  BY <1>4, LinkedEmpty DEF IInv, ModeOK, End
<1> QED BY <1>1, <1>2, <1>4, <1>6, <1>7

(* The lines of a snapshot, and the history they have when they are put into   *)
(* an empty journal.                                                           *)
LEMMA SnapshotHistory ==
  ASSUME obj \in State, NEW f \in SnapshotOrders
  PROVE  LET p == SnapshotLines(f)
             h == [k \in DOMAIN f |-> Partial(f, k)]
         IN  /\ p \in Seq(Line) /\ h \in Seq(State) /\ NoMarkers(p)
             /\ Linked(Empty, p, h) /\ After(Empty, h) = obj
<1> DEFINE p == SnapshotLines(f)
           h == [k \in DOMAIN f |-> Partial(f, k)]
<1>1. PICK n \in 0..MaxId :
        /\ f \in [1..n -> Live]
        /\ \A i \in Live : \E k \in 1..n : f[k] = i /\ \A m \in 1..n : f[m] = i => m = k
  BY DEF SnapshotOrders
<1>2. n \in Nat
  BY JournalAssumption
<1>3. \A k \in 1..n : f[k] \in Id /\ obj[f[k]] \in Content /\ obj[f[k]] # Nil
  BY <1>1 DEF Live, State
<1>4. \A k \in 1..n : \A m \in 1..n : f[m] = f[k] => m = k
  BY <1>1
<1>5. \A k : Partial(f, k) \in State
  BY DEF Partial, State
<1>6. p = [k \in 1..n |-> CreateLine(f[k], obj[f[k]])] /\ h = [k \in 1..n |-> Partial(f, k)]
  BY <1>1 DEF SnapshotLines
<1>7. \A k \in 1..n : CreateLine(f[k], obj[f[k]]) \in Line /\ ~IsMarker(CreateLine(f[k], obj[f[k]]))
  BY <1>3, JournalAssumption DEF CreateLine, Line, IsMarker, Id
<1>8. p \in Seq(Line) /\ Len(p) = n /\ \A k \in 1..n : p[k] = CreateLine(f[k], obj[f[k]])
  BY <1>2, <1>6, <1>7
<1>9. h \in Seq(State) /\ Len(h) = n /\ \A k \in 1..n : h[k] = Partial(f, k)
  BY <1>2, <1>5, <1>6
<1> HIDE DEF p, h
<1>10. NoMarkers(p)
  BY <1>7, <1>8 DEF NoMarkers
<1>11. Partial(f, 0) = Empty
  BY DEF Partial, Empty
<1>12. ASSUME NEW k \in 1..n
       PROVE  LineStep(Partial(f, k - 1), p[k], Partial(f, k))
  <2> DEFINE s == Partial(f, k - 1)
             i == f[k]
  <2>1. s \in State /\ i \in Id /\ obj[i] \in Content
    BY <1>3, <1>5
  <2>2. s[i] = Nil
    BY <1>2, <1>4, <2>1 DEF Partial
  <2>3. ASSUME NEW j \in Id
        PROVE  Partial(f, k)[j] = [s EXCEPT ![i] = obj[i]][j]
    <3>1. CASE j = i
      BY <2>1, <3>1 DEF Partial, State
    <3>2. CASE j # i
      <4>1. (\E m \in 1..k : f[m] = j) <=> (\E m \in 1..k - 1 : f[m] = j)
        BY <1>2, <3>2
      <4> QED BY <2>1, <3>2, <4>1 DEF Partial, State
    <3> QED BY <3>1, <3>2
  <2>4. Partial(f, k) = [s EXCEPT ![i] = obj[i]]
    BY <1>5, <2>1, <2>3 DEF State
  <2> HIDE DEF s, i
  <2>5. LineStep(s, CreateLine(i, obj[i]), [s EXCEPT ![i] = obj[i]])
    BY <2>1, <2>2, CreateLineStep
  <2>6. p[k] = CreateLine(i, obj[i])
    BY <1>8 DEF i
  <2> QED BY <2>4, <2>5, <2>6 DEF s
<1>13. Linked(Empty, p, h)
  <2>1. ASSUME NEW k \in 1..n
        PROVE  LineStep(IF k = 1 THEN Empty ELSE h[k - 1], p[k], h[k])
    <3>1. (IF k = 1 THEN Empty ELSE h[k - 1]) = Partial(f, k - 1)
      BY <1>2, <1>9, <1>11
    <3> QED BY <1>9, <1>12, <3>1
  <2> QED BY <1>8, <1>9, <2>1 DEF Linked
<1>14. After(Empty, h) = obj
  <2>1. After(Empty, h) = Partial(f, n)
    <3>1. CASE n = 0
      <4>1. h = <<>>
        BY <1>9, <3>1
      <4> QED BY <1>11, <3>1, <4>1 DEF After
    <3>2. CASE n # 0
      <4>1. h # <<>> /\ h[Len(h)] = Partial(f, n)
        BY <1>2, <1>9, <3>2
      <4> QED BY <4>1 DEF After
    <3> QED BY <3>1, <3>2
  <2>2. ASSUME NEW j \in Id
        PROVE  Partial(f, n)[j] = obj[j]
    <3>1. CASE j \in Live
      BY <1>1, <3>1 DEF Partial
    <3>2. CASE j \notin Live
      <4>1. obj[j] = Nil
        BY <3>2 DEF Live
      <4> QED BY <4>1 DEF Partial
    <3> QED BY <3>1, <3>2
  <2>3. Partial(f, n) = obj
    BY <1>5, <2>2 DEF State
  <2> QED BY <2>1, <2>3
<1> QED BY <1>8, <1>9, <1>10, <1>13, <1>14 DEF p, h

(* The snapshot that is written takes the place of the journal's end. *)
LEMMA SnapshotWrites ==
  ASSUME IInv, mode = "open", Quiescent, WriteSnapshot,
         UNCHANGED <<queue, file, hist, pos>>
  PROVE  /\ StorageOK' /\ End' = End /\ pending' = <<>>
         /\ snap' = obj /\ snap' \in State /\ saved' \in State
         /\ At(Len(file))' = obj
<1>1. pending = <<>> /\ At(Len(file)) = obj
  BY QuiescentState
<1>2. /\ file' = file /\ hist' = hist /\ pending' = pending /\ phist' = phist /\ pos' = pos
      /\ snap' = obj /\ snapNewer' \in BOOLEAN /\ saved' = Logged
  BY DEF WriteSnapshot, queue
<1>3. undoOff' \in Nat
  <2>1. PICK f \in SnapshotOrders :
          undoOff' = IF f = <<>> THEN undoOff ELSE Len(Framed(SnapshotLines(f)))
    BY DEF WriteSnapshot
  <2>2. Framed(SnapshotLines(f)) \in Seq(Line)
    <3> DEFINE p == SnapshotLines(f)
               h == [k \in DOMAIN f |-> Partial(f, k)]
    <3>1. p \in Seq(Line) /\ h \in Seq(State) /\ Linked(Empty, p, h)
      BY SnapshotHistory DEF IInv, ObjectsOK
    <3> HIDE DEF p, h
    <3>2. Framed(p) \in Seq(Line)
      BY <3>1, AtEnd, FramedLinked DEF IInv
    <3> QED BY <3>2 DEF p
  <2> QED BY <2>1, <2>2 DEF IInv, StorageOK
<1>4. At(Len(file))' = At(Len(file)) /\ \A k : At(k)' = At(k)
  BY <1>2 DEF At, Empty
<1>5. JournalIsBidirectional'
  BY <1>2, <1>4 DEF JournalIsBidirectional, IInv, StorageOK, Empty
<1>6. StorageOK'
  BY <1>2, <1>3, <1>5 DEF IInv, StorageOK
<1>7. saved' \in State /\ snap' \in State
  BY <1>2, LoggedState DEF IInv, ObjectsOK
<1> QED BY <1>1, <1>2, <1>4, <1>6, <1>7 DEF End

LEMMA SnapshotStep == ASSUME IInv, Snapshot PROVE IInv'
<1>1. /\ mode = "open" /\ mode' = "open" /\ Quiescent /\ WriteSnapshot
      /\ UNCHANGED <<obj, unj, mem, nest, old, logId, level, queue, pos, file, hist,
                     unjFile, births, tuned>>
      /\ dirty' = FALSE
  BY DEF Snapshot, mutable
<1>2. /\ StorageOK' /\ End' = End /\ pending' = <<>>
      /\ snap' = obj /\ snap' \in State /\ saved' \in State
      /\ At(Len(file))' = obj
  BY <1>1, SnapshotWrites
<1>3. ObjectsOK'
  BY <1>1, <1>2 DEF IInv, ObjectsOK, IdsAreFresh, Live
<1>4. EditsOK'
  BY <1>1 DEF IInv, EditsOK
<1>5. ModeOK'
  BY <1>1, <1>2 DEF IInv, ModeOK, Logged
<1>6. UndoOK'
  BY <1>1 DEF UndoOK
<1> QED BY <1>2, <1>3, <1>4, <1>5, <1>6 DEF IInv

LEMMA CloseStep == ASSUME IInv, Close PROVE IInv'
<1>1. /\ mode = "open" /\ mode' = "closed" /\ Quiescent /\ WriteSnapshot
      /\ UNCHANGED <<nest, old, logId, level, queue, pos, file, hist, births, tuned>>
      /\ obj' = Empty /\ unj' = Untouched /\ mem' = Untouched
      /\ unjFile' = [i \in Id |-> IF i \in Live THEN unj[i] ELSE mem[i]]
      /\ dirty' \in BOOLEAN
  BY DEF Close
<1>2. /\ StorageOK' /\ pending' = <<>>
      /\ snap' = obj /\ snap' \in State /\ saved' \in State
      /\ At(Len(file))' = obj
  BY <1>1, SnapshotWrites
<1>3. ObjectsOK'
  <2>1. Empty \in State /\ Untouched \in [Id -> 0..MaxBirths]
    BY JournalAssumption DEF Empty, State, Untouched
  <2>2. unjFile' \in [Id -> 0..MaxBirths]
    BY <1>1 DEF IInv, ObjectsOK
  <2>3. IdsAreFresh'
    BY <1>1 DEF IdsAreFresh, Live, Empty
  <2> QED BY <1>1, <1>2, <2>1, <2>2, <2>3 DEF IInv, ObjectsOK
<1>4. EditsOK'
  <2>1. \A i \in Id : nest[i] = 0
    BY <1>1 DEF Quiescent
  <2> QED BY <1>1, <2>1 DEF IInv, EditsOK
<1>5. ModeOK'
  <2>1. level = 0
    BY <1>1 DEF Quiescent
  <2> QED BY <1>1, <1>2, <2>1 DEF ModeOK, Empty
<1>6. UndoOK'
  BY <1>1 DEF UndoOK
<1> QED BY <1>2, <1>3, <1>4, <1>5, <1>6 DEF IInv

LEMMA CompactStep == ASSUME IInv, Compact PROVE IInv'
<1>1. /\ mode = "open" /\ mode' = "open" /\ Quiescent
      /\ UNCHANGED <<obj, unj, mem, nest, old, logId, level, queue, snap, unjFile, births, tuned>>
      /\ snapNewer' = FALSE /\ dirty' = FALSE /\ saved' = Logged
  BY DEF Compact, mutable, disk
<1>2. PICK f \in SnapshotOrders :
        LET p == SnapshotLines(f)
            h == [k \in DOMAIN f |-> Partial(f, k)]
        IN /\ file' = Framed(p)
           /\ hist' = FramedStates(Empty, h)
           /\ undoOff' = IF f = <<>> THEN undoOff ELSE Len(file')
           /\ pos' = Len(file')
  BY DEF Compact
<1> DEFINE p == SnapshotLines(f)
           h == [k \in DOMAIN f |-> Partial(f, k)]
<1>3. /\ p \in Seq(Line) /\ h \in Seq(State) /\ NoMarkers(p)
      /\ Linked(Empty, p, h) /\ After(Empty, h) = obj
  BY SnapshotHistory DEF IInv, ObjectsOK
<1>4. /\ file' = Framed(p) /\ hist' = FramedStates(Empty, h) /\ pos' = Len(file')
      /\ undoOff' = IF f = <<>> THEN undoOff ELSE Len(file')
  BY <1>2
<1> HIDE DEF p, h
<1>5. Empty \in State
  BY DEF Empty, State
<1>6. /\ file' \in Seq(Line) /\ hist' \in Seq(State)
      /\ Linked(Empty, file', hist') /\ After(Empty, hist') = obj
  BY <1>3, <1>4, <1>5, FramedLinked
<1>7. Opened(file')
  BY <1>3, <1>4, FramedOpened
<1>8. At(Len(file))' = obj
  <2>1. Len(hist') = Len(file') /\ (hist' = <<>> <=> Len(hist') = 0)
    BY <1>6 DEF Linked
  <2> QED BY <1>6, <2>1 DEF At, After, Empty
<1>9. pending' = <<>> /\ phist' = <<>>
  BY <1>1, QuiescentState DEF queue
<1>10. JournalIsBidirectional'
  <2>1. Linked(At(Len(file))', <<>>, <<>>)
    BY LinkedEmpty
  <2> QED BY <1>6, <1>9, <2>1 DEF JournalIsBidirectional, Empty
<1>11. undoOff' \in Nat /\ pos' \in 0..Len(file')
  BY <1>4, <1>6 DEF IInv, StorageOK
<1>12. StorageOK'
  <2>1. pending' \in Seq(Line) /\ phist' \in Seq(State) /\ NoMarkers(pending')
    BY <1>9 DEF NoMarkers
  <2> QED BY <1>1, <1>6, <1>7, <1>10, <1>11, <2>1 DEF StorageOK
<1>13. End' = Logged'
  <2>1. Logged' = obj
    BY <1>1, QuiescentState DEF Logged
  <2>2. End' = obj
    BY <1>8, <1>9, LinkedEmpty DEF End
  <2> QED BY <2>1, <2>2
<1>14. ObjectsOK'
  BY <1>1, LoggedState DEF IInv, ObjectsOK, IdsAreFresh, Live
<1>15. EditsOK'
  BY <1>1 DEF IInv, EditsOK
<1>16. ModeOK'
  BY <1>1, <1>9, <1>13 DEF ModeOK
<1>17. UndoOK'
  BY <1>1 DEF UndoOK
<1> QED BY <1>12, <1>14, <1>15, <1>16, <1>17 DEF IInv
-----------------------------------------------------------------------------
(* Opening, and the death of the process *)

LEMMA OpenProjectStep == ASSUME IInv, Open PROVE IInv'
<1>1. /\ mode = "closed" /\ mode' = (IF snapNewer THEN "load" ELSE "replay") /\ pos' = 0
      /\ UNCHANGED <<obj, unj, nest, old, logId, level, queue, dirty, undoOff,
                     journal, snap, unjFile, births, saved, tuned>>
      /\ mem' = [i \in Id |-> IF unjFile[i] # 0 THEN unjFile[i] ELSE mem[i]]
  BY DEF Open, disk
<1>2. StorageOK' /\ Written /\ pending' = pending
  <2>1. pos' \in 0..Len(file) /\ undoOff' \in Nat
    BY <1>1 DEF IInv, StorageOK
  <2> QED BY <1>1, <2>1, NothingWritten DEF IInv
<1>3. ObjectsOK'
  BY <1>1 DEF IInv, ObjectsOK, IdsAreFresh, Live
<1>4. EditsOK'
  BY <1>1 DEF IInv, EditsOK
<1>5. ModeOK'
  <2>1. snapNewer' = snapNewer /\ At(pos)' = Empty /\ obj' = Empty /\ level' = 0 /\ pending' = <<>>
    BY <1>1, <1>2 DEF IInv, ModeOK, journal, At, Empty
  <2>2. snapNewer' => snap' = At(Len(file))'
    BY <1>1, <1>2 DEF IInv, ModeOK, Written
  <2> QED BY <1>1, <2>1, <2>2 DEF ModeOK, Empty
<1>6. UndoOK'
  BY <1>1 DEF UndoOK
<1> QED BY <1>2, <1>3, <1>4, <1>5, <1>6 DEF IInv

(* do_this( line, false ) of a line that says what happened: the objects go on *)
(* to the next state of the history, and nothing aborts.                        *)
LEMMA ForwardStep ==
  ASSUME ObjectsOK, NEW l \in Line, NEW t \in State, LineStep(obj, l, t), DoForward(l)
  PROVE  /\ obj' = t /\ mode' = mode /\ mem' = mem
         /\ logId' \in Nat /\ dirty' \in BOOLEAN
         /\ unj' \in [Id -> 0..MaxBirths]
         /\ IdsAreFresh'
<1>1. /\ obj \in State /\ logId \in Nat /\ dirty \in BOOLEAN /\ IdsAreFresh
      /\ unj \in [Id -> 0..MaxBirths] /\ mem \in [Id -> 0..MaxBirths]
  BY DEF ObjectsOK
<1>2. 0 \in 0..MaxBirths
  BY JournalAssumption
<1>3. CASE IsMarker(l)
  <2>1. UNCHANGED <<mode, obj, unj, mem, logId, dirty>>
    BY <1>3 DEF DoForward, IsMarker
  <2>2. t = obj
    BY <1>3 DEF LineStep, IsMarker
  <2> QED BY <1>1, <2>1, <2>2 DEF IdsAreFresh, Live
<1>4. CASE l.op = "create"
  <2>1. l.id \in Id /\ obj[l.id] = Nil /\ l.new # Nil /\ t = [obj EXCEPT ![l.id] = l.new]
    BY <1>4 DEF LineStep, IsMarker
  <2>2. MakeObject(logId, l.id, l.new)
    BY <1>4, <2>1 DEF DoForward, IsMarker
  <2>3. logId' \in Nat /\ logId' >= logId /\ logId' >= l.id
    BY <1>1, <2>1, <2>2 DEF MakeObject, Id
  <2>4. obj' = t /\ mode' = mode /\ mem' = mem /\ dirty' = TRUE
    BY <2>1, <2>2 DEF MakeObject
  <2>5. unj' \in [Id -> 0..MaxBirths]
    BY <1>1, <2>1, <2>2 DEF MakeObject
  <2>6. IdsAreFresh'
    BY <1>1, <2>1, <2>3, <2>4 DEF IdsAreFresh, Live, State, Id
  <2> QED BY <2>3, <2>4, <2>5, <2>6
<1>5. CASE l.op = "destroy"
  <2>1. l.id \in Id /\ t = [obj EXCEPT ![l.id] = Nil]
    BY <1>5 DEF LineStep, IsMarker
  <2>2. /\ obj' = [obj EXCEPT ![l.id] = Nil]
        /\ unj' = [unj EXCEPT ![l.id] = 0]
        /\ dirty' = (dirty \/ obj[l.id] # Nil)
        /\ UNCHANGED <<mode, mem, logId>>
    BY <1>5 DEF DoForward, IsMarker
  <2>3. unj' \in [Id -> 0..MaxBirths]
    BY <1>1, <1>2, <2>2
  <2>4. IdsAreFresh'
    BY <1>1, <2>1, <2>2 DEF IdsAreFresh, Live, State
  <2> QED BY <1>1, <2>1, <2>2, <2>3, <2>4
<1>6. CASE l.op = "set"
  <2>1. /\ l.id \in Id /\ l.new # Nil /\ l.old # Nil /\ obj[l.id] = l.old
        /\ l.new.born = l.old.born /\ t = [obj EXCEPT ![l.id] = l.new]
    BY <1>6 DEF LineStep, IsMarker
  <2>2. l.new \in Content /\ l.old \in Content
    BY <2>1 DEF Line
  <2>3. /\ obj' = [obj EXCEPT ![l.id].val = l.new.val]
        /\ dirty' = (dirty \/ obj[l.id].val # l.new.val)
        /\ UNCHANGED <<mode, unj, mem, logId>>
    BY <1>6, <2>1 DEF DoForward, IsMarker
  <2>4. [obj[l.id] EXCEPT !.val = l.new.val] = l.new
    BY <2>1, <2>2 DEF Content
  <2>5. obj' = t
    BY <1>1, <2>1, <2>3, <2>4 DEF State
  <2>6. IdsAreFresh'
    BY <1>1, <2>1, <2>3, <2>5 DEF IdsAreFresh, Live, State
  <2> QED BY <1>1, <2>3, <2>5, <2>6
<1> QED BY <1>3, <1>4, <1>5, <1>6 DEF Line, IsMarker

LEMMA ReplayLineStep == ASSUME IInv, ReplayLine PROVE IInv'
<1>1. /\ mode = "replay" /\ pos < Len(file) /\ DoForward(file[pos + 1]) /\ pos' = pos + 1
      /\ UNCHANGED <<nest, old, level, queue, undoOff, journal, snap, unjFile, births, saved, tuned>>
  BY DEF ReplayLine, disk
<1>2. pos + 1 \in 1..Len(file) /\ pos' \in 0..Len(file) /\ undoOff' \in Nat /\ pos \in Nat
  BY <1>1 DEF IInv, StorageOK
<1>3. /\ file[pos + 1] \in Line /\ LineStep(At(pos), file[pos + 1], At(pos + 1))
      /\ At(pos + 1) \in State
  BY <1>2, LineOnDisk DEF IInv
<1>4. obj = At(pos) /\ ObjectsOK /\ level = 0 /\ pending = <<>>
  BY <1>1 DEF IInv, ModeOK
<1>5. /\ obj' = At(pos + 1) /\ mode' = mode /\ mem' = mem
      /\ logId' \in Nat /\ dirty' \in BOOLEAN
      /\ unj' \in [Id -> 0..MaxBirths]
      /\ IdsAreFresh'
  <2> DEFINE l == file[pos + 1]
             t == At(pos + 1)
  <2>1. l \in Line /\ t \in State /\ LineStep(obj, l, t) /\ DoForward(l)
    BY <1>1, <1>3, <1>4
  <2> HIDE DEF l, t
  <2>2. /\ obj' = t /\ mode' = mode /\ mem' = mem
        /\ logId' \in Nat /\ dirty' \in BOOLEAN
        /\ unj' \in [Id -> 0..MaxBirths]
        /\ IdsAreFresh'
    BY <1>4, <2>1, ForwardStep
  <2> QED BY <2>2 DEF t
<1>6. StorageOK' /\ Written /\ pending' = pending
  BY <1>1, <1>2, NothingWritten DEF IInv
<1>7. ObjectsOK'
  BY <1>1, <1>3, <1>5 DEF IInv, ObjectsOK
<1>8. EditsOK'
  BY <1>1, <1>5 DEF IInv, EditsOK
<1>9. ModeOK'
  <2>1. At(pos)' = At(pos + 1)
    BY <1>1 DEF At, journal, Empty
  <2>2. snapNewer' => snap' = At(Len(file))'
    BY <1>1, <1>6 DEF IInv, ModeOK, Written
  <2> QED BY <1>1, <1>4, <1>5, <1>6, <2>1, <2>2 DEF ModeOK
<1>10. UndoOK'
  BY <1>1, <1>5 DEF UndoOK
<1> QED BY <1>6, <1>7, <1>8, <1>9, <1>10 DEF IInv

LEMMA LoadLineStep == ASSUME IInv, LoadLine PROVE IInv'
<1>1. /\ mode = "load"
      /\ UNCHANGED <<nest, old, level, queue, undoOff, pos, journal, snap, unjFile, births, saved, tuned>>
  BY DEF LoadLine, disk
<1>2. PICK i \in Id : snap[i] # Nil /\ obj[i] = Nil /\ DoForward(CreateLine(i, snap[i]))
  BY DEF LoadLine
<1>3. obj \in State /\ snap \in State /\ snap[i] \in Content /\ ObjectsOK
  BY <1>2 DEF IInv, ObjectsOK, State
<1>4. /\ CreateLine(i, snap[i]) \in Line
      /\ [obj EXCEPT ![i] = snap[i]] \in State
      /\ LineStep(obj, CreateLine(i, snap[i]), [obj EXCEPT ![i] = snap[i]])
  BY <1>2, <1>3, CreateLineStep
<1>5. /\ obj' = [obj EXCEPT ![i] = snap[i]] /\ mode' = mode /\ mem' = mem
      /\ logId' \in Nat /\ dirty' \in BOOLEAN
      /\ unj' \in [Id -> 0..MaxBirths]
      /\ IdsAreFresh'
  BY <1>2, <1>3, <1>4, ForwardStep
<1>6. StorageOK' /\ Written /\ pending' = pending
  <2>1. pos' \in 0..Len(file) /\ undoOff' \in Nat
    BY <1>1 DEF IInv, StorageOK
  <2> QED BY <1>1, <2>1, NothingWritten DEF IInv
<1>7. ObjectsOK'
  BY <1>1, <1>4, <1>5 DEF IInv, ObjectsOK
<1>8. EditsOK'
  BY <1>1, <1>5 DEF IInv, EditsOK
<1>9. ModeOK'
  <2>1. \A j \in Id : obj'[j] \in {Nil, snap'[j]}
    BY <1>1, <1>3, <1>5 DEF IInv, ModeOK, State
  <2>2. snapNewer' => snap' = At(Len(file))'
    BY <1>1, <1>6 DEF IInv, ModeOK, Written
  <2> QED BY <1>1, <1>5, <1>6, <2>1, <2>2 DEF IInv, ModeOK, journal
<1>10. UndoOK'
  BY <1>1, <1>5 DEF UndoOK
<1> QED BY <1>6, <1>7, <1>8, <1>9, <1>10 DEF IInv

LEMMA OpenEndStep == ASSUME IInv, OpenEnd PROVE IInv'
<1>1. /\ mode \in {"replay", "load"} /\ mode' = "open" /\ dirty' = FALSE
      /\ undoOff' = Len(file) /\ pos' = Len(file) /\ saved' = Logged
      /\ UNCHANGED <<obj, unj, mem, nest, old, logId, level, queue, journal, snap, unjFile, births, tuned>>
  BY DEF OpenEnd, mutable, disk
<1>2. StorageOK' /\ Written /\ End' = End /\ pending' = pending
  <2>1. pos' \in 0..Len(file) /\ undoOff' \in Nat
    BY <1>1 DEF IInv, StorageOK
  <2> QED BY <1>1, <2>1, NothingWritten DEF IInv
<1>3. level = 0 /\ pending = <<>> /\ (\A i \in Id : nest[i] = 0)
  BY <1>1 DEF IInv, ModeOK, EditsOK
<1>4. obj \in State /\ snap \in State
  BY DEF IInv, ObjectsOK
<1>5. Logged = obj
  BY <1>3, <1>4 DEF Logged, State
<1>6. obj = At(Len(file))
  <2>1. CASE mode = "replay"
    BY <2>1 DEF OpenEnd, IInv, ModeOK
  <2>2. CASE mode = "load"
    <3>1. \A i \in Id : (snap[i] # Nil => obj[i] # Nil) /\ obj[i] \in {Nil, snap[i]}
      BY <2>2 DEF OpenEnd, IInv, ModeOK
    <3>2. \A i \in Id : obj[i] = snap[i]
      BY <3>1
    <3>3. obj = snap
      BY <1>4, <3>2 DEF State
    <3> QED BY <2>2, <3>3 DEF IInv, ModeOK
  <2> QED BY <1>1, <2>1, <2>2
<1>7. End = Logged
  <2>1. phist \in Seq(State) /\ Len(phist) = Len(pending)
    BY DEF IInv, StorageOK, JournalIsBidirectional, Linked
  <2>2. phist = <<>>
    BY <1>3, <2>1
  <2> QED BY <1>5, <1>6, <2>2, LinkedEmpty DEF End
<1>8. ObjectsOK'
  BY <1>1, LoggedState DEF IInv, ObjectsOK, IdsAreFresh, Live
<1>9. EditsOK'
  BY <1>1 DEF IInv, EditsOK
<1>10. Logged' = Logged
  BY <1>1 DEF Logged
<1> QED BY <1>1, <1>2, <1>3, <1>7, <1>8, <1>9, <1>10, OpenStep

(* A new process knows nothing, which is all it has to know. *)
LEMMA FreshStep ==
  ASSUME IInv, FreshProcess,
         file' \in Seq(Line), hist' \in Seq(State), Linked(Empty, file', hist'), Opened(file'),
         snapNewer' \in BOOLEAN, snapNewer' => snap = At(Len(file))'
  PROVE  IInv'
<1>1. /\ mode' = "closed" /\ obj' = Empty /\ old' = Empty /\ level' = 0 /\ logId' = 0
      /\ unj' = Untouched /\ mem' = Untouched /\ nest' = Untouched
      /\ pending' = <<>> /\ phist' = <<>> /\ dirty' = FALSE /\ undoOff' = 0 /\ pos' = 0
      /\ UNCHANGED <<snap, unjFile, births, saved>>
      /\ tuned' = {unjFile[i] : i \in Id} \ {0}
  BY DEF FreshProcess, disk
<1>2. StorageOK'
  <2>1. Linked(At(Len(file))', <<>>, <<>>)
    BY LinkedEmpty
  <2>2. JournalIsBidirectional'
    BY <1>1, <2>1 DEF JournalIsBidirectional, Empty
  <2>3. pending' \in Seq(Line) /\ phist' \in Seq(State) /\ NoMarkers(pending')
    BY <1>1 DEF NoMarkers
  <2>4. pos' \in 0..Len(file') /\ undoOff' \in Nat
    BY <1>1
  <2> QED BY <2>2, <2>3, <2>4 DEF StorageOK
<1>3. ObjectsOK'
  <2>1. Empty \in State /\ Untouched \in [Id -> 0..MaxBirths] /\ Untouched \in [Id -> Nat]
    BY JournalAssumption DEF Empty, State, Untouched
  <2>2. IdsAreFresh'
    BY <1>1 DEF IdsAreFresh, Live, Empty
  <2>3. tuned' \subseteq Birth
    BY <1>1, JournalAssumption, SMTT(40) DEF IInv, ObjectsOK, Birth
  <2> QED BY <1>1, <2>1, <2>2, <2>3 DEF IInv, ObjectsOK
<1>4. EditsOK'
  BY <1>1 DEF EditsOK, Untouched, Empty
<1>5. ModeOK'
  BY <1>1 DEF ModeOK, Empty
<1>6. UndoOK'
  BY <1>1 DEF UndoOK
<1> QED BY <1>2, <1>3, <1>4, <1>5, <1>6 DEF IInv

LEMMA CrashStep == ASSUME IInv, Crash PROVE IInv'
<1>1. FreshProcess /\ file' = file /\ hist' = hist /\ snapNewer' = snapNewer
  BY DEF Crash, journal
<1>2. /\ file \in Seq(Line) /\ hist \in Seq(State) /\ Linked(Empty, file, hist)
      /\ Opened(file) /\ snapNewer \in BOOLEAN /\ (snapNewer => snap = At(Len(file)))
  BY DEF IInv, StorageOK, JournalIsBidirectional, ModeOK
<1>3. At(Len(file))' = At(Len(file))
  BY <1>1 DEF At, Empty
<1> QED BY <1>1, <1>2, <1>3, FreshStep

LEMMA TornFlushStep == ASSUME IInv, TornFlush PROVE IInv'
<1>1. FreshProcess /\ snapNewer' = FALSE /\ Len(pending) > 1
  BY DEF TornFlush
<1> DEFINE q == Framed(pending)
           g == FramedStates(At(Len(file)), phist)
<1>2. PICK n \in 1 .. Len(pending) + 1 :
        /\ file' = file \o SubSeq(q, 1, n)
        /\ hist' = hist \o SubSeq(g, 1, n)
  BY DEF TornFlush
<1>3. /\ pending \in Seq(Line) /\ phist \in Seq(State) /\ NoMarkers(pending)
      /\ Linked(At(Len(file)), pending, phist) /\ At(Len(file)) \in State
  BY AtEnd DEF IInv, StorageOK, JournalIsBidirectional
<1>4. /\ q \in Seq(Line) /\ g \in Seq(State) /\ Linked(At(Len(file)), q, g)
  BY <1>3, FramedLinked
<1>5. Opened(q)
  BY <1>3, FramedOpened
<1>6. n \in 0..Len(q)
  <2> DEFINE b == <<BraceLine("begin")>>
             e == <<BraceLine("end")>>
  <2>1. q = (b \o pending) \o e
    BY <1>1 DEF Framed
  <2>2. b \in Seq(Line) /\ e \in Seq(Line) /\ Len(b) = 1 /\ Len(e) = 1
    BY BraceLineType, Singleton
  <2> HIDE DEF b, e, q
  <2>3. b \o pending \in Seq(Line) /\ Len(b \o pending) = 1 + Len(pending) /\ Len(pending) \in Nat
    <3>1. pending \in Seq(Line) /\ b \in Seq(Line)
      BY <1>3, <2>2
    <3>2. /\ b \o pending \in Seq(Line) /\ Len(pending) \in Nat
          /\ Len(b \o pending) = Len(b) + Len(pending)
      BY <3>1, ConcatIndex
    <3> QED BY <2>2, <3>2
  <2>4. Len(q) = 1 + Len(pending) + 1
    BY <2>1, <2>2, <2>3, ConcatIndex
  <2> QED BY <2>3, <2>4
<1> HIDE DEF q, g
<1>7. /\ SubSeq(q, 1, n) \in Seq(Line)
      /\ Linked(At(Len(file)), SubSeq(q, 1, n), SubSeq(g, 1, n))
      /\ Opened(SubSeq(q, 1, n))
  BY <1>3, <1>4, <1>5, <1>6, LinkedPrefix, OpenedPrefix, PrefixIndex
<1>8. SubSeq(g, 1, n) \in Seq(State)
  <2>1. Len(g) = Len(q)
    BY <1>4 DEF Linked
  <2> QED BY <1>4, <1>6, <2>1, PrefixIndex
<1>9. /\ file' \in Seq(Line) /\ hist' \in Seq(State)
      /\ Linked(Empty, file', hist') /\ Opened(file')
  BY <1>2, <1>7, <1>8, Grow DEF IInv
<1> QED BY <1>1, <1>9, FreshStep

-----------------------------------------------------------------------------
(* The theorems *)

LEMMA InitIInv == Init => IInv
<1> SUFFICES ASSUME Init PROVE IInv
  OBVIOUS
<1> USE DEF Init
<1>1. Linked(Empty, <<>>, <<>>)
  BY LinkedEmpty
<1>2. StorageOK
  <2>1. Linked(At(Len(file)), <<>>, <<>>)
    BY LinkedEmpty
  <2>2. JournalIsBidirectional
    BY <1>1, <2>1 DEF JournalIsBidirectional
  <2>3. file \in Seq(Line) /\ pending \in Seq(Line) /\ hist \in Seq(State) /\ phist \in Seq(State)
    OBVIOUS
  <2>4. Opened(file) /\ NoMarkers(pending)
    BY DEF Opened, NoMarkers
  <2>5. Len(file) = 0 /\ pos = 0 /\ undoOff = 0 /\ snapNewer \in BOOLEAN
    OBVIOUS
  <2>6. pos \in 0..Len(file) /\ undoOff \in Nat
    <3> HIDE DEF Init
    <3> QED BY <2>5
  <2> QED BY <2>2, <2>3, <2>4, <2>5, <2>6 DEF StorageOK
<1>3. ObjectsOK
  <2>1. Empty \in State /\ Untouched \in [Id -> 0..MaxBirths] /\ Untouched \in [Id -> Nat]
    BY JournalAssumption DEF Empty, State, Untouched
  <2>2. IdsAreFresh
    BY DEF IdsAreFresh, Live, Empty
  <2>3. 0 \in 0..MaxBirths /\ births \in 0..MaxBirths /\ logId \in Nat /\ level \in Nat
    BY JournalAssumption
  <2>4. tuned \subseteq Birth /\ dirty \in BOOLEAN
    OBVIOUS
  <2>5. {unj, mem, unjFile} \subseteq [Id -> 0..MaxBirths] /\ nest \in [Id -> Nat]
    BY <2>1
  <2>6. obj \in State /\ old \in State /\ snap \in State /\ saved \in State
    BY <2>1
  <2>7. mode \in {"closed", "replay", "load", "open", "undo", "aborted"}
    OBVIOUS
  <2> QED BY <2>2, <2>3, <2>4, <2>5, <2>6, <2>7 DEF ObjectsOK
<1>4. EditsOK
  BY DEF EditsOK, Untouched, Empty
<1>5. ModeOK
  BY DEF ModeOK, Empty
<1>6. UndoOK
  BY DEF UndoOK
<1> QED BY <1>2, <1>3, <1>4, <1>5, <1>6 DEF IInv

LEMMA StutterIInv == IInv /\ UNCHANGED vars => IInv'
BY DEF vars, mutable, queue, journal, disk, IInv, StorageOK, ObjectsOK, EditsOK, ModeOK,
       UndoOK, JournalIsBidirectional, IdsAreFresh, Live, Logged, End, At, UndoesBlock, Empty

LEMMA NextIInv == IInv /\ [Next]_vars => IInv'
<1> SUFFICES ASSUME IInv, [Next]_vars PROVE IInv'
  OBVIOUS
<1>1. CASE UserStep
  BY <1>1, BlockStartStep, BlockEndStep, CreateStep, DestroyStep, LogStartStep, LogEndStep,
     TuneStep, AssignStep, ImportStep, UndoStartStep, SnapshotStep, CompactStep,
     OpenProjectStep, CloseStep DEF UserStep
<1>2. CASE LoopStep
  BY <1>2, UndoLineStep, UndoEndStep, ReplayLineStep, LoadLineStep, OpenEndStep DEF LoopStep
<1>3. CASE Crash
  BY <1>3, CrashStep
<1>4. CASE TornFlush
  BY <1>4, TornFlushStep
<1>5. CASE UNCHANGED vars
  BY <1>5, StutterIInv
<1> QED BY <1>1, <1>2, <1>3, <1>4, <1>5 DEF Next

LEMMA Invariance == Spec => []IInv
BY InitIInv, NextIInv, PTL DEF Spec

(* Every variable keeps its type, whatever the options. *)
THEOREM TypeCorrect == Spec => []TypeOK
<1>1. IInv => TypeOK
  BY DEF IInv, StorageOK, ObjectsOK, TypeOK
<1> QED BY <1>1, Invariance, PTL

(* Every line on disk and in the queue reads both ways: with crashes, torn      *)
(* writes, imports, saves and undo from a wrong offset alike.                   *)
THEOREM BidirectionalAlways == Spec => []JournalIsBidirectional
<1>1. IInv => JournalIsBidirectional
  BY DEF IInv, StorageOK
<1> QED BY <1>1, Invariance, PTL

(* The journal's end, with the transaction under way, is the logged state.      *)
THEOREM ReproducesAlways == Spec => []JournalReproducesState
<1>1. IInv => JournalReproducesState
  BY DEF IInv, ModeOK, End, JournalReproducesState
<1> QED BY <1>1, Invariance, PTL

(* replay() passes through the states of the history.                           *)
THEOREM ReplayAlwaysRetraces == Spec => []ReplayRetracesHistory
<1>1. IInv => ReplayRetracesHistory
  BY DEF IInv, StorageOK, ModeOK, ReplayRetracesHistory
<1> QED BY <1>1, Invariance, PTL

(* A snapshot that is newer than the journal rebuilds what the journal does.    *)
THEOREM SnapshotAlwaysAgrees == Spec => []SnapshotAgreesWithJournal
<1>1. IInv => SnapshotAgreesWithJournal
  BY DEF IInv, ModeOK, SnapshotAgreesWithJournal
<1> QED BY <1>1, Invariance, PTL

(* No id above _log_id is in use.                                               *)
THEOREM IdsAlwaysFresh == Spec => []IdsAreFresh
<1>1. IInv => IdsAreFresh
  BY DEF IInv, ObjectsOK
<1> QED BY <1>1, Invariance, PTL
-----------------------------------------------------------------------------
(* What the program remembers beside the journal: that nothing is unsaved    *)
(* (the dirty count), and the unjournaled state of the objects, dead or      *)
(* alive.                                                                   *)

-----------------------------------------------------------------------------
(* The dirty count *)

(* also while undo() is at work *)
CleanOK == mode \in {"open", "undo"} /\ ~dirty => Logged = saved

(* what is not written does not change the logged state *)
LEMMA UnwrittenLogged ==
  ASSUME IInv, IInv', mode = "open", mode' = "open",
         FlushAndReset(pending, phist) \/ NoLog
  PROVE  Logged' = Logged
<1>1. CASE FlushAndReset(pending, phist)
  BY <1>1, UserFlush DEF IInv, ModeOK
<1>2. CASE NoLog
  BY <1>2, NothingWritten DEF NoLog, IInv, ModeOK, StorageOK
<1> QED BY <1>1, <1>2

(* do_this( line, true ) marks the project dirty when it changes an object *)
LEMMA ReverseMarks ==
  ASSUME obj \in State, NEW l \in Line, DoReverse(l), mode' # "aborted"
  PROVE  dirty' = TRUE \/ (dirty' = dirty /\ obj' = obj)
<1>1. ASSUME NEW i, NEW c, Restore(i, c) PROVE dirty' = TRUE \/ (dirty' = dirty /\ obj' = obj)
  BY <1>1 DEF Restore, State
<1>2. CASE IsMarker(l)
  BY <1>2 DEF DoReverse, IsMarker, Abort
<1>3. CASE l.op = "create"
  <2>1. \/ Delete(l.id)
        \/ UNCHANGED <<mode, obj, unj, mem, logId, dirty, queue>>
    BY <1>3 DEF DoReverse, IsMarker
  <2> QED BY <2>1 DEF Delete
<1>4. CASE l.op = "destroy"
  <2>1. MakeObject(logId, l.id, l.old) \/ Abort
    BY <1>4 DEF DoReverse, IsMarker
  <2> QED BY <2>1 DEF MakeObject, Abort
<1>5. CASE l.op = "set"
  <2>1. Restore(l.id, [obj[l.id] EXCEPT !.val = l.old.val]) \/ Abort
    BY <1>5 DEF DoReverse, IsMarker
  <2> QED BY <1>1, <2>1 DEF Abort
<1> QED BY <1>2, <1>3, <1>4, <1>5 DEF Line, IsMarker

LEMMA NextClean ==
  ASSUME IInv, IInv', CleanOK, [Next]_vars
  PROVE  CleanOK'
<1> USE DEF CleanOK
<1>1. ASSUME Logged' = Logged, saved' = saved, dirty' = dirty, mode \in {"open", "undo"}
      PROVE  CleanOK'
  BY <1>1
<1>2. CASE dirty' = TRUE \/ mode' \notin {"open", "undo"}
  BY <1>2
<1>3. CASE UNCHANGED vars
  BY <1>3 DEF vars, mutable, Logged
<1>4. CASE BlockStart \/ BlockEnd \/ (\E i \in Id : LogStart(i) \/ Tune(i))
           \/ (\E i \in Id, v \in Val : Assign(i, v))
  <2>1. FlushAndReset(pending, phist) \/ NoLog
    BY <1>4 DEF BlockStart, BlockEnd, LogStart, Tune, Assign
  <2>2. mode = "open" /\ mode' = "open" /\ dirty' = dirty /\ saved' = saved
    BY <1>4 DEF BlockStart, BlockEnd, LogStart, Tune, Assign
  <2> QED BY <1>1, <2>1, <2>2, UnwrittenLogged
<1>5. ASSUME NEW i \in Id, LogEnd(i) PROVE CleanOK'
  <2>1. mode = "open" /\ mode' = "open" /\ saved' = saved
    BY <1>5 DEF LogEnd
  <2>2. \/ dirty' = TRUE
        \/ dirty' = dirty /\ (FlushAndReset(pending, phist) \/ NoLog)
    BY <1>5 DEF LogEnd
  <2> QED BY <1>1, <1>2, <2>1, <2>2, UnwrittenLogged
<1>6. ASSUME \/ \E v \in Val : Create(v)
             \/ \E i \in Id : Destroy(i)
             \/ \E k \in ImportIds, v \in Val : Import(k, v)
      PROVE  dirty' = TRUE \/ mode' \notin {"open", "undo"}
  BY <1>6 DEF Create, Destroy, Delete, Import, MakeObject, Abort
<1>7. CASE UndoStart \/ UndoEnd
  <2>1. UNCHANGED <<obj, nest, old, saved, dirty>> /\ mode \in {"open", "undo"}
    BY <1>7 DEF UndoStart, UndoEnd, mutable
  <2> QED BY <1>1, <2>1 DEF Logged
<1>8. CASE UndoLine
  <2>1. /\ mode = "undo" /\ UndoMore /\ DoReverse(file[pos])
        /\ UNCHANGED <<nest, old, saved>> /\ obj \in State
    BY <1>8 DEF UndoLine, IInv, ObjectsOK
  <2>2. file[pos] \in Line
    <3>1. pos \in 1..Len(file)
      BY <2>1 DEF IInv, UndoOK, StorageOK, UndoMore
    <3> QED BY <3>1 DEF IInv, StorageOK
  <2>3. dirty' = TRUE \/ mode' = "aborted" \/ (dirty' = dirty /\ obj' = obj)
    BY <2>1, <2>2, ReverseMarks
  <2> QED BY <1>1, <1>2, <2>1, <2>3 DEF Logged
<1>9. CASE Snapshot \/ Compact \/ OpenEnd
  <2>1. UNCHANGED <<obj, nest, old>> /\ saved' = Logged
    BY <1>9 DEF Snapshot, Compact, OpenEnd, mutable, WriteSnapshot
  <2> QED BY <2>1 DEF Logged
<1>10. Open \/ Close \/ Crash \/ TornFlush => mode' \notin {"open", "undo"}
  BY DEF Open, Close, Crash, TornFlush, FreshProcess
<1>11. ReplayLine \/ LoadLine => mode' \notin {"open", "undo"}
  BY DEF ReplayLine, LoadLine, DoForward, MakeObject, Abort
<1> QED BY <1>2, <1>3, <1>4, <1>5, <1>6, <1>7, <1>8, <1>9, <1>10, <1>11
        DEF Next, UserStep, LoopStep

(* A project that is not dirty has the state it had when it was last saved or    *)
(* opened: no way to change an object, not even undo(), an edit under way or an   *)
(* import, forgets set_dirty().                                                  *)
THEOREM CleanAlways == Spec => []CleanMeansUnchanged
<1>1. Init => CleanOK
  BY DEF Init, CleanOK
<1>2. IInv /\ IInv' /\ CleanOK /\ [Next]_vars => CleanOK'
  BY NextClean
<1>3. CleanOK => CleanMeansUnchanged
  BY DEF CleanOK, CleanMeansUnchanged
<1> QED BY <1>1, <1>2, <1>3, Invariance, PTL DEF Spec

-----------------------------------------------------------------------------
(* The unjournaled state *)

(* b names, for each id, the object it was given to: 0 for none.                *)

StateBorn(b, s) == \A i \in Id : s[i] # Nil => s[i].born = b[i]

LineBorn(b, l) ==
  /\ l.new # Nil => l.id \in Id /\ l.new.born = b[l.id]
  /\ l.old # Nil => l.id \in Id /\ l.old.born = b[l.id]

LinesBorn(b, p) == \A k \in 1..Len(p) : LineBorn(b, p[k])

(* an id is given to one object, and an object has one id *)
Named(b) ==
  /\ b \in [Id -> 0..births]
  /\ \A i, j \in Id : b[i] = b[j] /\ b[i] # 0 => i = j
  /\ \A i \in Id : i > logId => b[i] = 0
  /\ tuned \subseteq 1..births

(* whatever is in memory, on disk or on its way there is about that object *)
StatesBorn(b) == StateBorn(b, obj) /\ StateBorn(b, old) /\ StateBorn(b, snap)
WrittenBorn(b) == LinesBorn(b, file) /\ LinesBorn(b, pending)

(* the unjournaled state the object of id i has, or had when it was destroyed *)
Tag(b, i) == IF b[i] \in tuned THEN b[i] ELSE 0

Remembered(b) ==
  \A i \in Id :
    /\ mode = "closed" => unjFile[i] = Tag(b, i) /\ mem[i] = 0
    /\ mode \in {"replay", "load"} => mem[i] = Tag(b, i)
    /\ mode \in {"replay", "load", "open", "undo"} /\ obj[i] # Nil => unj[i] = Tag(b, i)
    /\ mode \in {"open", "undo"} /\ obj[i] = Nil => mem[i] = Tag(b, i)

BornOK(b) == Named(b) /\ StatesBorn(b) /\ WrittenBorn(b) /\ Remembered(b)

LEMMA FramedBorn ==
  ASSUME NEW b, NEW q \in Seq(Line), NEW p \in Seq(Line), LinesBorn(b, q), LinesBorn(b, p)
  PROVE  LinesBorn(b, q \o Framed(p))
<1>1. ASSUME NEW x \in Seq(Line), NEW y \in Seq(Line), LinesBorn(b, x), LinesBorn(b, y)
      PROVE  LinesBorn(b, x \o y) /\ x \o y \in Seq(Line)
  <2>1. /\ x \o y \in Seq(Line) /\ Len(x) \in Nat /\ Len(y) \in Nat
        /\ Len(x \o y) = Len(x) + Len(y)
        /\ \A k \in 1..Len(x) : (x \o y)[k] = x[k]
        /\ \A k \in 1..Len(y) : (x \o y)[Len(x) + k] = y[k]
    BY ConcatIndex
  <2> DEFINE z == x \o y
  <2>2. ASSUME NEW k \in 1..Len(z)
        PROVE  \/ k \in 1..Len(x) /\ z[k] = x[k]
               \/ k - Len(x) \in 1..Len(y) /\ z[k] = y[k - Len(x)]
    <3>1. \/ k \in 1..Len(x)
          \/ k - Len(x) \in 1..Len(y) /\ Len(x) + (k - Len(x)) = k
      BY <2>1
    <3> QED BY <2>1, <3>1
  <2> HIDE DEF z
  <2>3. LinesBorn(b, z)
    BY <1>1, <2>2 DEF LinesBorn
  <2> QED BY <2>1, <2>3 DEF z
<1>2. \A s \in {"begin", "end"} :
        <<BraceLine(s)>> \in Seq(Line) /\ LinesBorn(b, <<BraceLine(s)>>)
  <2> SUFFICES ASSUME NEW s \in {"begin", "end"}
               PROVE  <<BraceLine(s)>> \in Seq(Line) /\ LinesBorn(b, <<BraceLine(s)>>)
    OBVIOUS
  <2>1. BraceLine(s) \in Line /\ LineBorn(b, BraceLine(s))
    BY BraceLineType DEF BraceLine, LineBorn
  <2> QED BY <2>1 DEF LinesBorn
<1>3. CASE ~(Len(p) > 1)
  BY <1>1, <1>3 DEF Framed
<1>4. CASE Len(p) > 1
  <2> DEFINE u == <<BraceLine("begin")>>
             v == <<BraceLine("end")>>
  <2>1. u \in Seq(Line) /\ v \in Seq(Line) /\ LinesBorn(b, u) /\ LinesBorn(b, v)
    BY <1>2
  <2>2. Framed(p) = (u \o p) \o v
    BY <1>4 DEF Framed
  <2> HIDE DEF u, v
  <2>3. LinesBorn(b, u \o p) /\ u \o p \in Seq(Line)
    BY <1>1, <2>1
  <2>4. LinesBorn(b, Framed(p)) /\ Framed(p) \in Seq(Line)
    <3> DEFINE x == u \o p
    <3>1. x \in Seq(Line) /\ LinesBorn(b, x)
      BY <2>3
    <3> HIDE DEF x
    <3>2. LinesBorn(b, x \o v) /\ x \o v \in Seq(Line)
      BY <1>1, <2>1, <3>1
    <3> QED BY <2>2, <3>2 DEF x
  <2> QED BY <1>1, <2>4
<1> QED BY <1>3, <1>4

LEMMA AppendBorn ==
  ASSUME NEW b, NEW p \in Seq(Line), NEW l \in Line, LinesBorn(b, p), LineBorn(b, l)
  PROVE  Append(p, l) \in Seq(Line) /\ LinesBorn(b, Append(p, l))
<1>1. /\ Append(p, l) \in Seq(Line) /\ Len(Append(p, l)) = Len(p) + 1 /\ Len(p) \in Nat
      /\ \A k \in 1..Len(p) : Append(p, l)[k] = p[k]
      /\ Append(p, l)[Len(p) + 1] = l
  OBVIOUS
<1>2. \A k \in 1..Len(p) + 1 : k \in 1..Len(p) \/ k = Len(p) + 1
  BY <1>1
<1> QED BY <1>1, <1>2 DEF LinesBorn

(* What is written stays about those objects. *)

LEMMA EndBorn ==
  ASSUME IInv, NEW b, WrittenBorn(b), FlushAndReset(pending, phist) \/ NoLog \/ UndoEnd
  PROVE  WrittenBorn(b)'
<1>1. CASE FlushAndReset(pending, phist) \/ UndoEnd
  <2>1. file' = file \o Framed(pending) /\ pending' = <<>>
    BY <1>1 DEF FlushAndReset, UndoEnd, Flush
  <2>2. LinesBorn(b, file \o Framed(pending))
    BY FramedBorn DEF WrittenBorn, IInv, StorageOK
  <2> QED BY <2>1, <2>2 DEF WrittenBorn, LinesBorn
<1>2. CASE NoLog
  BY <1>2 DEF NoLog, WrittenBorn, queue, journal
<1> QED BY <1>1, <1>2

LEMMA LogBorn ==
  ASSUME IInv, NEW b, WrittenBorn(b), NEW l \in Line, LineBorn(b, l), NEW s, Log(l, s)
  PROVE  WrittenBorn(b)'
<1> DEFINE p == Append(pending, l)
<1>1. file \in Seq(Line) /\ pending \in Seq(Line)
  BY DEF IInv, StorageOK
<1>2. p \in Seq(Line) /\ LinesBorn(b, p)
  BY <1>1, AppendBorn DEF WrittenBorn
<1>3. \/ file' = file \o Framed(p) /\ pending' = <<>>
      \/ file' = file /\ pending' = p
  BY DEF Log, FlushAndReset, Flush, journal
<1> HIDE DEF p
<1>4. LinesBorn(b, file \o Framed(p))
  BY <1>1, <1>2, FramedBorn DEF WrittenBorn
<1> QED BY <1>2, <1>3, <1>4 DEF WrittenBorn, LinesBorn

(* A step that makes no object keeps the names. *)

LEMMA SameNames ==
  ASSUME NEW b, Named(b), UNCHANGED <<births, tuned>>, logId \in Nat,
         logId' \in Nat, logId' >= logId
  PROVE  Named(b)' /\ \A i \in Id : Tag(b, i)' = Tag(b, i)
BY DEF Named, Tag, Id

(* do_this( line, false ), of a line that is about an object b names *)
LEMMA ForwardBorn ==
  ASSUME IInv, NEW b, BornOK(b), mode \in {"replay", "load"},
         NEW s \in State, NEW t \in State, NEW l \in Line, LineStep(s, l, t), LineBorn(b, l),
         DoForward(l), UNCHANGED <<births, tuned, old, snap, unjFile, file, pending>>
  PROVE  BornOK(b)'
<1>1. /\ obj \in State /\ unj \in [Id -> 0..MaxBirths] /\ logId \in Nat
      /\ Named(b) /\ StatesBorn(b) /\ WrittenBorn(b) /\ Remembered(b)
  BY DEF IInv, ObjectsOK, BornOK
<1>2. WrittenBorn(b)' /\ StateBorn(b, old') /\ StateBorn(b, snap')
  BY <1>1 DEF WrittenBorn, StatesBorn
<1>3. ASSUME Abort
      PROVE  BornOK(b)'
  <2>1. Named(b)' /\ StateBorn(b, obj')
    BY <1>1, <1>3, SameNames DEF Abort, StatesBorn
  <2> QED BY <1>2, <1>3, <2>1 DEF Abort, BornOK, StatesBorn, Remembered
<1>4. ASSUME UNCHANGED <<mode, obj, unj, mem, logId>>
      PROVE  BornOK(b)'
  <2>1. Named(b)' /\ StateBorn(b, obj') /\ \A i \in Id : Tag(b, i)' = Tag(b, i)
    BY <1>1, <1>4, SameNames DEF StatesBorn
  <2> QED BY <1>1, <1>2, <1>4, <2>1 DEF BornOK, StatesBorn, Remembered
<1>5. CASE l.op = "create" /\ l.id \in Id /\ l.new \in Content
  <2>1. MakeObject(logId, l.id, l.new) \/ Abort
    BY <1>5 DEF DoForward, IsMarker
  <2>2. ASSUME MakeObject(logId, l.id, l.new)
        PROVE  BornOK(b)'
    <3>1. logId' \in Nat /\ logId' >= logId /\ mode' = mode /\ mem' = mem
          /\ obj' = [obj EXCEPT ![l.id] = l.new] /\ unj' = [unj EXCEPT ![l.id] = mem[l.id]]
      BY <1>1, <1>5, <2>2 DEF MakeObject, Id
    <3>2. Named(b)' /\ \A i \in Id : Tag(b, i)' = Tag(b, i)
      BY <1>1, <3>1, SameNames
    <3>3. StateBorn(b, obj')
      BY <1>1, <1>5, <3>1, JournalAssumption DEF StatesBorn, StateBorn, LineBorn, State
    <3>4. Remembered(b)'
      BY <1>1, <3>1, <3>2 DEF Remembered, State
    <3> QED BY <1>2, <3>2, <3>3, <3>4 DEF BornOK, StatesBorn
  <2> QED BY <1>3, <2>1, <2>2
<1>6. CASE l.op = "destroy" /\ l.id \in Id
  <2>1. /\ obj' = [obj EXCEPT ![l.id] = Nil] /\ unj' = [unj EXCEPT ![l.id] = 0]
        /\ mode' = mode /\ mem' = mem /\ logId' = logId
    BY <1>6 DEF DoForward, IsMarker
  <2>2. Named(b)' /\ \A i \in Id : Tag(b, i)' = Tag(b, i)
    BY <1>1, <2>1, SameNames
  <2>3. StateBorn(b, obj')
    BY <1>1, <2>1 DEF StatesBorn, StateBorn, State
  <2>4. Remembered(b)'
    BY <1>1, <2>1, <2>2 DEF Remembered, State
  <2> QED BY <1>2, <2>2, <2>3, <2>4 DEF BornOK, StatesBorn
<1>7. CASE l.op = "set" /\ l.id \in Id
  <2>1. \/ Abort
        \/ /\ obj[l.id] # Nil /\ obj' = [obj EXCEPT ![l.id].val = l.new.val]
           /\ UNCHANGED <<mode, unj, mem, logId>>
    BY <1>7 DEF DoForward, IsMarker
  <2>2. ASSUME obj[l.id] # Nil, obj' = [obj EXCEPT ![l.id].val = l.new.val],
               UNCHANGED <<mode, unj, mem, logId>>
        PROVE  BornOK(b)'
    <3>1. Named(b)' /\ \A i \in Id : Tag(b, i)' = Tag(b, i)
      BY <1>1, <2>2, SameNames
    <3>2. obj[l.id] \in Content
      BY <1>1, <1>7, <2>2 DEF State
    <3>3. /\ obj'[l.id].born = obj[l.id].born
          /\ \A i \in Id : i # l.id => obj'[i] = obj[i]
      BY <1>1, <1>7, <2>2, <3>2 DEF State, Content
    <3>4. StateBorn(b, obj')
      BY <1>1, <1>7, <2>2, <3>3 DEF StatesBorn, StateBorn
    <3>5. Remembered(b)'
      BY <1>1, <1>7, <2>2, <3>1, <3>3 DEF Remembered
    <3> QED BY <1>2, <3>1, <3>4, <3>5 DEF BornOK, StatesBorn
  <2> QED BY <1>3, <2>1, <2>2
<1>8. CASE IsMarker(l)
  BY <1>4, <1>8 DEF DoForward, IsMarker
<1> QED BY <1>5, <1>6, <1>7, <1>8, LinePlausible

(* do_this( line, true ), and the line it queues *)
LEMMA ReverseBorn ==
  ASSUME IInv, NEW b, BornOK(b), mode = "undo",
         NEW s \in State, NEW t \in State, NEW l \in Line, LineStep(s, l, t), LineBorn(b, l),
         DoReverse(l), UNCHANGED <<births, tuned, old, snap, unjFile, file>>
  PROVE  BornOK(b)'
<1>1. /\ obj \in State /\ unj \in [Id -> 0..MaxBirths] /\ mem \in [Id -> 0..MaxBirths]
      /\ logId \in Nat /\ pending \in Seq(Line)
      /\ Named(b) /\ StatesBorn(b) /\ WrittenBorn(b) /\ Remembered(b)
  BY DEF IInv, ObjectsOK, StorageOK, BornOK
<1>2. StateBorn(b, old') /\ StateBorn(b, snap')
  BY <1>1 DEF StatesBorn
<1>3. ASSUME UNCHANGED queue PROVE WrittenBorn(b)'
  BY <1>1, <1>3 DEF WrittenBorn, queue
<1>4. ASSUME NEW m \in Line, NEW u, LineBorn(b, m), Queue(m, u) PROVE WrittenBorn(b)'
  BY <1>1, <1>4, AppendBorn DEF WrittenBorn, Queue
<1>5. ASSUME Abort, UNCHANGED queue
      PROVE  BornOK(b)'
  <2>1. Named(b)' /\ StateBorn(b, obj')
    BY <1>1, <1>5, SameNames DEF Abort, StatesBorn
  <2> QED BY <1>2, <1>3, <1>5, <2>1 DEF Abort, BornOK, StatesBorn, Remembered
<1>6. ASSUME NEW i \in Id, NEW c \in Content, c.born = b[i]
      PROVE  /\ CreateLine(i, c) \in Line /\ LineBorn(b, CreateLine(i, c))
             /\ DestroyLine(i, c) \in Line /\ LineBorn(b, DestroyLine(i, c))
             /\ \A d \in Content : d.born = b[i] =>
                  SetLine(i, c, d) \in Line /\ LineBorn(b, SetLine(i, c, d))
  BY <1>6 DEF CreateLine, DestroyLine, SetLine, Line, LineBorn, Id
<1>7. CASE l.op = "create" /\ l.id \in Id
  <2>1. CASE obj[l.id] = Nil
    <3>1. UNCHANGED <<mode, obj, unj, mem, logId, queue>>
      BY <1>7, <2>1 DEF DoReverse, IsMarker
    <3>2. Named(b)' /\ StateBorn(b, obj') /\ \A i \in Id : Tag(b, i)' = Tag(b, i)
      BY <1>1, <3>1, SameNames DEF StatesBorn
    <3> QED BY <1>1, <1>2, <1>3, <3>1, <3>2 DEF BornOK, StatesBorn, Remembered
  <2>2. CASE obj[l.id] # Nil
    <3>1. /\ Delete(l.id)
          /\ Queue(DestroyLine(l.id, obj[l.id]), [Logged EXCEPT ![l.id] = Nil])
      BY <1>7, <2>2 DEF DoReverse, IsMarker
    <3>2. obj[l.id] \in Content /\ obj[l.id].born = b[l.id]
      BY <1>1, <1>7, <2>2 DEF State, StatesBorn, StateBorn
    <3>3. WrittenBorn(b)'
      BY <1>4, <1>6, <1>7, <3>1, <3>2
    <3>4. Named(b)' /\ \A i \in Id : Tag(b, i)' = Tag(b, i)
      BY <1>1, <3>1, SameNames DEF Delete
    <3>5. StateBorn(b, obj')
      BY <1>1, <3>1 DEF Delete, StatesBorn, StateBorn, State
    <3>6. Remembered(b)'
      BY <1>1, <1>7, <2>2, <3>1, <3>4 DEF Delete, Remembered, State
    <3> QED BY <1>2, <3>3, <3>4, <3>5, <3>6 DEF BornOK, StatesBorn
  <2> QED BY <2>1, <2>2
<1>8. CASE l.op = "destroy" /\ l.id \in Id /\ l.old \in Content
  <2>1. \/ Abort /\ UNCHANGED queue
        \/ /\ obj[l.id] = Nil /\ MakeObject(logId, l.id, l.old)
           /\ Queue(CreateLine(l.id, l.old), [Logged EXCEPT ![l.id] = l.old])
    BY <1>8 DEF DoReverse, IsMarker
  <2>2. ASSUME obj[l.id] = Nil, MakeObject(logId, l.id, l.old),
               Queue(CreateLine(l.id, l.old), [Logged EXCEPT ![l.id] = l.old])
        PROVE  BornOK(b)'
    <3>1. l.old.born = b[l.id]
      BY <1>8, JournalAssumption DEF LineBorn
    <3>2. WrittenBorn(b)'
      BY <1>4, <1>6, <1>8, <2>2, <3>1
    <3>3. logId' \in Nat /\ logId' >= logId /\ mode' = mode /\ mem' = mem
          /\ obj' = [obj EXCEPT ![l.id] = l.old] /\ unj' = [unj EXCEPT ![l.id] = mem[l.id]]
      BY <1>1, <1>8, <2>2 DEF MakeObject, Id
    <3>4. Named(b)' /\ \A i \in Id : Tag(b, i)' = Tag(b, i)
      BY <1>1, <3>3, SameNames
    <3>5. StateBorn(b, obj')
      BY <1>1, <1>8, <3>1, <3>3 DEF StatesBorn, StateBorn, State
    <3>6. Remembered(b)'
      BY <1>1, <1>8, <2>2, <3>3, <3>4, JournalAssumption DEF Remembered, State
    <3> QED BY <1>2, <3>2, <3>4, <3>5, <3>6 DEF BornOK, StatesBorn
  <2> QED BY <1>5, <2>1, <2>2
<1>9. CASE l.op = "set" /\ l.id \in Id /\ l.old \in Content
  <2>1. CASE obj[l.id] = Nil
    BY <1>5, <1>9, <2>1 DEF DoReverse, IsMarker
  <2>2. CASE obj[l.id] # Nil
    <3> DEFINE c == [obj[l.id] EXCEPT !.val = l.old.val]
    <3>1. Restore(l.id, c)
      BY <1>9, <2>2 DEF DoReverse, IsMarker
    <3>2. obj[l.id] \in Content /\ obj[l.id].born = b[l.id]
      BY <1>1, <1>9, <2>2 DEF State, StatesBorn, StateBorn
    <3>3. c \in Content /\ c.born = b[l.id]
      BY <1>9, <3>2 DEF Content
    <3> HIDE DEF c
    <3>4. obj' = [obj EXCEPT ![l.id] = c] /\ UNCHANGED <<mode, unj, mem, logId>>
          /\ \/ UNCHANGED queue
             \/ Queue(SetLine(l.id, c, obj[l.id]), [Logged EXCEPT ![l.id] = c])
      BY <3>1 DEF Restore
    <3>5. WrittenBorn(b)'
      BY <1>3, <1>4, <1>6, <1>9, <3>2, <3>3, <3>4
    <3>6. Named(b)' /\ \A i \in Id : Tag(b, i)' = Tag(b, i)
      BY <1>1, <3>4, SameNames
    <3>7. StateBorn(b, obj')
      BY <1>1, <1>9, <3>3, <3>4 DEF StatesBorn, StateBorn, State
    <3>8. Remembered(b)'
      BY <1>1, <1>9, <2>2, <3>3, <3>4, <3>6, JournalAssumption DEF Remembered, State
    <3> QED BY <1>2, <3>5, <3>6, <3>7, <3>8 DEF BornOK, StatesBorn
  <2> QED BY <2>1, <2>2
<1>10. CASE IsMarker(l)
  BY <1>5, <1>10 DEF DoReverse, IsMarker
<1> QED BY <1>7, <1>8, <1>9, <1>10, LinePlausible

(* A new object takes an id that was given to none. *)
LEMMA AppearsBorn ==
  ASSUME IInv, NEW b, BornOK(b), mode = "open", mode' = "open",
         NEW i \in Id, i > logId, logId' \in Nat, logId' >= i,
         NEW c \in Content, c.born = births + 1, births' = births + 1,
         obj' = [obj EXCEPT ![i] = c],
         unj' = [unj EXCEPT ![i] = 0] \/ unj' = [unj EXCEPT ![i] = mem[i]],
         UNCHANGED <<mem, old, snap, tuned, unjFile>>,
         NEW s, Log(CreateLine(i, c), s),
         NEW d, d = [b EXCEPT ![i] = births + 1]
  PROVE  BornOK(d)'
<1>1. /\ obj \in State /\ old \in State /\ snap \in State /\ unj \in [Id -> 0..MaxBirths]
      /\ logId \in Nat /\ births \in Nat /\ file \in Seq(Line) /\ pending \in Seq(Line)
      /\ Named(b) /\ StatesBorn(b) /\ WrittenBorn(b) /\ Remembered(b)
  BY JournalAssumption DEF IInv, ObjectsOK, StorageOK, BornOK
<1>2. /\ b \in [Id -> 0..births] /\ b[i] = 0 /\ d \in [Id -> 0..births + 1]
      /\ d[i] = births + 1 /\ \A j \in Id : j # i => d[j] = b[j]
  BY <1>1 DEF Named
<1>3. Named(d)'
  <2>1. \A j, k \in Id : d[j] = d[k] /\ d[j] # 0 => j = k
    <3>1. \A j \in Id : b[j] \in 0..births
      BY <1>2
    <3> QED BY <1>1, <1>2, <3>1 DEF Named
  <2>2. \A j \in Id : j > logId' => d[j] = 0
    BY <1>1, <1>2 DEF Named, Id
  <2>3. tuned' \subseteq 1..births'
    BY <1>1 DEF Named
  <2> QED BY <1>2, <2>1, <2>2, <2>3 DEF Named
<1>4. \A e \in Content : e.born # 0
  BY DEF Content, Birth
<1>5. ASSUME NEW z \in State, StateBorn(b, z)
      PROVE  StateBorn(d, z)
  <2>1. z[i] = Nil
    BY <1>2, <1>4, <1>5 DEF State, StateBorn
  <2> QED BY <1>2, <1>5, <2>1 DEF StateBorn
<1>6. ASSUME NEW p \in Seq(Line), LinesBorn(b, p)
      PROVE  LinesBorn(d, p)
  <2> SUFFICES ASSUME NEW k \in 1..Len(p) PROVE LineBorn(d, p[k])
    BY DEF LinesBorn
  <2>1. LineBorn(b, p[k]) /\ p[k] \in Line
    BY <1>6 DEF LinesBorn
  <2>2. p[k].new \in Content \cup {Nil} /\ p[k].old \in Content \cup {Nil}
    BY <2>1 DEF Line
  <2> QED BY <1>2, <1>4, <2>1, <2>2 DEF LineBorn
<1>7. WrittenBorn(d)'
  <2>1. WrittenBorn(d)
    BY <1>1, <1>6 DEF WrittenBorn
  <2>2. CreateLine(i, c) \in Line /\ LineBorn(d, CreateLine(i, c))
    BY <1>2 DEF CreateLine, Line, LineBorn, Id
  <2> QED BY <2>1, <2>2, LogBorn
<1>8. StatesBorn(d)'
  <2>1. StateBorn(d, obj) /\ StateBorn(d, old) /\ StateBorn(d, snap)
    BY <1>1, <1>5 DEF StatesBorn
  <2> QED BY <1>1, <1>2, <2>1 DEF StatesBorn, StateBorn, State
<1>9. /\ Tag(d, i)' = 0 /\ Tag(b, i) = 0
      /\ \A j \in Id : j # i => Tag(d, j)' = Tag(b, j)
  BY <1>1, <1>2 DEF Tag, Named
<1>10. Remembered(d)'
  <2>1. obj[i] = Nil
    BY <1>1, <1>2, <1>4 DEF State, StatesBorn, StateBorn
  <2>2. mem[i] = 0
    BY <1>1, <1>9, <2>1 DEF Remembered
  <2>3. unj' = [unj EXCEPT ![i] = 0]
    BY <2>2
  <2>4. obj'[i] # Nil
    BY <1>1, JournalAssumption DEF State
  <2> QED BY <1>1, <1>9, <2>3, <2>4 DEF Remembered, State
<1> QED BY <1>3, <1>7, <1>8, <1>10 DEF BornOK

(* Steps that leave objects, ids and tags alone. *)
LEMMA StillBorn ==
  ASSUME NEW b, BornOK(b), WrittenBorn(b)', StatesBorn(b)', logId \in Nat,
         UNCHANGED <<obj, unj, mem, unjFile, logId, births, tuned>>,
         mode' = mode \/ mode' = "aborted"
           \/ (mode \in {"open", "undo"} /\ mode' \in {"open", "undo"})
           \/ (mode \in {"replay", "load"} /\ mode' = "open")
  PROVE  BornOK(b)'
<1>1. Named(b)' /\ \A i \in Id : Tag(b, i)' = Tag(b, i)
  BY SameNames DEF BornOK
<1>2. Remembered(b)'
  BY <1>1 DEF BornOK, Remembered
<1> QED BY <1>1, <1>2 DEF BornOK

LEMMA UserBorn ==
  ASSUME IInv, NEW b, BornOK(b),
         \/ BlockStart \/ BlockEnd
         \/ \E i \in Id : Destroy(i) \/ LogStart(i) \/ LogEnd(i) \/ Tune(i)
         \/ \E i \in Id, v \in Val : Assign(i, v)
  PROVE  BornOK(b)'
<1>1. /\ obj \in State /\ old \in State /\ unj \in [Id -> 0..MaxBirths]
      /\ logId \in Nat /\ pending \in Seq(Line)
      /\ Named(b) /\ StatesBorn(b) /\ WrittenBorn(b) /\ Remembered(b)
  BY DEF IInv, ObjectsOK, StorageOK, BornOK
<1>2. CASE BlockStart \/ BlockEnd
  <2>1. /\ UNCHANGED <<obj, old, snap, unj, mem, unjFile, logId, births, tuned>> /\ mode' = mode
        /\ FlushAndReset(pending, phist) \/ NoLog
    BY <1>2 DEF BlockStart, BlockEnd, mutable, disk
  <2>2. WrittenBorn(b)' /\ StatesBorn(b)'
    BY <1>1, <2>1, EndBorn DEF StatesBorn
  <2> QED BY <1>1, <2>1, <2>2, StillBorn
<1>3. ASSUME NEW i \in Id, LogStart(i) PROVE BornOK(b)'
  <2>1. /\ UNCHANGED <<obj, snap, unj, mem, unjFile, logId, births, tuned>> /\ mode' = mode
        /\ old' = IF old[i] = Nil THEN [old EXCEPT ![i] = obj[i]] ELSE old
        /\ NoLog
    BY <1>3 DEF LogStart, disk
  <2>2. StatesBorn(b)'
    BY <1>1, <2>1 DEF StatesBorn, StateBorn, State
  <2> QED BY <1>1, <2>1, <2>2, StillBorn, EndBorn
<1>4. ASSUME NEW i \in Id, LogEnd(i) PROVE BornOK(b)'
  <2>1. /\ UNCHANGED <<obj, snap, unj, mem, unjFile, logId, births, tuned>> /\ mode' = mode
        /\ old' = old \/ old' = [old EXCEPT ![i] = Nil]
        /\ obj[i] # Nil /\ nest[i] > 0
    BY <1>4 DEF LogEnd, disk, Live
  <2>2. \/ FlushAndReset(pending, phist) \/ NoLog
        \/ Log(SetLine(i, obj[i], old[i]), [Logged EXCEPT ![i] = obj[i]])
    BY <1>4 DEF LogEnd
  <2>3. SetLine(i, obj[i], old[i]) \in Line /\ LineBorn(b, SetLine(i, obj[i], old[i]))
    BY <1>1 DEF SetLine, Line, LineBorn, StatesBorn, StateBorn, State, Id
  <2>4. WrittenBorn(b)'
    <3> DEFINE l == SetLine(i, obj[i], old[i])
    <3>1. (\E s : Log(l, s)) \/ FlushAndReset(pending, phist) \/ NoLog
      BY <2>2, Zenon
    <3>2. l \in Line /\ LineBorn(b, l)
      BY <2>3
    <3> HIDE DEF l
    <3> QED BY <1>1, <3>1, <3>2, LogBorn, EndBorn
  <2>5. StatesBorn(b)'
    BY <1>1, <2>1 DEF StatesBorn, StateBorn, State
  <2> QED BY <1>1, <2>1, <2>4, <2>5, StillBorn
<1>5. ASSUME NEW i \in Id, NEW v \in Val, Assign(i, v) PROVE BornOK(b)'
  <2>1. /\ UNCHANGED <<old, snap, unj, mem, unjFile, logId, births, tuned>>
        /\ mode = "open" /\ mode' = "open"
        /\ obj' = [obj EXCEPT ![i].val = v] /\ obj[i] # Nil /\ NoLog
    BY <1>5 DEF Assign, disk, Live
  <2>2. obj[i] \in Content
    BY <1>1, <2>1 DEF State
  <2>3. /\ obj'[i].born = obj[i].born
        /\ \A j \in Id : j # i => obj'[j] = obj[j]
    BY <1>1, <2>1, <2>2 DEF State, Content
  <2>4. Named(b)' /\ \A j \in Id : Tag(b, j)' = Tag(b, j)
    BY <1>1, <2>1, SameNames
  <2>5. StatesBorn(b)'
    BY <1>1, <2>1, <2>3 DEF StatesBorn, StateBorn
  <2>6. obj'[i] # Nil
    BY <1>1, <2>1, <2>2, JournalAssumption DEF State, Content
  <2>7. \A j \in Id : obj'[j] = Nil <=> obj[j] = Nil
    BY <2>1, <2>3, <2>6
  <2>8. Remembered(b)'
    BY <1>1, <2>1, <2>4, <2>7 DEF Remembered
  <2> QED BY <1>1, <2>1, <2>4, <2>5, <2>8, EndBorn DEF BornOK
<1>6. ASSUME NEW i \in Id, Tune(i) PROVE BornOK(b)'
  <2>1. /\ UNCHANGED <<obj, old, snap, mem, unjFile, logId, births>>
        /\ mode = "open" /\ mode' = "open" /\ obj[i] # Nil /\ NoLog
        /\ unj' = [unj EXCEPT ![i] = obj[i].born]
        /\ tuned' = tuned \cup {obj[i].born}
    BY <1>6 DEF Tune, disk, Live
  <2>2. obj[i].born = b[i] /\ b[i] # 0 /\ b[i] \in 1..births
    <3>1. obj[i] \in Content /\ obj[i].born = b[i]
      BY <1>1, <2>1 DEF State, StatesBorn, StateBorn
    <3>2. obj[i].born \in Birth /\ births \in Nat
      BY <3>1, JournalAssumption DEF Content, IInv, ObjectsOK
    <3> QED BY <1>1, <3>1, <3>2, JournalAssumption DEF Birth, Named
  <2>3. Tag(b, i)' = b[i] /\ \A j \in Id : j # i => Tag(b, j)' = Tag(b, j)
    BY <1>1, <2>1, <2>2 DEF Tag, Named
  <2>4. Named(b)'
    BY <1>1, <2>1, <2>2 DEF Named
  <2>5. Remembered(b)'
    BY <1>1, <2>1, <2>2, <2>3 DEF Remembered
  <2> QED BY <1>1, <2>1, <2>4, <2>5, EndBorn DEF BornOK, StatesBorn
<1>7. ASSUME NEW i \in Id, Destroy(i) PROVE BornOK(b)'
  <2>1. /\ UNCHANGED <<old, snap, unjFile, logId, births, tuned>>
        /\ mode = "open" /\ mode' = "open" /\ obj[i] # Nil
        /\ mem' = [mem EXCEPT ![i] = unj[i]] /\ mem \in [Id -> 0..MaxBirths]
        /\ obj' = [obj EXCEPT ![i] = Nil] /\ unj' = [unj EXCEPT ![i] = 0]
        /\ Log(DestroyLine(i, obj[i]), [Logged EXCEPT ![i] = Nil])
    BY <1>7 DEF Destroy, Delete, disk, Live, IInv, ObjectsOK
  <2>2. DestroyLine(i, obj[i]) \in Line /\ LineBorn(b, DestroyLine(i, obj[i]))
    BY <1>1 DEF DestroyLine, Line, LineBorn, StatesBorn, StateBorn, State, Id
  <2>3. WrittenBorn(b)'
    BY <1>1, <2>1, <2>2, LogBorn
  <2>4. Named(b)' /\ \A j \in Id : Tag(b, j)' = Tag(b, j)
    BY <1>1, <2>1, SameNames
  <2>5. StatesBorn(b)'
    BY <1>1, <2>1 DEF StatesBorn, StateBorn, State
  <2>6. Remembered(b)'
    BY <1>1, <2>1, <2>4 DEF Remembered, State
  <2> QED BY <2>3, <2>4, <2>5, <2>6 DEF BornOK
<1> QED BY <1>2, <1>3, <1>4, <1>5, <1>6, <1>7

LEMMA UndoBorn ==
  ASSUME IInv, NEW b, BornOK(b), UndoStart \/ UndoLine \/ UndoEnd
  PROVE  BornOK(b)'
<1>1. /\ WrittenBorn(b) /\ StatesBorn(b) /\ logId \in Nat
  BY DEF IInv, ObjectsOK, BornOK
<1>2. CASE UndoStart \/ UndoEnd
  <2>1. /\ UNCHANGED <<obj, old, snap, unj, mem, unjFile, logId, births, tuned>>
        /\ mode \in {"open", "undo"} /\ mode' \in {"open", "undo", "aborted"}
    BY <1>2 DEF UndoStart, UndoEnd, mutable, disk
  <2>2. UndoEnd \/ UNCHANGED <<file, pending>>
    BY <1>2 DEF UndoStart, journal, queue
  <2>3. WrittenBorn(b)'
    BY <1>1, <2>2, EndBorn DEF WrittenBorn
  <2>4. mode' = "aborted" \/ mode' \in {"open", "undo"}
    BY <2>1
  <2>5. StatesBorn(b)'
    BY <1>1, <2>1 DEF StatesBorn
  <2> QED BY <1>1, <2>1, <2>3, <2>4, <2>5, StillBorn
<1>3. CASE UndoLine
  <2>1. /\ mode = "undo" /\ UndoMore /\ DoReverse(file[pos])
        /\ UNCHANGED <<births, tuned, old, snap, unjFile, file>>
    BY <1>3 DEF UndoLine, journal, disk
  <2>2. pos \in 1..Len(file)
    BY <2>1 DEF IInv, UndoOK, StorageOK, UndoMore
  <2>3. /\ file[pos] \in Line /\ LineStep(At(pos - 1), file[pos], At(pos))
        /\ At(pos - 1) \in State /\ At(pos) \in State
    BY <2>2, LineOnDisk DEF IInv
  <2>4. LineBorn(b, file[pos])
    BY <1>1, <2>2 DEF WrittenBorn, LinesBorn
  <2> DEFINE l == file[pos]
             s == At(pos - 1)
             t == At(pos)
  <2>5. /\ l \in Line /\ s \in State /\ t \in State /\ LineStep(s, l, t) /\ LineBorn(b, l)
        /\ DoReverse(l)
    BY <2>1, <2>3, <2>4
  <2> HIDE DEF l, s, t
  <2> QED BY <2>1, <2>5, ReverseBorn
<1> QED BY <1>2, <1>3

LEMMA SaveBorn ==
  ASSUME IInv, NEW b, BornOK(b), Snapshot \/ Compact \/ Close
  PROVE  BornOK(b)'
<1>1. /\ obj \in State /\ logId \in Nat
      /\ Named(b) /\ StatesBorn(b) /\ WrittenBorn(b) /\ Remembered(b)
  BY DEF IInv, ObjectsOK, BornOK
<1>2. CASE Snapshot
  <2>1. /\ UNCHANGED <<obj, old, unj, mem, unjFile, logId, births, tuned, file, pending>>
        /\ mode' = mode /\ snap' = obj
    BY <1>2 DEF Snapshot, WriteSnapshot, mutable, queue
  <2> QED BY <1>1, <2>1, StillBorn DEF StatesBorn, WrittenBorn
<1>3. CASE Compact
  <2>1. /\ UNCHANGED <<obj, old, snap, unj, mem, unjFile, logId, births, tuned, pending>>
        /\ mode' = mode
    BY <1>3 DEF Compact, mutable, queue, disk
  <2>2. PICK f \in SnapshotOrders : file' = Framed(SnapshotLines(f))
    BY <1>3 DEF Compact
  <2> DEFINE p == SnapshotLines(f)
  <2>3. p \in Seq(Line)
    BY <1>1, SnapshotHistory
  <2>4. LinesBorn(b, p)
    <3>1. PICK n \in 0..MaxId : f \in [1..n -> Live]
      BY DEF SnapshotOrders
    <3>2. n \in Nat /\ p = [k \in 1..n |-> CreateLine(f[k], obj[f[k]])]
      BY <3>1, JournalAssumption DEF SnapshotLines
    <3> HIDE DEF p
    <3>3. Len(p) = n
      BY <3>2
    <3>4. \A k \in 1..n : LineBorn(b, CreateLine(f[k], obj[f[k]]))
      BY <1>1, <3>1 DEF Live, StatesBorn, StateBorn, LineBorn, CreateLine
    <3> QED BY <3>2, <3>3, <3>4 DEF LinesBorn
  <2> HIDE DEF p
  <2>5. LinesBorn(b, file')
    <3>1. <<>> \in Seq(Line) /\ LinesBorn(b, <<>>)
      BY DEF LinesBorn
    <3> DEFINE q == <<>>
    <3>2. q \in Seq(Line) /\ LinesBorn(b, q)
      BY <3>1
    <3> HIDE DEF q
    <3>3. LinesBorn(b, q \o Framed(p))
      BY <2>3, <2>4, <3>2, FramedBorn
    <3>4. Framed(p) \in Seq(Line)
      BY <2>3, BraceLineType DEF Framed
    <3>5. q \o Framed(p) = Framed(p)
      BY <3>4 DEF q
    <3> QED BY <2>2, <3>3, <3>5 DEF p
  <2>6. WrittenBorn(b)' /\ StatesBorn(b)'
    BY <1>1, <2>1, <2>5 DEF WrittenBorn, StatesBorn
  <2> QED BY <1>1, <2>1, <2>6, StillBorn
<1>4. CASE Close
  <2>1. /\ UNCHANGED <<old, logId, births, tuned, file, pending>>
        /\ mode = "open" /\ mode' = "closed" /\ snap' = obj
        /\ unjFile' = [i \in Id |-> IF i \in Live THEN unj[i] ELSE mem[i]]
        /\ obj' = Empty /\ unj' = Untouched /\ mem' = Untouched
    BY <1>4 DEF Close, WriteSnapshot, queue
  <2>2. Named(b)' /\ \A i \in Id : Tag(b, i)' = Tag(b, i)
    BY <1>1, <2>1, SameNames
  <2>3. StatesBorn(b)' /\ WrittenBorn(b)'
    BY <1>1, <2>1 DEF StatesBorn, StateBorn, WrittenBorn, Empty
  <2>4. Remembered(b)'
    BY <1>1, <2>1, <2>2 DEF Remembered, Live, Untouched
  <2> QED BY <2>2, <2>3, <2>4 DEF BornOK
<1> QED BY <1>2, <1>3, <1>4

LEMMA OpenBorn ==
  ASSUME IInv, NEW b, BornOK(b), Open \/ ReplayLine \/ LoadLine \/ OpenEnd
  PROVE  BornOK(b)'
<1>1. /\ obj \in State /\ snap \in State /\ logId \in Nat
      /\ Named(b) /\ StatesBorn(b) /\ WrittenBorn(b) /\ Remembered(b)
  BY DEF IInv, ObjectsOK, BornOK
<1>2. CASE Open
  <2>1. /\ UNCHANGED <<obj, old, snap, unj, unjFile, logId, births, tuned, file, pending>>
        /\ mode = "closed" /\ mode' \in {"replay", "load"}
        /\ mem' = [i \in Id |-> IF unjFile[i] # 0 THEN unjFile[i] ELSE mem[i]]
    BY <1>2 DEF Open, queue, journal, disk
  <2>2. Named(b)' /\ \A i \in Id : Tag(b, i)' = Tag(b, i)
    BY <1>1, <2>1, SameNames
  <2>3. StatesBorn(b)' /\ WrittenBorn(b)'
    BY <1>1, <2>1 DEF StatesBorn, WrittenBorn
  <2>4. obj = Empty
    BY <2>1 DEF IInv, ModeOK
  <2>5. Remembered(b)'
    BY <1>1, <2>1, <2>2, <2>4 DEF Remembered, Empty
  <2> QED BY <2>2, <2>3, <2>5 DEF BornOK
<1>3. CASE ReplayLine
  <2>1. /\ mode \in {"replay", "load"} /\ DoForward(file[pos + 1]) /\ pos + 1 \in 1..Len(file)
        /\ UNCHANGED <<births, tuned, old, snap, unjFile, file, pending>>
    BY <1>3 DEF ReplayLine, journal, queue, disk, IInv, StorageOK
  <2>2. /\ file[pos + 1] \in Line /\ LineStep(At((pos + 1) - 1), file[pos + 1], At(pos + 1))
        /\ At((pos + 1) - 1) \in State /\ At(pos + 1) \in State
    BY <2>1, LineOnDisk DEF IInv
  <2>3. LineBorn(b, file[pos + 1])
    BY <1>1, <2>1 DEF WrittenBorn, LinesBorn
  <2> DEFINE l == file[pos + 1]
             s == At((pos + 1) - 1)
             t == At(pos + 1)
  <2>4. /\ l \in Line /\ s \in State /\ t \in State /\ LineStep(s, l, t) /\ LineBorn(b, l)
        /\ DoForward(l)
    BY <2>1, <2>2, <2>3
  <2> HIDE DEF l, s, t
  <2> QED BY <2>1, <2>4, ForwardBorn
<1>4. CASE LoadLine
  <2>1. /\ mode \in {"replay", "load"}
        /\ UNCHANGED <<births, tuned, old, snap, unjFile, file, pending>>
    BY <1>4 DEF LoadLine, journal, queue, disk
  <2>2. PICK i \in Id : snap[i] # Nil /\ obj[i] = Nil /\ DoForward(CreateLine(i, snap[i]))
    BY <1>4 DEF LoadLine
  <2>3. snap[i] \in Content
    BY <1>1, <2>2 DEF State
  <2> DEFINE l == CreateLine(i, snap[i])
             t == [obj EXCEPT ![i] = snap[i]]
  <2>4. l \in Line /\ t \in State /\ LineStep(obj, l, t) /\ DoForward(l)
    BY <1>1, <2>2, <2>3, CreateLineStep
  <2>5. LineBorn(b, l)
    BY <1>1, <2>2 DEF LineBorn, CreateLine, StatesBorn, StateBorn
  <2> HIDE DEF l, t
  <2> QED BY <1>1, <2>1, <2>4, <2>5, ForwardBorn
<1>5. CASE OpenEnd
  <2>1. /\ UNCHANGED <<obj, old, snap, unj, mem, unjFile, logId, births, tuned, file, pending>>
        /\ mode \in {"replay", "load"} /\ mode' = "open"
    BY <1>5 DEF OpenEnd, mutable, queue, journal, disk
  <2> QED BY <1>1, <2>1, StillBorn DEF StatesBorn, WrittenBorn
<1> QED BY <1>2, <1>3, <1>4, <1>5

LEMMA NextBorn ==
  ASSUME ~Crashes, ~TornWrites, IInv, NEW b, BornOK(b), [Next]_vars
  PROVE  \E d : BornOK(d)'
<1>1. CASE UNCHANGED vars
  BY <1>1 DEF vars, mutable, queue, journal, disk, BornOK, Named, StatesBorn, WrittenBorn,
       Remembered, Tag
<1>2. births \in Nat /\ births \in 0..MaxBirths /\ logId \in Nat /\ obj \in State
  BY JournalAssumption DEF IInv, ObjectsOK
<1>3. ASSUME NEW v \in Val, Create(v) PROVE \E d : BornOK(d)'
  <2> DEFINE i == logId + 1
             c == [val |-> v, born |-> births + 1]
  <2>1. i \in Id /\ i > logId /\ c \in Content /\ c.born = births + 1
    BY <1>2, <1>3, JournalAssumption DEF Create, Content, Birth, Id
  <2>2. /\ mode = "open" /\ mode' = "open" /\ logId' = i /\ births' = births + 1
        /\ obj' = [obj EXCEPT ![i] = c] /\ unj' = [unj EXCEPT ![i] = 0]
        /\ UNCHANGED <<mem, old, snap, tuned, unjFile>>
        /\ \E s : Log(CreateLine(i, c), s)
    BY <1>3 DEF Create, disk
  <2>3. PICK d : d = [b EXCEPT ![i] = births + 1]
    OBVIOUS
  <2>4. logId' \in Nat /\ logId' >= i
    BY <1>2, <2>2
  <2> HIDE DEF i, c
  <2> QED BY <2>1, <2>2, <2>3, <2>4, AppearsBorn
<1>4. ASSUME NEW k \in ImportIds, NEW v \in Val, Import(k, v) PROVE \E d : BornOK(d)'
  <2> DEFINE i == k + (logId + 1)
             c == [val |-> v, born |-> births + 1]
  <2>1. i \in Id /\ i > logId /\ c \in Content /\ c.born = births + 1 /\ k \in Nat
    BY <1>2, <1>4, JournalAssumption DEF Import, Content, Birth, Id
  <2>2. obj[i] = Nil
    BY <1>2, <2>1 DEF IInv, ObjectsOK, IdsAreFresh, Live
  <2>3. /\ mode = "open" /\ mode' = "open" /\ births' = births + 1
        /\ obj' = [obj EXCEPT ![i] = c] /\ unj' = [unj EXCEPT ![i] = mem[i]]
        /\ UNCHANGED <<mem, old, snap, tuned, unjFile>>
        /\ \E s : Log(CreateLine(i, c), s)
        /\ logId' = IF (logId + 1) + 1 > i THEN (logId + 1) + 1 ELSE i
    BY <1>4, <2>2 DEF Import, MakeObject, disk
  <2>4. PICK d : d = [b EXCEPT ![i] = births + 1]
    OBVIOUS
  <2>5. logId' \in Nat /\ logId' >= i
    BY <1>2, <2>1, <2>3 DEF Id
  <2> HIDE DEF i, c
  <2> QED BY <2>1, <2>3, <2>4, <2>5, AppearsBorn
<1>5. ASSUME Next, ~(\E v \in Val : Create(v)), ~(\E k \in ImportIds, v \in Val : Import(k, v))
      PROVE  BornOK(b)'
  BY <1>5, UserBorn, UndoBorn, SaveBorn, OpenBorn
     DEF Next, UserStep, LoopStep, Crash, TornFlush
<1> QED BY <1>1, <1>3, <1>4, <1>5

(* Within one process, every live object of an open project has the unjournaled    *)
(* state it was last given, if ever it was: destruction and undo, redo, closing     *)
(* and reopening, by journal or by snapshot, compaction and imports neither lose    *)
(* it nor give it to another object that came to have the same id.                 *)
THEOREM UnjournaledAlwaysSurvives ==
  ~Crashes /\ ~TornWrites => (Spec => []UnjournaledSurvives)
<1> SUFFICES ASSUME ~Crashes, ~TornWrites PROVE Spec => []UnjournaledSurvives
  OBVIOUS
<1> DEFINE BInv == \E b : BornOK(b)
<1>1. Init => BInv
  <2> SUFFICES ASSUME Init PROVE BornOK([i \in Id |-> 0])
    OBVIOUS
  <2>1. /\ obj = Empty /\ old = Empty /\ snap = Empty /\ file = <<>> /\ pending = <<>>
        /\ births = 0 /\ logId = 0 /\ tuned = {} /\ mode = "closed"
        /\ mem = Untouched /\ unjFile = Untouched
    BY DEF Init
  <2> QED BY <2>1 DEF BornOK, Named, StatesBorn, StateBorn, WrittenBorn, LinesBorn, Remembered,
            Tag, Empty, Untouched
<1>2. IInv /\ BInv /\ [Next]_vars => BInv'
  BY NextBorn
<1>3. IInv /\ BInv => UnjournaledSurvives
  <2> SUFFICES ASSUME IInv, NEW b, BornOK(b), mode = "open", NEW i \in Live
               PROVE  unj[i] = IF obj[i].born \in tuned THEN obj[i].born ELSE 0
    BY DEF UnjournaledSurvives
  <2>1. i \in Id /\ obj[i] # Nil
    BY DEF Live
  <2> QED BY <2>1 DEF BornOK, StatesBorn, StateBorn, Remembered, Tag
<1> QED BY <1>1, <1>2, <1>3, Invariance, PTL DEF Spec

-----------------------------------------------------------------------------
(* Undo, and the refinement of UndoStore                                       *)

(* The invariants *)

(* the undo index is the present between transactions, and undo() passes       *)
(* through the states of the history on its way back                          *)
UndoReady ==
  /\ mode = "open" => undoOff \in 0..pos /\ (pending = <<>> => At(undoOff) = Logged)
  /\ mode = "undo" => obj = At(pos)

(* the braces of the journal match, and do not nest *)
Matched(q) ==
  /\ \A k \in 1..Len(q) : q[k].op = "end" => Inside(q, k - 1)
  /\ \A k \in 1..Len(q) : q[k].op = "begin" => ~Inside(q, k - 1)
  /\ ~Inside(q, Len(q))

(* no line says that nothing changed *)
Telling == {l \in Line : l.op = "set" => l.new # l.old}

(* the undo index is between blocks, and undo() finds its way back to there *)
BlocksOK ==
  /\ file \in Seq(Telling) /\ pending \in Seq(Telling) /\ Matched(file)
  /\ mode \in {"open", "undo"} => ~Inside(file, undoOff)
  /\ mode = "undo" /\ UndoesBlock => Inside(file, pos)

-----------------------------------------------------------------------------
(* Steps that leave the undo index at the present *)

(* nothing is written *)
Kept ==
  /\ UNCHANGED <<file, hist, undoOff, pos>>
  /\ pending' = <<>> => UNCHANGED <<pending, phist>>

(* the journal's end becomes the undo index *)
Reset == pending' = <<>> /\ undoOff' = Len(file') /\ pos' = Len(file')

(* the states at the offsets there were stay as they are *)
HistoryKept == \A k \in 0..Len(file) : At(k)' = At(k)

(* a transaction is written, and nothing is left to write *)
Commits ==
  /\ Reset /\ HistoryKept
  /\ \E p \in Seq(Line) : p # <<>> /\ NoMarkers(p) /\ file' = file \o Framed(p)

LEMMA StillReady ==
  ASSUME IInv, IInv', mode' = "open",
         Reset \/ (Kept /\ mode = "open" /\ UndoReady)
  PROVE  UndoReady'
<1>1. CASE Reset
  <2>1. phist' = <<>>
    <3>1. phist' \in Seq(State) /\ Len(phist') = Len(pending')
      BY DEF IInv, StorageOK, JournalIsBidirectional, Linked
    <3> QED BY <1>1, <3>1 DEF Reset
  <2>2. End' = Logged' /\ End' = At(Len(file))'
    BY <2>1, LinkedEmpty DEF IInv, ModeOK, End
  <2>3. At(undoOff)' = At(Len(file))' /\ Len(file') \in Nat
    BY <1>1 DEF Reset, At, Empty, IInv, StorageOK
  <2> QED BY <1>1, <2>2, <2>3 DEF Reset, UndoReady
<1>2. CASE Kept /\ mode = "open" /\ UndoReady
  <2>1. At(undoOff)' = At(undoOff) /\ undoOff' \in 0..pos'
    BY <1>2 DEF Kept, UndoReady, At, Empty
  <2>2. ASSUME pending' = <<>> PROVE Logged' = Logged /\ pending = <<>>
    <3>1. End' = End /\ pending' = pending
      BY <1>2, <2>2 DEF Kept, End, After, At, Empty
    <3> QED BY <1>2, <2>2, <3>1 DEF IInv, ModeOK
  <2> QED BY <1>2, <2>1, <2>2 DEF UndoReady
<1> QED BY <1>1, <1>2

LEMMA HistoryExtended ==
  ASSUME StorageOK, NEW s, s = At(Len(file)), NEW h \in Seq(State),
         hist' = hist \o FramedStates(s, h)
  PROVE  HistoryKept
<1>1. s \in State /\ Len(hist) = Len(file) /\ hist \in Seq(State)
  BY AtEnd DEF StorageOK
<1>2. FramedStates(s, h) \in Seq(State)
  <2>1. Len(h) > 1 => h[Len(h)] \in State
    OBVIOUS
  <2> QED BY <1>1, <2>1 DEF FramedStates
<1> DEFINE g == FramedStates(s, h)
<1> HIDE DEF g
<1>3. \A k \in 1..Len(hist) : hist'[k] = hist[k]
  BY <1>1, <1>2, ConcatIndex DEF g
<1> QED BY <1>1, <1>3 DEF HistoryKept, At, Empty

(* flush() with an empty queue writes nothing *)
LEMMA FlushKeepsOrCommits ==
  ASSUME StorageOK, NEW p \in Seq(Line), NEW h \in Seq(State), Len(h) = Len(p),
         NoMarkers(p), FlushAndReset(p, h)
  PROVE  \/ p # <<>> /\ Commits
         \/ /\ p = <<>> /\ pending' = <<>> /\ phist' = <<>>
            /\ UNCHANGED <<file, hist, undoOff, pos>>
<1>1. /\ pending' = <<>> /\ phist' = <<>>
      /\ file' = file \o Framed(p)
      /\ hist' = hist \o FramedStates(At(Len(file)), h)
      /\ pos' = IF p = <<>> THEN pos ELSE Len(file')
      /\ undoOff' = IF p = <<>> THEN undoOff ELSE Len(file')
  BY DEF FlushAndReset, Flush
<1>2. CASE p # <<>>
  <2>1. HistoryKept
    BY <1>1, HistoryExtended
  <2> QED BY <1>1, <1>2, <2>1 DEF Reset, Commits
<1>3. CASE p = <<>>
  <2>1. h = <<>>
    BY <1>3
  <2>2. Framed(p) = <<>> /\ FramedStates(At(Len(file)), h) = <<>>
    BY <1>3, <2>1 DEF Framed, FramedStates
  <2>3. file' = file /\ hist' = hist
    BY <1>1, <2>2 DEF StorageOK
  <2> QED BY <1>1, <1>3, <2>3
<1> QED BY <1>2, <1>3

(* a line that is logged is queued or committed *)
LEMMA LogKeepsOrCommits ==
  ASSUME StorageOK, NEW l \in Line, ~IsMarker(l), NEW s \in State, Log(l, s)
  PROVE  Commits \/ Kept
<1> DEFINE p == Append(pending, l)
           h == Append(phist, s)
<1>1. /\ p \in Seq(Line) /\ h \in Seq(State) /\ Len(h) = Len(p) /\ p # <<>> /\ NoMarkers(p)
  <2>1. /\ pending \in Seq(Line) /\ phist \in Seq(State) /\ Len(phist) = Len(pending)
        /\ NoMarkers(pending)
    BY DEF StorageOK, JournalIsBidirectional, Linked
  <2>2. p \in Seq(Line) /\ h \in Seq(State) /\ Len(h) = Len(p) /\ p # <<>>
    BY <2>1
  <2>3. NoMarkers(p)
    BY <2>1 DEF NoMarkers
  <2> QED BY <2>2, <2>3
<1>2. CASE level = 0
  <2>1. FlushAndReset(p, h)
    BY <1>2 DEF Log
  <2> HIDE DEF p, h
  <2> QED BY <1>1, <2>1, FlushKeepsOrCommits
<1>3. CASE level # 0
  <2>1. pending' = p /\ UNCHANGED <<journal, undoOff, pos>>
    BY <1>3 DEF Log
  <2> QED BY <1>1, <2>1 DEF Kept, journal
<1> QED BY <1>2, <1>3

(* so does the end of a transaction without a line *)
LEMMA EndKeepsOrCommits ==
  ASSUME IInv, FlushAndReset(pending, phist) \/ NoLog
  PROVE  Commits \/ Kept
<1>1. CASE FlushAndReset(pending, phist)
  <2>1. /\ pending \in Seq(Line) /\ phist \in Seq(State) /\ Len(phist) = Len(pending)
        /\ NoMarkers(pending)
    BY DEF IInv, StorageOK, JournalIsBidirectional, Linked
  <2>2. \/ pending # <<>> /\ Commits
        \/ /\ pending = <<>> /\ pending' = <<>> /\ phist' = <<>>
           /\ UNCHANGED <<file, hist, undoOff, pos>>
    BY <1>1, <2>1, FlushKeepsOrCommits DEF IInv
  <2>3. pending = <<>> => phist = <<>>
    BY <2>1
  <2> QED BY <2>2, <2>3 DEF Kept
<1>2. CASE NoLog
  BY <1>2 DEF NoLog, Kept, queue, journal
<1> QED BY <1>1, <1>2

(* every change the user makes does the one or the other *)
LEMMA UserKeepsOrCommits ==
  ASSUME IInv, IInv',
         \/ BlockStart \/ BlockEnd
         \/ \E v \in Val : Create(v)
         \/ \E i \in Id : Destroy(i) \/ LogStart(i) \/ LogEnd(i) \/ Tune(i)
         \/ \E i \in Id, v \in Val : Assign(i, v)
         \/ \E k \in ImportIds, v \in Val : Import(k, v) /\ mode' # "aborted"
  PROVE  mode = "open" /\ mode' = "open" /\ (Commits \/ Kept)
<1>1. CASE BlockStart \/ BlockEnd \/ (\E i \in Id : LogStart(i) \/ Tune(i))
           \/ (\E i \in Id, v \in Val : Assign(i, v))
  <2>1. FlushAndReset(pending, phist) \/ NoLog
    BY <1>1 DEF BlockStart, BlockEnd, LogStart, Tune, Assign
  <2> QED BY <1>1, <2>1, EndKeepsOrCommits DEF BlockStart, BlockEnd, LogStart, Tune, Assign
<1>2. ASSUME NEW i \in Id, NEW c, Logged \in State,
             Log(CreateLine(i, c), [Logged EXCEPT ![i] = c]), c \in Content
      PROVE  Commits \/ Kept
  <2>1. /\ CreateLine(i, c) \in Line /\ ~IsMarker(CreateLine(i, c))
        /\ [Logged EXCEPT ![i] = c] \in State
    BY <1>2 DEF CreateLine, IsMarker, Line, State, Id
  <2> QED BY <1>2, <2>1, LogKeepsOrCommits DEF IInv
<1>3. Logged \in State /\ obj \in State /\ old \in State /\ logId \in Nat
  BY LoggedState DEF IInv, ObjectsOK
<1>4. ASSUME NEW v \in Val, births < MaxBirths PROVE [val |-> v, born |-> births + 1] \in Content
  BY <1>4, JournalAssumption DEF IInv, ObjectsOK, Content, Birth
<1>5. ASSUME NEW v \in Val, Create(v) PROVE mode = "open" /\ mode' = "open" /\ (Commits \/ Kept)
  <2>1. logId + 1 \in Id /\ births < MaxBirths
    BY <1>3, <1>5 DEF Create, Id
  <2> QED BY <1>2, <1>3, <1>4, <1>5, <2>1 DEF Create
<1>6. ASSUME NEW k \in ImportIds, NEW v \in Val, Import(k, v), mode' # "aborted"
      PROVE  mode = "open" /\ mode' = "open" /\ (Commits \/ Kept)
  <2>1. k + (logId + 1) \in Id /\ births < MaxBirths
    BY <1>3, <1>6, JournalAssumption DEF Import, Id
  <2>2. obj[k + (logId + 1)] = Nil
    BY <1>6 DEF Import, Abort
  <2> QED BY <1>2, <1>3, <1>4, <1>6, <2>1, <2>2 DEF Import, MakeObject
<1>7. ASSUME NEW i \in Id, Destroy(i) PROVE mode = "open" /\ mode' = "open" /\ (Commits \/ Kept)
  <2>1. /\ DestroyLine(i, obj[i]) \in Line /\ ~IsMarker(DestroyLine(i, obj[i]))
        /\ [Logged EXCEPT ![i] = Nil] \in State
    BY <1>3 DEF DestroyLine, IsMarker, Line, State, Id
  <2> QED BY <1>7, <2>1, LogKeepsOrCommits DEF Destroy, Delete, IInv
<1>8. ASSUME NEW i \in Id, LogEnd(i) PROVE mode = "open" /\ mode' = "open" /\ (Commits \/ Kept)
  <2>1. /\ SetLine(i, obj[i], old[i]) \in Line /\ ~IsMarker(SetLine(i, obj[i], old[i]))
        /\ obj[i] # Nil => [Logged EXCEPT ![i] = obj[i]] \in State
    BY <1>3 DEF SetLine, IsMarker, Line, State, Id
  <2>2. \/ Log(SetLine(i, obj[i], old[i]), [Logged EXCEPT ![i] = obj[i]])
        \/ FlushAndReset(pending, phist) \/ NoLog
    BY <1>8 DEF LogEnd
  <2>3. obj[i] # Nil
    BY <1>8 DEF LogEnd, Live
  <2> QED BY <1>8, <2>1, <2>2, <2>3, LogKeepsOrCommits, EndKeepsOrCommits DEF LogEnd, IInv
<1> QED BY <1>1, <1>5, <1>6, <1>7, <1>8

(* compact() resets it too, if there is an object to write *)
LEMMA CompactResets ==
  ASSUME IInv, Compact, ~CompactsEmpty
  PROVE  Reset /\ mode' = "open"
<1>1. /\ mode' = "open" /\ mode = "open" /\ Quiescent /\ pending' = pending /\ Live # {}
  BY DEF Compact, queue
<1>2. PICK f \in SnapshotOrders :
        /\ undoOff' = IF f = <<>> THEN undoOff ELSE Len(file')
        /\ pos' = Len(file')
  BY DEF Compact
<1>3. PICK n \in 0..MaxId :
        f \in [1..n -> Live] /\ \A i \in Live : \E k \in 1..n : f[k] = i
  BY DEF SnapshotOrders
<1>4. 1..n # {}
  BY <1>1, <1>3
<1>5. f # <<>>
  BY <1>3, <1>4
<1> QED BY <1>1, <1>2, <1>5, QuiescentState DEF Reset

-----------------------------------------------------------------------------
(* undo() itself *)

LEMMA UndoStartReady ==
  ASSUME IInv, UndoReady, UndoStart
  PROVE  UndoReady' /\ mode' = "undo"
<1>1. /\ mode = "open" /\ Quiescent /\ undoOff # 0
      /\ UNCHANGED <<obj, undoOff, file, hist>>
  BY DEF UndoStart, mutable, journal
<1>2. /\ pos \in 0..Len(file) /\ undoOff \in 0..pos /\ Len(file) \in Nat
      /\ pending = <<>> /\ Logged = obj /\ At(undoOff) = obj
  BY <1>1, QuiescentState DEF IInv, StorageOK, UndoReady
<1>3. /\ mode' = "undo" /\ pos' = IF UndoesBlock THEN undoOff - 1 ELSE undoOff
  BY <1>2 DEF UndoStart
<1>4. undoOff \in 1..Len(file)
  BY <1>1, <1>2
<1>5. UndoesBlock => At(undoOff - 1) = At(undoOff)
  BY <1>4, LineOnDisk DEF IInv, UndoesBlock, LineStep, IsMarker
<1>6. At(pos)' = obj
  <2>1. At(pos)' = IF UndoesBlock THEN At(undoOff - 1) ELSE At(undoOff)
    BY <1>1, <1>3 DEF At, Empty
  <2> QED BY <1>2, <1>5, <2>1
<1> QED BY <1>1, <1>3, <1>6 DEF UndoReady

(* do_this( line, true ) of a line whose effect is in force takes it back, and  *)
(* aborts at braces only                                                      *)
LEMMA ReverseRetraces ==
  ASSUME NEW s \in State, NEW l \in Line, obj \in State, LineStep(s, l, obj), DoReverse(l)
  PROVE  \/ ~IsMarker(l) /\ obj' = s /\ mode' = mode
         \/ IsMarker(l) /\ mode' = "aborted"
<1>1. CASE IsMarker(l)
  BY <1>1 DEF DoReverse, IsMarker, Abort
<1>2. CASE l.op = "create"
  <2>1. /\ l.id \in Id /\ s[l.id] = Nil /\ l.new # Nil /\ obj = [s EXCEPT ![l.id] = l.new]
    BY <1>2 DEF LineStep, IsMarker
  <2>2. Delete(l.id)
    BY <1>2, <2>1 DEF DoReverse, IsMarker, State
  <2>3. obj' = s
    BY <2>1, <2>2 DEF Delete, State
  <2> QED BY <1>2, <2>2, <2>3 DEF Delete, IsMarker
<1>3. CASE l.op = "destroy"
  <2>1. /\ l.id \in Id /\ l.old # Nil /\ s[l.id] = l.old /\ obj = [s EXCEPT ![l.id] = Nil]
    BY <1>3 DEF LineStep, IsMarker
  <2>2. MakeObject(logId, l.id, l.old)
    BY <1>3, <2>1 DEF DoReverse, IsMarker, State
  <2>3. obj' = s
    BY <2>1, <2>2 DEF MakeObject, State
  <2> QED BY <1>3, <2>2, <2>3 DEF MakeObject, IsMarker
<1>4. CASE l.op = "set"
  <2>1. /\ l.id \in Id /\ l.new # Nil /\ l.old # Nil /\ s[l.id] = l.old
        /\ l.new.born = l.old.born /\ obj = [s EXCEPT ![l.id] = l.new]
    BY <1>4 DEF LineStep, IsMarker
  <2>2. l.new \in Content /\ l.old \in Content /\ obj[l.id] = l.new
    BY <2>1 DEF Line, State
  <2>3. [obj[l.id] EXCEPT !.val = l.old.val] = l.old
    BY <2>1, <2>2 DEF Content
  <2>4. Restore(l.id, l.old)
    BY <1>4, <2>1, <2>2, <2>3 DEF DoReverse, IsMarker
  <2>5. obj' = s
    BY <2>1, <2>4 DEF Restore, State
  <2> QED BY <1>4, <2>4, <2>5 DEF Restore, IsMarker
<1> QED BY <1>1, <1>2, <1>3, <1>4 DEF Line, IsMarker

LEMMA UndoLineReady ==
  ASSUME IInv, UndoReady, UndoLine
  PROVE  /\ pos \in 1..Len(file)
         /\ \/ ~IsMarker(file[pos]) /\ mode' = "undo" /\ UndoReady'
            \/ IsMarker(file[pos]) /\ mode' = "aborted"
<1>1. /\ mode = "undo" /\ UndoMore /\ DoReverse(file[pos]) /\ pos' = pos - 1
      /\ file' = file /\ hist' = hist
  BY DEF UndoLine, journal
<1>2. /\ undoOff \in 1..Len(file) /\ pos \in 0..Len(file) /\ Len(file) \in Nat
      /\ IF UndoesBlock
         THEN pos < undoOff /\ \E j \in 1..pos : file[j].op = "begin"
         ELSE pos \in {undoOff - 1, undoOff}
  BY <1>1 DEF IInv, UndoOK, StorageOK
<1>3. pos \in 1..Len(file)
  BY <1>1, <1>2 DEF UndoMore
<1>4. /\ file[pos] \in Line /\ LineStep(At(pos - 1), file[pos], obj)
      /\ At(pos - 1) \in State /\ obj \in State
  BY <1>1, <1>3, LineOnDisk DEF IInv, UndoReady, ObjectsOK
<1>5. \/ ~IsMarker(file[pos]) /\ obj' = At(pos - 1) /\ mode' = mode
      \/ IsMarker(file[pos]) /\ mode' = "aborted"
  <2> DEFINE l == file[pos]
             s == At(pos - 1)
  <2>1. l \in Line /\ LineStep(s, l, obj) /\ s \in State /\ obj \in State /\ DoReverse(l)
    BY <1>1, <1>4
  <2> HIDE DEF l, s
  <2>2. \/ ~IsMarker(l) /\ obj' = s /\ mode' = mode
        \/ IsMarker(l) /\ mode' = "aborted"
    BY <2>1, ReverseRetraces
  <2> QED BY <2>2 DEF l, s
<1>6. At(pos)' = At(pos - 1)
  BY <1>1 DEF At, Empty
<1> QED BY <1>1, <1>3, <1>5, <1>6 DEF UndoReady

LEMMA UndoEndReady ==
  ASSUME IInv, UndoReady, UndoEnd
  PROVE  /\ UndoReady' /\ mode' = "open"
         /\ file' = file \o Framed(pending)
         /\ undoOff' = IF UndoesBlock THEN pos - 1 ELSE undoOff - 1
         /\ pos \in 1..Len(file) \/ ~UndoesBlock
<1> DEFINE uo == IF UndoesBlock THEN pos - 1 ELSE pos
<1>1. /\ mode = "undo" /\ ~UndoMore /\ mode' = "open"
      /\ Flush(pending, phist, uo) /\ undoOff' = uo
      /\ UNCHANGED <<obj, nest, old>>
  BY DEF UndoEnd, mutable
<1>2. /\ undoOff \in 1..Len(file) /\ pos \in 0..Len(file) /\ Len(file) \in Nat
      /\ IF UndoesBlock
         THEN pos < undoOff /\ \E j \in 1..pos : file[j].op = "begin"
         ELSE pos \in {undoOff - 1, undoOff}
  BY <1>1 DEF IInv, UndoOK, StorageOK
<1>3. uo \in 0..Len(file) /\ uo \in Nat
  BY <1>2
<1>4. UndoesBlock => pos \in 1..Len(file) /\ At(pos - 1) = At(pos)
  <2>1. UndoesBlock => pos \in 1..Len(file)
    BY <1>2
  <2>2. UndoesBlock => file[pos].op = "begin"
    BY <1>1 DEF UndoMore
  <2> QED BY <2>1, <2>2, LineOnDisk DEF IInv, LineStep, IsMarker
<1>5. ~UndoesBlock => pos = undoOff - 1
  BY <1>1, <1>2 DEF UndoMore
<1>6. At(uo) = obj
  BY <1>1, <1>4 DEF UndoReady
<1>7. Written
  <2>1. /\ pending \in Seq(Line) /\ phist \in Seq(State) /\ NoMarkers(pending)
        /\ Linked(At(Len(file)), pending, phist) /\ undoOff' \in Nat
    BY <1>1, <1>3 DEF IInv, StorageOK, JournalIsBidirectional
  <2> HIDE DEF uo
  <2> QED BY <1>1, <1>3, <2>1, FlushWrites DEF IInv
<1>8. At(undoOff)' = obj
  <2>1. At(undoOff)' = IF uo = 0 THEN Empty ELSE hist'[uo]
    BY <1>1 DEF At, Empty
  <2>2. (IF uo = 0 THEN Empty ELSE hist'[uo]) = obj
    BY <1>3, <1>6, <1>7 DEF Written, At, Empty
  <2> QED BY <2>1, <2>2
<1>9. Logged' = obj
  <2>1. (\A i \in Id : nest[i] = 0) /\ obj \in State
    BY <1>1 DEF IInv, EditsOK, ObjectsOK
  <2> QED BY <1>1, <2>1 DEF Logged, State
<1>10. undoOff' \in 0..pos'
  <2>1. Len(file') \in Nat /\ Len(file') >= Len(file)
    BY <1>7 DEF Written
  <2>2. pos' = IF pending = <<>> THEN uo ELSE Len(file')
    BY <1>1 DEF Flush
  <2> HIDE DEF uo
  <2> QED BY <1>1, <1>3, <2>1, <2>2
<1> QED BY <1>1, <1>4, <1>5, <1>8, <1>9, <1>10 DEF UndoReady, Flush

-----------------------------------------------------------------------------
(* The undo index is the present *)

LEMMA NextReady ==
  ASSUME ~SavesInSession, ~CompactsEmpty, IInv, IInv', UndoReady, [Next]_vars
  PROVE  UndoReady'
<1>1. CASE /\ mode' # "aborted"
           /\ \/ BlockStart \/ BlockEnd
              \/ \E v \in Val : Create(v)
              \/ \E i \in Id : Destroy(i) \/ LogStart(i) \/ LogEnd(i) \/ Tune(i)
              \/ \E i \in Id, v \in Val : Assign(i, v)
              \/ \E k \in ImportIds, v \in Val : Import(k, v)
  BY <1>1, UserKeepsOrCommits, StillReady DEF Commits
<1>2. CASE UndoStart
  BY <1>2, UndoStartReady
<1>3. CASE Compact
  BY <1>3, CompactResets, StillReady
<1>4. CASE mode' \notin {"open", "undo"}
  BY <1>4 DEF UndoReady
<1>5. CASE UndoLine
  BY <1>5, UndoLineReady DEF UndoReady
<1>6. CASE UndoEnd
  BY <1>6, UndoEndReady
<1>7. CASE OpenEnd
  <2>1. Reset /\ mode' = "open"
    BY <1>7 DEF OpenEnd, Reset, IInv, ModeOK, queue, journal
  <2> QED BY <2>1, StillReady
<1>8. Open \/ Close \/ Crash \/ TornFlush => mode' \notin {"open", "undo"}
  BY DEF Open, Close, Crash, TornFlush, FreshProcess
<1>9. ReplayLine \/ LoadLine => mode' \notin {"open", "undo"}
  BY DEF ReplayLine, LoadLine, DoForward, MakeObject, Abort
<1>10. CASE UNCHANGED vars
  BY <1>10 DEF vars, mutable, queue, journal, UndoReady, At, Empty, Logged
<1> QED BY <1>1, <1>2, <1>3, <1>4, <1>5, <1>6, <1>7, <1>8, <1>9, <1>10
        DEF Next, UserStep, LoopStep, Snapshot

LEMMA ReadyAlways ==
  ASSUME ~SavesInSession, ~CompactsEmpty
  PROVE  Spec => []UndoReady
<1>1. Init => UndoReady
  BY DEF Init, UndoReady
<1>2. IInv /\ IInv' /\ UndoReady /\ [Next]_vars => UndoReady'
  BY NextReady
<1> QED BY <1>1, <1>2, Invariance, PTL DEF Spec

(* As long as nothing is saved within a session and no empty project is          *)
(* compacted, the state at the undo index is the present one whenever undo()       *)
(* may be called: after any edits, transactions, undos, undos of undos, imports,   *)
(* crashes and torn writes (flush(), undo(), open()).                             *)
THEOREM UndoPointStays ==
  ~SavesInSession /\ ~CompactsEmpty => (Spec => []UndoPointIsPresent)
<1> SUFFICES ASSUME ~SavesInSession, ~CompactsEmpty PROVE Spec => []UndoPointIsPresent
  OBVIOUS
<1>1. IInv /\ UndoReady => UndoPointIsPresent
  BY DEF IInv, StorageOK, ModeOK, UndoReady, UndoPointIsPresent
<1> QED BY <1>1, ReadyAlways, Invariance, PTL
-----------------------------------------------------------------------------
(* The braces of the journal *)

(* a line is added to a journal whose blocks are all closed, or a whole block *)
LEMMA FramedMatched ==
  ASSUME NEW q \in Seq(Line), Matched(q), NEW p \in Seq(Line), NoMarkers(p)
  PROVE  /\ Matched(q \o Framed(p))
         /\ \A k \in 0..Len(q) : Inside(q \o Framed(p), k) <=> Inside(q, k)
         /\ \A k \in Len(q) + 1 .. Len(q \o Framed(p)) - 1 : Inside(q \o Framed(p), k)
         /\ \A k \in Len(q) + 1 .. Len(q \o Framed(p)) :
              (q \o Framed(p))[k].op = "end" => k # Len(q) + 1 /\ ~IsMarker((q \o Framed(p))[k - 1])
<1> DEFINE f == Framed(p)
           r == q \o f
           m == Len(q)
           n == Len(f)
<1>1. f \in Seq(Line)
  <2>1. BraceLine("begin") \in Line /\ BraceLine("end") \in Line
    BY BraceLineType
  <2> QED BY <2>1 DEF Framed
<1> HIDE DEF f
<1>2. /\ r \in Seq(Line) /\ m \in Nat /\ n \in Nat /\ Len(r) = m + n
      /\ \A k \in 1..m : r[k] = q[k]
      /\ \A k \in 1..n : r[m + k] = f[k]
  BY <1>1, ConcatIndex
<1> HIDE DEF r, m, n
<1>3. \/ n \in {0, 1} /\ \A k \in 1..n : ~IsMarker(f[k])
      \/ /\ n > 2 /\ f[1].op = "begin" /\ f[n].op = "end"
         /\ \A k \in 2..n - 1 : ~IsMarker(f[k])
  <2>1. CASE ~(Len(p) > 1)
    <3>1. f = p
      BY <2>1 DEF f, Framed
    <3>2. Len(p) \in Nat
      OBVIOUS
    <3>3. n = Len(p)
      BY <3>1 DEF n
    <3>4. n \in {0, 1}
      BY <2>1, <3>2, <3>3
    <3> QED BY <3>1, <3>3, <3>4 DEF NoMarkers
  <2>2. CASE Len(p) > 1
    <3> DEFINE b == <<BraceLine("begin")>>
               e == <<BraceLine("end")>>
    <3>1. f = (b \o p) \o e
      BY <2>2 DEF f, Framed
    <3>2. b \in Seq(Line) /\ e \in Seq(Line) /\ Len(b) = 1 /\ Len(e) = 1
          /\ b[1].op = "begin" /\ e[1].op = "end"
      BY BraceLineType DEF BraceLine
    <3> HIDE DEF b, e
    <3> DEFINE g == b \o p
    <3>3. /\ g \in Seq(Line) /\ Len(g) = Len(p) + 1 /\ g[1] = b[1] /\ Len(p) \in Nat
          /\ \A k \in 1..Len(p) : g[1 + k] = p[k]
      <4>1. /\ g \in Seq(Line) /\ Len(p) \in Nat /\ Len(g) = Len(b) + Len(p)
            /\ \A k \in 1..Len(b) : g[k] = b[k]
            /\ \A k \in 1..Len(p) : g[Len(b) + k] = p[k]
        <5>1. b \in Seq(Line) /\ p \in Seq(Line)
          BY <3>2
        <5>2. ASSUME NEW x \in Seq(Line), NEW y \in Seq(Line)
              PROVE  /\ x \o y \in Seq(Line) /\ Len(y) \in Nat /\ Len(x \o y) = Len(x) + Len(y)
                     /\ \A k \in 1..Len(x) : (x \o y)[k] = x[k]
                     /\ \A k \in 1..Len(y) : (x \o y)[Len(x) + k] = y[k]
          BY ConcatIndex
        <5> QED BY <5>1, <5>2
      <4> HIDE DEF g
      <4> QED BY <3>2, <4>1
    <3> HIDE DEF g
    <3>4. /\ n = Len(g) + 1 /\ f[Len(g) + 1] = e[1] /\ \A k \in 1..Len(g) : f[k] = g[k]
      BY <3>1, <3>2, <3>3, ConcatIndex DEF n, g
    <3>5. ASSUME NEW k \in 2..n - 1 PROVE ~IsMarker(f[k])
      <4>1. k - 1 \in 1..Len(p) /\ k \in 1..Len(g)
        BY <3>3, <3>4
      <4>2. g[1 + (k - 1)] = p[k - 1] /\ 1 + (k - 1) = k
        BY <3>3, <4>1
      <4> QED BY <3>4, <4>1, <4>2 DEF NoMarkers
    <3> QED BY <2>2, <3>2, <3>3, <3>4, <3>5
  <2> QED BY <2>1, <2>2
<1>4. \A k \in 0..m : Inside(r, k) <=> Inside(q, k)
  <2> SUFFICES ASSUME NEW k \in 0..m PROVE Inside(r, k) <=> Inside(q, k)
    OBVIOUS
  <2>1. \A j \in 1..k : r[j] = q[j]
    BY <1>2
  <2>2. \A b \in 1..k : (\A e \in b..k : r[e].op # "end") <=> (\A e \in b..k : q[e].op # "end")
    BY <2>1
  <2> QED BY <2>1, <2>2 DEF Inside
<1>5. \A k \in m + 1..m + n : k - m \in 1..n /\ r[k] = f[k - m]
  <2> SUFFICES ASSUME NEW k \in m + 1..m + n PROVE k - m \in 1..n /\ r[k] = f[k - m]
    OBVIOUS
  <2>1. k - m \in 1..n /\ m + (k - m) = k
    BY <1>2
  <2> QED BY <1>2, <2>1
<1>6. ~Inside(q, m) /\ ~Inside(r, m)
  BY <1>2, <1>4 DEF Matched, m
<1>7. ASSUME NEW k \in 1..m
      PROVE  /\ r[k].op = "end" => Inside(r, k - 1)
             /\ r[k].op = "begin" => ~Inside(r, k - 1)
  <2>1. k - 1 \in 0..m
    BY <1>2
  <2> QED BY <1>2, <1>4, <2>1 DEF Matched, m
<1>8. CASE n \in {0, 1} /\ \A k \in 1..n : ~IsMarker(f[k])
  <2>1. \A k \in m + 1..m + n : ~IsMarker(r[k])
    BY <1>5, <1>8
  <2>2. ~Inside(r, m + n)
    <3> SUFFICES ASSUME Inside(r, m + n) PROVE FALSE
      OBVIOUS
    <3>1. PICK b \in 1..m + n : r[b].op = "begin" /\ \A e \in b..m + n : r[e].op # "end"
      BY DEF Inside
    <3>2. b \in 1..m
      BY <1>2, <2>1, <3>1 DEF IsMarker
    <3>3. \A e \in b..m : r[e].op # "end"
      BY <1>2, <3>1, <3>2
    <3> QED BY <1>6, <3>1, <3>2, <3>3 DEF Inside
  <2>3. \A k \in 1..m + n : k \in 1..m \/ k \in m + 1..m + n
    BY <1>2
  <2>4. Matched(r)
    BY <1>2, <1>7, <2>1, <2>2, <2>3 DEF Matched, IsMarker
  <2>5. \A k \in m + 1..m + n - 1 : Inside(r, k)
    <3>1. m + 1..m + n - 1 = {}
      BY <1>2, <1>8
    <3> QED BY <3>1
  <2>6. \A k \in m + 1..m + n : r[k].op # "end"
    BY <2>1 DEF IsMarker
  <2> QED BY <1>2, <1>4, <2>4, <2>5, <2>6 DEF r, f, m
<1>9. CASE /\ n > 2 /\ f[1].op = "begin" /\ f[n].op = "end"
           /\ \A k \in 2..n - 1 : ~IsMarker(f[k])
  <2>1. r[m + 1].op = "begin" /\ r[m + n].op = "end"
    BY <1>2, <1>9
  <2>2. \A k \in m + 2..m + n - 1 : ~IsMarker(r[k])
    <3> SUFFICES ASSUME NEW k \in m + 2..m + n - 1 PROVE ~IsMarker(r[k])
      OBVIOUS
    <3>1. k \in m + 1..m + n /\ k - m \in 2..n - 1
      BY <1>2
    <3> QED BY <1>5, <1>9, <3>1
  <2>3. \A k \in m + 1..m + n - 1 : Inside(r, k)
    <3> SUFFICES ASSUME NEW k \in m + 1..m + n - 1 PROVE Inside(r, k)
      OBVIOUS
    <3>1. m + 1 \in 1..k
      BY <1>2
    <3>2. \A e \in m + 1..k : r[e].op # "end"
      <4>1. \A e \in m + 1..k : e = m + 1 \/ e \in m + 2..m + n - 1
        BY <1>2
      <4> QED BY <2>1, <2>2, <4>1 DEF IsMarker
    <3> QED BY <2>1, <3>1, <3>2 DEF Inside
  <2>4. ~Inside(r, m + n)
    BY <1>2, <2>1 DEF Inside
  <2>5. \A k \in 1..m + n : k \in 1..m \/ k = m + 1 \/ k \in m + 2..m + n - 1 \/ k = m + n
    BY <1>2
  <2>6. ASSUME NEW k \in 1..m + n
        PROVE  /\ r[k].op = "end" => Inside(r, k - 1)
               /\ r[k].op = "begin" => ~Inside(r, k - 1)
    <3>1. CASE k \in 1..m
      BY <3>1, <1>7
    <3>2. CASE k = m + 1
      <4>1. k - 1 = m
        BY <3>2, <1>2
      <4> QED BY <3>2, <4>1, <2>1, <1>6
    <3>3. CASE k \in m + 2..m + n - 1
      BY <3>3, <2>2 DEF IsMarker
    <3>4. CASE k = m + n
      <4>1. k - 1 = m + n - 1 /\ m + n - 1 \in m + 1..m + n - 1
        BY <3>4, <1>2, <1>9
      <4>2. r[k].op = "end"
        BY <3>4, <2>1
      <4> QED BY <4>1, <4>2, <2>3
    <3> QED BY <2>5, <3>1, <3>2, <3>3, <3>4
  <2>7. Matched(r)
    BY <1>2, <2>4, <2>6 DEF Matched
  <2>8. \A k \in m + 1..m + n : r[k].op = "end" => k # m + 1 /\ ~IsMarker(r[k - 1])
    <3> SUFFICES ASSUME NEW k \in m + 1..m + n, r[k].op = "end"
                 PROVE  k # m + 1 /\ ~IsMarker(r[k - 1])
      OBVIOUS
    <3>1. k \in 1..m + n /\ k \notin 1..m
      BY <1>2
    <3>2. k = m + n
      BY <2>1, <2>2, <2>5, <3>1 DEF IsMarker
    <3>3. k # m + 1 /\ k - 1 \in m + 2..m + n - 1
      BY <1>2, <1>9, <3>2
    <3> QED BY <2>2, <3>3
  <2> QED BY <1>2, <1>4, <2>3, <2>7, <2>8 DEF r, f, m
<1> QED BY <1>3, <1>8, <1>9

LEMMA EmptyMatched ==
  Matched(<<>>) /\ \A q : ~Inside(q, 0)
BY DEF Matched, Inside

(* do_this( line, true ) queues the inverse of a line that is in force *)
LEMMA ReverseQueues ==
  ASSUME NEW s \in State, NEW l \in Telling, obj \in State, LineStep(s, l, obj), DoReverse(l)
  PROVE  \/ IsMarker(l) /\ mode' = "aborted" /\ pending' = pending
         \/ \E m \in Telling : ~IsMarker(m) /\ pending' = Append(pending, m)
<1>1. CASE IsMarker(l)
  BY <1>1 DEF DoReverse, IsMarker, Abort, queue
<1>2. CASE l.op = "create"
  <2>1. l.id \in Id /\ l.new # Nil /\ obj = [s EXCEPT ![l.id] = l.new]
    BY <1>2 DEF LineStep, IsMarker
  <2>2. obj[l.id] \in Content \cup {Nil} /\ obj[l.id] # Nil
    BY <2>1 DEF State
  <2> DEFINE m == DestroyLine(l.id, obj[l.id])
  <2>3. pending' = Append(pending, m)
    BY <1>2, <2>1, <2>2 DEF DoReverse, IsMarker, Queue
  <2>4. m \in Telling /\ ~IsMarker(m)
    BY <2>1, <2>2 DEF DestroyLine, Line, Telling, IsMarker, Id
  <2> HIDE DEF m
  <2> QED BY <2>3, <2>4
<1>3. CASE l.op = "destroy"
  <2>1. l.id \in Id /\ l.old # Nil /\ obj = [s EXCEPT ![l.id] = Nil]
    BY <1>3 DEF LineStep, IsMarker
  <2>2. l.old \in Content /\ obj[l.id] = Nil
    BY <2>1 DEF State, Telling, Line
  <2> DEFINE m == CreateLine(l.id, l.old)
  <2>3. pending' = Append(pending, m)
    BY <1>3, <2>1, <2>2 DEF DoReverse, IsMarker, Queue
  <2>4. m \in Telling /\ ~IsMarker(m)
    BY <2>1, <2>2 DEF CreateLine, Line, Telling, IsMarker, Id
  <2> HIDE DEF m
  <2> QED BY <2>3, <2>4
<1>4. CASE l.op = "set"
  <2>1. /\ l.id \in Id /\ l.new # Nil /\ l.old # Nil /\ l.new # l.old
        /\ l.new.born = l.old.born /\ obj = [s EXCEPT ![l.id] = l.new]
    BY <1>4 DEF LineStep, IsMarker, Telling
  <2>2. l.new \in Content /\ l.old \in Content /\ obj[l.id] = l.new
    BY <2>1 DEF Line, State, Telling
  <2>3. [obj[l.id] EXCEPT !.val = l.old.val] = l.old
    BY <2>1, <2>2 DEF Content
  <2> DEFINE m == SetLine(l.id, l.old, l.new)
  <2>4. pending' = Append(pending, m)
    <3>1. Restore(l.id, l.old)
      BY <1>4, <2>1, <2>2, <2>3 DEF DoReverse, IsMarker
    <3> QED BY <2>1, <2>2, <3>1 DEF Restore, Queue
  <2>5. m \in Telling /\ ~IsMarker(m)
    BY <2>1, <2>2 DEF SetLine, Line, Telling, IsMarker, Id
  <2> HIDE DEF m
  <2> QED BY <2>4, <2>5
<1> QED BY <1>1, <1>2, <1>3, <1>4 DEF Telling, Line, IsMarker

LEMMA UndoLineQueues ==
  ASSUME IInv, UndoReady, file \in Seq(Telling), UndoLine
  PROVE  \/ mode' = "aborted" /\ pending' = pending
         \/ \E m \in Telling : pending' = Append(pending, m)
<1>1. /\ mode = "undo" /\ DoReverse(file[pos]) /\ obj = At(pos) /\ obj \in State
  BY DEF UndoLine, UndoReady, IInv, ObjectsOK
<1>2. pos \in 1..Len(file)
  BY UndoLineReady
<1>3. /\ file[pos] \in Telling /\ LineStep(At(pos - 1), file[pos], obj) /\ At(pos - 1) \in State
  BY <1>1, <1>2, LineOnDisk DEF IInv
<1> DEFINE l == file[pos]
           s == At(pos - 1)
<1>4. l \in Telling /\ s \in State /\ LineStep(s, l, obj) /\ DoReverse(l)
  BY <1>1, <1>3
<1> HIDE DEF l, s
<1> QED BY <1>1, <1>4, ReverseQueues

(* Only whole transactions are written, framed where they are blocks. *)
Writes(p) ==
  \/ ~Compact /\ file' = file \o Framed(p)
  \/ Compact /\ file' = Framed(p)

LEMMA WhatIsWritten ==
  ASSUME IInv, IInv', UndoReady, file \in Seq(Telling), pending \in Seq(Telling),
         ~TornWrites, Next
  PROVE  /\ pending' \in Seq(Telling)
         /\ \E p \in Seq(Telling) : NoMarkers(p) /\ Writes(p)
<1> DEFINE Ok == /\ pending' \in Seq(Telling)
                 /\ \E p \in Seq(Telling) : NoMarkers(p) /\ file' = file \o Framed(p)
<1>1. NoMarkers(pending) /\ <<>> \in Seq(Telling)
  BY DEF IInv, StorageOK
<1>2. ASSUME file' = file, pending' \in Seq(Telling)
      PROVE  Ok
  <2>1. NoMarkers(<<>>) /\ Framed(<<>>) = <<>>
    BY DEF NoMarkers, Framed
  <2>2. file' = file \o Framed(<<>>)
    BY <1>2, <2>1
  <2> QED BY <1>1, <1>2, <2>1, <2>2
<1>3. ASSUME FlushAndReset(pending, phist) \/ UndoEnd \/ NoLog
      PROVE  Ok
  <2>1. CASE NoLog
    BY <1>2, <2>1 DEF NoLog, queue, journal
  <2>2. CASE FlushAndReset(pending, phist) \/ UndoEnd
    <3>1. file' = file \o Framed(pending) /\ pending' = <<>>
      BY <2>2 DEF FlushAndReset, UndoEnd, Flush
    <3> QED BY <1>1, <3>1
  <2> QED BY <1>3, <2>1, <2>2
<1>4. ASSUME NEW l \in Telling, ~IsMarker(l), NEW s, Log(l, s)
      PROVE  Ok
  <2> DEFINE p == Append(pending, l)
  <2>1. p \in Seq(Telling)
    OBVIOUS
  <2>2. NoMarkers(p)
    BY <1>1, <1>4 DEF NoMarkers
  <2>3. \/ file' = file \o Framed(p) /\ pending' = <<>>
        \/ file' = file /\ pending' = p
    BY <1>4 DEF Log, FlushAndReset, Flush, journal
  <2> HIDE DEF p
  <2> QED BY <1>1, <1>2, <2>1, <2>2, <2>3
<1>5. ASSUME Ok, ~Compact
      PROVE  /\ pending' \in Seq(Telling)
             /\ \E p \in Seq(Telling) : NoMarkers(p) /\ Writes(p)
  BY <1>5 DEF Writes
<1>6. CASE Compact
  <2>1. PICK f \in SnapshotOrders : file' = Framed(SnapshotLines(f))
    BY <1>6 DEF Compact
  <2> DEFINE p == SnapshotLines(f)
  <2>2. p \in Seq(Line) /\ NoMarkers(p)
    BY SnapshotHistory DEF IInv, ObjectsOK
  <2>3. \A k \in 1..Len(p) : p[k] \in Telling
    <3>1. \A k \in 1..Len(p) : p[k] \in Line /\ ~IsMarker(p[k])
      BY <2>2 DEF NoMarkers
    <3>2. PICK n \in 0..MaxId : f \in [1..n -> Live]
      BY DEF SnapshotOrders
    <3>3. n \in Nat /\ p = [k \in 1..n |-> CreateLine(f[k], obj[f[k]])]
      BY <3>2, JournalAssumption DEF SnapshotLines
    <3>4. Len(p) = n /\ \A k \in 1..n : p[k].op = "create"
      BY <3>3 DEF CreateLine
    <3> HIDE DEF p
    <3> QED BY <3>1, <3>4 DEF Telling
  <2> HIDE DEF p
  <2>4. p \in Seq(Telling)
    BY <2>2, <2>3
  <2>5. pending' = pending
    BY <1>6 DEF Compact, queue
  <2> QED BY <1>6, <2>1, <2>2, <2>4, <2>5 DEF Writes, p
<1> HIDE DEF Ok
<1>7. Ok \/ Compact
  <2>1. CASE BlockStart \/ BlockEnd \/ (\E i \in Id : LogStart(i) \/ Tune(i))
             \/ (\E i \in Id, v \in Val : Assign(i, v))
    BY <1>3, <2>1 DEF BlockStart, BlockEnd, LogStart, Tune, Assign
  <2>2. ASSUME NEW i \in Id, LogEnd(i) PROVE Ok
    <3> DEFINE l == SetLine(i, obj[i], old[i])
    <3>1. \/ obj[i] # old[i] /\ \E s : Log(l, s)
          \/ FlushAndReset(pending, phist) \/ NoLog
      BY <2>2, Zenon DEF LogEnd
    <3>2. obj[i] # old[i] => l \in Telling /\ ~IsMarker(l)
      <4>1. l \in Line
        <5>1. obj \in State /\ old \in State
          BY DEF IInv, ObjectsOK
        <5>2. obj[i] \in Content \cup {Nil} /\ old[i] \in Content \cup {Nil} /\ i \in 0..MaxId
          BY <5>1, JournalAssumption DEF State, Id
        <5> QED BY <5>2 DEF SetLine, Line
      <4>2. l.op = "set" /\ l.new = obj[i] /\ l.old = old[i]
        BY DEF SetLine
      <4> QED BY <4>1, <4>2 DEF Telling, IsMarker
    <3> HIDE DEF l
    <3> QED BY <1>3, <1>4, <3>1, <3>2
  <2>3. CASE \/ \E v \in Val : Create(v)
             \/ \E i \in Id : Destroy(i)
             \/ \E k \in ImportIds, v \in Val : Import(k, v)
    <3>1. \A i \in Id, c \in Content \cup {Nil} :
            /\ CreateLine(i, c) \in Telling /\ ~IsMarker(CreateLine(i, c))
            /\ DestroyLine(i, c) \in Telling /\ ~IsMarker(DestroyLine(i, c))
      BY DEF CreateLine, DestroyLine, IsMarker, Line, Id, Telling
    <3>2. /\ logId \in Nat /\ obj \in State
          /\ births < MaxBirths => \A v \in Val : [val |-> v, born |-> births + 1] \in Content
      BY JournalAssumption DEF IInv, ObjectsOK, Content, Birth
    <3>3. ASSUME NEW v \in Val, Create(v) PROVE \E l \in Telling : ~IsMarker(l) /\ \E s : Log(l, s)
      <4> DEFINE c == [val |-> v, born |-> births + 1]
      <4>1. logId + 1 \in Id /\ c \in Content
        BY <3>2, <3>3 DEF Create, Id
      <4>2. \E s : Log(CreateLine(logId + 1, c), s)
        BY <3>3, Zenon DEF Create
      <4> HIDE DEF c
      <4> QED BY <3>1, <4>1, <4>2
    <3>4. ASSUME NEW i \in Id, Destroy(i) PROVE \E l \in Telling : ~IsMarker(l) /\ \E s : Log(l, s)
      <4>1. obj[i] \in Content \cup {Nil}
        BY <3>2 DEF State
      <4>2. \E s : Log(DestroyLine(i, obj[i]), s)
        BY <3>4, Zenon DEF Destroy
      <4> QED BY <3>1, <4>1, <4>2
    <3>5. ASSUME NEW k \in ImportIds, NEW v \in Val, Import(k, v)
          PROVE  (\E l \in Telling : ~IsMarker(l) /\ \E s : Log(l, s)) \/ NoLog
      <4> DEFINE c == [val |-> v, born |-> births + 1]
      <4>1. k + (logId + 1) \in Id /\ c \in Content
        BY <3>2, <3>5, JournalAssumption DEF Import, Id
      <4>2. (\E s : Log(CreateLine(k + (logId + 1), c), s)) \/ NoLog
        BY <3>5, Zenon DEF Import
      <4> HIDE DEF c
      <4> QED BY <3>1, <4>1, <4>2
    <3> QED BY <1>3, <1>4, <2>3, <3>3, <3>4, <3>5
  <2>4. CASE UndoEnd
    BY <1>3, <2>4
  <2>5. CASE UndoLine
    <3>1. file' = file
      BY <2>5 DEF UndoLine, journal
    <3>2. pending' \in Seq(Telling)
      BY <2>5, UndoLineQueues
    <3> QED BY <1>2, <3>1, <3>2
  <2>6. CASE UndoStart \/ ReplayLine \/ LoadLine \/ OpenEnd \/ Open \/ Close \/ Snapshot \/ Crash
    <3>1. file' = file /\ pending' \in {pending, <<>>}
      BY <2>6 DEF UndoStart, ReplayLine, LoadLine, OpenEnd, Open, Close, Snapshot, Crash,
           FreshProcess, journal, queue
    <3> QED BY <1>1, <1>2, <3>1
  <2> QED BY <2>1, <2>2, <2>3, <2>4, <2>5, <2>6 DEF Next, UserStep, LoopStep, TornFlush
<1>8. CASE ~Compact
  BY <1>5, <1>7, <1>8
<1> QED BY <1>6, <1>8

(* So its blocks stay closed. *)
LEMMA MatchedKept ==
  ASSUME IInv, IInv', UndoReady, file \in Seq(Telling), pending \in Seq(Telling),
         Matched(file), ~TornWrites, Next
  PROVE  /\ file' \in Seq(Telling) /\ pending' \in Seq(Telling) /\ Matched(file')
         /\ ~Compact => \A k \in 0..Len(file) : Inside(file', k) <=> Inside(file, k)
<1>1. PICK p \in Seq(Telling) : NoMarkers(p) /\ Writes(p)
  BY WhatIsWritten
<1>2. pending' \in Seq(Telling)
  BY WhatIsWritten
<1>3. /\ p \in Seq(Line) /\ file \in Seq(Line)
      /\ \A q \in Seq(Telling) : q \in Seq(Line)
  BY DEF Telling
<1>4. Framed(p) \in Seq(Telling)
  <2>1. BraceLine("begin") \in Telling /\ BraceLine("end") \in Telling
    BY BraceLineType DEF BraceLine, Telling
  <2> QED BY <2>1 DEF Framed
<1>5. CASE ~Compact
  <2>1. file' = file \o Framed(p)
    BY <1>1, <1>5 DEF Writes
  <2>2. file' \in Seq(Telling)
    BY <1>4, <2>1
  <2> QED BY <1>1, <1>2, <1>3, <2>1, <2>2, FramedMatched
<1>6. CASE Compact
  <2>1. file' = Framed(p)
    BY <1>1, <1>6 DEF Writes
  <2>2. Matched(<<>> \o Framed(p))
    <3>1. <<>> \in Seq(Line) /\ Matched(<<>>)
      BY EmptyMatched
    <3> DEFINE q == <<>>
    <3>2. q \in Seq(Line) /\ Matched(q)
      BY <3>1
    <3> HIDE DEF q
    <3>3. Matched(q \o Framed(p))
      BY <1>1, <1>3, <3>2, FramedMatched
    <3> QED BY <3>3 DEF q
  <2>3. file' = <<>> \o Framed(p)
    BY <1>4, <2>1
  <2> QED BY <1>2, <1>4, <1>6, <2>1, <2>2, <2>3
<1> QED BY <1>5, <1>6

(* undo() goes backwards from between two blocks to between two blocks *)
LEMMA UndoBlocks ==
  ASSUME IInv, UndoReady, BlocksOK
  PROVE  /\ UndoStart => BlocksOK'
         /\ UndoLine => BlocksOK' /\ ~IsMarker(file[pos])
         /\ UndoEnd => IF UndoesBlock THEN ~Inside(file, pos - 1) ELSE ~Inside(file, undoOff - 1)
<1>1. /\ Len(file) \in Nat /\ pos \in 0..Len(file)
      /\ \A k \in 1..Len(file) : k - 1 \in 0..Len(file)
  BY DEF IInv, StorageOK
<1>2. ASSUME UndoStart
      PROVE  BlocksOK'
  <2>1. /\ mode = "open" /\ mode' = "undo" /\ file' = file /\ undoOff' = undoOff
        /\ undoOff # 0 /\ pos' = IF UndoesBlock THEN undoOff - 1 ELSE undoOff
        /\ pending' = pending
    BY <1>2, UndoStartReady DEF UndoStart, journal, queue
  <2>2. undoOff \in 1..Len(file)
    BY <1>1, <2>1 DEF UndoReady
  <2>3. UndoesBlock => Inside(file, undoOff - 1)
    BY <2>2 DEF BlocksOK, Matched, UndoesBlock
  <2> QED BY <2>1, <2>3 DEF BlocksOK, UndoesBlock
<1>3. ASSUME UndoLine
      PROVE  BlocksOK' /\ ~IsMarker(file[pos])
  <2>1. /\ mode = "undo" /\ UndoMore /\ file' = file /\ undoOff' = undoOff /\ pos' = pos - 1
        /\ undoOff \in 1..Len(file)
    BY <1>3 DEF UndoLine, journal, IInv, UndoOK
  <2>0. pending' \in Seq(Telling)
    BY <1>3, UndoLineQueues DEF BlocksOK
  <2>2. CASE UndoesBlock
    <3>1. file[pos].op # "begin" /\ Inside(file, pos)
      BY <2>1, <2>2 DEF UndoMore, BlocksOK
    <3>2. PICK b \in 1..pos : file[b].op = "begin" /\ \A e \in b..pos : file[e].op # "end"
      BY <3>1 DEF Inside
    <3>3. b # pos /\ pos \in b..pos
      BY <1>1, <3>1, <3>2
    <3>4. b \in 1..pos - 1 /\ \A e \in b..pos - 1 : file[e].op # "end"
      BY <1>1, <3>2, <3>3
    <3>5. Inside(file, pos - 1)
      BY <3>2, <3>4 DEF Inside
    <3>6. file[pos].op # "end"
      BY <3>2, <3>3
    <3> QED BY <2>0, <2>1, <3>1, <3>5, <3>6 DEF BlocksOK, UndoesBlock, IsMarker
  <2>3. CASE ~UndoesBlock
    <3>1. pos = undoOff /\ ~Inside(file, undoOff) /\ file[undoOff].op # "end"
      BY <2>1, <2>3 DEF UndoMore, BlocksOK, UndoesBlock
    <3>2. undoOff \in 1..undoOff /\ \A e \in undoOff..undoOff : e = undoOff
      BY <2>1
    <3>3. file[undoOff].op # "begin"
      BY <3>1, <3>2 DEF Inside
    <3> QED BY <2>0, <2>1, <2>3, <3>1, <3>3 DEF BlocksOK, UndoesBlock, IsMarker
  <2> QED BY <2>2, <2>3
<1>4. ASSUME UndoEnd
      PROVE  IF UndoesBlock THEN ~Inside(file, pos - 1) ELSE ~Inside(file, undoOff - 1)
  <2>1. mode = "undo" /\ ~UndoMore /\ undoOff \in 1..Len(file)
    BY <1>4 DEF UndoEnd, IInv, UndoOK
  <2>2. CASE UndoesBlock
    <3>1. pos \in 1..Len(file) /\ file[pos].op = "begin"
      BY <1>4, <2>1, <2>2, UndoEndReady DEF UndoMore
    <3> QED BY <2>2, <3>1 DEF BlocksOK, Matched
  <2>3. CASE ~UndoesBlock
    <3> SUFFICES ASSUME Inside(file, undoOff - 1) PROVE FALSE
      BY <2>3
    <3>1. PICK b \in 1..undoOff - 1 :
            file[b].op = "begin" /\ \A e \in b..undoOff - 1 : file[e].op # "end"
      BY DEF Inside
    <3>2. b \in 1..undoOff /\ \A e \in b..undoOff : e = undoOff \/ e \in b..undoOff - 1
      BY <1>1, <2>1
    <3>3. \A e \in b..undoOff : file[e].op # "end"
      BY <2>3, <3>1, <3>2 DEF UndoesBlock
    <3>4. Inside(file, undoOff)
      BY <3>1, <3>2, <3>3 DEF Inside
    <3> QED BY <2>1, <3>4 DEF BlocksOK
  <2> QED BY <2>2, <2>3
<1> QED BY <1>2, <1>3, <1>4

LEMMA NextBlocks ==
  ASSUME ~TornWrites, ~SavesInSession, ~CompactsEmpty,
         IInv, IInv', UndoReady, BlocksOK, [Next]_vars
  PROVE  BlocksOK'
<1>1. CASE UNCHANGED vars
  BY <1>1 DEF vars, queue, journal, BlocksOK, UndoesBlock
<1> SUFFICES ASSUME Next PROVE BlocksOK'
  BY <1>1
<1>2. /\ file' \in Seq(Telling) /\ pending' \in Seq(Telling) /\ Matched(file')
      /\ ~Compact => \A k \in 0..Len(file) : Inside(file', k) <=> Inside(file, k)
  BY MatchedKept DEF BlocksOK
<1>3. /\ Len(file) \in Nat /\ pos \in 0..Len(file)
      /\ ~Inside(file', Len(file'))
  BY <1>2 DEF IInv, StorageOK, Matched
<1>4. CASE /\ mode' # "aborted"
           /\ \/ BlockStart \/ BlockEnd
              \/ \E v \in Val : Create(v)
              \/ \E i \in Id : Destroy(i) \/ LogStart(i) \/ LogEnd(i) \/ Tune(i)
              \/ \E i \in Id, v \in Val : Assign(i, v)
              \/ \E k \in ImportIds, v \in Val : Import(k, v)
  <2>1. mode = "open" /\ mode' = "open" /\ (Reset \/ Kept)
    BY <1>4, UserKeepsOrCommits DEF Commits
  <2>2. CASE Reset
    BY <1>2, <1>3, <2>1, <2>2 DEF Reset, BlocksOK
  <2>3. CASE Kept
    BY <1>2, <2>1, <2>3 DEF Kept, BlocksOK
  <2> QED BY <2>1, <2>2, <2>3
<1>5. CASE Compact
  BY <1>2, <1>3, <1>5, CompactResets DEF Reset, BlocksOK
<1>6. CASE UndoStart \/ UndoLine
  BY <1>6, UndoBlocks
<1>7. CASE UndoEnd
  <2>1. /\ mode' = "open" /\ mode = "undo" /\ undoOff \in 1..Len(file)
        /\ undoOff' = IF UndoesBlock THEN pos - 1 ELSE undoOff - 1
        /\ pos \in 1..Len(file) \/ ~UndoesBlock
    BY <1>7, UndoEndReady DEF UndoEnd, IInv, UndoOK
  <2>2. undoOff' \in 0..Len(file)
    BY <1>3, <2>1
  <2>3. ~Inside(file, undoOff')
    BY <1>7, <2>1, UndoBlocks
  <2>4. ~Compact
    BY <2>1 DEF Compact
  <2> QED BY <1>2, <2>1, <2>2, <2>3, <2>4 DEF BlocksOK
<1>8. CASE OpenEnd
  BY <1>2, <1>3, <1>8 DEF OpenEnd, journal, BlocksOK
<1>9. CASE mode' \notin {"open", "undo"}
  BY <1>2, <1>9 DEF BlocksOK
<1>10. Open \/ Close \/ Crash \/ TornFlush => mode' \notin {"open", "undo"}
  BY DEF Open, Close, Crash, TornFlush, FreshProcess
<1>11. ReplayLine \/ LoadLine => mode' \notin {"open", "undo"}
  BY DEF ReplayLine, LoadLine, DoForward, MakeObject, Abort
<1> QED BY <1>4, <1>5, <1>6, <1>7, <1>8, <1>9, <1>10, <1>11 DEF Next, UserStep, LoopStep, Snapshot

(* the lines open() reads all apply *)
LEMMA ReadsOn ==
  ASSUME IInv, ReplayLine \/ LoadLine
  PROVE  /\ mode' = mode
         /\ \E l \in Line : DoForward(l) /\ LineStep(obj, l, obj')
               /\ \/ mode = "replay" /\ \E k \in 1..Len(file) : l = file[k]
                  \/ mode = "load" /\ \E i \in Id : snap[i] # Nil /\ l = CreateLine(i, snap[i])
<1>1. ASSUME NEW l \in Line, NEW t \in State, LineStep(obj, l, t), DoForward(l)
      PROVE  mode' = mode /\ obj' = t
  BY <1>1, ForwardStep DEF IInv
<1>2. CASE ReplayLine
  <2>1. /\ mode = "replay" /\ pos + 1 \in 1..Len(file) /\ DoForward(file[pos + 1]) /\ obj = At(pos)
    BY <1>2 DEF ReplayLine, IInv, StorageOK, ModeOK
  <2>2. /\ file[pos + 1] \in Line /\ LineStep(At(pos), file[pos + 1], At(pos + 1))
        /\ At(pos + 1) \in State
    BY <2>1, <1>2, LineOnDisk DEF IInv, StorageOK
  <2> DEFINE l == file[pos + 1]
             t == At(pos + 1)
  <2>3. l \in Line /\ t \in State /\ LineStep(obj, l, t) /\ DoForward(l)
        /\ \E k \in 1..Len(file) : l = file[k]
    BY <2>1, <2>2
  <2> HIDE DEF l, t
  <2> QED BY <1>1, <2>1, <2>3
<1>3. CASE LoadLine
  <2>1. mode = "load"
    BY <1>3 DEF LoadLine
  <2>2. PICK i \in Id : snap[i] # Nil /\ obj[i] = Nil /\ DoForward(CreateLine(i, snap[i]))
    BY <1>3 DEF LoadLine
  <2>3. obj \in State /\ snap[i] \in Content
    BY <2>2 DEF IInv, ObjectsOK, State
  <2> DEFINE l == CreateLine(i, snap[i])
             t == [obj EXCEPT ![i] = snap[i]]
  <2>4. l \in Line /\ t \in State /\ LineStep(obj, l, t) /\ DoForward(l)
    BY <2>2, <2>3, CreateLineStep
  <2>5. \E j \in Id : snap[j] # Nil /\ l = CreateLine(j, snap[j])
    BY <2>2
  <2> HIDE DEF l, t
  <2> QED BY <1>1, <2>1, <2>4, <2>5
<1> QED BY <1>2, <1>3

(* no step reaches a FATAL or fails an ASSERT *)
LEMMA NextGoesOn ==
  ASSUME IInv, UndoReady, BlocksOK, NeverAborts, [Next]_vars
  PROVE  NeverAborts'
<1>1. CASE UNCHANGED vars
  BY <1>1 DEF vars, NeverAborts
<1>2. CASE UndoStart
  BY <1>2, UndoStartReady DEF NeverAborts
<1>3. CASE UndoLine
  BY <1>3, UndoLineReady, UndoBlocks DEF NeverAborts
<1>4. ASSUME NEW k \in ImportIds, NEW v \in Val, Import(k, v)
      PROVE  NeverAborts'
  <2>1. /\ logId \in Nat /\ k \in Nat /\ k > 0 /\ k + (logId + 1) <= MaxId /\ IdsAreFresh
    BY <1>4, JournalAssumption DEF Import, IInv, ObjectsOK
  <2>2. k + (logId + 1) \in Id /\ k + (logId + 1) > logId
    BY <2>1, JournalAssumption DEF Id
  <2>3. obj[k + (logId + 1)] = Nil
    BY <2>1, <2>2 DEF IdsAreFresh, Live
  <2> QED BY <1>4, <2>3 DEF Import, MakeObject, NeverAborts
<1>5. CASE ReplayLine \/ LoadLine
  BY <1>5, ReadsOn DEF NeverAborts
<1>6. CASE \/ BlockStart \/ BlockEnd
           \/ \E v \in Val : Create(v)
           \/ \E i \in Id : Destroy(i) \/ LogStart(i) \/ LogEnd(i) \/ Tune(i)
           \/ \E i \in Id, v \in Val : Assign(i, v)
  BY <1>6 DEF BlockStart, BlockEnd, Create, Destroy, Delete, LogStart, LogEnd, Tune, Assign,
       NeverAborts
<1>7. CASE Snapshot \/ Compact \/ Open \/ Close \/ UndoEnd \/ OpenEnd \/ Crash \/ TornFlush
  BY <1>7 DEF Snapshot, Compact, Open, Close, UndoEnd, OpenEnd, Crash, TornFlush,
         FreshProcess,
       NeverAborts
<1> QED BY <1>1, <1>2, <1>3, <1>4, <1>5, <1>6, <1>7 DEF Next, UserStep, LoopStep

(* As long as no write is torn, nothing is saved within a session and no empty     *)
(* project is compacted, no ASSERT and no FATAL of open(), replay(), undo(),       *)
(* do_this() or an import fires: undo() meets no brace it did not expect, and     *)
(* finds every object it is to change and no object it is to create.             *)
THEOREM NeverAbortsUntorn ==
  ~TornWrites /\ ~SavesInSession /\ ~CompactsEmpty => (Spec => []NeverAborts)
<1> SUFFICES ASSUME ~TornWrites, ~SavesInSession, ~CompactsEmpty PROVE Spec => []NeverAborts
  OBVIOUS
<1> DEFINE NInv == BlocksOK /\ NeverAborts
<1>1. Init => NInv
  BY EmptyMatched DEF Init, BlocksOK, NeverAborts
<1>2. IInv /\ IInv' /\ UndoReady /\ NInv /\ [Next]_vars => NInv'
  BY NextBlocks, NextGoesOn
<1>3. Spec => []NInv
  BY <1>1, <1>2, ReadyAlways, Invariance, PTL DEF Spec
<1> QED BY <1>3, PTL

-----------------------------------------------------------------------------
(* The journal of Loggable.C implements the store with undo of UndoStore,    *)
(* for every set of states and every number of ids and lines, where no       *)
(* write is torn, the program does not save in the middle of a session and   *)
(* does not compact an empty project.  Each action of the journal is shown   *)
(* to be a step of the store or none.                                        *)

-----------------------------------------------------------------------------
(* Ranks in a set of offsets *)

Offsets == {P \in SUBSET Nat : IsFiniteSet(P)}

(* each number up to the size of P is the rank of a member *)
Dense(P) == \A n \in 1..Cardinality(P) : \E k \in P : Rank(P, k) = n

LEMMA OffsetsType ==
  ASSUME NEW P \in Offsets
  PROVE  P \in SUBSET Nat /\ IsFiniteSet(P) /\ \A k \in P : k \in Nat
BY Zenon DEF Offsets

LEMMA RankType ==
  ASSUME NEW P \in Offsets, NEW k
  PROVE  /\ Cardinality(P) \in Nat /\ Rank(P, k) \in 0..Cardinality(P)
         /\ IsFiniteSet({j \in P : j <= k})
<1> DEFINE S == {j \in P : j <= k}
<1>1. IsFiniteSet(P) /\ S \in SUBSET P
  BY DEF Offsets
<1> HIDE DEF S
<1>2. IsFiniteSet(S) /\ Cardinality(S) <= Cardinality(P)
  BY <1>1, FS_Subset
<1>3. Cardinality(P) \in Nat /\ Cardinality(S) \in Nat
  BY <1>1, <1>2, FS_CardinalityType
<1> QED BY <1>2, <1>3 DEF S, Rank

(* the rank of the next member is the next number *)
LEMMA RankNext ==
  ASSUME NEW P \in Offsets, NEW j \in P, NEW k \in P, j < k,
         \A i \in P : ~(j < i /\ i < k)
  PROVE  Rank(P, k) = Rank(P, j) + 1
<1> DEFINE S == {i \in P : i <= j}
<1>1. {i \in P : i <= k} = S \cup {k} /\ k \notin S
  <2>1. \A i \in P : i \in Nat
    BY OffsetsType
  <2> QED BY <2>1
<1>2. IsFiniteSet(S)
  BY RankType
<1>3. Cardinality(S \cup {k}) = Cardinality(S) + 1
  <2>1. k \notin S
    BY <1>1
  <2> HIDE DEF S
  <2> QED BY <1>2, <2>1, FS_AddElement
<1> QED BY <1>1, <1>3 DEF Rank

LEMMA RankGrows ==
  ASSUME NEW P \in Offsets, NEW j \in P, NEW k \in P, j < k
  PROVE  Rank(P, j) < Rank(P, k)
<1> DEFINE S == {i \in P : i <= j}
           T == {i \in P : i <= k}
<1>1. S \cup {k} \in SUBSET T /\ k \notin S
  <2>1. \A i \in P : i \in Nat
    BY OffsetsType
  <2> QED BY <2>1
<1>2. IsFiniteSet(S) /\ IsFiniteSet(T)
  BY RankType
<1>3. Rank(P, j) = Cardinality(S) /\ Rank(P, k) = Cardinality(T)
  BY DEF Rank
<1> HIDE DEF S, T
<1>4. Cardinality(S \cup {k}) = Cardinality(S) + 1
  BY <1>1, <1>2, FS_AddElement
<1>5. Cardinality(S \cup {k}) <= Cardinality(T)
  BY <1>1, <1>2, FS_Subset
<1>6. Cardinality(S) \in Nat /\ Cardinality(T) \in Nat
  BY <1>2, FS_CardinalityType
<1> QED BY <1>3, <1>4, <1>5, <1>6

LEMMA RankTells ==
  ASSUME NEW P \in Offsets, NEW j \in P, NEW k \in P, Rank(P, j) = Rank(P, k)
  PROVE  j = k
<1>1. j \in Nat /\ k \in Nat /\ Rank(P, j) \in Nat
  <2>1. Rank(P, j) \in 0..Cardinality(P) /\ Cardinality(P) \in Nat
    BY RankType
  <2> QED BY <2>1, OffsetsType
<1>2. ~(j < k) /\ ~(k < j)
  BY <1>1, RankGrows
<1> QED BY <1>1, <1>2

LEMMA RankOfLast ==
  ASSUME NEW P \in Offsets, NEW m \in P, \A j \in P : j <= m
  PROVE  Rank(P, m) = Cardinality(P) /\ Cardinality(P) > 0
<1>1. {j \in P : j <= m} = P
  OBVIOUS
<1>2. IsFiniteSet(P) /\ P # {}
  BY DEF Offsets
<1>3. Cardinality(P) # 0 /\ Cardinality(P) \in Nat
  BY <1>2, FS_EmptySet, FS_CardinalityType
<1> QED BY <1>1, <1>3 DEF Rank

(* an offset beyond all others is added *)
LEMMA RankOfAdded ==
  ASSUME NEW P \in Offsets, Dense(P), NEW m \in Nat, \A j \in P : j < m
  PROVE  /\ P \cup {m} \in Offsets /\ Dense(P \cup {m})
         /\ Cardinality(P \cup {m}) = Cardinality(P) + 1
         /\ \A k \in P : Rank(P \cup {m}, k) = Rank(P, k)
         /\ Rank(P \cup {m}, m) = Cardinality(P) + 1
<1> DEFINE Q == P \cup {m}
<1>1. P \in SUBSET Nat /\ IsFiniteSet(P) /\ Cardinality(P) \in Nat /\ m \notin P
        /\ \A k \in P : k \in Nat
  BY RankType, OffsetsType
<1>2. Q \in Offsets /\ Cardinality(Q) = Cardinality(P) + 1
  BY <1>1, FS_AddElement DEF Offsets
<1>3. ASSUME NEW k \in P PROVE Rank(Q, k) = Rank(P, k)
  <2>1. {j \in Q : j <= k} = {j \in P : j <= k}
    BY <1>1
  <2> QED BY <2>1 DEF Rank
<1>4. Rank(Q, m) = Cardinality(Q)
  <2>1. \A j \in Q : j <= m
    BY <1>1
  <2>2. {j \in Q : j <= m} = Q
    BY <2>1
  <2> QED BY <2>2 DEF Rank
<1>5. Dense(Q)
  <2> SUFFICES ASSUME NEW n \in 1..Cardinality(Q) PROVE \E k \in Q : Rank(Q, k) = n
    BY DEF Dense
  <2>1. CASE n \in 1..Cardinality(P)
    <3>1. PICK k \in P : Rank(P, k) = n
      BY <2>1 DEF Dense
    <3> QED BY <3>1, <1>3
  <2>2. CASE n = Cardinality(Q)
    BY <2>2, <1>4
  <2> QED BY <1>1, <1>2, <2>1, <2>2
<1> QED BY <1>2, <1>3, <1>4, <1>5

-----------------------------------------------------------------------------
(* The states at a set of offsets *)

PlacesOf(q) == {k \in 0..Len(q) : ~Inside(q, k)}

StateAt(h, k) == IF k = 0 THEN Empty ELSE h[k]

PastOf(P, h) == [n \in 1..Cardinality(P) |-> StateAt(h, CHOOSE k \in P : Rank(P, k) = n)]

(* a name for Append, so that the provers need not compare sequences *)
Longer(X, s) == Append(X, s)

LEMMA PastOfType ==
  ASSUME NEW P \in Offsets, NEW h
  PROVE  /\ Len(PastOf(P, h)) = Cardinality(P)
         /\ \A k \in P :
              /\ Rank(P, k) \in 1..Cardinality(P)
              /\ PastOf(P, h)[Rank(P, k)] = StateAt(h, k)
<1>1. Cardinality(P) \in Nat
  BY RankType
<1>2. Len(PastOf(P, h)) = Cardinality(P)
  BY <1>1 DEF PastOf
<1>3. ASSUME NEW k \in P
      PROVE  Rank(P, k) \in 1..Cardinality(P) /\ PastOf(P, h)[Rank(P, k)] = StateAt(h, k)
  <2>1. Rank(P, k) \in 0..Cardinality(P) /\ k \in Nat
    BY RankType DEF Offsets
  <2>2. Rank(P, k) # 0
    <3>1. {j \in P : j <= k} # {} /\ IsFiniteSet({j \in P : j <= k})
      BY <2>1, RankType
    <3> QED BY <3>1, FS_EmptySet DEF Rank
  <2> DEFINE c == CHOOSE i \in P : Rank(P, i) = Rank(P, k)
  <2>3. c \in P /\ Rank(P, c) = Rank(P, k)
    OBVIOUS
  <2> HIDE DEF c
  <2>4. c = k
    BY <2>3, RankTells
  <2>5. PastOf(P, h)[Rank(P, k)] = StateAt(h, c)
    BY <1>1, <2>1, <2>2 DEF PastOf, c
  <2> QED BY <1>1, <2>1, <2>2, <2>4, <2>5
<1> QED BY <1>2, <1>3

LEMMA PastGrows ==
  ASSUME NEW P \in Offsets, Dense(P), NEW m \in Nat, \A j \in P : j < m,
         NEW h, NEW g, \A k \in P : StateAt(g, k) = StateAt(h, k)
  PROVE  PastOf(P \cup {m}, g) = Longer(PastOf(P, h), StateAt(g, m))
<1> DEFINE Q == P \cup {m}
           c == Cardinality(P)
<1>1. /\ Q \in Offsets /\ Cardinality(Q) = c + 1 /\ Rank(Q, m) = c + 1
      /\ \A k \in P : Rank(Q, k) = Rank(P, k)
  BY RankOfAdded
<1>2. c \in Nat
  BY RankType
<1>3. PastOf(Q, g)[c + 1] = StateAt(g, m)
  <2>1. m \in Q
    OBVIOUS
  <2> HIDE DEF Q, c
  <2> QED BY <1>1, <2>1, PastOfType
<1>4. ASSUME NEW n \in 1..c PROVE PastOf(Q, g)[n] = PastOf(P, h)[n]
  <2>1. PICK k \in P : Rank(P, k) = n
    BY DEF Dense
  <2>2. PastOf(P, h)[n] = StateAt(h, k)
    BY <2>1, PastOfType
  <2>3. k \in Q /\ Rank(Q, k) = n
    BY <1>1, <2>1
  <2> HIDE DEF Q
  <2>4. PastOf(Q, g)[n] = StateAt(g, k)
    BY <1>1, <2>3, PastOfType
  <2> QED BY <2>2, <2>4
<1> DEFINE x == PastOf(Q, g)
           y == PastOf(P, h)
           z == StateAt(g, m)
<1>5. x = [n \in 1..c + 1 |-> x[n]]
  BY <1>1 DEF PastOf
<1>6. y = [n \in 1..c |-> y[n]]
  BY DEF PastOf
<1> HIDE DEF x, y, z, c, Q
<1>7. Append(y, z) = [n \in 1..c + 1 |-> IF n = c + 1 THEN z ELSE y[n]]
  BY <1>2, <1>6
<1>8. x[c + 1] = z /\ \A n \in 1..c + 1 : n # c + 1 => x[n] = y[n]
  BY <1>2, <1>3, <1>4 DEF x, y, z
<1>9. x = Append(y, z)
  BY <1>2, <1>5, <1>7, <1>8
<1> QED BY <1>9 DEF x, y, z, Q, Longer
-----------------------------------------------------------------------------
(* The places between the blocks of a journal *)

(* no block is empty *)
Filled(q) == \A k \in 2..Len(q) : q[k].op = "end" => q[k - 1].op # "begin"

LEMMA PlacesType ==
  ASSUME NEW q \in Seq(Line), Matched(q)
  PROVE  /\ PlacesOf(q) \in Offsets
         /\ 0 \in PlacesOf(q) /\ Len(q) \in PlacesOf(q) /\ Len(q) \in Nat
         /\ \A k \in PlacesOf(q) : k \in 0..Len(q)
<1>1. Len(q) \in Nat
  OBVIOUS
<1>2. PlacesOf(q) \in SUBSET Nat /\ \A k \in PlacesOf(q) : k \in 0..Len(q)
  BY <1>1 DEF PlacesOf
<1>3. IsFiniteSet(PlacesOf(q))
  <2>1. \A k \in PlacesOf(q) : k <= Len(q)
    BY <1>1, <1>2
  <2> QED BY <1>1, <1>2, <2>1, FS_BoundedSetOfNaturals
<1>4. PlacesOf(q) \in Offsets
  BY <1>2, <1>3, Zenon DEF Offsets
<1>5. ~Inside(q, 0) /\ ~Inside(q, Len(q))
  BY EmptyMatched DEF Matched
<1> QED BY <1>1, <1>2, <1>4, <1>5 DEF PlacesOf

LEMMA PlacesGrow ==
  ASSUME NEW q \in Seq(Line), Matched(q), NEW p \in Seq(Line), NoMarkers(p), p # <<>>
  PROVE  /\ PlacesOf(q \o Framed(p)) = PlacesOf(q) \cup {Len(q \o Framed(p))}
         /\ Len(q \o Framed(p)) > Len(q)
         /\ Filled(q) => Filled(q \o Framed(p))
         /\ q \o Framed(p) \in Seq(Line) /\ Matched(q \o Framed(p))
<1> DEFINE r == q \o Framed(p)
<1>1. Framed(p) \in Seq(Line) /\ Framed(p) # <<>>
  BY BraceLineType DEF Framed
<1>2. Len(Framed(p)) \in Nat /\ Len(Framed(p)) > 0
  BY <1>1
<1>3. /\ r \in Seq(Line) /\ Len(r) \in Nat /\ Len(q) \in Nat /\ Len(r) > Len(q)
      /\ \A k \in 1..Len(q) : r[k] = q[k]
  <2> DEFINE f == Framed(p)
  <2> HIDE DEF f
  <2> QED BY <1>1, <1>2, ConcatIndex DEF f
<1>4. /\ Matched(r)
      /\ \A k \in 0..Len(q) : Inside(r, k) <=> Inside(q, k)
      /\ \A k \in Len(q) + 1 .. Len(r) - 1 : Inside(r, k)
      /\ \A k \in Len(q) + 1 .. Len(r) : r[k].op = "end" => k # Len(q) + 1 /\ ~IsMarker(r[k - 1])
  BY FramedMatched
<1> HIDE DEF r
<1>5. ~Inside(r, Len(r))
  BY <1>4 DEF Matched
<1>6. \A k \in 0..Len(r) : k \in 0..Len(q) \/ k \in Len(q) + 1 .. Len(r) - 1 \/ k = Len(r)
  BY <1>3
<1>7. PlacesOf(r) = PlacesOf(q) \cup {Len(r)}
  <2>1. ASSUME NEW k PROVE k \in PlacesOf(r) <=> k \in PlacesOf(q) \cup {Len(r)}
    <3>1. k \in 0..Len(q) \/ k = Len(r) => k \in 0..Len(r)
      BY <1>3
    <3> QED BY <1>3, <1>4, <1>5, <1>6, <3>1 DEF PlacesOf
  <2> QED BY <2>1
<1>8. ASSUME Filled(q) PROVE Filled(r)
  <2> SUFFICES ASSUME NEW k \in 2..Len(r), r[k].op = "end" PROVE r[k - 1].op # "begin"
    BY DEF Filled
  <2>1. CASE k \in 2..Len(q)
    <3>1. r[k] = q[k] /\ r[k - 1] = q[k - 1]
      BY <1>3, <2>1
    <3> QED BY <1>8, <2>1, <3>1 DEF Filled
  <2>2. CASE k \in Len(q) + 1 .. Len(r)
    BY <1>4, <2>2 DEF IsMarker
  <2> QED BY <1>3, <2>1, <2>2
<1> QED BY <1>3, <1>4, <1>7, <1>8 DEF r

(* the one place of an empty journal *)
LEMMA OnePlace ==
  /\ {0} \in Offsets /\ Dense({0}) /\ Cardinality({0}) = 1 /\ Rank({0}, 0) = 1
  /\ PlacesOf(<<>>) = {0} /\ Filled(<<>>)
  /\ \A h : PastOf({0}, h) = <<Empty>>
<1>1. IsFiniteSet({0}) /\ Cardinality({0}) = 1
  BY FS_Singleton
<1>2. {0} \in Offsets
  <2>1. {0} \in SUBSET Nat
    OBVIOUS
  <2> QED BY <1>1, <2>1, Zenon DEF Offsets
<1>3. Rank({0}, 0) = 1
  <2>1. {j \in {0} : j <= 0} = {0}
    OBVIOUS
  <2> QED BY <1>1, <2>1 DEF Rank
<1>4. Dense({0})
  BY <1>1, <1>3 DEF Dense
<1>5. PlacesOf(<<>>) = {0} /\ Filled(<<>>)
  BY EmptyMatched DEF PlacesOf, Filled
<1>6. ASSUME NEW h PROVE PastOf({0}, h) = <<Empty>>
  <2>1. Len(PastOf({0}, h)) = 1 /\ PastOf({0}, h)[1] = Empty
    <3>1. StateAt(h, 0) = Empty
      BY DEF StateAt, Empty
    <3> QED BY <1>1, <1>2, <1>3, <3>1, PastOfType
  <2>2. PastOf({0}, h) = [n \in 1..1 |-> PastOf({0}, h)[n]]
    BY <1>1 DEF PastOf
  <2> DEFINE x == PastOf({0}, h)
  <2> HIDE DEF x
  <2>3. x = [n \in 1..1 |-> x[n]] /\ x[1] = Empty
    BY <2>1, <2>2 DEF x
  <2>4. x = <<Empty>>
    BY <2>3
  <2> QED BY <2>4 DEF x
<1> QED BY <1>1, <1>2, <1>3, <1>4, <1>5, <1>6

-----------------------------------------------------------------------------
(* What undo() passes on its way back *)

WayOK ==
  mode = "undo" =>
    /\ UndoesBlock => \A k \in pos .. undoOff - 1 : Inside(file, k)
    /\ pending = <<>> => pos = IF UndoesBlock THEN undoOff - 1 ELSE undoOff

StoreOK == Filled(file) /\ Dense(PlacesOf(file)) /\ WayOK

SInv == IInv /\ UndoReady /\ BlocksOK /\ NeverAborts

(* undo() goes back to the place before the one it set out from, and has        *)
(* something to write                                                         *)
LEMMA BackToPlace ==
  ASSUME SInv, StoreOK, UndoEnd
  PROVE  /\ pending # <<>>
         /\ undoOff' \in PlacesOf(file) /\ undoOff \in PlacesOf(file)
         /\ Rank(PlacesOf(file), undoOff) = Rank(PlacesOf(file), undoOff') + 1
<1> DEFINE P == PlacesOf(file)
<1>1. /\ mode = "undo" /\ ~UndoMore
      /\ undoOff \in 1..Len(file) /\ Len(file) \in Nat /\ pos \in 0..Len(file)
      /\ ~Inside(file, undoOff)
      /\ undoOff' = IF UndoesBlock THEN pos - 1 ELSE undoOff - 1
      /\ UndoesBlock => pos \in 1..Len(file) /\ pos < undoOff /\ file[pos].op = "begin"
      /\ ~UndoesBlock => pos # undoOff
      /\ IF UndoesBlock THEN ~Inside(file, pos - 1) ELSE ~Inside(file, undoOff - 1)
  BY UndoEndReady, UndoBlocks DEF SInv, UndoEnd, UndoMore, IInv, StorageOK, UndoOK, BlocksOK
<1>2. undoOff' \in P /\ undoOff \in P /\ undoOff' < undoOff
  BY <1>1 DEF PlacesOf
<1>3. pending # <<>>
  <2> SUFFICES ASSUME pending = <<>> PROVE FALSE
    OBVIOUS
  <2>1. UndoesBlock /\ pos = undoOff - 1
    BY <1>1 DEF StoreOK, WayOK
  <2>2. undoOff \in 2..Len(file) /\ file[undoOff].op = "end" /\ file[undoOff - 1].op = "begin"
    BY <1>1, <2>1 DEF UndoesBlock
  <2> QED BY <2>2 DEF StoreOK, Filled
<1>4. \A i \in P : ~(undoOff' < i /\ i < undoOff)
  <2> SUFFICES ASSUME NEW i \in P, undoOff' < i, i < undoOff PROVE FALSE
    OBVIOUS
  <2>1. i \in 0..Len(file) /\ ~Inside(file, i)
    BY DEF PlacesOf
  <2>2. UndoesBlock /\ i \in pos .. undoOff - 1
    BY <1>1, <2>1
  <2> QED BY <1>1, <2>1, <2>2 DEF StoreOK, WayOK
<1>5. P \in Offsets
  BY PlacesType DEF SInv, IInv, StorageOK, BlocksOK
<1> HIDE DEF P
<1>6. Rank(P, undoOff) = Rank(P, undoOff') + 1
  <2> DEFINE u == undoOff'
  <2>1. u \in P /\ u < undoOff /\ \A i \in P : ~(u < i /\ i < undoOff)
    BY <1>2, <1>4
  <2> HIDE DEF u
  <2>2. Rank(P, undoOff) = Rank(P, u) + 1
    BY <1>2, <1>5, <2>1, RankNext
  <2> QED BY <2>2 DEF u
<1> QED BY <1>2, <1>3, <1>6 DEF P

LEMMA WayKept ==
  ASSUME SInv, StoreOK, NeverAborts', [Next]_vars
  PROVE  WayOK'
<1> SUFFICES ASSUME mode' = "undo" PROVE WayOK'
  BY DEF WayOK
<1>1. CASE UNCHANGED vars
  BY <1>1 DEF vars, queue, journal, StoreOK, WayOK, UndoesBlock
<1>2. CASE UndoStart
  <2>1. /\ mode = "open" /\ mode' = "undo" /\ file' = file /\ undoOff' = undoOff
        /\ undoOff # 0 /\ pos' = IF UndoesBlock THEN undoOff - 1 ELSE undoOff
    BY <1>2, UndoStartReady DEF SInv, UndoStart, journal
  <2>2. undoOff \in 1..Len(file)
    BY <2>1 DEF SInv, UndoReady, IInv, StorageOK
  <2>3. UndoesBlock => Inside(file, undoOff - 1)
    BY <2>2 DEF SInv, BlocksOK, Matched, UndoesBlock
  <2>4. \A k \in undoOff - 1 .. undoOff - 1 : k = undoOff - 1
    BY <2>2
  <2> QED BY <2>1, <2>3, <2>4 DEF WayOK, UndoesBlock
<1>3. CASE UndoLine
  <2>1. /\ mode = "undo" /\ file' = file /\ undoOff' = undoOff /\ pos' = pos - 1
        /\ undoOff \in 1..Len(file) /\ pos \in 0..Len(file)
    BY <1>3 DEF UndoLine, journal, SInv, IInv, UndoOK, StorageOK
  <2>2. PICK m \in Telling : pending' = Append(pending, m)
    BY <1>3, UndoLineQueues DEF SInv, BlocksOK, NeverAborts
  <2>3. pending' # <<>>
    BY <2>2 DEF SInv, BlocksOK
  <2>4. UndoesBlock => Inside(file, pos')
    <3>1. (UndoesBlock => Inside(file, pos))'
      BY <1>3, <2>1, UndoBlocks DEF SInv, BlocksOK
    <3> QED BY <2>1, <3>1 DEF UndoesBlock
  <2>5. \A k \in pos - 1 .. undoOff - 1 : k = pos - 1 \/ k \in pos .. undoOff - 1
    BY <2>1
  <2> QED BY <2>1, <2>3, <2>4, <2>5 DEF StoreOK, WayOK, UndoesBlock
<1>4. ASSUME mode # "undo" PROVE Next => UndoStart
  <2>1. UserStep => UndoStart
    BY <1>4 DEF UserStep, BlockStart, BlockEnd, Create, Destroy, Delete, LogStart, LogEnd,
           Tune,
         Assign, Import, MakeObject, Abort, Snapshot, Compact, Open, Close
  <2>2. ~LoopStep
    BY <1>4 DEF LoopStep, UndoLine, UndoEnd, ReplayLine, LoadLine, OpenEnd, DoForward,
           MakeObject,
         Abort
  <2>3. ~Crash /\ ~TornFlush
    BY DEF Crash, TornFlush, FreshProcess
  <2> QED BY <2>1, <2>2, <2>3 DEF Next
<1>5. ASSUME mode = "undo" PROVE Next => UndoLine
  <2>1. ~UserStep
    BY <1>5 DEF UserStep, BlockStart, BlockEnd, Create, Destroy, LogStart, LogEnd, Tune,
         Assign, Import, UndoStart, Snapshot, Compact, Open, Close
  <2>2. LoopStep => UndoLine
    BY <1>5 DEF LoopStep, UndoEnd, ReplayLine, LoadLine, OpenEnd
  <2>3. ~Crash /\ ~TornFlush
    BY DEF Crash, TornFlush, FreshProcess
  <2> QED BY <2>1, <2>2, <2>3 DEF Next
<1> QED BY <1>1, <1>2, <1>3, <1>4, <1>5
-----------------------------------------------------------------------------
(* The store's past, from the journal *)

LEMMA PastFacts ==
  ASSUME NEW q \in Seq(Line), Matched(q), NEW h
  PROVE  LET P == PlacesOf(q)
             X == PastOf(P, h)
         IN  /\ Len(X) \in Nat /\ Len(X) > 0
             /\ X[Len(X)] = StateAt(h, Len(q))
             /\ Len(q) \in P /\ Rank(P, Len(q)) = Len(X)
             /\ \A k \in P : Rank(P, k) \in 1..Len(X) /\ X[Rank(P, k)] = StateAt(h, k)
<1> DEFINE P == PlacesOf(q)
           X == PastOf(P, h)
<1>1. P \in Offsets /\ Len(q) \in P /\ \A k \in P : k <= Len(q)
  BY PlacesType
<1> HIDE DEF P
<1>2. Rank(P, Len(q)) = Cardinality(P) /\ Cardinality(P) > 0 /\ Cardinality(P) \in Nat
  BY <1>1, RankOfLast, RankType
<1>3. /\ Len(X) = Cardinality(P)
      /\ \A k \in P : Rank(P, k) \in 1..Cardinality(P) /\ X[Rank(P, k)] = StateAt(h, k)
  BY <1>1, PastOfType
<1> HIDE DEF X
<1>4. /\ Len(X) \in Nat /\ Len(X) > 0
      /\ X[Len(X)] = StateAt(h, Len(q))
      /\ Len(q) \in P /\ Rank(P, Len(q)) = Len(X)
      /\ \A k \in P : Rank(P, k) \in 1..Len(X) /\ X[Rank(P, k)] = StateAt(h, k)
  BY <1>1, <1>2, <1>3
<1> QED BY <1>4 DEF P, X

(* the journal after flush(), under a name for the same reason *)
Flushed(q, p) == q \o Framed(p)

(* a transaction is written: one place more, and the others keep their ranks *)
LEMMA JournalGrows ==
  ASSUME NEW q \in Seq(Line), Matched(q), Dense(PlacesOf(q)), Filled(q),
         NEW p \in Seq(Line), NoMarkers(p), p # <<>>, NEW r, r = Flushed(q, p)
  PROVE  /\ r \in Seq(Line) /\ Matched(r) /\ Dense(PlacesOf(r)) /\ Filled(r)
         /\ \A k \in PlacesOf(q) :
              k \in PlacesOf(r) /\ Rank(PlacesOf(r), k) = Rank(PlacesOf(q), k)
         /\ \A h, g : (\A k \in 0..Len(q) : StateAt(g, k) = StateAt(h, k)) =>
              PastOf(PlacesOf(r), g) = Longer(PastOf(PlacesOf(q), h), StateAt(g, Len(r)))
<1> DEFINE P == PlacesOf(q)
           m == Len(r)
<1>1. P \in Offsets /\ Len(q) \in Nat /\ \A k \in P : k \in 0..Len(q)
  BY PlacesType
<1>2. /\ PlacesOf(r) = P \cup {m} /\ m > Len(q)
      /\ r \in Seq(Line) /\ Matched(r) /\ Filled(r)
  BY PlacesGrow DEF Flushed
<1>3. m \in Nat /\ \A j \in P : j < m
  <2>1. m \in Nat
    BY <1>2
  <2> HIDE DEF m
  <2> QED BY <1>1, <1>2, <2>1
<1> HIDE DEF P, m
<1>4. Dense(P)
  BY DEF P
<1>5. /\ Dense(P \cup {m}) /\ \A k \in P : Rank(P \cup {m}, k) = Rank(P, k)
  BY <1>1, <1>3, <1>4, RankOfAdded
<1>6. ASSUME NEW h, NEW g, \A k \in 0..Len(q) : StateAt(g, k) = StateAt(h, k)
      PROVE  PastOf(P \cup {m}, g) = Longer(PastOf(P, h), StateAt(g, m))
  <2>1. \A k \in P : StateAt(g, k) = StateAt(h, k)
    BY <1>1, <1>6
  <2>2. P \in Offsets /\ m \in Nat /\ Dense(P) /\ \A j \in P : j < m
    BY <1>1, <1>3, <1>4
  <2> QED BY <2>1, <2>2, PastGrows
<1> QED BY <1>2, <1>5, <1>6 DEF P, m

LEMMA StoreKept ==
  ASSUME ~TornWrites, SInv, SInv', StoreOK, [Next]_vars
  PROVE  StoreOK'
<1>1. WayOK'
  BY WayKept DEF SInv
<1>2. CASE UNCHANGED vars
  BY <1>1, <1>2 DEF vars, journal, StoreOK
<1>3. CASE Next
  <2>1. PICK p \in Seq(Telling) : NoMarkers(p) /\ Writes(p)
    BY <1>3, WhatIsWritten DEF SInv, BlocksOK
  <2>2. p \in Seq(Line) /\ file \in Seq(Line) /\ Matched(file)
    BY DEF Telling, SInv, BlocksOK
  <2>3. <<>> \in Seq(Line) /\ Matched(<<>>) /\ Filled(<<>>) /\ Dense(PlacesOf(<<>>))
    BY EmptyMatched, OnePlace
  <2>4. CASE p = <<>>
    <3>1. Framed(p) = <<>>
      BY <2>4 DEF Framed
    <3>2. file' = file \/ file' = <<>>
      BY <2>1, <2>2, <3>1 DEF Writes
    <3> QED BY <1>1, <2>3, <3>2 DEF StoreOK
  <2>5. CASE p # <<>>
    <3>1. Framed(p) \in Seq(Line)
      BY <2>2, BraceLineType DEF Framed
    <3>2. \E q \in Seq(Line) :
            Matched(q) /\ Filled(q) /\ Dense(PlacesOf(q)) /\ file' = q \o Framed(p)
      <4>1. CASE file' = file \o Framed(p)
        BY <2>2, <4>1 DEF StoreOK
      <4>2. CASE file' = Framed(p)
        <5>1. file' = <<>> \o Framed(p)
          BY <3>1, <4>2
        <5> QED BY <2>3, <5>1
      <4> QED BY <2>1, <4>1, <4>2 DEF Writes
    <3>3. PICK q \in Seq(Line) :
            Matched(q) /\ Filled(q) /\ Dense(PlacesOf(q)) /\ file' = q \o Framed(p)
      BY <3>2
    <3>4. Dense(PlacesOf(file')) /\ Filled(file')
      BY <2>1, <2>2, <2>5, <3>3, JournalGrows DEF Flushed
    <3> QED BY <1>1, <3>4 DEF StoreOK
  <2> QED BY <2>4, <2>5
<1> QED BY <1>2, <1>3

-----------------------------------------------------------------------------
(* The refinement *)

LEMMA Mapped ==
  /\ Past = PastOf(PlacesOf(file), hist) /\ Past' = PastOf(PlacesOf(file'), hist')
  /\ Point = IF IsUp /\ undoOff \in PlacesOf(file) THEN Rank(PlacesOf(file), undoOff) ELSE 0
  /\ Point' = IF IsUp' /\ undoOff' \in PlacesOf(file')
              THEN Rank(PlacesOf(file'), undoOff') ELSE 0
  /\ \A k : At(k) = StateAt(hist, k) /\ At(k)' = StateAt(hist', k)
BY DEF Past, Point, Places, PlacesOf, PastOf, At, StateAt, Empty

LEMMA MappedInit == Init => Store!Init
<1> SUFFICES ASSUME Init PROVE Store!Init
  OBVIOUS
<1>1. mode = "closed" /\ file = <<>>
  BY DEF Init
<1>2. IsUp = FALSE /\ Shown = Empty /\ Point = 0
  BY <1>1 DEF IsUp, Shown, Point
<1>3. Past = <<Empty>>
  BY <1>1, Mapped, OnePlace
<1> QED BY <1>2, <1>3 DEF Store!Init

(* a step that leaves the journal and the undo index alone, up or not *)
LEMMA MappedStill ==
  ASSUME UNCHANGED <<file, hist>>
  PROVE  Past' = Past /\ (IsUp' = IsUp /\ (IsUp => undoOff' = undoOff) => Point' = Point)
BY DEF Past, Point, Places, IsUp, At, Empty

LEMMA MappedChange ==
  ASSUME SInv, SInv', StoreOK, mode = "open", mode' = "open", Commits \/ Kept
  PROVE  Store!Work \/ Store!Commit
<1>1. IsUp /\ IsUp' = IsUp /\ Shown' = Logged' /\ Logged' \in State
  <2>1. Logged' \in State
    BY DEF SInv, IInv, ObjectsOK, Logged, State
  <2> QED BY <2>1 DEF IsUp, Shown
<1>2. CASE Kept
  <2>1. Past' = Past /\ Point' = Point
    BY <1>1, <1>2, MappedStill DEF Kept
  <2> QED BY <1>1, <2>1 DEF Store!Work
<1>3. CASE Commits
  <2>1. PICK p \in Seq(Line) : p # <<>> /\ NoMarkers(p) /\ file' = file \o Framed(p)
    BY <1>3 DEF Commits
  <2>2. file \in Seq(Line) /\ Matched(file) /\ file' \in Seq(Line) /\ Matched(file')
    BY DEF SInv, IInv, StorageOK, BlocksOK
  <2>3. \A k \in 0..Len(file) : StateAt(hist', k) = StateAt(hist, k)
    BY <1>3, Mapped DEF Commits, HistoryKept
  <2>4. PastOf(PlacesOf(file'), hist') =
          Longer(PastOf(PlacesOf(file), hist), StateAt(hist', Len(file')))
    <3> DEFINE q == file
               r == file'
               h == hist
               g == hist'
    <3>1. /\ q \in Seq(Line) /\ Matched(q) /\ Dense(PlacesOf(q)) /\ Filled(q)
          /\ r = Flushed(q, p) /\ \A k \in 0..Len(q) : StateAt(g, k) = StateAt(h, k)
      BY <2>1, <2>2, <2>3 DEF StoreOK, Flushed
    <3> HIDE DEF q, r, h, g
    <3>2. \A x, y : (\A k \in 0..Len(q) : StateAt(y, k) = StateAt(x, k)) =>
            PastOf(PlacesOf(r), y) = Longer(PastOf(PlacesOf(q), x), StateAt(y, Len(r)))
      BY <2>1, <3>1, JournalGrows
    <3>3. PastOf(PlacesOf(r), g) = Longer(PastOf(PlacesOf(q), h), StateAt(g, Len(r)))
      BY <3>1, <3>2
    <3> QED BY <3>3 DEF q, r, h, g
  <2>5. undoOff' = Len(file') /\ pending' = <<>>
    BY <1>3 DEF Commits, Reset
  <2>6. StateAt(hist', Len(file')) = Logged'
    <3>1. At(undoOff)' = Logged'
      BY <2>5 DEF SInv, UndoReady
    <3>2. At(undoOff)' = StateAt(hist', undoOff')
      BY DEF At, StateAt, Empty
    <3> QED BY <2>5, <3>1, <3>2
  <2>7. Past' = Append(Past, Shown')
    BY <1>1, <2>4, <2>6, Mapped DEF Longer
  <2>8. Point' = Len(Past')
    BY <1>1, <2>2, <2>5, Mapped, PastFacts
  <2> QED BY <1>1, <2>7, <2>8 DEF Store!Commit
<1> QED BY <1>2, <1>3
(* between transactions the end of the journal is the present *)
LEMMA PresentAtEnd ==
  ASSUME SInv', mode' = "open", pending' = <<>>
  PROVE  /\ StateAt(hist', Len(file')) = Logged' /\ StateAt(hist', undoOff') = Logged'
         /\ undoOff' \in PlacesOf(file') /\ Logged' \in State
         /\ file' \in Seq(Line) /\ Matched(file')
<1>1. phist' \in Seq(State) /\ Len(phist') = Len(pending')
  BY DEF SInv, IInv, StorageOK, JournalIsBidirectional, Linked
<1>2. phist' = <<>>
  BY <1>1
<1>3. End' = Logged' /\ End' = At(Len(file))'
  BY <1>2 DEF SInv, IInv, ModeOK, End, After
<1>4. At(undoOff)' = Logged' /\ undoOff' \in 0..Len(file') /\ ~Inside(file', undoOff')
  BY DEF SInv, UndoReady, IInv, StorageOK, BlocksOK
<1>5. /\ At(Len(file))' = StateAt(hist', Len(file'))
      /\ At(undoOff)' = StateAt(hist', undoOff')
  BY DEF At, StateAt, Empty
<1>6. Logged' \in State
  BY DEF SInv, IInv, ObjectsOK, Logged, State
<1> QED BY <1>3, <1>4, <1>5, <1>6 DEF PlacesOf, SInv, IInv, StorageOK, BlocksOK

LEMMA MappedUndo ==
  ASSUME SInv, SInv', StoreOK, UndoEnd
  PROVE  Store!Undo
<1>1. /\ mode = "undo" /\ mode' = "open" /\ file' = file \o Framed(pending) /\ pending' = <<>>
      /\ hist' = hist \o FramedStates(At(Len(file)), phist)
  BY UndoEndReady DEF SInv, UndoEnd, Flush
<1>2. IsUp /\ IsUp' = IsUp /\ Shown = At(Len(file)) /\ Shown' = Logged'
  BY <1>1 DEF IsUp, Shown
<1>3. /\ file \in Seq(Line) /\ Matched(file) /\ pending \in Seq(Line) /\ NoMarkers(pending)
      /\ phist \in Seq(State)
  BY DEF SInv, IInv, StorageOK, BlocksOK
<1>4. /\ pending # <<>> /\ undoOff' \in PlacesOf(file) /\ undoOff \in PlacesOf(file)
      /\ Rank(PlacesOf(file), undoOff) = Rank(PlacesOf(file), undoOff') + 1
  BY BackToPlace
<1>5. HistoryKept
  <2> DEFINE s == At(Len(file))
  <2>1. s = At(Len(file)) /\ hist' = hist \o FramedStates(s, phist)
    BY <1>1
  <2> HIDE DEF s
  <2> QED BY <1>3, <2>1, HistoryExtended DEF SInv, IInv
<1>6. \A k \in 0..Len(file) : StateAt(hist', k) = StateAt(hist, k)
  BY <1>5, Mapped DEF HistoryKept
<1>7. /\ StateAt(hist', Len(file')) = Logged' /\ StateAt(hist', undoOff') = Logged'
      /\ undoOff' \in PlacesOf(file')
  BY <1>1, PresentAtEnd
<1> DEFINE q == file
           r == file'
           h == hist
           g == hist'
           u == undoOff'
           P == PlacesOf(q)
           X == PastOf(P, h)
<1>8. /\ q \in Seq(Line) /\ Matched(q) /\ Dense(P) /\ Filled(q)
      /\ r = Flushed(q, pending) /\ \A k \in 0..Len(q) : StateAt(g, k) = StateAt(h, k)
  BY <1>1, <1>3, <1>6 DEF StoreOK, Flushed
<1>9. u \in P /\ u \in 0..Len(q) /\ undoOff \in P /\ Rank(P, undoOff) = Rank(P, u) + 1
  BY <1>4 DEF PlacesOf
<1> HIDE DEF q, r, h, g, u
<1>10. /\ Rank(PlacesOf(r), u) = Rank(P, u)
       /\ PastOf(PlacesOf(r), g) = Longer(X, StateAt(g, Len(r)))
  <2>1. \A k \in P : k \in PlacesOf(r) /\ Rank(PlacesOf(r), k) = Rank(P, k)
    BY <1>3, <1>4, <1>8, JournalGrows
  <2>2. \A x, y : (\A k \in 0..Len(q) : StateAt(y, k) = StateAt(x, k)) =>
          PastOf(PlacesOf(r), y) = Longer(PastOf(P, x), StateAt(y, Len(r)))
    BY <1>3, <1>4, <1>8, JournalGrows
  <2> QED BY <1>8, <1>9, <2>1, <2>2
<1>11. /\ Len(X) \in Nat /\ X[Len(X)] = StateAt(h, Len(q))
       /\ Rank(P, u) \in 1..Len(X) /\ X[Rank(P, u)] = StateAt(h, u)
  BY <1>8, <1>9, PastFacts
<1>12. Past = X /\ Past' = PastOf(PlacesOf(r), g)
  BY Mapped DEF X, P, q, r, h, g
<1>13. Point = Rank(P, u) + 1 /\ Point' = Rank(P, u)
  <2>1. u \in PlacesOf(r)
    BY <1>7 DEF u, r
  <2>2. Point = Rank(P, undoOff)
    BY <1>2, <1>9, Mapped DEF P, q
  <2>3. Point' = Rank(PlacesOf(r), u)
    BY <1>2, <2>1, Mapped DEF r, u
  <2> QED BY <1>9, <1>10, <2>2, <2>3
<1>14. Shown = StateAt(h, Len(q)) /\ Shown' = StateAt(g, u) /\ Shown' = StateAt(g, Len(r))
  BY <1>2, <1>7, Mapped DEF h, g, q, r, u
<1>15. StateAt(g, u) = StateAt(h, u)
  BY <1>8, <1>9
<1> HIDE DEF X, P
<1>16. Point > 1 /\ Point' = Point - 1 /\ Past[Point - 1] = Shown'
  <2>1. Rank(P, u) \in Nat /\ Rank(P, u) > 0
    BY <1>11
  <2>2. Point > 1 /\ Point - 1 = Rank(P, u)
    BY <1>13, <2>1
  <2>3. Past[Rank(P, u)] = Shown'
    BY <1>11, <1>12, <1>14, <1>15
  <2> QED BY <1>13, <2>2, <2>3
<1>17. Past' = Append(Past, Shown') /\ Shown = Past[Len(Past)]
  BY <1>10, <1>11, <1>12, <1>14 DEF Longer
<1> QED BY <1>2, <1>16, <1>17 DEF Store!Undo, Store!Committed

LEMMA MappedCompact ==
  ASSUME ~TornWrites, ~CompactsEmpty, SInv, SInv', StoreOK, Compact
  PROVE  Store!Compact
<1>1. /\ mode = "open" /\ mode' = "open" /\ undoOff' = Len(file') /\ pending' = <<>>
      /\ Quiescent /\ Live # {} /\ UNCHANGED <<obj, nest, old>>
  BY CompactResets DEF SInv, Compact, Reset, mutable
<1>2. IsUp /\ IsUp' = IsUp /\ Shown' = Shown /\ Shown = Logged /\ Logged' = Logged
  BY <1>1 DEF IsUp, Shown, Logged
<1>3. Logged = obj /\ At(Len(file)) = obj
  BY <1>1, QuiescentState DEF SInv
<1>4. /\ StateAt(hist', Len(file')) = Logged'
      /\ file' \in Seq(Line) /\ Matched(file') /\ undoOff' \in PlacesOf(file')
  BY <1>1, PresentAtEnd
<1>5. PICK p \in Seq(Telling) : NoMarkers(p) /\ file' = Framed(p)
  <2>1. PICK p \in Seq(Telling) : NoMarkers(p) /\ Writes(p)
    BY WhatIsWritten DEF SInv, BlocksOK, Next, UserStep
  <2> QED BY <2>1 DEF Writes
<1>6. p \in Seq(Line)
  BY DEF Telling
<1>7. p # <<>>
  <2> SUFFICES ASSUME p = <<>> PROVE FALSE
    OBVIOUS
  <2>1. file' = <<>>
    BY <1>5 DEF Framed
  <2>2. obj = Empty
    BY <1>2, <1>3, <1>4, <2>1 DEF StateAt
  <2> QED BY <1>1, <2>2 DEF Live, Empty
<1>8. PastOf(PlacesOf(file'), hist') = <<Empty, Logged>>
  <2> DEFINE q == <<>>
             r == file'
             g == hist'
  <2>1. q \in Seq(Line) /\ Matched(q) /\ Filled(q) /\ Dense(PlacesOf(q))
    <3>1. <<>> \in Seq(Line)
      OBVIOUS
    <3>2. Matched(<<>>) /\ Filled(<<>>) /\ Dense(PlacesOf(<<>>))
      BY EmptyMatched, OnePlace
    <3> QED BY <3>1, <3>2
  <2>2. PastOf(PlacesOf(q), g) = <<Empty>>
    <3>1. PlacesOf(<<>>) = {0} /\ PastOf({0}, g) = <<Empty>>
      BY OnePlace, Zenon
    <3> QED BY <3>1
  <2>3. r = Flushed(q, p)
    <3>1. Framed(p) \in Seq(Line)
      BY <1>6, BraceLineType DEF Framed
    <3> QED BY <1>5, <3>1 DEF Flushed
  <2>4. StateAt(g, Len(r)) = Logged
    BY <1>2, <1>4
  <2>5. NoMarkers(p)
    BY <1>5
  <2> HIDE DEF q, r, g
  <2>6. \A x, y : (\A k \in 0..Len(q) : StateAt(y, k) = StateAt(x, k)) =>
          PastOf(PlacesOf(r), y) = Longer(PastOf(PlacesOf(q), x), StateAt(y, Len(r)))
    BY <1>6, <1>7, <2>1, <2>3, <2>5, JournalGrows
  <2>7. PastOf(PlacesOf(r), g) = Longer(PastOf(PlacesOf(q), g), StateAt(g, Len(r)))
    BY <2>6
  <2>8. PastOf(PlacesOf(r), g) = Longer(<<Empty>>, Logged)
    BY <2>4, <2>7, <2>2
  <2>9. ASSUME NEW a \in State, NEW b \in State PROVE Longer(<<a>>, b) = <<a, b>>
    <3>1. Append(<<a>>, b) = [n \in 1..2 |-> IF n = 2 THEN b ELSE a]
      OBVIOUS
    <3>2. <<a, b>> = [n \in 1..2 |-> IF n = 2 THEN b ELSE a]
      OBVIOUS
    <3> QED BY <3>1, <3>2 DEF Longer
  <2>10. Empty \in State /\ Logged \in State
    BY LoggedState DEF Empty, State, SInv, IInv
  <2> QED BY <2>8, <2>9, <2>10 DEF r, g
<1>9. Past' = <<Empty, Shown>>
  BY <1>2, <1>8, Mapped
<1>10. Point' = 2
  <2>1. Point' = Len(PastOf(PlacesOf(file'), hist'))
    BY <1>1, <1>2, <1>4, Mapped, PastFacts
  <2> QED BY <1>8, <2>1
<1>11. Shown = Past[Len(Past)]
  <2>1. file \in Seq(Line) /\ Matched(file)
    BY DEF SInv, IInv, StorageOK, BlocksOK
  <2>2. Past[Len(Past)] = StateAt(hist, Len(file))
    BY <2>1, Mapped, PastFacts
  <2> QED BY <1>2, <1>3, <2>2, Mapped
<1> QED BY <1>2, <1>9, <1>10, <1>11 DEF Store!Compact, Store!Committed

LEMMA MappedStart ==
  ASSUME SInv, SInv', OpenEnd
  PROVE  Store!Start
<1>1. /\ mode \in {"replay", "load"} /\ mode' = "open" /\ undoOff' = Len(file')
      /\ UNCHANGED <<file, hist, pending>>
  BY DEF OpenEnd, queue, journal
<1>2. pending' = <<>>
  BY <1>1 DEF SInv, IInv, ModeOK
<1>3. ~IsUp /\ IsUp' /\ IsUp' \in BOOLEAN /\ Shown' = Logged' /\ Past' = Past
  BY <1>1, MappedStill DEF IsUp, Shown
<1>4. /\ StateAt(hist', Len(file')) = Logged' /\ undoOff' \in PlacesOf(file')
      /\ file' \in Seq(Line) /\ Matched(file')
  BY <1>1, <1>2, PresentAtEnd
<1>5. /\ PastOf(PlacesOf(file'), hist')[Len(PastOf(PlacesOf(file'), hist'))] = Logged'
      /\ Point' = Len(PastOf(PlacesOf(file'), hist'))
  BY <1>1, <1>3, <1>4, Mapped, PastFacts
<1>6. Shown' = Past[Len(Past)] /\ Point' = Len(Past)
  BY <1>3, <1>5, Mapped
<1> QED BY <1>3, <1>6 DEF Store!Start, Store!Committed

(* the death of the program, and its closing *)
LEMMA MappedStop ==
  ASSUME Close \/ Crash
  PROVE  Store!Stop \/ UNCHANGED Store!vars
<1>1. mode' = "closed" /\ file' = file /\ hist' = hist
  BY DEF Close, Crash, FreshProcess, journal
<1>2. IsUp' = FALSE /\ Shown' = Empty /\ Point' = 0 /\ Past' = Past
  BY <1>1, MappedStill DEF IsUp, Shown, Point
<1>3. CASE IsUp
  BY <1>2, <1>3 DEF Store!Stop
<1>4. CASE ~IsUp
  <2>1. IsUp = FALSE /\ Shown = Empty /\ Point = 0
    BY <1>4 DEF IsUp, Shown, Point
  <2> QED BY <1>2, <2>1 DEF Store!vars
<1> QED BY <1>3, <1>4

(* the steps of the loops are none of the store *)
LEMMA MappedLoop ==
  ASSUME SInv, NeverAborts', UndoStart \/ UndoLine \/ Open \/ ReplayLine \/ LoadLine
  PROVE  UNCHANGED Store!vars
<1>1. file' = file /\ hist' = hist /\ undoOff' = undoOff
  BY DEF UndoStart, UndoLine, Open, ReplayLine, LoadLine, journal
<1>2. CASE UndoStart
  <2>1. mode = "open" /\ mode' = "undo" /\ Logged = At(Len(file))
    BY <1>2, UndoStartReady, QuiescentState DEF SInv, UndoStart
  <2>2. IsUp' = IsUp /\ Shown = Logged /\ Shown' = At(Len(file))'
    BY <2>1 DEF IsUp, Shown
  <2>3. At(Len(file))' = At(Len(file))
    BY <1>1 DEF At, Empty
  <2> QED BY <1>1, <2>1, <2>2, <2>3, MappedStill DEF Store!vars
<1>3. CASE UndoLine
  <2>1. mode = "undo" /\ mode' = "undo"
    BY <1>3, UndoLineReady DEF SInv, UndoLine, NeverAborts
  <2>2. IsUp' = IsUp /\ Shown = At(Len(file)) /\ Shown' = At(Len(file))'
    BY <2>1 DEF IsUp, Shown
  <2>3. At(Len(file))' = At(Len(file))
    BY <1>1 DEF At, Empty
  <2> QED BY <1>1, <2>2, <2>3, MappedStill DEF Store!vars
<1>4. CASE Open \/ ReplayLine \/ LoadLine
  <2>1. mode \in {"closed", "replay", "load"} /\ mode' \in {"replay", "load"}
    BY <1>4, ReadsOn DEF SInv, Open, ReplayLine, LoadLine
  <2>2. IsUp' = IsUp /\ Shown = Empty /\ Shown' = Empty
    BY <2>1 DEF IsUp, Shown
  <2> QED BY <1>1, <2>2, MappedStill DEF Store!vars
<1> QED BY <1>2, <1>3, <1>4

LEMMA MappedNext ==
  ASSUME ~TornWrites, ~SavesInSession, ~CompactsEmpty, SInv, SInv', StoreOK, [Next]_vars
  PROVE  [Store!Next]_(Store!vars)
<1>1. CASE UNCHANGED vars
  <2>1. UNCHANGED <<mode, file, hist, undoOff>> /\ Logged' = Logged
    BY <1>1 DEF vars, mutable, journal, Logged
  <2>2. IsUp' = IsUp /\ Shown' = Shown
    BY <2>1 DEF IsUp, Shown, At, Empty
  <2> QED BY <2>1, <2>2, MappedStill DEF Store!vars
<1>2. CASE \/ BlockStart \/ BlockEnd
           \/ \E v \in Val : Create(v)
           \/ \E i \in Id : Destroy(i) \/ LogStart(i) \/ LogEnd(i) \/ Tune(i)
           \/ \E i \in Id, v \in Val : Assign(i, v)
           \/ \E k \in ImportIds, v \in Val : Import(k, v)
  <2>1. mode = "open" /\ mode' = "open" /\ (Commits \/ Kept)
    BY <1>2, UserKeepsOrCommits DEF SInv, NeverAborts
  <2> QED BY <2>1, MappedChange DEF Store!Next
<1>3. CASE UndoEnd
  BY <1>3, MappedUndo DEF Store!Next
<1>4. CASE Compact
  BY <1>4, MappedCompact DEF Store!Next
<1>5. CASE OpenEnd
  BY <1>5, MappedStart DEF Store!Next
<1>6. CASE Close \/ Crash
  BY <1>6, MappedStop DEF Store!Next
<1>7. CASE UndoStart \/ UndoLine \/ Open \/ ReplayLine \/ LoadLine
  BY <1>7, MappedLoop DEF SInv
<1> QED BY <1>1, <1>2, <1>3, <1>4, <1>5, <1>6, <1>7
        DEF Next, UserStep, LoopStep, Snapshot, TornFlush

(* Where no write is torn, nothing is saved within a session and no empty project  *)
(* is compacted, the journal implements the store: every edit inside a             *)
(* transaction is work, every flush() a commit, every undo() one transaction taken *)
(* back and appended, and open() comes back to what was committed last, whatever   *)
(* edits, undos, undos of undos, compactions and crashes went before.              *)
THEOREM JournalImplementsStore ==
  ~TornWrites /\ ~SavesInSession /\ ~CompactsEmpty => (Spec => ImplementsUndoStore)
<1> SUFFICES ASSUME ~TornWrites, ~SavesInSession, ~CompactsEmpty
             PROVE  Spec => ImplementsUndoStore
  OBVIOUS
<1> DEFINE NInv == BlocksOK /\ NeverAborts
<1>1. Init => NInv /\ StoreOK
  <2> SUFFICES ASSUME Init PROVE NInv /\ StoreOK
    OBVIOUS
  <2>1. file = <<>> /\ pending = <<>> /\ mode = "closed"
    BY DEF Init
  <2>2. NInv
    BY <2>1, EmptyMatched DEF BlocksOK, NeverAborts
  <2>3. StoreOK
    BY <2>1, OnePlace DEF StoreOK, WayOK
  <2> QED BY <2>2, <2>3
<1>2. IInv /\ IInv' /\ UndoReady /\ NInv /\ [Next]_vars => NInv'
  BY NextBlocks, NextGoesOn
<1>3. IInv /\ UndoReady /\ NInv <=> SInv
  BY DEF SInv
<1>4. SInv /\ SInv' /\ StoreOK /\ [Next]_vars => StoreOK' /\ [Store!Next]_(Store!vars)
  BY StoreKept, MappedNext
<1>5. Spec => [](SInv /\ StoreOK)
  BY <1>1, <1>2, <1>3, <1>4, ReadyAlways, Invariance, PTL DEF Spec
<1> QED BY <1>4, <1>5, MappedInit, PTL DEF Spec, ImplementsUndoStore, Store!Spec
=============================================================================
