---------------------------- MODULE OscPeersProof ----------------------------
(***************************************************************************)
(* What TLAPS proves of OscPeers: types, and that mirrors come to be complete *)
(* and exact.                                                                *)
(***************************************************************************)
EXTENDS OscPeers, TLAPS, SequenceTheorems

-----------------------------------------------------------------------------
(* Handlers as functions                                                      *)

(* p is about the process that is now at port b                                 *)
Cur(p, b) == p.known /\ p.port = b

Greeted(p, url) ==
  IF ~p.known THEN [Stranger EXCEPT !.known = TRUE, !.port = url, !.scanning = TRUE]
  ELSE IF p.port = url THEN p
  ELSE [p EXCEPT !.port = url, !.scanning = TRUE]

Batched(p, msg) ==
  IF msg.arg = 0 THEN [Mirrored(p, msg.paths) EXCEPT !.scanning = FALSE]
  ELSE [Mirrored(p, msg.paths) EXCEPT !.current = p.current + Len(msg.paths)]

Noticed(p, kind, x) ==
  IF kind = "created" THEN [p EXCEPT !.signals[x[1]] = @ + 1]
  ELSE IF ~Mirrors(p, x[1]) THEN p
  ELSE IF kind = "removed" THEN [p EXCEPT !.signals[x[1]] = @ - 1]
  ELSE [p EXCEPT !.signals = [y \in Path |-> p.signals[y]
         + (IF y = x[2] THEN 1 ELSE 0) - (IF y = x[1] THEN 1 ELSE 0)]]

Notice == {"created", "removed", "renamed"}

Heard(p, msg) ==
  IF msg.kind = "batch" THEN Batched(p, msg)
  ELSE IF msg.kind = "entry" THEN Mirrored(p, msg.paths)
  ELSE IF msg.kind = "done" THEN [p EXCEPT !.scanning = FALSE]
  ELSE IF msg.kind \in Notice THEN Noticed(p, msg.kind, msg.paths)
  ELSE p

Effect(a, p, msg) ==
  IF msg.to # a THEN p
  ELSE IF msg.kind = "hello" THEN Greeted(p, msg.from)
  ELSE IF Cur(p, msg.from) THEN Heard(p, msg) ELSE p

(* what the process at port a with signals s answers                            *)
Line(a, to, kind, paths, arg) ==
  [kind |-> kind, from |-> a, to |-> to, paths |-> paths, arg |-> arg]

Listing(a, s, to, start) ==
  IF start = Unbatched
  THEN [k \in DOMAIN s |-> Line(a, to, "entry", <<s[k]>>, 0)] \o <<Line(a, to, "done", <<>>, 0)>>
  ELSE <<Line(a, to, "batch", Batch(s, start), More(Batch(s, start)))>>

Reply(a, s, p, msg) ==
  IF msg.to # a THEN <<>>
  ELSE IF msg.kind = "hello"
  THEN IF Cur(p, msg.from) THEN <<>>
       ELSE <<Line(a, msg.from, "list", <<>>, IF p.known THEN Unbatched ELSE 0),
              Line(a, msg.from, "hello", <<>>, 0)>>
  ELSE IF msg.kind = "list" THEN Listing(a, s, msg.from, msg.arg)
  ELSE IF msg.kind = "batch" /\ Cur(p, msg.from) /\ msg.arg = 1
  THEN <<Line(a, msg.from, "list", <<>>, p.current + Len(msg.paths))>>
  ELSE <<>>

(* a message of the process at port b, with the arguments its handler expects    *)
WellFormed(msg) ==
  /\ msg \in Message
  /\ msg.kind = "batch" => msg.arg \in {0, 1}
  /\ msg.kind \in {"created", "removed", "entry"} => Len(msg.paths) = 1
  /\ msg.kind = "renamed" => Len(msg.paths) = 2
  /\ msg.kind = "list" => msg.arg \in Nat \cup {Unbatched}

Sent(a, b, q) ==
  \A j \in 1..Len(q) : WellFormed(q[j]) /\ q[j].from \in 1..b /\ q[j].to <= a

-----------------------------------------------------------------------------
(* Types                                                                      *)

LEMMA Joins ==
  ASSUME NEW S, NEW q \in Seq(S), NEW x \in S, NEW y \in S
  PROVE  /\ q \o <<x>> = Append(q, x)
         /\ q \o <<x, y>> = Append(Append(q, x), y)
         /\ q \o <<>> = q
OBVIOUS

LEMMA ConcatShape ==
  ASSUME NEW S, NEW l \in Seq(S), NEW r \in Seq(S)
  PROVE  /\ l \o r \in Seq(S)
         /\ Len(l \o r) = Len(l) + Len(r)
         /\ \A i \in 1..Len(l) + Len(r) : (l \o r)[i] = IF i <= Len(l) THEN l[i] ELSE r[i - Len(l)]
OBVIOUS

LEMMA RemoveShape ==
  ASSUME NEW S, NEW s \in Seq(S), NEW k \in 1..Len(s)
  PROVE  /\ RemoveAt(s, k) \in Seq(S)
         /\ Len(RemoveAt(s, k)) = Len(s) - 1
         /\ \A i \in 1..Len(s) - 1 : RemoveAt(s, k)[i] = s[IF i < k THEN i ELSE i + 1]
<1> DEFINE l == SubSeq(s, 1, k - 1)
           r == SubSeq(s, k + 1, Len(s))
<1>1. /\ l \in Seq(S) /\ Len(l) = k - 1 /\ \A i \in 1..k - 1 : l[i] = s[i]
      /\ r \in Seq(S) /\ Len(r) = Len(s) - k /\ \A i \in 1..Len(s) - k : r[i] = s[k + i]
  OBVIOUS
<1> HIDE DEF l, r
<1>2. /\ l \o r \in Seq(S) /\ Len(l \o r) = Len(s) - 1
      /\ \A i \in 1..Len(s) - 1 : (l \o r)[i] = IF i <= k - 1 THEN l[i] ELSE r[i - (k - 1)]
  <2>1. l \in Seq(S) /\ r \in Seq(S)
    BY <1>1
  <2>2. Len(l) + Len(r) = Len(s) - 1
    BY <1>1
  <2>3. /\ l \o r \in Seq(S) /\ Len(l \o r) = Len(l) + Len(r)
        /\ \A i \in 1..Len(l) + Len(r) : (l \o r)[i] = IF i <= Len(l) THEN l[i] ELSE r[i - Len(l)]
    BY <2>1, ConcatShape
  <2> QED BY <2>2, <2>3, <1>1
<1>3. ASSUME NEW i \in 1..Len(s) - 1
      PROVE  (l \o r)[i] = s[IF i < k THEN i ELSE i + 1]
  <2>1. CASE i < k
    BY <2>1, <1>1, <1>2
  <2>2. CASE ~(i < k)
    <3>1. i - (k - 1) \in 1..Len(s) - k /\ k + (i - (k - 1)) = i + 1 /\ ~(i <= k - 1)
      BY <2>2
    <3> QED BY <3>1, <2>2, <1>1, <1>2
  <2> QED BY <2>1, <2>2
<1>4. RemoveAt(s, k) = l \o r
  BY DEF RemoveAt, l, r
<1> QED BY <1>2, <1>3, <1>4

LEMMA WithoutShape ==
  ASSUME NEW S, NEW s \in Seq(S), IsInjective(s), NEW x \in ToSet(s)
  PROVE  /\ Without(s, x) \in Seq(S)
         /\ IsInjective(Without(s, x))
         /\ ToSet(Without(s, x)) = ToSet(s) \ {x}
<1> DEFINE k == CHOOSE i \in DOMAIN s : s[i] = x
           t == RemoveAt(s, k)
<1>1. k \in 1..Len(s) /\ s[k] = x
  BY DEF ToSet
<1>2. \A i, j \in 1..Len(s) : s[i] = s[j] => i = j
  BY DEF IsInjective
<1>3. Without(s, x) = t
  BY DEF Without
<1> HIDE DEF k
<1>4. /\ t \in Seq(S) /\ Len(t) = Len(s) - 1
      /\ \A i \in 1..Len(s) - 1 : t[i] = s[IF i < k THEN i ELSE i + 1]
  BY <1>1, RemoveShape
<1> HIDE DEF t
<1>5. DOMAIN t = 1..Len(s) - 1 /\ DOMAIN s = 1..Len(s)
  BY <1>4
<1>6. IsInjective(t)
  <2>1. SUFFICES ASSUME NEW i \in 1..Len(s) - 1, NEW j \in 1..Len(s) - 1, t[i] = t[j]
                 PROVE  i = j
    BY <1>5 DEF IsInjective
  <2>2. (IF i < k THEN i ELSE i + 1) = (IF j < k THEN j ELSE j + 1)
    BY <2>1, <1>1, <1>2, <1>4, SMTT(20)
  <2> QED BY <2>2, <1>1
<1>7. ToSet(t) \subseteq ToSet(s) \ {x}
  <2>1. SUFFICES ASSUME NEW i \in 1..Len(s) - 1
                 PROVE  t[i] \in ToSet(s) \ {x}
    BY <1>5 DEF ToSet
  <2>2. (IF i < k THEN i ELSE i + 1) \in 1..Len(s) /\ (IF i < k THEN i ELSE i + 1) # k
    BY <1>1
  <2> QED BY <2>2, <1>1, <1>2, <1>4, <1>5 DEF ToSet
<1>8. ToSet(s) \ {x} \subseteq ToSet(t)
  <2>1. SUFFICES ASSUME NEW i \in 1..Len(s), s[i] # x
                 PROVE  \E j \in 1..Len(s) - 1 : t[j] = s[i]
    BY <1>5 DEF ToSet
  <2>2. CASE i < k
    <3>1. i \in 1..Len(s) - 1 /\ t[i] = s[i]
      BY <2>2, <1>1, <1>4
    <3> QED BY <3>1
  <2>3. CASE i > k
    <3>1. i - 1 \in 1..Len(s) - 1 /\ ~(i - 1 < k) /\ (i - 1) + 1 = i
      BY <2>3, <1>1
    <3> QED BY <3>1, <1>4
  <2> QED BY <2>1, <2>2, <2>3, <1>1
<1> QED BY <1>3, <1>4, <1>6, <1>7, <1>8

LEMMA MirroredShape ==
  ASSUME NEW p \in Peer, NEW xs
  PROVE  /\ Mirrored(p, xs) \in Peer
         /\ Mirrored(p, xs) = [p EXCEPT !.signals = Mirrored(p, xs).signals]
         /\ \A x \in Path : Mirrored(p, xs).signals[x] =
              IF p.scanning /\ x \in ToSet(xs) /\ p.signals[x] = 0 THEN 1 ELSE p.signals[x]
<1> DEFINE f == [x \in Path |-> IF x \in ToSet(xs) /\ ~Mirrors(p, x) THEN 1 ELSE p.signals[x]]
<1>1. f \in [Path -> Nat]
  BY DEF Peer
<1>2. CASE ~p.scanning
  <2>1. Mirrored(p, xs) = p
    BY <1>2 DEF Mirrored
  <2> QED BY <2>1, <1>2 DEF Peer
<1>3. CASE p.scanning
  <2>1. Mirrored(p, xs) = [p EXCEPT !.signals = f]
    BY <1>3 DEF Mirrored
  <2>2. \A x \in Path : p.signals[x] \in Nat
    BY DEF Peer
  <2>3. \A x \in Path : ~Mirrors(p, x) <=> p.signals[x] = 0
    BY <2>2 DEF Mirrors
  <2>4. \A x \in Path : f[x] = IF p.scanning /\ x \in ToSet(xs) /\ p.signals[x] = 0 THEN 1 ELSE p.signals[x]
    BY <2>3, <1>3
  <2> HIDE DEF f
  <2>5. Mirrored(p, xs).signals = f /\ Mirrored(p, xs) \in Peer
    BY <2>1, <1>1 DEF Peer
  <2> QED BY <2>1, <2>4, <2>5
<1> QED BY <1>2, <1>3

LEMMA NoticedShape ==
  ASSUME NEW p \in Peer, NEW kind \in Notice, NEW xs \in Seq(Path),
         Len(xs) = IF kind = "renamed" THEN 2 ELSE 1
  PROVE  /\ Noticed(p, kind, xs) \in Peer
         /\ Noticed(p, kind, xs) = [p EXCEPT !.signals = Noticed(p, kind, xs).signals]
<1>1. xs[1] \in Path /\ (kind = "renamed" => xs[2] \in Path)
  OBVIOUS
<1>2. p.signals \in [Path -> Nat] /\ \A x \in Path : p.signals[x] \in Nat
  BY DEF Peer
<1>3. CASE kind = "created"
  <2>1. Noticed(p, kind, xs) = [p EXCEPT !.signals = [p.signals EXCEPT ![xs[1]] = @ + 1]]
    BY <1>3 DEF Noticed
  <2>2. [p.signals EXCEPT ![xs[1]] = @ + 1] \in [Path -> Nat]
    BY <1>1, <1>2
  <2> QED BY <2>1, <2>2 DEF Peer
<1>4. CASE kind # "created" /\ ~Mirrors(p, xs[1])
  BY <1>4 DEF Noticed, Peer
<1>5. CASE kind = "removed" /\ Mirrors(p, xs[1])
  <2>1. Noticed(p, kind, xs) = [p EXCEPT !.signals = [p.signals EXCEPT ![xs[1]] = @ - 1]]
    BY <1>5 DEF Noticed
  <2>2. [p.signals EXCEPT ![xs[1]] = @ - 1] \in [Path -> Nat]
    BY <1>1, <1>2, <1>5 DEF Mirrors
  <2> QED BY <2>1, <2>2 DEF Peer
<1>6. CASE kind = "renamed" /\ Mirrors(p, xs[1])
  <2> DEFINE f == [y \in Path |-> p.signals[y] + (IF y = xs[2] THEN 1 ELSE 0)
                                                - (IF y = xs[1] THEN 1 ELSE 0)]
  <2>1. Noticed(p, kind, xs) = [p EXCEPT !.signals = f]
    BY <1>6 DEF Noticed
  <2>2. f \in [Path -> Nat]
    BY <1>1, <1>2, <1>6 DEF Mirrors
  <2> HIDE DEF f
  <2> QED BY <2>1, <2>2 DEF Peer
<1> QED BY <1>3, <1>4, <1>5, <1>6 DEF Notice

LEMMA GreetedShape ==
  ASSUME NEW p \in Peer, NEW url \in Nat
  PROVE  /\ Greeted(p, url) \in Peer
         /\ Cur(Greeted(p, url), url)
         /\ Cur(p, url) => Greeted(p, url) = p
         /\ ~Cur(p, url) =>
              /\ Greeted(p, url).scanning
              /\ Greeted(p, url).current = IF p.known THEN p.current ELSE 0
              /\ \A x \in Path : Greeted(p, url).signals[x] = IF p.known THEN p.signals[x] ELSE 0
<1>1. Stranger \in Peer
  BY DEF Stranger, Peer
<1>2. CASE ~p.known
  <2>1. Greeted(p, url) = [Stranger EXCEPT !.known = TRUE, !.port = url, !.scanning = TRUE]
    BY <1>2 DEF Greeted
  <2>2. Greeted(p, url) = [known |-> TRUE, port |-> url, scanning |-> TRUE, current |-> 0,
                           signals |-> [x \in Path |-> 0]]
    BY <2>1 DEF Stranger
  <2>3. Greeted(p, url) \in Peer
    BY <2>2 DEF Peer
  <2>4. ~Cur(p, url) /\ p.known = FALSE
    BY <1>2 DEF Cur, Peer
  <2> QED BY <2>2, <2>3, <2>4 DEF Cur
<1>3. CASE p.known /\ p.port = url
  BY <1>3 DEF Greeted, Cur
<1>4. CASE p.known /\ p.port # url
  <2>1. Greeted(p, url) = [p EXCEPT !.port = url, !.scanning = TRUE]
    BY <1>4 DEF Greeted
  <2> QED BY <2>1, <1>4 DEF Cur, Peer
<1> QED BY <1>2, <1>3, <1>4 DEF Peer

LEMMA BatchedShape ==
  ASSUME NEW p \in Peer, NEW msg \in Message
  PROVE  /\ Batched(p, msg) \in Peer
         /\ Batched(p, msg).known = p.known /\ Batched(p, msg).port = p.port
         /\ Batched(p, msg).scanning = (p.scanning /\ msg.arg # 0)
         /\ Batched(p, msg).current = IF msg.arg = 0 THEN p.current ELSE p.current + Len(msg.paths)
         /\ Batched(p, msg).signals = Mirrored(p, msg.paths).signals
<1>1. Len(msg.paths) \in Nat /\ p.current \in Nat /\ p.scanning \in BOOLEAN
  BY DEF Message, Peer
<1> DEFINE r == Mirrored(p, msg.paths)
<1>2. r \in Peer /\ r.known = p.known /\ r.port = p.port /\ r.scanning = p.scanning
      /\ r.current = p.current
  <2>1. r \in Peer /\ r = [p EXCEPT !.signals = r.signals]
    BY MirroredShape
  <2> HIDE DEF r
  <2> QED BY <2>1 DEF Peer
<1>3. Batched(p, msg) = IF msg.arg = 0 THEN [r EXCEPT !.scanning = FALSE]
                        ELSE [r EXCEPT !.current = p.current + Len(msg.paths)]
  BY DEF Batched
<1> HIDE DEF r
<1>4. Batched(p, msg).signals = Mirrored(p, msg.paths).signals
  <2>1. Batched(p, msg).signals = r.signals
    BY <1>2, <1>3 DEF Peer
  <2> QED BY <2>1 DEF r
<1>5. CASE msg.arg = 0
  <2>1. Batched(p, msg) = [r EXCEPT !.scanning = FALSE]
    BY <1>3, <1>5
  <2>2. Batched(p, msg) \in Peer
    BY <2>1, <1>2 DEF Peer
  <2>3. (p.scanning /\ msg.arg # 0) = FALSE
    BY <1>5
  <2>4. Batched(p, msg).scanning = FALSE /\ Batched(p, msg).current = p.current
        /\ Batched(p, msg).known = p.known /\ Batched(p, msg).port = p.port
    BY <2>1, <1>2 DEF Peer
  <2> QED BY <2>2, <2>3, <2>4, <1>4, <1>5
<1>6. CASE msg.arg # 0
  <2>1. Batched(p, msg) = [r EXCEPT !.current = p.current + Len(msg.paths)]
    BY <1>3, <1>6
  <2>2. Batched(p, msg) \in Peer
    BY <2>1, <1>1, <1>2, SMTT(20) DEF Peer
  <2>3. (p.scanning /\ msg.arg # 0) = p.scanning
    BY <1>1, <1>6
  <2>4. Batched(p, msg).scanning = p.scanning
        /\ Batched(p, msg).current = p.current + Len(msg.paths)
        /\ Batched(p, msg).known = p.known /\ Batched(p, msg).port = p.port
    BY <2>1, <1>2 DEF Peer
  <2> QED BY <2>2, <2>3, <2>4, <1>4, <1>6
<1> QED BY <1>5, <1>6

(* a handler changes what is known of the sender, and of a known sender at a new  *)
(* address only the address                                                      *)
LEMMA HeardShape ==
  ASSUME NEW p \in Peer, NEW msg, WellFormed(msg)
  PROVE  /\ Heard(p, msg) \in Peer
         /\ Heard(p, msg).known = p.known /\ Heard(p, msg).port = p.port
         /\ msg.kind \notin {"batch", "done"} =>
              Heard(p, msg).current = p.current /\ Heard(p, msg).scanning = p.scanning
<1>1. msg \in Message /\ msg.paths \in Seq(Path) /\ msg.kind \in Kind
  BY DEF WellFormed, Message
<1>2. CASE msg.kind = "batch"
  <2>1. Heard(p, msg) = Batched(p, msg)
    BY <1>2 DEF Heard
  <2> QED BY <2>1, <1>1, <1>2, BatchedShape
<1>3. CASE msg.kind = "entry"
  <2>1. Heard(p, msg) = Mirrored(p, msg.paths)
    BY <1>3 DEF Heard
  <2> DEFINE f == Mirrored(p, msg.paths).signals
  <2>2. Heard(p, msg) \in Peer /\ Heard(p, msg) = [p EXCEPT !.signals = f]
    BY <2>1, MirroredShape
  <2> HIDE DEF f
  <2> QED BY <2>2 DEF Peer
<1>4. CASE msg.kind = "done"
  <2>1. Heard(p, msg) = [p EXCEPT !.scanning = FALSE]
    BY <1>4 DEF Heard
  <2> QED BY <2>1, <1>4 DEF Peer
<1>5. CASE msg.kind \in Notice
  <2>1. Heard(p, msg) = Noticed(p, msg.kind, msg.paths)
    BY <1>5 DEF Heard, Notice
  <2>2. Len(msg.paths) = IF msg.kind = "renamed" THEN 2 ELSE 1
    BY <1>5 DEF WellFormed, Notice
  <2>3. /\ Noticed(p, msg.kind, msg.paths) \in Peer
        /\ Noticed(p, msg.kind, msg.paths) = [p EXCEPT !.signals = Noticed(p, msg.kind, msg.paths).signals]
    BY <2>2, <1>1, <1>5, NoticedShape, Zenon
  <2> QED BY <2>1, <2>3 DEF Peer
<1>6. CASE msg.kind \in {"hello", "list"}
  <2>1. Heard(p, msg) = p
    BY <1>6 DEF Heard, Notice
  <2> QED BY <2>1
<1> QED BY <1>1, <1>2, <1>3, <1>4, <1>5, <1>6 DEF Kind, Notice

Ends(a, b, msg) == msg.kind \in {"batch", "done"} /\ msg.to = a /\ msg.from = b
Asks(a, b, msg) == msg.kind = "list" /\ msg.from = a /\ msg.to = b

LEMMA EffectShape ==
  ASSUME NEW a, NEW p \in Peer, NEW msg, WellFormed(msg)
  PROVE  /\ Effect(a, p, msg) \in Peer
         /\ p.known => Effect(a, p, msg).known
         /\ ~Effect(a, p, msg).known => Effect(a, p, msg) = p
         /\ Effect(a, p, msg).known =>
              \/ Effect(a, p, msg).port = msg.from
              \/ p.known /\ Effect(a, p, msg).port = p.port
         /\ Cur(p, msg.from) => Cur(Effect(a, p, msg), msg.from)
         /\ Cur(p, msg.from) /\ ~Ends(a, msg.from, msg) =>
              /\ Effect(a, p, msg).current = p.current
              /\ Effect(a, p, msg).scanning = p.scanning
<1>1. msg.from \in Nat
  BY DEF WellFormed, Message
<1>2. CASE msg.to # a
  <2>1. Effect(a, p, msg) = p
    BY <1>2 DEF Effect
  <2> QED BY <2>1
<1>3. CASE msg.to = a /\ msg.kind = "hello"
  <2>1. Effect(a, p, msg) = Greeted(p, msg.from)
    BY <1>3 DEF Effect
  <2>2. /\ Greeted(p, msg.from) \in Peer
        /\ Cur(Greeted(p, msg.from), msg.from)
        /\ Cur(p, msg.from) => Greeted(p, msg.from) = p
    BY <1>1, GreetedShape
  <2> QED BY <2>1, <2>2 DEF Cur
<1>4. CASE msg.to = a /\ msg.kind # "hello" /\ ~Cur(p, msg.from)
  <2>1. Effect(a, p, msg) = p
    BY <1>4 DEF Effect
  <2> QED BY <2>1, <1>4
<1>5. CASE msg.to = a /\ msg.kind # "hello" /\ Cur(p, msg.from)
  <2>1. Effect(a, p, msg) = Heard(p, msg)
    BY <1>5 DEF Effect
  <2>2. /\ Heard(p, msg) \in Peer
        /\ Heard(p, msg).known = p.known /\ Heard(p, msg).port = p.port
        /\ msg.kind \notin {"batch", "done"} =>
             Heard(p, msg).current = p.current /\ Heard(p, msg).scanning = p.scanning
    BY HeardShape
  <2> QED BY <2>1, <2>2, <1>5 DEF Cur, Ends
<1> QED BY <1>2, <1>3, <1>4, <1>5

LEMMA EffectDead ==
  ASSUME NEW a, NEW p, NEW msg, msg.to # a
  PROVE  Effect(a, p, msg) = p
BY DEF Effect

(* a hello or a request changes nothing but makes the sender known              *)
LEMMA EffectPlain ==
  ASSUME NEW a, NEW p \in Peer, NEW msg, WellFormed(msg), msg.kind \in {"hello", "list"},
         Effect(a, p, msg) # p
  PROVE  /\ ~Cur(p, msg.from)
         /\ Effect(a, p, msg) = Greeted(p, msg.from)
         /\ Effect(a, p, msg).scanning
         /\ \A x \in Path : Effect(a, p, msg).signals[x] = IF p.known THEN p.signals[x] ELSE 0
<1>1. msg.from \in Nat
  BY DEF WellFormed, Message
<1>2. CASE msg.to = a /\ msg.kind = "hello"
  <2>1. Effect(a, p, msg) = Greeted(p, msg.from)
    BY <1>2 DEF Effect
  <2> QED BY <2>1, <1>1, GreetedShape
<1>3. CASE ~(msg.to = a /\ msg.kind = "hello")
  <2>1. Heard(p, msg) = p
    BY <1>3 DEF Heard, Notice
  <2> QED BY <2>1, <1>3 DEF Effect
<1> QED BY <1>2, <1>3

-----------------------------------------------------------------------------
(* Steps, pair by pair                                                        *)

(* what each endpoint has about each other                                      *)
Row(n, r) == r = [m \in Others(n) |-> r[m]]
Table(f) == f = [n \in Node |-> f[n]] /\ \A n \in Node : Row(n, f[n])

PutRow(f, j, r) == [f EXCEPT ![j] = r]
Put(f, j, i, e) == [f EXCEPT ![j][i] = e]

PairTyped(n, m) ==
  /\ peers[n][m] \in Peer /\ peers[n][m].port <= port[m]
  /\ net[n][m] \in Seq(Message) /\ Sent(port[m], port[n], net[n][m])

Typed ==
  /\ port \in [Node -> Nat \ {0}] /\ signals \in [Node -> Seq(Path)]
  /\ edits \in Nat /\ hellos \in Nat
  /\ Table(peers) /\ Table(net)
  /\ \A n \in Node : \A m \in Others(n) : PairTyped(n, m)

LEMMA RowShape ==
  ASSUME NEW f, Table(f), NEW j \in Node, NEW r, Row(j, r), NEW g, g = PutRow(f, j, r)
  PROVE  Table(g) /\ g[j] = r /\ \A n \in Node : n # j => g[n] = f[n]
<1>1. DOMAIN f = Node /\ \A n \in Node : Row(n, f[n])
  BY DEF Table
<1>2. g = [n \in Node |-> g[n]] /\ g[j] = r /\ \A n \in Node : n # j => g[n] = f[n]
  BY <1>1 DEF PutRow
<1>3. \A n \in Node : Row(n, g[n])
  BY <1>1, <1>2
<1> QED BY <1>2, <1>3 DEF Table

LEMMA EntryShape ==
  ASSUME NEW f, Table(f), NEW j \in Node, NEW i \in Others(j), NEW e,
         NEW g, g = Put(f, j, i, e)
  PROVE  /\ Table(g) /\ g[j][i] = e
         /\ \A n \in Node : \A m \in Others(n) : n # j \/ m # i => g[n][m] = f[n][m]
<1> DEFINE r == [f[j] EXCEPT ![i] = e]
<1>1. DOMAIN f[j] = Others(j)
  BY DEF Table, Row
<1>2. Row(j, r) /\ r[i] = e /\ \A m \in Others(j) : m # i => r[m] = f[j][m]
  BY <1>1 DEF Row
<1>3. g = PutRow(f, j, r)
  BY DEF Put, PutRow
<1> HIDE DEF r
<1>4. Table(g) /\ g[j] = r /\ \A n \in Node : n # j => g[n] = f[n]
  BY <1>2, <1>3, RowShape
<1>5. ASSUME NEW n \in Node, NEW m \in Others(n), n # j \/ m # i
      PROVE  g[n][m] = f[n][m]
  BY <1>2, <1>4, <1>5
<1> QED BY <1>2, <1>4, <1>5

(* a queue loses its head and the answers go to the other                        *)
LEMMA AnsweredShape ==
  ASSUME Table(net), NEW i \in Node, NEW j \in Others(i), NEW z, net' = Answered(i, j, z)
  PROVE  /\ Table(net')
         /\ net'[i][j] = Tail(net[i][j])
         /\ net'[j][i] = net[j][i] \o z
         /\ \A n \in Node : \A m \in Others(n) : {n, m} # {i, j} => net'[n][m] = net[n][m]
<1>1. i # j /\ j \in Node /\ i \in Others(j)
  BY DEF Others
<1>2. PICK f : f = Put(net, i, j, Tail(net[i][j]))
  OBVIOUS
<1>3. /\ Table(f) /\ f[i][j] = Tail(net[i][j])
      /\ \A n \in Node : \A m \in Others(n) : n # i \/ m # j => f[n][m] = net[n][m]
  BY <1>2, EntryShape
<1>4. PICK e : e = net[j][i] \o z
  OBVIOUS
<1>5. /\ Table(net') /\ net'[j][i] = e
      /\ \A n \in Node : \A m \in Others(n) : n # j \/ m # i => net'[n][m] = f[n][m]
  <2>1. net' = Put(f, j, i, e)
    BY <1>2, <1>4 DEF Answered, Put
  <2>2. j \in Node /\ i \in Others(j) /\ Table(f)
    BY <1>1, <1>3
  <2> QED BY <2>1, <2>2, EntryShape
<1>6. net'[i][j] = Tail(net[i][j])
  BY <1>1, <1>3, <1>5
<1>7. ASSUME NEW n \in Node, NEW m \in Others(n), {n, m} # {i, j}
      PROVE  net'[n][m] = net[n][m]
  BY <1>3, <1>5, <1>7
<1> QED BY <1>4, <1>5, <1>6, <1>7

(* every signal of one endpoint is told to those it knows                        *)
LEMMA TellShape ==
  ASSUME Table(net), NEW i \in Node, NEW kind, NEW xs, NEW g, g = Tell(i, kind, xs)
  PROVE  /\ Table(g)
         /\ \A m \in Others(i) : g[i][m] =
              IF Knows(i, m) THEN Append(net[i][m], Line(port[i], peers[i][m].port, kind, xs, 0))
              ELSE net[i][m]
         /\ \A n \in Node : n # i => g[n] = net[n]
<1>1. PICK r : r = [m \in Others(i) |->
             IF Knows(i, m) THEN Append(net[i][m], Line(port[i], peers[i][m].port, kind, xs, 0))
             ELSE net[i][m]]
  OBVIOUS
<1>2. g = PutRow(net, i, r)
  BY <1>1 DEF Tell, Letter, Line, PutRow
<1>3. Row(i, r)
  BY <1>1 DEF Row
<1>4. Table(g) /\ g[i] = r /\ \A n \in Node : n # i => g[n] = net[n]
  BY <1>2, <1>3, RowShape
<1> QED BY <1>1, <1>4

(* Deliver(i, j) is the handler's effect on what j has of i and j's answer         *)
Handled(i, j) ==
  LET msg == Head(net[i][j])
  IN /\ net[i][j] # <<>>
     /\ peers' = Put(peers, j, i, Effect(port[j], peers[j][i], msg))
     /\ net' = Answered(i, j, Reply(port[j], signals[j], peers[j][i], msg))
     /\ UNCHANGED <<port, signals, edits, hellos>>

LEMMA PutSame ==
  ASSUME NEW f, Table(f), NEW j \in Node, NEW i \in Others(j)
  PROVE  Put(f, j, i, f[j][i]) = f
<1>1. DOMAIN f = Node /\ f = [n \in Node |-> f[n]] /\ Row(j, f[j])
  BY DEF Table
<1>2. [f[j] EXCEPT ![i] = f[j][i]] = f[j]
  BY <1>1 DEF Row
<1>3. Put(f, j, i, f[j][i]) = [f EXCEPT ![j] = [f[j] EXCEPT ![i] = f[j][i]]]
  BY DEF Put
<1> QED BY <1>1, <1>2, <1>3

LEMMA HandledOne ==
  ASSUME Typed, NEW i \in Node, NEW j \in Others(i), Deliver(i, j)
  PROVE  Handled(i, j)
<1> DEFINE msg == Head(net[i][j])
           p == peers[j][i]
           a == port[j]
           E == Effect(a, p, msg)
           R == Reply(a, signals[j], p, msg)
<1>1. i # j /\ j \in Node /\ i \in Others(j) /\ Table(peers)
  BY DEF Others, Typed
<1>2. Put(peers, j, i, p) = peers
  BY <1>1, PutSame
<1>3. Next1(i, j) = msg
  BY DEF Next1
<1>4. p \in Peer /\ p.known \in BOOLEAN /\ FromPeer(i, j) = Cur(p, msg.from)
  BY <1>1, <1>3 DEF Typed, PairTyped, Peer, FromPeer, Knows, Cur
<1>5. SUFFICES /\ net[i][j] # <<>>
               /\ peers' = Put(peers, j, i, E)
               /\ net' = Answered(i, j, R)
               /\ UNCHANGED <<port, signals, edits, hellos>>
  BY DEF Handled
<1>6. CASE OnHello(i, j)
  <2>1. net[i][j] # <<>> /\ msg.kind = "hello" /\ msg.to = a /\ UNCHANGED <<port, signals, edits, hellos>>
    BY <1>3, <1>6 DEF OnHello, Arrives
  <2>2. E = Greeted(p, msg.from)
    BY <2>1 DEF Effect
  <2>3. R = IF Cur(p, msg.from) THEN <<>>
            ELSE <<Line(a, msg.from, "list", <<>>, IF p.known THEN Unbatched ELSE 0),
                   Line(a, msg.from, "hello", <<>>, 0)>>
    BY <2>1 DEF Reply
  <2>4. CASE ~p.known
    <3>1. /\ peers' = [peers EXCEPT ![j][i] =
                [Stranger EXCEPT !.known = TRUE, !.port = msg.from, !.scanning = TRUE]]
          /\ net' = Answered(i, j, <<Letter(j, msg.from, "list", <<>>, 0), Greeting(j, msg.from)>>)
      BY <1>3, <1>6, <2>4 DEF OnHello
    <3>2. E = [Stranger EXCEPT !.known = TRUE, !.port = msg.from, !.scanning = TRUE]
      BY <2>2, <2>4 DEF Greeted
    <3>3. R = <<Letter(j, msg.from, "list", <<>>, 0), Greeting(j, msg.from)>>
      BY <2>3, <2>4 DEF Cur, Line, Letter, Greeting
    <3> QED BY <2>1, <3>1, <3>2, <3>3 DEF Put
  <2>5. CASE Cur(p, msg.from)
    <3>1. UNCHANGED peers /\ net' = Answered(i, j, <<>>)
      BY <1>3, <1>6, <2>5 DEF OnHello, Cur
    <3>2. E = p /\ R = <<>>
      BY <2>2, <2>3, <2>5 DEF Greeted, Cur
    <3> QED BY <2>1, <3>1, <3>2, <1>2
  <2>6. CASE p.known /\ p.port # msg.from
    <3>1. /\ peers' = [peers EXCEPT ![j][i] = [p EXCEPT !.port = msg.from, !.scanning = TRUE]]
          /\ net' = Answered(i, j, <<Letter(j, msg.from, "list", <<>>, Unbatched), Greeting(j, msg.from)>>)
      BY <1>3, <1>6, <2>6 DEF OnHello
    <3>2. E = [p EXCEPT !.port = msg.from, !.scanning = TRUE]
      BY <2>2, <2>6 DEF Greeted
    <3>3. R = <<Letter(j, msg.from, "list", <<>>, Unbatched), Greeting(j, msg.from)>>
      BY <2>3, <2>6 DEF Cur, Line, Letter, Greeting
    <3> QED BY <2>1, <3>1, <3>2, <3>3 DEF Put
  <2> QED BY <2>4, <2>5, <2>6, <1>4 DEF Cur
<1>7. CASE OnList(i, j)
  <2>1. /\ net[i][j] # <<>> /\ msg.kind = "list" /\ msg.to = a
        /\ UNCHANGED <<port, signals, peers, edits, hellos>>
    BY <1>3, <1>7 DEF OnList, Arrives
  <2>2. E = p
    BY <2>1 DEF Effect, Heard, Notice
  <2>3. R = Listing(a, signals[j], msg.from, msg.arg)
    BY <2>1 DEF Reply
  <2>4. net' = Answered(i, j, R)
    BY <1>3, <1>7, <2>3 DEF OnList, Listing, Letter, Line
  <2> QED BY <2>1, <2>2, <2>4, <1>2
<1>8. CASE OnBatch(i, j)
  <2>1. net[i][j] # <<>> /\ msg.kind = "batch" /\ msg.to = a /\ UNCHANGED <<port, signals, edits, hellos>>
    BY <1>3, <1>8 DEF OnBatch, Arrives
  <2>2. E = IF Cur(p, msg.from) THEN Batched(p, msg) ELSE p
    BY <2>1 DEF Effect, Heard
  <2>3. R = IF Cur(p, msg.from) /\ msg.arg = 1
            THEN <<Line(a, msg.from, "list", <<>>, p.current + Len(msg.paths))>> ELSE <<>>
    BY <2>1 DEF Reply
  <2> DEFINE r == Mirrored(p, msg.paths)
  <2>4. r.current = p.current /\ r.port = p.port
    <3>1. r \in Peer /\ r = [p EXCEPT !.signals = r.signals]
      BY <1>4, MirroredShape
    <3> HIDE DEF r
    <3> QED BY <3>1, <1>4 DEF Peer
  <2>5. CASE ~FromPeer(i, j)
    <3>1. UNCHANGED peers /\ net' = Answered(i, j, <<>>)
      BY <1>8, <2>5 DEF OnBatch
    <3>2. E = p /\ R = <<>>
      BY <2>2, <2>3, <2>5, <1>4
    <3> QED BY <2>1, <3>1, <3>2, <1>2
  <2>6. CASE FromPeer(i, j) /\ msg.arg = 0
    <3>1. peers' = [peers EXCEPT ![j][i] = [r EXCEPT !.scanning = FALSE]] /\ net' = Answered(i, j, <<>>)
      BY <1>3, <1>8, <2>6 DEF OnBatch
    <3>2. E = [r EXCEPT !.scanning = FALSE] /\ R = <<>>
      BY <2>2, <2>3, <2>6, <1>4 DEF Batched
    <3> QED BY <2>1, <3>1, <3>2 DEF Put
  <2>7. CASE FromPeer(i, j) /\ msg.arg = 1
    <3>1. /\ peers' = [peers EXCEPT ![j][i] = [r EXCEPT !.current = NextStart(r, msg.paths)]]
          /\ net' = Answered(i, j, <<Letter(j, r.port, "list", <<>>, NextStart(r, msg.paths))>>)
      BY <1>3, <1>8, <2>7 DEF OnBatch
    <3>2. r.port = msg.from /\ NextStart(r, msg.paths) = p.current + Len(msg.paths)
      BY <2>4, <2>7, <1>4 DEF NextStart, Cur
    <3>3. E = [r EXCEPT !.current = p.current + Len(msg.paths)]
      BY <2>2, <2>7, <1>4 DEF Batched
    <3>4. R = <<Letter(j, msg.from, "list", <<>>, p.current + Len(msg.paths))>>
      BY <2>3, <2>7, <1>4 DEF Line, Letter
    <3> QED BY <2>1, <3>1, <3>2, <3>3, <3>4 DEF Put
  <2> QED BY <2>5, <2>6, <2>7, <1>8, <1>3 DEF OnBatch
<1>9. ASSUME NEW kind \in {"entry", "done", "created", "removed", "renamed"}, NEW q,
             Learn(i, j, kind, q), msg.kind = kind => q = Heard(p, msg)
      PROVE  /\ net[i][j] # <<>>
             /\ peers' = Put(peers, j, i, E)
             /\ net' = Answered(i, j, R)
             /\ UNCHANGED <<port, signals, edits, hellos>>
  <2>1. /\ net[i][j] # <<>> /\ msg.kind = kind /\ msg.to = a
        /\ UNCHANGED <<port, signals, edits, hellos>>
        /\ net' = Answered(i, j, <<>>)
        /\ peers' = IF FromPeer(i, j) THEN [peers EXCEPT ![j][i] = q] ELSE peers
    BY <1>3, <1>9 DEF Learn, Arrives
  <2>2. R = <<>>
    BY <2>1, <1>9 DEF Reply
  <2>3. E = IF FromPeer(i, j) THEN q ELSE p
    BY <2>1, <1>4, <1>9 DEF Effect
  <2> QED BY <2>1, <2>2, <2>3, <1>2 DEF Put
<1>10. CASE OnEntry(i, j)
  <2>1. Learn(i, j, "entry", Mirrored(p, msg.paths))
    BY <1>3, <1>10 DEF OnEntry
  <2>2. msg.kind = "entry" => Mirrored(p, msg.paths) = Heard(p, msg)
    BY DEF Heard
  <2> QED BY <2>1, <2>2, <1>9
<1>11. CASE OnDone(i, j)
  <2>1. Learn(i, j, "done", [p EXCEPT !.scanning = FALSE])
    BY <1>11 DEF OnDone
  <2>2. msg.kind = "done" => [p EXCEPT !.scanning = FALSE] = Heard(p, msg)
    BY DEF Heard
  <2> QED BY <2>1, <2>2, <1>9
<1>12. CASE OnCreated(i, j)
  <2>1. Learn(i, j, "created", [p EXCEPT !.signals[msg.paths[1]] = @ + 1])
    BY <1>3, <1>12 DEF OnCreated
  <2>2. msg.kind = "created" => [p EXCEPT !.signals[msg.paths[1]] = @ + 1] = Heard(p, msg)
    BY DEF Heard, Notice, Noticed
  <2> QED BY <2>1, <2>2, <1>9
<1>13. CASE OnRemoved(i, j)
  <2> DEFINE q == IF Mirrors(p, msg.paths[1]) THEN [p EXCEPT !.signals[msg.paths[1]] = @ - 1] ELSE p
  <2>1. Learn(i, j, "removed", q)
    BY <1>3, <1>13 DEF OnRemoved
  <2>2. msg.kind = "removed" => q = Heard(p, msg)
    BY DEF Heard, Notice, Noticed
  <2> QED BY <2>1, <2>2, <1>9
<1>14. CASE OnRenamed(i, j)
  <2> DEFINE x == msg.paths
             q == IF Mirrors(p, x[1])
                  THEN [p EXCEPT !.signals = [y \in Path |-> p.signals[y]
                          + (IF y = x[2] THEN 1 ELSE 0) - (IF y = x[1] THEN 1 ELSE 0)]] ELSE p
  <2>1. Learn(i, j, "renamed", q)
    BY <1>3, <1>14 DEF OnRenamed
  <2>2. msg.kind = "renamed" => q = Heard(p, msg)
    BY DEF Heard, Notice, Noticed
  <2> QED BY <2>1, <2>2, <1>9
<1>15. CASE Undeliverable(i, j)
  <2>1. /\ net[i][j] # <<>> /\ msg.to # a /\ net' = Answered(i, j, <<>>)
        /\ UNCHANGED <<port, signals, peers, edits, hellos>>
    BY <1>3, <1>15 DEF Undeliverable
  <2>2. E = p /\ R = <<>>
    BY <2>1 DEF Effect, Reply
  <2> QED BY <2>1, <2>2, <1>2
<1> QED BY <1>6, <1>7, <1>8, <1>10, <1>11, <1>12, <1>13, <1>14, <1>15 DEF Deliver

-----------------------------------------------------------------------------
(* Types                                                                      *)

LEMMA Takes ==
  ASSUME NEW S, NEW q \in Seq(S), q # <<>>
  PROVE  /\ Head(q) = q[1] /\ Head(q) \in S /\ Len(q) \in Nat \ {0}
         /\ Tail(q) \in Seq(S) /\ Len(Tail(q)) = Len(q) - 1
         /\ \A i \in 1..Len(q) - 1 : Tail(q)[i] = q[i + 1]
OBVIOUS

LEMMA SentGrows ==
  ASSUME NEW a \in Nat, NEW b \in Nat, NEW c \in Nat, NEW d \in Nat, a <= c, b <= d,
         NEW q \in Seq(Message), Sent(a, b, q)
  PROVE  Sent(c, d, q)
<1>1. ASSUME NEW j \in 1..Len(q)
      PROVE  WellFormed(q[j]) /\ q[j].from \in 1..d /\ q[j].to <= c
  <2>1. WellFormed(q[j]) /\ q[j].from \in 1..b /\ q[j].to <= a /\ q[j].to \in Nat
    BY DEF Sent, WellFormed, Message
  <2> QED BY <2>1
<1> QED BY <1>1 DEF Sent

LEMMA SentTail ==
  ASSUME NEW a, NEW b, NEW q \in Seq(Message), q # <<>>, Sent(a, b, q)
  PROVE  /\ Tail(q) \in Seq(Message) /\ Sent(a, b, Tail(q))
         /\ WellFormed(Head(q)) /\ Head(q).from \in 1..b /\ Head(q).to <= a
<1>1. \A j \in 1..Len(q) - 1 : Tail(q)[j] = q[j + 1] /\ j + 1 \in 1..Len(q)
  BY Takes
<1>2. Sent(a, b, Tail(q))
  BY <1>1, Takes DEF Sent
<1> QED BY <1>2, Takes DEF Sent

LEMMA SentConcat ==
  ASSUME NEW a, NEW b, NEW q \in Seq(Message), Sent(a, b, q),
         NEW z \in Seq(Message), Sent(a, b, z)
  PROVE  q \o z \in Seq(Message) /\ Sent(a, b, q \o z)
<1>1. q \o z \in Seq(Message) /\ Len(q \o z) = Len(q) + Len(z)
  BY ConcatShape
<1>2. \A i \in 1..Len(q) + Len(z) : (q \o z)[i] = IF i <= Len(q) THEN q[i] ELSE z[i - Len(q)]
  BY ConcatShape
<1>3. ASSUME NEW i \in 1..Len(q) + Len(z)
      PROVE  WellFormed((q \o z)[i]) /\ (q \o z)[i].from \in 1..b /\ (q \o z)[i].to <= a
  <2>1. CASE i <= Len(q)
    <3>1. i \in 1..Len(q) /\ (q \o z)[i] = q[i]
      BY <2>1, <1>2
    <3> QED BY <3>1 DEF Sent
  <2>2. CASE ~(i <= Len(q))
    <3>1. i - Len(q) \in 1..Len(z) /\ (q \o z)[i] = z[i - Len(q)]
      BY <2>2, <1>2
    <3> QED BY <3>1 DEF Sent
  <2> QED BY <2>1, <2>2
<1> QED BY <1>1, <1>3 DEF Sent

LEMMA SentOne ==
  ASSUME NEW a \in Nat, NEW b \in Nat, NEW msg, WellFormed(msg), msg.from \in 1..b, msg.to <= a
  PROVE  <<msg>> \in Seq(Message) /\ Sent(a, b, <<msg>>)
BY DEF Sent, WellFormed

LEMMA SentAppend ==
  ASSUME NEW a \in Nat, NEW b \in Nat, NEW q \in Seq(Message), Sent(a, b, q),
         NEW msg, WellFormed(msg), msg.from \in 1..b, msg.to <= a
  PROVE  Append(q, msg) \in Seq(Message) /\ Sent(a, b, Append(q, msg))
<1>1. PICK z : z = <<msg>>
  OBVIOUS
<1>2. Append(q, msg) = q \o z
  <2>1. msg \in Message
    BY DEF WellFormed
  <2> QED BY <1>1, <2>1, Joins
<1>3. z \in Seq(Message) /\ Sent(a, b, z)
  BY <1>1, SentOne
<1>4. q \o z \in Seq(Message) /\ Sent(a, b, q \o z)
  BY <1>3, SentConcat
<1> QED BY <1>2, <1>4

LEMMA LineShape ==
  ASSUME NEW a \in Nat, NEW to \in Nat, NEW kind \in Kind, NEW xs \in Seq(Path), NEW arg \in Int
  PROVE  /\ Line(a, to, kind, xs, arg) \in Message
         /\ Line(a, to, kind, xs, arg).from = a /\ Line(a, to, kind, xs, arg).to = to
         /\ Line(a, to, kind, xs, arg).kind = kind /\ Line(a, to, kind, xs, arg).paths = xs
         /\ Line(a, to, kind, xs, arg).arg = arg
BY DEF Line, Message

LEMMA LineWell ==
  ASSUME NEW a \in Nat, NEW to \in Nat, NEW kind \in Kind, NEW xs \in Seq(Path), NEW arg \in Int,
         kind = "batch" => arg \in {0, 1},
         kind \in {"created", "removed", "entry"} => Len(xs) = 1,
         kind = "renamed" => Len(xs) = 2,
         kind = "list" => arg \in Nat \cup {Unbatched}
  PROVE  WellFormed(Line(a, to, kind, xs, arg))
<1>1. PICK l : l = Line(a, to, kind, xs, arg)
  OBVIOUS
<1>2. l \in Message /\ l.kind = kind /\ l.paths = xs /\ l.arg = arg
  BY <1>1, LineShape
<1> QED BY <1>1, <1>2 DEF WellFormed

LEMMA ListedWell ==
  ASSUME NEW a \in Nat, NEW to \in Nat
  PROVE  /\ \A x \in Path : WellFormed(Line(a, to, "entry", <<x>>, 0))
         /\ WellFormed(Line(a, to, "done", <<>>, 0))
<1>1. /\ \A xs \in Seq(Path) : Len(xs) = 1 => WellFormed(Line(a, to, "entry", xs, 0))
      /\ \A xs \in Seq(Path) : WellFormed(Line(a, to, "done", xs, 0))
  BY DEF WellFormed, Line, Message, Kind
<1>2. /\ \A x \in Path : <<x>> \in Seq(Path) /\ Len(<<x>>) = 1
      /\ <<>> \in Seq(Path)
  OBVIOUS
<1> QED BY <1>1, <1>2, Zenon

LEMMA BatchShape ==
  ASSUME NEW s \in Seq(Path), NEW start \in Nat
  PROVE  /\ Batch(s, start) \in Seq(Path)
         /\ Len(Batch(s, start)) <= BatchSize
         /\ Len(Batch(s, start)) # BatchSize => Len(s) <= start + Len(Batch(s, start))
         /\ \A k \in 1..Len(Batch(s, start)) : start + k \in 1..Len(s) /\ Batch(s, start)[k] = s[start + k]
<1> DEFINE e == IF start + BatchSize < Len(s) THEN start + BatchSize ELSE Len(s)
<1>1. BatchSize \in Nat \ {0} /\ Len(s) \in Nat
  BY OscPeersAssumption
<1>2. e \in Nat /\ e <= Len(s) /\ Batch(s, start) = SubSeq(s, start + 1, e)
  BY <1>1 DEF Batch
<1>3. e <= start + BatchSize /\ (start < Len(s) => e > start) /\ (start >= Len(s) => e <= start)
      /\ (start < Len(s) => e - start = IF start + BatchSize < Len(s) THEN BatchSize ELSE Len(s) - start)
  BY <1>1
<1> HIDE DEF e
<1> DEFINE t == SubSeq(s, start + 1, e)
<1>4. /\ t \in Seq(Path)
      /\ Len(t) = IF start + 1 <= e THEN e - start ELSE 0
      /\ \A k \in 1..Len(t) : t[k] = s[start + k]
  BY <1>1, <1>2, SMTT(20)
<1> HIDE DEF t
<1>5. Batch(s, start) = t
  BY <1>2 DEF t
<1>6. \A k \in 1..Len(t) : start + k \in 1..Len(s)
  BY <1>1, <1>2, <1>4
<1>7. Len(t) <= BatchSize /\ (Len(t) # BatchSize => Len(s) <= start + Len(t))
  BY <1>1, <1>2, <1>3, <1>4
<1> QED BY <1>4, <1>5, <1>6, <1>7, Zenon

LEMMA ListingSent ==
  ASSUME NEW a \in Nat \ {0}, NEW s \in Seq(Path), NEW b \in Nat, NEW to \in Nat, to <= b,
         NEW start \in Nat \cup {Unbatched}
  PROVE  Listing(a, s, to, start) \in Seq(Message) /\ Sent(b, a, Listing(a, s, to, start))
<1>1. CASE start = Unbatched
  <2> DEFINE z == [k \in DOMAIN s |-> Line(a, to, "entry", <<s[k]>>, 0)]
             d == Line(a, to, "done", <<>>, 0)
  <2>1. ASSUME NEW k \in 1..Len(s)
        PROVE  WellFormed(Line(a, to, "entry", <<s[k]>>, 0))
    BY ListedWell
  <2>2. z \in Seq(Message) /\ Len(z) = Len(s) /\ \A k \in 1..Len(z) : z[k] = Line(a, to, "entry", <<s[k]>>, 0)
    <3>1. \A k \in 1..Len(s) : Line(a, to, "entry", <<s[k]>>, 0) \in Message
      BY <2>1 DEF WellFormed
    <3>2. DOMAIN s = 1..Len(s) /\ Len(s) \in Nat
      OBVIOUS
    <3>3. z \in [1..Len(s) -> Message]
      BY <3>1, <3>2
    <3>4. \A k \in 1..Len(s) : z[k] = Line(a, to, "entry", <<s[k]>>, 0)
      BY <3>2
    <3> HIDE DEF z
    <3>5. z \in Seq(Message) /\ Len(z) = Len(s)
      BY <3>2, <3>3
    <3> QED BY <3>4, <3>5
  <2>3. Sent(b, a, z)
    <3>1. \A k \in 1..Len(s) : z[k].from = a /\ z[k].to = to
      BY DEF Line
    <3>2. \A k \in 1..Len(s) : WellFormed(z[k])
      BY <2>1
    <3> HIDE DEF z
    <3> QED BY <2>2, <3>1, <3>2 DEF Sent
  <2>4. WellFormed(d) /\ d.from = a /\ d.to = to
    <3>2. WellFormed(d)
      BY ListedWell
    <3> QED BY <3>2 DEF Line
  <2> HIDE DEF z, d
  <2>5. <<d>> \in Seq(Message) /\ Sent(b, a, <<d>>)
    BY <2>4, SentOne
  <2>6. z \o <<d>> \in Seq(Message) /\ Sent(b, a, z \o <<d>>)
    BY <2>2, <2>3, <2>5, SentConcat
  <2> QED BY <2>6, <1>1 DEF Listing, z, d
<1>2. CASE start # Unbatched
  <2> DEFINE x == Batch(s, start)
             msg == Line(a, to, "batch", x, More(x))
  <2>1. x \in Seq(Path)
    BY <1>2, BatchShape
  <2> HIDE DEF x
  <2>2. More(x) \in {0, 1} /\ "batch" \in Kind
    BY DEF More, Kind
  <2>3. WellFormed(msg) /\ msg.from = a /\ msg.to = to
    <3>1. WellFormed(msg)
      BY <2>1, <2>2, LineWell
    <3> QED BY <3>1 DEF Line
  <2> HIDE DEF msg
  <2>4. <<msg>> \in Seq(Message) /\ Sent(b, a, <<msg>>)
    BY <2>3, SentOne
  <2> QED BY <2>4, <1>2 DEF Listing, msg, x
<1> QED BY <1>1, <1>2

LEMMA Asking ==
  ASSUME NEW a \in Nat \ {0}, NEW to \in Nat, NEW arg \in Nat \cup {Unbatched}
  PROVE  /\ WellFormed(Line(a, to, "list", <<>>, arg))
         /\ WellFormed(Line(a, to, "hello", <<>>, 0))
<1>1. <<>> \in Seq(Path) /\ {"list", "hello"} \subseteq Kind /\ arg \in Int
  BY DEF Kind, Unbatched
<1>2. 0 \in Nat /\ 0 \in Int
  OBVIOUS
<1> QED BY <1>1, <1>2, LineWell

LEMMA ReplySent ==
  ASSUME NEW a \in Nat \ {0}, NEW s \in Seq(Path), NEW p \in Peer, NEW b \in Nat,
         NEW msg, WellFormed(msg), msg.from \in 1..b
  PROVE  Reply(a, s, p, msg) \in Seq(Message) /\ Sent(b, a, Reply(a, s, p, msg))
<1>1. <<>> \in Seq(Message) /\ Sent(b, a, <<>>)
  BY DEF Sent
<1>2. CASE msg.to = a /\ msg.kind = "hello" /\ ~Cur(p, msg.from)
  <2>1. PICK arg \in Nat \cup {Unbatched} : arg = IF p.known THEN Unbatched ELSE 0
    OBVIOUS
  <2> DEFINE l == Line(a, msg.from, "list", <<>>, arg)
             h == Line(a, msg.from, "hello", <<>>, 0)
  <2>2. WellFormed(l) /\ WellFormed(h)
    BY Asking
  <2>3. l.from = a /\ l.to = msg.from /\ h.from = a /\ h.to = msg.from
    BY DEF Line
  <2>4. Reply(a, s, p, msg) = <<l, h>>
    BY <1>2, <2>1 DEF Reply
  <2> HIDE DEF l, h
  <2>5. <<l, h>> \in Seq(Message)
    BY <2>2 DEF WellFormed
  <2>6. Sent(b, a, <<l, h>>)
    BY <2>2, <2>3 DEF Sent
  <2> QED BY <2>4, <2>5, <2>6
<1>3. CASE msg.to = a /\ msg.kind = "list"
  <2>1. Reply(a, s, p, msg) = Listing(a, s, msg.from, msg.arg)
    BY <1>3 DEF Reply
  <2>2. msg.arg \in Nat \cup {Unbatched} /\ msg.from \in Nat /\ msg.from <= b
    BY <1>3 DEF WellFormed
  <2> QED BY <2>1, <2>2, ListingSent, ZenonT(30)
<1>4. CASE msg.to = a /\ msg.kind = "batch" /\ Cur(p, msg.from) /\ msg.arg = 1
  <2> DEFINE l == Line(a, msg.from, "list", <<>>, p.current + Len(msg.paths))
  <2>1. p.current + Len(msg.paths) \in Nat
    BY DEF Peer, WellFormed, Message
  <2>2. WellFormed(l) /\ l.from = a /\ l.to = msg.from
    <3>1. WellFormed(l)
      BY <2>1, Asking
    <3> QED BY <3>1 DEF Line
  <2>3. Reply(a, s, p, msg) = <<l>>
    BY <1>4 DEF Reply
  <2> HIDE DEF l
  <2> QED BY <2>2, <2>3, SentOne
<1>5. CASE ~ \/ msg.to = a /\ msg.kind = "hello" /\ ~Cur(p, msg.from)
             \/ msg.to = a /\ msg.kind = "list"
             \/ msg.to = a /\ msg.kind = "batch" /\ Cur(p, msg.from) /\ msg.arg = 1
  <2>1. Reply(a, s, p, msg) = <<>>
    BY <1>5 DEF Reply
  <2> QED BY <2>1, <1>1
<1> QED BY <1>2, <1>3, <1>4, <1>5

LEMMA HeadOf ==
  ASSUME Typed, NEW i \in Node, NEW j \in Others(i), net[i][j] # <<>>
  PROVE  /\ WellFormed(Head(net[i][j]))
         /\ Head(net[i][j]).from \in 1..port[i] /\ Head(net[i][j]).to <= port[j]
<1>1. net[i][j] \in Seq(Message) /\ Sent(port[j], port[i], net[i][j])
  BY DEF Typed, PairTyped
<1> QED BY <1>1, SentTail

(* pair by pair, what a call adds to a queue                                      *)
LEMMA PairTold ==
  ASSUME Typed, NEW n \in Node, NEW m \in Others(n), Sent(port[m], port[n], net[n][m]),
         port' = port, peers'[n][m] = peers[n][m],
         NEW msg, WellFormed(msg), msg.from = port[n], msg.to <= port[m],
         net'[n][m] = net[n][m] \/ net'[n][m] = Append(net[n][m], msg)
  PROVE  PairTyped(n, m)'
<1>1. PairTyped(n, m) /\ port[n] \in Nat /\ port[m] \in Nat /\ msg.from \in 1..port[n]
  BY DEF Typed, Others
<1>2. Append(net[n][m], msg) \in Seq(Message) /\ Sent(port[m], port[n], Append(net[n][m], msg))
  BY <1>1, SentAppend DEF PairTyped
<1>3. net'[n][m] \in Seq(Message) /\ Sent(port[m], port[n], net'[n][m])
  BY <1>1, <1>2 DEF PairTyped
<1> QED BY <1>1, <1>3 DEF PairTyped

LEMMA NoticeWell ==
  ASSUME NEW a \in Nat, NEW to \in Nat, NEW x \in Path, NEW y \in Path
  PROVE  /\ WellFormed(Line(a, to, "created", <<x>>, 0))
         /\ WellFormed(Line(a, to, "removed", <<x>>, 0))
         /\ WellFormed(Line(a, to, "renamed", <<x, y>>, 0))
<1>1. /\ \A xs \in Seq(Path) : Len(xs) = 1 => WellFormed(Line(a, to, "created", xs, 0))
      /\ \A xs \in Seq(Path) : Len(xs) = 1 => WellFormed(Line(a, to, "removed", xs, 0))
      /\ \A xs \in Seq(Path) : Len(xs) = 2 => WellFormed(Line(a, to, "renamed", xs, 0))
  BY DEF WellFormed, Line, Message, Kind
<1>2. /\ <<x>> \in Seq(Path) /\ Len(<<x>>) = 1
      /\ <<x, y>> \in Seq(Path) /\ Len(<<x, y>>) = 2
  OBVIOUS
<1> QED BY <1>1, <1>2

LEMMA TellTyped ==
  ASSUME Typed, NEW i \in Node, NEW kind, NEW xs,
         \A a, to \in Nat : WellFormed(Line(a, to, kind, xs, 0)),
         net' = Tell(i, kind, xs), UNCHANGED <<port, peers>>
  PROVE  /\ Table(net')
         /\ \A n \in Node : \A m \in Others(n) : PairTyped(n, m)'
<1>1. Table(net)
  BY DEF Typed
<1>2. /\ Table(net')
      /\ \A m \in Others(i) : net'[i][m] =
           IF Knows(i, m) THEN Append(net[i][m], Line(port[i], peers[i][m].port, kind, xs, 0))
           ELSE net[i][m]
      /\ \A n \in Node : n # i => net'[n] = net[n]
  BY <1>1, TellShape
<1>3. ASSUME NEW n \in Node, NEW m \in Others(n)
      PROVE  PairTyped(n, m)'
  <2>1. PairTyped(n, m) /\ peers[n][m].port \in Nat /\ port[n] \in Nat
    BY DEF Typed, PairTyped, Peer
  <2>2. PICK msg : msg = Line(port[n], peers[n][m].port, kind, xs, 0)
    OBVIOUS
  <2>3. WellFormed(msg) /\ msg.from = port[n] /\ msg.to = peers[n][m].port
    BY <2>1, <2>2 DEF Line
  <2>4. net'[n][m] = net[n][m] \/ net'[n][m] = Append(net[n][m], msg)
    BY <1>2, <2>2
  <2> QED BY <2>1, <2>3, <2>4, PairTold DEF PairTyped
<1> QED BY <1>2, <1>3

LEMMA InitTyped == Init => Typed
<1> SUFFICES ASSUME Init PROVE Typed
  OBVIOUS
<1>1. Stranger \in Peer /\ Stranger.port = 0
  BY DEF Stranger, Peer
<1>2. Table(peers) /\ Table(net)
  BY DEF Init, Table, Row
<1>3. ASSUME NEW n \in Node, NEW m \in Others(n)
      PROVE  PairTyped(n, m)
  <2>1. peers[n][m] = Stranger /\ net[n][m] = <<>> /\ port[m] = 1
    BY DEF Init, Others
  <2> QED BY <2>1, <1>1 DEF PairTyped, Sent
<1>4. port \in [Node -> Nat \ {0}] /\ signals \in [Node -> Seq(Path)] /\ edits \in Nat /\ hellos \in Nat
  BY DEF Init
<1> QED BY <1>2, <1>3, <1>4 DEF Typed

LEMMA EditTyped ==
  ASSUME Typed, NEW i \in Node, NEW x \in Path, NEW y \in Path,
         AddSignal(i, x) \/ DelSignal(i, x) \/ Rename(i, x, y)
  PROVE  Typed'
<1>1. UNCHANGED <<port, peers, hellos>> /\ edits' = edits + 1
  BY DEF AddSignal, DelSignal, Rename, MayEdit
<1>2. DOMAIN signals = Node /\ signals[i] \in Seq(Path)
  BY DEF Typed
<1>3. PICK s : signals' = [signals EXCEPT ![i] = s] /\ s \in Seq(Path)
  <2>1. CASE AddSignal(i, x)
    <3>1. signals' = [signals EXCEPT ![i] = Append(signals[i], x)]
      BY <2>1 DEF AddSignal
    <3>2. Append(signals[i], x) \in Seq(Path)
      BY <1>2
    <3> QED BY <3>1, <3>2
  <2>2. CASE DelSignal(i, x)
    <3>1. x \in ToSet(signals[i]) /\ signals' = [signals EXCEPT ![i] = Without(signals[i], x)]
      BY <2>2 DEF DelSignal
    <3>2. PICK k \in 1..Len(signals[i]) : k = CHOOSE h \in DOMAIN signals[i] : signals[i][h] = x
      BY <3>1, <1>2 DEF ToSet
    <3>3. Without(signals[i], x) = RemoveAt(signals[i], k)
      BY <3>2 DEF Without
    <3> QED BY <3>1, <3>2, <3>3, <1>2, RemoveShape
  <2>3. CASE Rename(i, x, y)
    <3>1. signals' = [signals EXCEPT ![i] =
             [k \in DOMAIN signals[i] |-> IF signals[i][k] = x THEN y ELSE signals[i][k]]]
      BY <2>3 DEF Rename
    <3>2. [k \in DOMAIN signals[i] |-> IF signals[i][k] = x THEN y ELSE signals[i][k]] \in Seq(Path)
      BY <1>2
    <3> QED BY <3>1, <3>2
  <2> QED BY <2>1, <2>2, <2>3
<1>4. signals' \in [Node -> Seq(Path)]
  BY <1>3 DEF Typed
<1>5. /\ Table(net')
      /\ \A n \in Node : \A m \in Others(n) : PairTyped(n, m)'
  <2>1. CASE AddSignal(i, x)
    <3>1. net' = Tell(i, "created", <<x>>)
      BY <2>1 DEF AddSignal
    <3>2. \A a, to \in Nat : WellFormed(Line(a, to, "created", <<x>>, 0))
      BY NoticeWell
    <3> QED BY <3>1, <3>2, <1>1, TellTyped
  <2>2. CASE DelSignal(i, x)
    <3>1. net' = Tell(i, "removed", <<x>>)
      BY <2>2 DEF DelSignal
    <3>2. \A a, to \in Nat : WellFormed(Line(a, to, "removed", <<x>>, 0))
      BY NoticeWell
    <3> QED BY <3>1, <3>2, <1>1, TellTyped
  <2>3. CASE Rename(i, x, y)
    <3>1. net' = Tell(i, "renamed", <<x, y>>)
      BY <2>3 DEF Rename
    <3>2. \A a, to \in Nat : WellFormed(Line(a, to, "renamed", <<x, y>>, 0))
      BY NoticeWell
    <3> QED BY <3>1, <3>2, <1>1, TellTyped
  <2> QED BY <2>1, <2>2, <2>3
<1> QED BY <1>1, <1>4, <1>5 DEF Typed, Table, Row

LEMMA HelloTyped ==
  ASSUME Typed, NEW i \in Node, NEW j \in Others(i), Hello(i, j)
  PROVE  Typed'
<1>1. /\ UNCHANGED <<port, signals, peers, edits>> /\ hellos' = hellos + 1
      /\ net' = Put(net, i, j, Append(net[i][j], Line(port[i], port[j], "hello", <<>>, 0)))
  BY DEF Hello, Put, Letter, Line
<1>2. PICK msg : msg = Line(port[i], port[j], "hello", <<>>, 0)
  OBVIOUS
<1>3. j \in Node /\ i \in Node /\ port[i] \in Nat \ {0} /\ port[j] \in Nat
  BY DEF Others, Typed
<1>4. WellFormed(msg) /\ msg.from = port[i] /\ msg.to = port[j]
  <2>1. WellFormed(msg)
    BY <1>2, <1>3, Asking
  <2> QED BY <2>1, <1>2 DEF Line
<1>5. PICK q : q = Append(net[i][j], msg)
  OBVIOUS
<1>6. /\ Table(net') /\ net'[i][j] = q
      /\ \A n \in Node : \A m \in Others(n) : n # i \/ m # j => net'[n][m] = net[n][m]
  <2>1. net' = Put(net, i, j, q) /\ Table(net)
    BY <1>1, <1>2, <1>5 DEF Typed
  <2> QED BY <2>1, EntryShape
<1>7. ASSUME NEW n \in Node, NEW m \in Others(n)
      PROVE  PairTyped(n, m)'
  <2>1. PairTyped(n, m)
    BY DEF Typed
  <2>2. CASE n = i /\ m = j
    <3>1. /\ Sent(port[m], port[n], net[n][m]) /\ port' = port /\ peers'[n][m] = peers[n][m]
          /\ msg.from = port[n] /\ msg.to <= port[m] /\ net'[n][m] = Append(net[n][m], msg)
      BY <2>1, <2>2, <1>1, <1>3, <1>4, <1>5, <1>6 DEF PairTyped
    <3> QED BY <3>1, <1>4, PairTold
  <2>3. CASE n # i \/ m # j
    BY <2>1, <2>3, <1>1, <1>6 DEF PairTyped
  <2> QED BY <2>2, <2>3
<1>8. Table(peers')
  BY <1>1 DEF Typed
<1>9. hellos' \in Nat /\ edits' \in Nat /\ port' = port /\ signals' = signals
  BY <1>1 DEF Typed
<1> QED BY <1>6, <1>7, <1>8, <1>9 DEF Typed

LEMMA RestartShape ==
  ASSUME Typed, NEW i \in Node, Restart(i)
  PROVE  /\ port' = [port EXCEPT ![i] = port[i] + 1]
         /\ signals' = [signals EXCEPT ![i] = <<>>]
         /\ Table(peers') /\ Table(net') /\ UNCHANGED <<edits, hellos>>
         /\ \A m \in Others(i) : peers'[i][m] = Stranger
         /\ \A n \in Node : n # i => peers'[n] = peers[n]
         /\ \A m \in Others(i) : net'[i][m] =
              Append(net[i][m], Line(port[i] + 1, port[m], "hello", <<>>, 0))
         /\ \A n \in Node : n # i => net'[n] = net[n]
<1>1. Table(peers) /\ Table(net)
  BY DEF Typed
<1>2. /\ port' = [port EXCEPT ![i] = port[i] + 1]
      /\ signals' = [signals EXCEPT ![i] = <<>>]
      /\ UNCHANGED <<edits, hellos>>
  BY DEF Restart
<1>3. PICK s : s = [m \in Others(i) |-> Stranger]
  OBVIOUS
<1>4. PICK r : r = [m \in Others(i) |-> Append(net[i][m], Line(port[i] + 1, port[m], "hello", <<>>, 0))]
  OBVIOUS
<1>5. peers' = PutRow(peers, i, s)
  BY <1>3 DEF Restart, PutRow
<1>6. net' = PutRow(net, i, r)
  <2>1. \A m \in Others(i) : [Letter(i, port[m], "hello", <<>>, 0) EXCEPT !.from = port[i] + 1] =
                               Line(port[i] + 1, port[m], "hello", <<>>, 0)
    BY DEF Letter, Line
  <2>2. net' = [net EXCEPT ![i] = [m \in Others(i) |->
          Append(net[i][m], [Letter(i, port[m], "hello", <<>>, 0) EXCEPT !.from = port[i] + 1])]]
    BY DEF Restart
  <2>3. [m \in Others(i) |->
          Append(net[i][m], [Letter(i, port[m], "hello", <<>>, 0) EXCEPT !.from = port[i] + 1])] = r
    BY <2>1, <1>4
  <2> QED BY <2>2, <2>3 DEF PutRow
<1>7. Row(i, s) /\ Row(i, r)
  BY <1>3, <1>4 DEF Row
<1>8. Table(peers') /\ peers'[i] = s /\ \A n \in Node : n # i => peers'[n] = peers[n]
  BY <1>1, <1>5, <1>7, RowShape
<1>9. Table(net') /\ net'[i] = r /\ \A n \in Node : n # i => net'[n] = net[n]
  BY <1>1, <1>6, <1>7, RowShape
<1>10. \A m \in Others(i) : peers'[i][m] = Stranger
  BY <1>3, <1>8
<1>11. \A m \in Others(i) : net'[i][m] =
         Append(net[i][m], Line(port[i] + 1, port[m], "hello", <<>>, 0))
  BY <1>4, <1>9
<1> QED BY <1>2, <1>8, <1>9, <1>10, <1>11

LEMMA RestartTyped ==
  ASSUME Typed, NEW i \in Node, Restart(i)
  PROVE  Typed'
<1>1. /\ port' = [port EXCEPT ![i] = port[i] + 1]
      /\ signals' = [signals EXCEPT ![i] = <<>>]
      /\ Table(peers') /\ Table(net') /\ UNCHANGED <<edits, hellos>>
  BY RestartShape
<1>2. /\ \A m \in Others(i) : peers'[i][m] = Stranger
      /\ \A n \in Node : n # i => peers'[n] = peers[n]
      /\ \A m \in Others(i) : net'[i][m] =
           Append(net[i][m], Line(port[i] + 1, port[m], "hello", <<>>, 0))
      /\ \A n \in Node : n # i => net'[n] = net[n]
  BY RestartShape
<1>3. port' \in [Node -> Nat \ {0}] /\ signals' \in [Node -> Seq(Path)] /\ edits' \in Nat /\ hellos' \in Nat
  BY <1>1 DEF Typed
<1>4. \A n \in Node : port[n] \in Nat /\ port'[n] \in Nat /\ port[n] <= port'[n]
  BY <1>1, <1>3 DEF Typed
<1>5. ASSUME NEW n \in Node, NEW m \in Others(n)
      PROVE  PairTyped(n, m)'
  <2>1. PairTyped(n, m) /\ m \in Node
    BY DEF Typed, Others
  <2>2. Sent(port'[m], port'[n], net[n][m])
    BY <2>1, <1>4, SentGrows DEF PairTyped
  <2>3. CASE n # i
    <3>1. peers'[n][m] = peers[n][m] /\ net'[n][m] = net[n][m]
      BY <2>3, <1>2
    <3>2. peers[n][m].port <= port'[m]
      BY <2>1, <1>4 DEF PairTyped, Peer
    <3> QED BY <2>1, <2>2, <3>1, <3>2 DEF PairTyped
  <2>4. CASE n = i
    <3>1. PICK msg : msg = Line(port[i] + 1, port[m], "hello", <<>>, 0)
      OBVIOUS
    <3>2. port[i] + 1 \in Nat \ {0} /\ port[m] \in Nat /\ port'[n] = port[i] + 1 /\ port'[m] = port[m]
      BY <2>1, <2>4, <1>1, <1>3, <1>4 DEF Typed, Others
    <3>3. WellFormed(msg) /\ msg.from = port'[n] /\ msg.to <= port'[m]
      <4>1. WellFormed(msg)
        BY <3>1, <3>2, Asking
      <4> QED BY <4>1, <3>1, <3>2 DEF Line
    <3>4. Append(net[n][m], msg) \in Seq(Message) /\ Sent(port'[m], port'[n], Append(net[n][m], msg))
      BY <2>1, <2>2, <3>2, <3>3, <1>4, SentAppend DEF PairTyped
    <3>5. net'[n][m] = Append(net[n][m], msg) /\ peers'[n][m] = Stranger
      BY <2>4, <3>1, <1>2
    <3>6. Stranger \in Peer /\ Stranger.port = 0
      BY DEF Stranger, Peer
    <3> QED BY <3>2, <3>4, <3>5, <3>6 DEF PairTyped
  <2> QED BY <2>3, <2>4
<1> QED BY <1>1, <1>3, <1>5 DEF Typed

(* what a delivery does to the two that it concerns                                *)
LEMMA DeliverShape ==
  ASSUME Typed, NEW i \in Node, NEW j \in Others(i), Deliver(i, j)
  PROVE  /\ net[i][j] # <<>> /\ UNCHANGED <<port, signals, edits, hellos>>
         /\ Table(peers') /\ Table(net')
         /\ peers'[j][i] = Effect(port[j], peers[j][i], Head(net[i][j]))
         /\ net'[i][j] = Tail(net[i][j])
         /\ net'[j][i] = net[j][i] \o Reply(port[j], signals[j], peers[j][i], Head(net[i][j]))
         /\ \A n \in Node : \A m \in Others(n) : n # j \/ m # i => peers'[n][m] = peers[n][m]
         /\ \A n \in Node : \A m \in Others(n) : {n, m} # {i, j} => net'[n][m] = net[n][m]
<1>1. PICK e : e = Effect(port[j], peers[j][i], Head(net[i][j]))
  OBVIOUS
<1>2. PICK z : z = Reply(port[j], signals[j], peers[j][i], Head(net[i][j]))
  OBVIOUS
<1>3. /\ net[i][j] # <<>> /\ UNCHANGED <<port, signals, edits, hellos>>
      /\ peers' = Put(peers, j, i, e) /\ net' = Answered(i, j, z)
  BY <1>1, <1>2, HandledOne DEF Handled
<1>4. j \in Node /\ i \in Others(j) /\ Table(peers) /\ Table(net)
  BY DEF Others, Typed
<1>5. /\ Table(peers') /\ peers'[j][i] = e
      /\ \A n \in Node : \A m \in Others(n) : n # j \/ m # i => peers'[n][m] = peers[n][m]
  BY <1>3, <1>4, EntryShape
<1>6. /\ Table(net') /\ net'[i][j] = Tail(net[i][j]) /\ net'[j][i] = net[j][i] \o z
      /\ \A n \in Node : \A m \in Others(n) : {n, m} # {i, j} => net'[n][m] = net[n][m]
  <2>1. Table(net) /\ net' = Answered(i, j, z)
    BY <1>3, <1>4
  <2> QED BY <2>1, AnsweredShape
<1> QED BY <1>1, <1>2, <1>3, <1>5, <1>6

LEMMA DeliverTyped ==
  ASSUME Typed, NEW i \in Node, NEW j \in Others(i), Deliver(i, j)
  PROVE  Typed'
<1> DEFINE msg == Head(net[i][j])
           z == Reply(port[j], signals[j], peers[j][i], msg)
<1>1. /\ net[i][j] # <<>> /\ UNCHANGED <<port, signals, edits, hellos>>
      /\ Table(peers') /\ Table(net')
      /\ peers'[j][i] = Effect(port[j], peers[j][i], msg)
      /\ net'[i][j] = Tail(net[i][j])
      /\ net'[j][i] = net[j][i] \o z
      /\ \A n \in Node : \A m \in Others(n) : n # j \/ m # i => peers'[n][m] = peers[n][m]
      /\ \A n \in Node : \A m \in Others(n) : {n, m} # {i, j} => net'[n][m] = net[n][m]
  BY DeliverShape
<1>2. j \in Node /\ i \in Others(j) /\ i # j /\ PairTyped(i, j) /\ PairTyped(j, i)
      /\ port[i] \in Nat \ {0} /\ port[j] \in Nat \ {0} /\ signals[j] \in Seq(Path)
  BY DEF Others, Typed
<1>3. WellFormed(msg) /\ msg.from \in 1..port[i]
  BY <1>1, HeadOf
<1>4. z \in Seq(Message) /\ Sent(port[i], port[j], z)
  BY <1>2, <1>3, ReplySent DEF PairTyped
<1>5. /\ net'[i][j] \in Seq(Message) /\ Sent(port[j], port[i], net'[i][j])
  BY <1>1, <1>2, SentTail DEF PairTyped
<1> HIDE DEF z
<1>6. /\ net'[j][i] \in Seq(Message) /\ Sent(port[i], port[j], net'[j][i])
  <2>1. net[j][i] \in Seq(Message) /\ Sent(port[i], port[j], net[j][i])
    BY <1>2 DEF PairTyped
  <2>2. net[j][i] \o z \in Seq(Message) /\ Sent(port[i], port[j], net[j][i] \o z)
    BY <2>1, <1>4, SentConcat
  <2> QED BY <2>2, <1>1
<1>7. peers'[j][i] \in Peer /\ peers'[j][i].port <= port[i]
  <2>1. peers[j][i] \in Peer /\ peers[j][i].port <= port[i]
    BY <1>2 DEF PairTyped
  <2> DEFINE e == Effect(port[j], peers[j][i], msg)
  <2>2. /\ e \in Peer /\ (~e.known => e = peers[j][i])
        /\ e.known => \/ e.port = msg.from
                      \/ peers[j][i].known /\ e.port = peers[j][i].port
    BY <2>1, <1>3, EffectShape
  <2> HIDE DEF e
  <2>3. e.port = msg.from \/ e.port = peers[j][i].port
    BY <2>2
  <2> QED BY <2>1, <2>2, <2>3, <1>1, <1>2, <1>3 DEF Peer, e
<1>8. ASSUME NEW n \in Node, NEW m \in Others(n)
      PROVE  PairTyped(n, m)'
  <2>1. PairTyped(n, m)
    BY DEF Typed
  <2>2. CASE n = i /\ m = j
    <3>1. peers'[i][j] = peers[i][j]
      BY <1>1, <1>2
    <3> QED BY <3>1, <2>1, <2>2, <1>1, <1>5 DEF PairTyped
  <2>3. CASE n = j /\ m = i
    BY <2>3, <1>1, <1>6, <1>7 DEF PairTyped
  <2>4. CASE ~(n = i /\ m = j) /\ ~(n = j /\ m = i)
    <3>1. {n, m} # {i, j} /\ (n # j \/ m # i)
      BY <2>4, <1>2 DEF Others
    <3> QED BY <3>1, <2>1, <1>1 DEF PairTyped
  <2> QED BY <2>2, <2>3, <2>4
<1> QED BY <1>1, <1>8 DEF Typed

LEMMA NextTyped == Typed /\ [Next]_vars => Typed'
<1> SUFFICES ASSUME Typed, [Next]_vars PROVE Typed'
  OBVIOUS
<1>1. ASSUME NEW i \in Node, Program(i) PROVE Typed'
  BY <1>1, EditTyped, HelloTyped, RestartTyped DEF Program
<1>2. ASSUME NEW i \in Node, NEW j \in Others(i), Deliver(i, j) PROVE Typed'
  BY <1>2, DeliverTyped
<1>3. CASE UNCHANGED vars
  BY <1>3 DEF vars, Typed, PairTyped
<1> QED BY <1>1, <1>2, <1>3 DEF Next

LEMMA TypedIsTypeOK == Typed => TypeOK
<1> SUFFICES ASSUME Typed PROVE TypeOK
  OBVIOUS
<1>1. ASSUME NEW n \in Node
      PROVE  peers[n] \in [Others(n) -> Peer] /\ net[n] \in [Others(n) -> Seq(Message)]
  <2>1. Row(n, peers[n]) /\ Row(n, net[n])
    BY DEF Typed, Table
  <2>2. \A m \in Others(n) : peers[n][m] \in Peer /\ net[n][m] \in Seq(Message)
    BY DEF Typed, PairTyped
  <2> QED BY <2>1, <2>2 DEF Row
<1> QED BY <1>1 DEF Typed, TypeOK

LEMMA AlwaysTyped == Spec => []Typed
BY InitTyped, NextTyped, PTL DEF Spec

(* Every variable keeps its type, whatever may be edited and deleted when: a        *)
(* notice, a listing or a batch never asks of a mirror more than it has.            *)
THEOREM PeerTypes == Spec => []TypeOK
BY AlwaysTyped, TypedIsTypeOK, PTL

-----------------------------------------------------------------------------
(* What is under way to an endpoint                                            *)
(*                                                                            *)
(* n, a process at port a, has p about m, a process at port b with the signals   *)
(* s; q is under way from m to n and r from n to m; k: m knows n at that port.    *)
(* w is the trail of what n will have about m, message by message.               *)

Final(w) == w[Len(w)]

IsTrail(a, p, q, w) ==
  /\ w \in Seq(Peer) /\ Len(w) = Len(q) + 1 /\ w[1] = p
  /\ \A j \in 1..Len(q) : w[j + 1] = Effect(a, w[j], q[j])

(* addresses only go up                                                         *)
InOrder(b, q, w) ==
  /\ \A j \in 1..Len(q) : w[j].known => w[j].port <= q[j].from
  /\ \A j \in 1..Len(w) : w[j].known => w[j].port \in 1..b
  /\ \A j \in 1..Len(w) : Cur(w[j], b) => Cur(Final(w), b)

(* only the end of a listing moves a scan                                        *)
Steady(a, b, q, w) ==
  \A j \in 1..Len(w) :
    Cur(w[j], b) /\ (\A i \in j..Len(q) : ~Ends(a, b, q[i])) =>
      Final(w).current = w[j].current /\ Final(w).scanning = w[j].scanning

(* the first h signals will be mirrored                                          *)
Listed(s, p, h) == \A i \in 1..Len(s) : i <= h => Mirrors(p, s[i])

(* n has one request under way, for what it does not have yet                      *)
Asked(a, b, s, q, r, w) ==
  \A i \in 1..Len(r) : Asks(a, b, r[i]) =>
    /\ Cur(w[1], b) /\ w[1].scanning /\ Final(w).scanning
    /\ \A j \in 1..Len(q) : ~Ends(a, b, q[j])
    /\ \A h \in 1..Len(r) : Asks(a, b, r[h]) => h = i
    /\ r[i].arg # Unbatched => r[i].arg = Final(w).current /\ Listed(s, Final(w), Final(w).current)

(* or one answer, which brings it as far as it says                               *)
Answering(a, b, s, q, r, w) ==
  \A i \in 1..Len(q) : Ends(a, b, q[i]) =>
    /\ Cur(w[1], b) /\ w[1].scanning
    /\ \A j \in 1..Len(q) : Ends(a, b, q[j]) => j = i
    /\ \A h \in 1..Len(r) : ~Asks(a, b, r[h])
    /\ q[i].kind = "batch" /\ q[i].arg = 1 =>
         Final(w).scanning /\ Listed(s, Final(w), Final(w).current)

(* what is neither scanned nor to be scanned is complete                           *)
Complete(b, s, w) ==
  /\ Cur(Final(w), b) /\ ~Cur(w[1], b) => Final(w).scanning
  /\ Cur(Final(w), b) /\ ~Final(w).scanning => Listed(s, Final(w), Len(s))

(* a first process is mirrored without doubles and strangers, and not at all by    *)
(* one that knows it not and is not known                                          *)
Exact(b, s, k, w) ==
  b = 1 =>
    /\ \A x \in Path : Mirrors(Final(w), x) => Final(w).known /\ x \in ToSet(s)
    /\ ~k /\ ~Cur(w[1], b) => \A x \in Path : ~Mirrors(Final(w), x)
    /\ \A j \in 1..Len(w) : \A x \in Path : w[j].signals[x] <= 1

Mail(a, b, s, p, q, r, k, w) ==
  /\ IsTrail(a, p, q, w) /\ InOrder(b, q, w) /\ Steady(a, b, q, w)
  /\ Asked(a, b, s, q, r, w) /\ Answering(a, b, s, q, r, w)
  /\ Complete(b, s, w) /\ Exact(b, s, k, w)

LEMMA TrailShape ==
  ASSUME NEW a, NEW p, NEW q \in Seq(Message), NEW w, IsTrail(a, p, q, w)
  PROVE  /\ w \in Seq(Peer) /\ Len(q) \in Nat /\ Len(w) = Len(q) + 1
         /\ Final(w) \in Peer /\ w[1] = p /\ 1 \in 1..Len(w) /\ Len(w) \in 1..Len(w)
         /\ \A j \in 1..Len(w) : w[j] \in Peer
         /\ \A j \in 1..Len(q) : j \in 1..Len(w) /\ j + 1 \in 1..Len(w)
BY DEF IsTrail, Final

-----------------------------------------------------------------------------
(* Messages are posted                                                         *)

(* v continues the trail from f over the messages z                              *)
Extends(a, f, z, v) ==
  /\ v \in Seq(Peer) /\ Len(v) = Len(z)
  /\ \A i \in 1..Len(z) : v[i] = Effect(a, IF i = 1 THEN f ELSE v[i - 1], z[i])

(* Q and W are q and w with z and v behind them                                 *)
Posted(q, z, w, v, Q, W) ==
  /\ Len(q) \in Nat /\ Len(z) \in Nat \ {0}
  /\ Len(w) = Len(q) + 1 /\ Len(v) = Len(z)
  /\ Len(Q) = Len(q) + Len(z) /\ Len(W) = Len(q) + 1 + Len(z)
  /\ \A j \in 1..Len(Q) :
       \/ j <= Len(q) /\ Q[j] = q[j]
       \/ j > Len(q) /\ j - Len(q) \in 1..Len(z) /\ Q[j] = z[j - Len(q)]
  /\ \A j \in 1..Len(W) :
       \/ j <= Len(w) /\ W[j] = w[j]
       \/ j > Len(w) /\ j - Len(w) \in 1..Len(v) /\ W[j] = v[j - Len(w)]
  /\ Final(W) = v[Len(v)] /\ W[1] = w[1]

LEMMA Extended ==
  ASSUME NEW a, NEW p, NEW q \in Seq(Message), NEW w, IsTrail(a, p, q, w),
         NEW z \in Seq(Message), z # <<>>, NEW v, Extends(a, Final(w), z, v)
  PROVE  /\ IsTrail(a, p, q \o z, w \o v) /\ Posted(q, z, w, v, q \o z, w \o v)
         /\ q \o z \in Seq(Message)
<1> DEFINE W == w \o v
           Q == q \o z
<1>1. /\ w \in Seq(Peer) /\ Len(q) \in Nat /\ Len(w) = Len(q) + 1 /\ w[1] = p
      /\ \A j \in 1..Len(q) : w[j + 1] = Effect(a, w[j], q[j])
  BY DEF IsTrail
<1>2. /\ v \in Seq(Peer) /\ Len(v) = Len(z)
      /\ \A i \in 1..Len(z) : v[i] = Effect(a, IF i = 1 THEN Final(w) ELSE v[i - 1], z[i])
  BY DEF Extends
<1>3. Len(z) \in Nat \ {0} /\ Len(v) \in Nat /\ \A j \in 1..Len(v) : v[j] \in Peer
  BY <1>2
<1>4. W \in Seq(Peer) /\ Len(W) = Len(w) + Len(v)
      /\ \A i \in 1..Len(w) + Len(v) : W[i] = IF i <= Len(w) THEN w[i] ELSE v[i - Len(w)]
  BY <1>1, <1>2, ConcatShape
<1>5. Q \in Seq(Message) /\ Len(Q) = Len(q) + Len(z)
      /\ \A i \in 1..Len(q) + Len(z) : Q[i] = IF i <= Len(q) THEN q[i] ELSE z[i - Len(q)]
  BY ConcatShape
<1> HIDE DEF W, Q
<1>6. \A j \in 1..Len(w) : W[j] = w[j]
  BY <1>1, <1>3, <1>4
<1>7. \A j \in 1..Len(v) : W[Len(w) + j] = v[j]
  <2> TAKE j \in 1..Len(v)
  <2>1. Len(w) + j \in 1..Len(w) + Len(v) /\ ~(Len(w) + j <= Len(w)) /\ (Len(w) + j) - Len(w) = j
    BY <1>1, <1>3
  <2> QED BY <2>1, <1>4
<1>8. \A j \in 1..Len(q) : Q[j] = q[j]
  BY <1>1, <1>3, <1>5
<1>9. \A j \in 1..Len(z) : Q[Len(q) + j] = z[j]
  <2> TAKE j \in 1..Len(z)
  <2>1. Len(q) + j \in 1..Len(q) + Len(z) /\ ~(Len(q) + j <= Len(q)) /\ (Len(q) + j) - Len(q) = j
    BY <1>1, <1>3
  <2> QED BY <2>1, <1>5
<1>10. Final(W) = v[Len(v)]
  <2>1. Len(v) \in 1..Len(v)
    BY <1>2, <1>3
  <2> QED BY <2>1, <1>4, <1>7 DEF Final
<1>11. ASSUME NEW j \in 1..Len(Q)
       PROVE  W[j + 1] = Effect(a, W[j], Q[j])
  <2>1. CASE j <= Len(q)
    <3>1. j \in 1..Len(q) /\ j \in 1..Len(w) /\ j + 1 \in 1..Len(w)
      BY <2>1, <1>1
    <3> QED BY <3>1, <1>1, <1>6, <1>8
  <2>2. CASE ~(j <= Len(q))
    <3> DEFINE i == j - Len(q)
    <3>1. i \in 1..Len(z) /\ j = Len(q) + i /\ j + 1 = Len(w) + i /\ i \in 1..Len(v)
      BY <2>2, <1>1, <1>2, <1>3, <1>5
    <3> HIDE DEF i
    <3>2. W[j + 1] = v[i] /\ Q[j] = z[i]
      BY <3>1, <1>7, <1>9
    <3>3. W[j] = IF i = 1 THEN Final(w) ELSE v[i - 1]
      <4>1. CASE i = 1
        <5>1. j = Len(w) /\ j \in 1..Len(w)
          BY <4>1, <3>1, <1>1
        <5> QED BY <5>1, <4>1, <1>6 DEF Final
      <4>2. CASE i # 1
        <5>1. i - 1 \in 1..Len(v) /\ j = Len(w) + (i - 1)
          BY <4>2, <3>1, <1>1
        <5> QED BY <5>1, <4>2, <1>7
      <4> QED BY <4>1, <4>2
    <3> QED BY <3>1, <3>2, <3>3, <1>2
  <2> QED BY <2>1, <2>2
<1>12. W[1] = p /\ Len(W) = Len(Q) + 1
  BY <1>1, <1>2, <1>3, <1>4, <1>5, <1>6
<1>13. IsTrail(a, p, Q, W)
  BY <1>4, <1>11, <1>12 DEF IsTrail
<1>14. ASSUME NEW j \in 1..Len(Q)
       PROVE  \/ j <= Len(q) /\ Q[j] = q[j]
              \/ j > Len(q) /\ j - Len(q) \in 1..Len(z) /\ Q[j] = z[j - Len(q)]
  BY <1>1, <1>3, <1>5
<1>15. ASSUME NEW j \in 1..Len(W)
       PROVE  \/ j <= Len(w) /\ W[j] = w[j]
              \/ j > Len(w) /\ j - Len(w) \in 1..Len(v) /\ W[j] = v[j - Len(w)]
  BY <1>1, <1>2, <1>3, <1>4
<1>16. Posted(q, z, w, v, Q, W)
  BY <1>1, <1>2, <1>3, <1>4, <1>5, <1>10, <1>12, <1>14, <1>15 DEF Posted
<1> QED BY <1>5, <1>13, <1>16 DEF W, Q

(* messages of the process at port b keep the order of addresses and the steps of  *)
(* scans                                                                         *)
Continues(a, b, f, z, v) ==
  LET g == v[Len(v)]
  IN /\ \A j \in 1..Len(z) : z[j].from = b /\ (v[j].known => v[j].port \in 1..b)
     /\ \A j \in 1..Len(z) : Cur(v[j], b) => Cur(g, b)
     /\ Cur(f, b) => Cur(g, b)
     /\ \A j \in 1..Len(z) : Cur(v[j], b) /\ (\A i \in j + 1..Len(z) : ~Ends(a, b, z[i])) =>
          g.current = v[j].current /\ g.scanning = v[j].scanning
     /\ Cur(f, b) /\ (\A i \in 1..Len(z) : ~Ends(a, b, z[i])) =>
          g.current = f.current /\ g.scanning = f.scanning

LEMMA PostInOrder ==
  ASSUME NEW a, NEW b \in Nat, NEW q, NEW z, NEW w, NEW v, NEW Q, NEW W,
         Posted(q, z, w, v, Q, W), InOrder(b, q, w), Continues(a, b, Final(w), z, v)
  PROVE  InOrder(b, Q, W)
<1> DEFINE g == v[Len(v)]
<1>1. /\ Len(q) \in Nat /\ Len(z) \in Nat \ {0} /\ Len(w) = Len(q) + 1 /\ Len(v) = Len(z)
      /\ Len(Q) = Len(q) + Len(z) /\ Len(W) = Len(q) + 1 + Len(z) /\ Final(W) = g
      /\ \A j \in 1..Len(Q) :
           \/ j <= Len(q) /\ Q[j] = q[j]
           \/ j > Len(q) /\ j - Len(q) \in 1..Len(z) /\ Q[j] = z[j - Len(q)]
      /\ \A j \in 1..Len(W) :
           \/ j <= Len(w) /\ W[j] = w[j]
           \/ j > Len(w) /\ j - Len(w) \in 1..Len(v) /\ W[j] = v[j - Len(w)]
  BY DEF Posted
<1>2. /\ \A j \in 1..Len(z) : z[j].from = b /\ (v[j].known => v[j].port \in 1..b)
      /\ \A j \in 1..Len(z) : Cur(v[j], b) => Cur(g, b)
      /\ Cur(Final(w), b) => Cur(g, b)
  BY DEF Continues
<1>3. /\ \A j \in 1..Len(q) : w[j].known => w[j].port <= q[j].from
      /\ \A j \in 1..Len(w) : w[j].known => w[j].port \in 1..b
      /\ \A j \in 1..Len(w) : Cur(w[j], b) => Cur(Final(w), b)
  BY DEF InOrder
<1> HIDE DEF g
<1>4. ASSUME NEW j \in 1..Len(W)
      PROVE  (W[j].known => W[j].port \in 1..b) /\ (Cur(W[j], b) => Cur(g, b))
  <2>1. CASE j <= Len(w)
    <3>1. j \in 1..Len(w) /\ W[j] = w[j]
      BY <2>1, <1>1
    <3> QED BY <3>1, <1>2, <1>3
  <2>2. CASE ~(j <= Len(w))
    <3>1. j - Len(w) \in 1..Len(z) /\ W[j] = v[j - Len(w)]
      BY <2>2, <1>1
    <3> QED BY <3>1, <1>2
  <2> QED BY <2>1, <2>2
<1>5. ASSUME NEW j \in 1..Len(Q), W[j].known
      PROVE  W[j].port <= Q[j].from
  <2>1. CASE j <= Len(q)
    <3>1. j \in 1..Len(q) /\ Q[j] = q[j] /\ j \in 1..Len(W) /\ j <= Len(w)
      BY <2>1, <1>1
    <3>2. W[j] = w[j]
      BY <3>1, <1>1
    <3> QED BY <3>1, <3>2, <1>3, <1>5
  <2>2. CASE ~(j <= Len(q))
    <3>1. j - Len(q) \in 1..Len(z) /\ Q[j] = z[j - Len(q)] /\ j \in 1..Len(W)
      BY <2>2, <1>1
    <3>2. Q[j].from = b
      BY <3>1, <1>2
    <3>3. W[j].port \in 1..b
      BY <3>1, <1>4, <1>5
    <3> QED BY <3>2, <3>3
  <2> QED BY <2>1, <2>2
<1> QED BY <1>1, <1>4, <1>5 DEF InOrder

LEMMA PostSteady ==
  ASSUME NEW a, NEW b \in Nat, NEW q, NEW z, NEW w, NEW v, NEW Q, NEW W,
         Posted(q, z, w, v, Q, W), InOrder(b, q, w), Steady(a, b, q, w),
         Continues(a, b, Final(w), z, v)
  PROVE  Steady(a, b, Q, W)
<1> DEFINE g == v[Len(v)]
<1>1. /\ Len(q) \in Nat /\ Len(z) \in Nat \ {0} /\ Len(w) = Len(q) + 1 /\ Len(v) = Len(z)
      /\ Len(Q) = Len(q) + Len(z) /\ Len(W) = Len(q) + 1 + Len(z) /\ Final(W) = g
      /\ \A j \in 1..Len(Q) :
           \/ j <= Len(q) /\ Q[j] = q[j]
           \/ j > Len(q) /\ j - Len(q) \in 1..Len(z) /\ Q[j] = z[j - Len(q)]
      /\ \A j \in 1..Len(W) :
           \/ j <= Len(w) /\ W[j] = w[j]
           \/ j > Len(w) /\ j - Len(w) \in 1..Len(v) /\ W[j] = v[j - Len(w)]
  BY DEF Posted
<1>2. /\ \A j \in 1..Len(z) : Cur(v[j], b) /\ (\A i \in j + 1..Len(z) : ~Ends(a, b, z[i])) =>
           g.current = v[j].current /\ g.scanning = v[j].scanning
      /\ Cur(Final(w), b) /\ (\A i \in 1..Len(z) : ~Ends(a, b, z[i])) =>
           g.current = Final(w).current /\ g.scanning = Final(w).scanning
  BY DEF Continues
<1> HIDE DEF g
<1>3. SUFFICES ASSUME NEW j \in 1..Len(W), Cur(W[j], b), \A i \in j..Len(Q) : ~Ends(a, b, Q[i])
               PROVE  g.current = W[j].current /\ g.scanning = W[j].scanning
  BY <1>1 DEF Steady
<1>4. ASSUME NEW i \in 1..Len(z)
      PROVE  Len(q) + i \in 1..Len(Q) /\ Q[Len(q) + i] = z[i]
  <2>1. Len(q) + i \in 1..Len(Q) /\ ~(Len(q) + i <= Len(q)) /\ (Len(q) + i) - Len(q) = i
    BY <1>1
  <2> QED BY <2>1, <1>1
<1>5. CASE j <= Len(w)
  <2>1. j \in 1..Len(w) /\ W[j] = w[j] /\ j <= Len(q) + 1
    BY <1>5, <1>1
  <2>2. ASSUME NEW i \in j..Len(q)
        PROVE  ~Ends(a, b, q[i])
    <3>1. i \in 1..Len(Q) /\ i \in j..Len(Q) /\ i <= Len(q)
      BY <1>1
    <3> QED BY <3>1, <1>1, <1>3
  <2>3. ASSUME NEW i \in 1..Len(z)
        PROVE  ~Ends(a, b, z[i])
    <3>1. Len(q) + i \in j..Len(Q) /\ Q[Len(q) + i] = z[i]
      BY <1>1, <1>4, <2>1
    <3> QED BY <3>1, <1>3
  <2>4. Final(w).current = w[j].current /\ Final(w).scanning = w[j].scanning
    BY <1>3, <2>1, <2>2 DEF Steady
  <2>5. Cur(Final(w), b)
    BY <1>3, <2>1 DEF InOrder
  <2> QED BY <1>2, <2>1, <2>3, <2>4, <2>5
<1>6. CASE ~(j <= Len(w))
  <2> DEFINE h == j - Len(w)
  <2>1. h \in 1..Len(z) /\ W[j] = v[h] /\ j = Len(q) + 1 + h
    BY <1>6, <1>1
  <2> HIDE DEF h
  <2>2. ASSUME NEW i \in h + 1..Len(z)
        PROVE  ~Ends(a, b, z[i])
    <3>1. i \in 1..Len(z)
      BY <2>1
    <3>2. Len(q) + i \in j..Len(Q) /\ Q[Len(q) + i] = z[i]
      BY <1>1, <1>4, <2>1, <3>1
    <3> QED BY <3>2, <1>3
  <2> QED BY <1>2, <1>3, <2>1, <2>2
<1> QED BY <1>5, <1>6

(* what was mirrored of s is mirrored of t                                      *)
Keeps(b, s, t, w, g) ==
  /\ Cur(Final(w), b) /\ w[1].scanning =>
       \A h \in Nat : Listed(s, Final(w), h) => Listed(t, g, h)
  /\ Cur(Final(w), b) /\ Listed(s, Final(w), Len(s)) => Listed(t, g, Len(t))

Exactly(b, t, k, w, v) ==
  b = 1 =>
    /\ \A x \in Path : Mirrors(v[Len(v)], x) => v[Len(v)].known /\ x \in ToSet(t)
    /\ ~k /\ ~Cur(w[1], b) => \A x \in Path : ~Mirrors(v[Len(v)], x)
    /\ \A j \in 1..Len(v) : \A x \in Path : v[j].signals[x] <= 1

LEMMA PostExact ==
  ASSUME NEW b, NEW q, NEW z, NEW w, NEW v, NEW Q, NEW W, NEW s, NEW t, NEW k,
         Posted(q, z, w, v, Q, W), Exact(b, s, k, w), Exactly(b, t, k, w, v)
  PROVE  Exact(b, t, k, W)
<1> DEFINE g == v[Len(v)]
<1>1. /\ Final(W) = g /\ W[1] = w[1]
      /\ \A j \in 1..Len(W) :
           \/ j <= Len(w) /\ W[j] = w[j]
           \/ j > Len(w) /\ j - Len(w) \in 1..Len(v) /\ W[j] = v[j - Len(w)]
      /\ Len(w) \in Nat
  BY DEF Posted
<1>2. SUFFICES ASSUME b = 1
               PROVE  /\ \A x \in Path : Mirrors(g, x) => g.known /\ x \in ToSet(t)
                      /\ ~k /\ ~Cur(w[1], b) => \A x \in Path : ~Mirrors(g, x)
                      /\ \A j \in 1..Len(W) : \A x \in Path : W[j].signals[x] <= 1
  BY <1>1, Zenon DEF Exact
<1>3. /\ \A x \in Path : Mirrors(g, x) => g.known /\ x \in ToSet(t)
      /\ ~k /\ ~Cur(w[1], b) => \A x \in Path : ~Mirrors(g, x)
      /\ \A j \in 1..Len(v) : \A x \in Path : v[j].signals[x] <= 1
  BY <1>2, Zenon DEF Exactly
<1>4. \A j \in 1..Len(w) : \A x \in Path : w[j].signals[x] <= 1
  BY <1>2, Zenon DEF Exact
<1> HIDE DEF g
<1>5. ASSUME NEW j \in 1..Len(W), NEW x \in Path
      PROVE  W[j].signals[x] <= 1
  <2>1. CASE j <= Len(w)
    <3>1. j \in 1..Len(w) /\ W[j] = w[j]
      BY <2>1, <1>1
    <3> QED BY <3>1, <1>4
  <2>2. CASE ~(j <= Len(w))
    <3>1. j - Len(w) \in 1..Len(v) /\ W[j] = v[j - Len(w)]
      BY <2>2, <1>1
    <3> QED BY <3>1, <1>3
  <2> QED BY <2>1, <2>2
<1> QED BY <1>3, <1>5, Zenon

(* what is no answer of a listing leaves request and answer                        *)
LEMMA PostQuiet ==
  ASSUME NEW a, NEW b \in Nat, NEW q, NEW z, NEW w, NEW v, NEW Q, NEW W,
         NEW s, NEW t, NEW r, Len(s) \in Nat, Len(t) \in Nat,
         Posted(q, z, w, v, Q, W), InOrder(b, q, w), Continues(a, b, Final(w), z, v),
         Final(w) \in Peer,
         \A i \in 1..Len(z) : ~Ends(a, b, z[i]),
         ~Cur(Final(w), b) /\ Cur(v[Len(v)], b) => v[Len(v)].scanning,
         Keeps(b, s, t, w, v[Len(v)]),
         Asked(a, b, s, q, r, w), Answering(a, b, s, q, r, w), Complete(b, s, w)
  PROVE  Asked(a, b, t, Q, r, W) /\ Answering(a, b, t, Q, r, W) /\ Complete(b, t, W)
<1> DEFINE f == Final(w)
           g == v[Len(v)]
<1>1. /\ Len(q) \in Nat /\ Len(z) \in Nat \ {0} /\ Len(w) = Len(q) + 1
      /\ Len(Q) = Len(q) + Len(z) /\ Final(W) = g /\ W[1] = w[1]
      /\ \A j \in 1..Len(Q) :
           \/ j <= Len(q) /\ Q[j] = q[j]
           \/ j > Len(q) /\ j - Len(q) \in 1..Len(z) /\ Q[j] = z[j - Len(q)]
  BY DEF Posted
<1>2. /\ Cur(f, b) => Cur(g, b)
      /\ Cur(f, b) => g.current = f.current /\ g.scanning = f.scanning
  BY DEF Continues
<1>3. Cur(w[1], b) => Cur(f, b)
  BY <1>1 DEF InOrder
<1>4. f.current \in Nat
  BY DEF Peer
<1>5. /\ Cur(f, b) /\ w[1].scanning /\ Listed(s, f, f.current) => Listed(t, g, g.current)
      /\ Cur(f, b) /\ Listed(s, f, Len(s)) => Listed(t, g, Len(t))
  BY <1>2, <1>4 DEF Keeps
<1>6. ~Cur(f, b) /\ Cur(g, b) => g.scanning
  OBVIOUS
<1> HIDE DEF f, g
<1>7. ASSUME NEW j \in 1..Len(Q), Ends(a, b, Q[j])
      PROVE  j \in 1..Len(q) /\ Ends(a, b, q[j]) /\ Q[j] = q[j]
  <2>1. CASE j <= Len(q)
    BY <2>1, <1>1, <1>7
  <2>2. CASE ~(j <= Len(q))
    <3>1. j - Len(q) \in 1..Len(z) /\ Q[j] = z[j - Len(q)]
      BY <2>2, <1>1
    <3> QED BY <3>1, <1>7
  <2> QED BY <2>1, <2>2
<1>8. Asked(a, b, t, Q, r, W)
  <2>1. SUFFICES ASSUME NEW i \in 1..Len(r), Asks(a, b, r[i])
                 PROVE  /\ Cur(w[1], b) /\ w[1].scanning /\ g.scanning
                        /\ \A j \in 1..Len(Q) : ~Ends(a, b, Q[j])
                        /\ \A h \in 1..Len(r) : Asks(a, b, r[h]) => h = i
                        /\ r[i].arg # Unbatched => r[i].arg = g.current /\ Listed(t, g, g.current)
    BY <1>1 DEF Asked
  <2>2. /\ Cur(w[1], b) /\ w[1].scanning /\ f.scanning
        /\ \A j \in 1..Len(q) : ~Ends(a, b, q[j])
        /\ \A h \in 1..Len(r) : Asks(a, b, r[h]) => h = i
        /\ r[i].arg # Unbatched => r[i].arg = f.current /\ Listed(s, f, f.current)
    BY <2>1 DEF Asked, f
  <2> QED BY <2>2, <1>2, <1>3, <1>5, <1>7
<1>9. Answering(a, b, t, Q, r, W)
  <2>1. SUFFICES ASSUME NEW i \in 1..Len(Q), Ends(a, b, Q[i])
                 PROVE  /\ Cur(w[1], b) /\ w[1].scanning
                        /\ \A j \in 1..Len(Q) : Ends(a, b, Q[j]) => j = i
                        /\ \A h \in 1..Len(r) : ~Asks(a, b, r[h])
                        /\ Q[i].kind = "batch" /\ Q[i].arg = 1 =>
                             g.scanning /\ Listed(t, g, g.current)
    BY <1>1 DEF Answering
  <2>2. i \in 1..Len(q) /\ Ends(a, b, q[i]) /\ Q[i] = q[i]
    BY <2>1, <1>7
  <2>3. /\ Cur(w[1], b) /\ w[1].scanning
        /\ \A j \in 1..Len(q) : Ends(a, b, q[j]) => j = i
        /\ \A h \in 1..Len(r) : ~Asks(a, b, r[h])
        /\ q[i].kind = "batch" /\ q[i].arg = 1 =>
             f.scanning /\ Listed(s, f, f.current)
    BY <2>2 DEF Answering, f
  <2> QED BY <2>2, <2>3, <1>2, <1>3, <1>5, <1>7
<1>10. Complete(b, t, W)
  <2>1. /\ Cur(f, b) /\ ~Cur(w[1], b) => f.scanning
        /\ Cur(f, b) /\ ~f.scanning => Listed(s, f, Len(s))
    BY DEF Complete, f
  <2> QED BY <2>1, <1>1, <1>2, <1>5, <1>6 DEF Complete
<1> QED BY <1>8, <1>9, <1>10

LEMMA MailPost ==
  ASSUME NEW a, NEW b \in Nat, NEW s, NEW t, Len(s) \in Nat, Len(t) \in Nat,
         NEW p, NEW q \in Seq(Message), NEW r, NEW k, NEW w, Mail(a, b, s, p, q, r, k, w),
         NEW z \in Seq(Message), z # <<>>, NEW v, Extends(a, Final(w), z, v),
         Continues(a, b, Final(w), z, v),
         \A i \in 1..Len(z) : ~Ends(a, b, z[i]),
         ~Cur(Final(w), b) /\ Cur(v[Len(v)], b) => v[Len(v)].scanning,
         Keeps(b, s, t, w, v[Len(v)]), Exactly(b, t, k, w, v)
  PROVE  Mail(a, b, t, p, q \o z, r, k, w \o v)
<1> DEFINE Q == q \o z
           W == w \o v
<1>1. /\ IsTrail(a, p, q, w) /\ InOrder(b, q, w) /\ Steady(a, b, q, w)
      /\ Asked(a, b, s, q, r, w) /\ Answering(a, b, s, q, r, w)
      /\ Complete(b, s, w) /\ Exact(b, s, k, w)
  BY DEF Mail
<1>2. IsTrail(a, p, Q, W) /\ Posted(q, z, w, v, Q, W)
  BY <1>1, Extended
<1>3. Final(w) \in Peer
  BY <1>1, TrailShape
<1> HIDE DEF Q, W
<1>4. InOrder(b, Q, W)
  BY <1>1, <1>2, PostInOrder
<1>5. Steady(a, b, Q, W)
  BY <1>1, <1>2, PostSteady
<1>6. Asked(a, b, t, Q, r, W) /\ Answering(a, b, t, Q, r, W) /\ Complete(b, t, W)
  BY <1>1, <1>2, <1>3, PostQuiet
<1>7. Exact(b, t, k, W)
  BY <1>1, <1>2, PostExact
<1>8. Mail(a, b, t, p, Q, r, k, W)
  BY <1>2, <1>4, <1>5, <1>6, <1>7 DEF Mail
<1> QED BY <1>8 DEF Q, W

(* one message                                                                    *)
LEMMA MailOne ==
  ASSUME NEW a, NEW b \in Nat \ {0}, NEW s, NEW t, Len(s) \in Nat, Len(t) \in Nat,
         NEW p, NEW q \in Seq(Message), NEW r, NEW k, NEW w, Mail(a, b, s, p, q, r, k, w),
         NEW msg, WellFormed(msg), msg.from = b, ~Ends(a, b, msg),
         NEW g, g = Effect(a, Final(w), msg),
         ~Cur(Final(w), b) /\ Cur(g, b) => g.scanning,
         Keeps(b, s, t, w, g), Exactly(b, t, k, w, <<g>>)
  PROVE  Mail(a, b, t, p, q \o <<msg>>, r, k, w \o <<g>>)
<1> DEFINE f == Final(w)
<1>1. IsTrail(a, p, q, w) /\ InOrder(b, q, w)
  BY DEF Mail
<1>2. f \in Peer /\ Len(w) \in 1..Len(w)
  BY <1>1, TrailShape
<1>3. f.known => f.port \in 1..b
  BY <1>1, <1>2 DEF InOrder, Final
<1>4. g = Effect(a, f, msg)
  OBVIOUS
<1> HIDE DEF f
<1>5. /\ g \in Peer
      /\ g.known => g.port = b \/ (f.known /\ g.port = f.port)
      /\ Cur(f, b) => Cur(g, b) /\ g.current = f.current /\ g.scanning = f.scanning
  <2> DEFINE e == Effect(a, f, msg)
  <2>1. /\ e \in Peer
        /\ e.known => e.port = msg.from \/ (f.known /\ e.port = f.port)
        /\ Cur(f, msg.from) => Cur(e, msg.from)
        /\ Cur(f, msg.from) /\ ~Ends(a, msg.from, msg) =>
             e.current = f.current /\ e.scanning = f.scanning
    BY <1>2, EffectShape
  <2> HIDE DEF e
  <2>2. e = g
    BY <1>4 DEF e
  <2> QED BY <2>1, <2>2
<1> DEFINE z == <<msg>>
           v == <<g>>
<1>6. msg \in Message
  BY DEF WellFormed
<1>7. /\ z \in Seq(Message) /\ z # <<>> /\ Len(z) = 1 /\ z[1] = msg
      /\ v \in Seq(Peer) /\ Len(v) = 1 /\ v[1] = g /\ v[Len(v)] = g
  BY <1>5, <1>6
<1>8. Exactly(b, t, k, w, v)
  OBVIOUS
<1>9. Mail(a, b, t, p, q \o z, r, k, w \o v)
  <2> HIDE DEF z, v
  <2>1. \A i \in 1..Len(z) : i = 1
    BY <1>7
  <2>2. Extends(a, f, z, v)
    BY <2>1, <1>4, <1>7 DEF Extends
  <2>3. Continues(a, b, f, z, v)
    BY <2>1, <1>3, <1>5, <1>7 DEF Continues
  <2> QED BY <2>1, <2>2, <2>3, <1>7, <1>8, MailPost DEF f
<1> QED BY <1>9

(* messages that change nothing                                                   *)
LEMMA MailSame ==
  ASSUME NEW a, NEW b \in Nat, NEW s, Len(s) \in Nat,
         NEW p, NEW q \in Seq(Message), NEW r, NEW k, NEW w, Mail(a, b, s, p, q, r, k, w),
         NEW z \in Seq(Message),
         \A j \in 1..Len(z) : /\ z[j].from = b /\ ~Ends(a, b, z[j])
                              /\ Effect(a, Final(w), z[j]) = Final(w)
  PROVE  \E W : Mail(a, b, s, p, q \o z, r, k, W)
<1>1. CASE z = <<>>
  <2>1. q \o z = q
    BY <1>1
  <2> QED BY <2>1
<1>2. CASE z # <<>>
  <2> DEFINE f == Final(w)
             v == [j \in 1..Len(z) |-> f]
  <2>1. IsTrail(a, p, q, w) /\ InOrder(b, q, w) /\ Exact(b, s, k, w)
    BY DEF Mail
  <2>2. f \in Peer /\ Len(w) \in 1..Len(w)
    BY <2>1, TrailShape
  <2>3. f.known => f.port \in 1..b
    BY <2>1, <2>2 DEF InOrder, Final
  <2>4. b = 1 => \A x \in Path : f.signals[x] <= 1
    BY <2>1, <2>2 DEF Exact, Final
  <2>5. b = 1 => /\ \A x \in Path : Mirrors(f, x) => f.known /\ x \in ToSet(s)
                 /\ ~k /\ ~Cur(w[1], b) => \A x \in Path : ~Mirrors(f, x)
    BY <2>1, Zenon DEF Exact
  <2>6. \A j \in 1..Len(z) : z[j].from = b /\ ~Ends(a, b, z[j]) /\ Effect(a, f, z[j]) = f
    OBVIOUS
  <2>7. Len(z) \in Nat \ {0}
    BY <1>2
  <2> HIDE DEF f
  <2>8. /\ v \in Seq(Peer) /\ Len(v) = Len(z) /\ v[Len(v)] = f
        /\ \A j \in 1..Len(z) : v[j] = f
    BY <2>2, <2>7
  <2> HIDE DEF v
  <2>9. Extends(a, f, z, v)
    <3> SUFFICES ASSUME NEW i \in 1..Len(z)
                 PROVE  v[i] = Effect(a, IF i = 1 THEN f ELSE v[i - 1], z[i])
      BY <2>8 DEF Extends
    <3>1. i = 1 \/ i - 1 \in 1..Len(z)
      BY <2>7
    <3> QED BY <3>1, <2>6, <2>8
  <2>10. Continues(a, b, f, z, v)
    BY <2>3, <2>6, <2>8 DEF Continues
  <2>11. Keeps(b, s, s, w, v[Len(v)])
    BY <2>8 DEF Keeps, f
  <2>12. Exactly(b, s, k, w, v)
    BY <2>4, <2>5, <2>8 DEF Exactly
  <2>13. Mail(a, b, s, p, q \o z, r, k, w \o v)
    BY <1>2, <2>6, <2>8, <2>9, <2>10, <2>11, <2>12, MailPost DEF f
  <2> QED BY <2>13
<1> QED BY <1>1, <1>2

(* a hello or a request of the process at port b                                   *)
LEMMA MailPlain ==
  ASSUME NEW a, NEW b \in Nat \ {0}, NEW s, Len(s) \in Nat,
         NEW p, NEW q \in Seq(Message), NEW r, NEW k, NEW w, Mail(a, b, s, p, q, r, k, w),
         NEW msg, WellFormed(msg), msg.from = b, msg.kind \in {"hello", "list"}
  PROVE  \E W : Mail(a, b, s, p, q \o <<msg>>, r, k, W)
<1> DEFINE f == Final(w)
           g == Effect(a, f, msg)
<1>1. IsTrail(a, p, q, w) /\ InOrder(b, q, w) /\ Exact(b, s, k, w)
  BY DEF Mail
<1>2. f \in Peer /\ Len(w) \in 1..Len(w)
  BY <1>1, TrailShape
<1>3. b = 1 => \A x \in Path : f.signals[x] <= 1
  BY <1>1, <1>2 DEF Exact, Final
<1>4. b = 1 => /\ \A x \in Path : Mirrors(f, x) => f.known /\ x \in ToSet(s)
               /\ ~k /\ ~Cur(w[1], b) => \A x \in Path : ~Mirrors(f, x)
  BY <1>1, Zenon DEF Exact
<1> HIDE DEF f
<1>5. g # f => /\ ~Cur(f, b) /\ g.scanning
               /\ \A x \in Path : g.signals[x] = IF f.known THEN f.signals[x] ELSE 0
  BY <1>2, EffectPlain
<1>6. f.known => g.known
  BY <1>2, EffectShape
<1>7. \A x \in Path : f.signals[x] \in Nat
  BY <1>2 DEF Peer
<1>8. ~Ends(a, b, msg)
  BY DEF Ends
<1> HIDE DEF g
<1>9. ~Cur(f, b) /\ Cur(g, b) => g.scanning
  BY <1>5
<1>10. Keeps(b, s, s, w, g)
  <2>1. Cur(f, b) => g = f
    BY <1>5
  <2> QED BY <2>1 DEF Keeps, f
<1>11. Exactly(b, s, k, w, <<g>>)
  <2> DEFINE v == <<g>>
  <2>1. Len(v) = 1 /\ v[1] = g
    OBVIOUS
  <2> HIDE DEF v
  <2>2. ASSUME NEW x \in Path
        PROVE  g.signals[x] = f.signals[x] \/ g.signals[x] = 0
    BY <1>5
  <2>3. ASSUME NEW x \in Path
        PROVE  (Mirrors(g, x) => Mirrors(f, x)) /\ (f.signals[x] <= 1 => g.signals[x] <= 1)
    BY <2>2, <1>7 DEF Mirrors
  <2>4. Exactly(b, s, k, w, v)
    BY <2>1, <2>3, <1>3, <1>4, <1>6 DEF Exactly
  <2> QED BY <2>4 DEF v
<1>12. g = Effect(a, Final(w), msg)
  BY DEF f, g
<1>13. Mail(a, b, s, p, q \o <<msg>>, r, k, w \o <<g>>)
  BY <1>8, <1>9, <1>10, <1>11, <1>12, MailOne DEF f
<1> QED BY <1>13

(* signals change and nobody is told; nobody who would have to be                    *)
LEMMA MailUnheard ==
  ASSUME NEW a, NEW b, NEW s, NEW t,
         NEW p, NEW q \in Seq(Message), NEW r, NEW w, Mail(a, b, s, p, q, r, FALSE, w), ~Cur(p, b)
  PROVE  Mail(a, b, t, p, q, r, FALSE, w)
<1>1. /\ IsTrail(a, p, q, w) /\ InOrder(b, q, w) /\ Steady(a, b, q, w)
      /\ Asked(a, b, s, q, r, w) /\ Answering(a, b, s, q, r, w)
      /\ Complete(b, s, w) /\ Exact(b, s, FALSE, w)
  BY DEF Mail
<1>2. ~Cur(w[1], b)
  BY <1>1 DEF IsTrail
<1>3. Asked(a, b, t, q, r, w)
  BY <1>1, <1>2, Zenon DEF Asked
<1>4. Answering(a, b, t, q, r, w)
  BY <1>1, <1>2, Zenon DEF Answering
<1>5. Complete(b, t, w)
  BY <1>1, <1>2, Zenon DEF Complete
<1>6. Exact(b, t, FALSE, w)
  BY <1>1, <1>2, Zenon DEF Exact
<1> QED BY <1>1, <1>3, <1>4, <1>5, <1>6 DEF Mail

-----------------------------------------------------------------------------
(* Notices                                                                     *)

LEMMA ListedAll ==
  ASSUME NEW s \in Seq(Path), NEW f
  PROVE  Listed(s, f, Len(s)) <=> \A x \in ToSet(s) : Mirrors(f, x)
BY DEF Listed, ToSet

LEMMA NoticedSignals ==
  ASSUME NEW f \in Peer, NEW x \in Path, NEW z \in Path
  PROVE  /\ Noticed(f, "created", <<x>>).signals[z] = f.signals[z] + (IF z = x THEN 1 ELSE 0)
         /\ Noticed(f, "removed", <<x>>).signals[z] =
              IF Mirrors(f, x) /\ z = x THEN f.signals[z] - 1 ELSE f.signals[z]
<1>1. f.signals \in [Path -> Nat] /\ f.signals[z] \in Nat
  BY DEF Peer
<1>2. DOMAIN f = {"known", "port", "scanning", "current", "signals"}
  BY DEF Peer
<1>3. Noticed(f, "created", <<x>>).signals[z] = f.signals[z] + (IF z = x THEN 1 ELSE 0)
  <2>1. Noticed(f, "created", <<x>>) = [f EXCEPT !.signals = [f.signals EXCEPT ![x] = @ + 1]]
    BY DEF Noticed
  <2> QED BY <2>1, <1>1, <1>2
<1>4. Noticed(f, "removed", <<x>>).signals[z] =
        IF Mirrors(f, x) /\ z = x THEN f.signals[z] - 1 ELSE f.signals[z]
  <2>1. Noticed(f, "removed", <<x>>) =
          IF Mirrors(f, x) THEN [f EXCEPT !.signals = [f.signals EXCEPT ![x] = @ - 1]] ELSE f
    BY DEF Noticed
  <2> QED BY <2>1, <1>1, <1>2
<1> QED BY <1>3, <1>4

(* g is f after a notice of the change of s to t                                  *)
Follows(s, t, f, g) ==
  /\ Listed(s, f, Len(s)) => Listed(t, g, Len(t))
  /\ (\A x \in Path : Mirrors(f, x) => x \in ToSet(s) /\ f.signals[x] <= 1) =>
       \A x \in Path : Mirrors(g, x) => x \in ToSet(t) /\ g.signals[x] <= 1

LEMMA CreatedFollows ==
  ASSUME NEW f \in Peer, NEW s \in Seq(Path), NEW x \in Path, x \notin ToSet(s),
         NEW t, t = Append(s, x), NEW g, g = Noticed(f, "created", <<x>>)
  PROVE  Follows(s, t, f, g) /\ \A h \in Nat : Listed(s, f, h) => Listed(t, g, h)
<1>1. /\ t \in Seq(Path) /\ Len(t) = Len(s) + 1 /\ t[Len(s) + 1] = x
      /\ \A i \in 1..Len(s) : t[i] = s[i] /\ s[i] \in Path
  OBVIOUS
<1>2. \A z \in Path : f.signals[z] \in Nat /\ g.signals[z] = f.signals[z] + (IF z = x THEN 1 ELSE 0)
  <2>1. \A z \in Path : f.signals[z] \in Nat
    BY DEF Peer
  <2> QED BY <2>1, NoticedSignals
<1>3. \A z \in Path : (Mirrors(f, z) => Mirrors(g, z)) /\ (Mirrors(g, z) => z = x \/ Mirrors(f, z))
                      /\ Mirrors(g, x)
  BY <1>2 DEF Mirrors
<1>4. ToSet(s) \subseteq ToSet(t) /\ x \in ToSet(t)
  BY <1>1 DEF ToSet
<1>5. ASSUME NEW h \in Nat, Listed(s, f, h)
      PROVE  Listed(t, g, h)
  <2>1. SUFFICES ASSUME NEW i \in 1..Len(t), i <= h
                 PROVE  Mirrors(g, t[i])
    BY DEF Listed
  <2>2. CASE i = Len(s) + 1
    BY <2>2, <1>1, <1>3
  <2>3. CASE i \in 1..Len(s)
    BY <2>1, <2>3, <1>1, <1>3, <1>5 DEF Listed
  <2> QED BY <2>2, <2>3, <1>1
<1>6. Listed(s, f, Len(s)) => Listed(t, g, Len(t))
  <2> HAVE Listed(s, f, Len(s))
  <2>1. SUFFICES ASSUME NEW i \in 1..Len(t)
                 PROVE  Mirrors(g, t[i])
    BY DEF Listed
  <2>2. CASE i = Len(s) + 1
    BY <2>2, <1>1, <1>3
  <2>3. CASE i \in 1..Len(s)
    <3>1. Mirrors(f, s[i])
      BY <2>3 DEF Listed
    <3> QED BY <2>3, <3>1, <1>1, <1>3
  <2> QED BY <2>2, <2>3, <1>1
<1>7. ASSUME \A z \in Path : Mirrors(f, z) => z \in ToSet(s) /\ f.signals[z] <= 1,
             NEW z \in Path, Mirrors(g, z)
      PROVE  z \in ToSet(t) /\ g.signals[z] <= 1
  <2>1. CASE z = x
    <3>1. ~Mirrors(f, x)
      BY <1>7
    <3> QED BY <2>1, <3>1, <1>2, <1>4 DEF Mirrors
  <2>2. CASE z # x
    BY <2>2, <1>2, <1>3, <1>4, <1>7
  <2> QED BY <2>1, <2>2
<1> QED BY <1>5, <1>6, <1>7 DEF Follows

LEMMA RemovedFollows ==
  ASSUME NEW f \in Peer, NEW s \in Seq(Path), IsInjective(s), NEW x \in ToSet(s),
         NEW t, t = Without(s, x), NEW g, g = Noticed(f, "removed", <<x>>)
  PROVE  Follows(s, t, f, g)
<1>1. t \in Seq(Path) /\ ToSet(t) = ToSet(s) \ {x}
  BY WithoutShape
<1>2. x \in Path /\ ToSet(s) \subseteq Path
  BY DEF ToSet
<1>3. \A z \in Path : f.signals[z] \in Nat /\ g.signals[z] =
                        IF Mirrors(f, x) /\ z = x THEN f.signals[z] - 1 ELSE f.signals[z]
  <2>1. \A z \in Path : f.signals[z] \in Nat
    BY DEF Peer
  <2> QED BY <2>1, <1>2, NoticedSignals
<1>4. Listed(s, f, Len(s)) => Listed(t, g, Len(t))
  <2> HAVE Listed(s, f, Len(s))
  <2>1. \A z \in ToSet(s) : Mirrors(f, z)
    BY ListedAll
  <2>2. \A z \in ToSet(t) : Mirrors(g, z)
    BY <2>1, <1>1, <1>2, <1>3 DEF Mirrors
  <2> QED BY <2>2, <1>1, ListedAll
<1>5. ASSUME \A z \in Path : Mirrors(f, z) => z \in ToSet(s) /\ f.signals[z] <= 1,
             NEW z \in Path, Mirrors(g, z)
      PROVE  z \in ToSet(t) /\ g.signals[z] <= 1
  <2>1. Mirrors(f, z)
    BY <1>2, <1>3, <1>5 DEF Mirrors
  <2>2. z \in ToSet(s) /\ f.signals[z] <= 1
    BY <2>1, <1>5
  <2>3. z # x
    BY <2>2, <1>2, <1>3, <1>5 DEF Mirrors
  <2> QED BY <2>2, <2>3, <1>1, <1>3
<1> QED BY <1>4, <1>5 DEF Follows

LEMMA RenamedSignals ==
  ASSUME NEW f \in Peer, NEW x \in Path, NEW y \in Path, x # y,
         NEW g, g = Noticed(f, "renamed", <<x, y>>)
  PROVE  /\ \A z \in Path : f.signals[z] \in Nat /\ (z # x /\ z # y => g.signals[z] = f.signals[z])
         /\ g.signals[y] = f.signals[y] + (IF Mirrors(f, x) THEN 1 ELSE 0)
         /\ g.signals[x] = f.signals[x] - (IF Mirrors(f, x) THEN 1 ELSE 0)
<1>1. \A z \in Path : f.signals[z] \in Nat
  BY DEF Peer
<1> DEFINE h == [u \in Path |-> f.signals[u] + (IF u = y THEN 1 ELSE 0) - (IF u = x THEN 1 ELSE 0)]
<1>2. ASSUME NEW z \in Path
      PROVE  g.signals[z] = IF Mirrors(f, x) THEN h[z] ELSE f.signals[z]
  <2> HIDE DEF h
  <2>1. g = IF Mirrors(f, x) THEN [f EXCEPT !.signals = h] ELSE f
    BY DEF Noticed, h
  <2>2. DOMAIN f = {"known", "port", "scanning", "current", "signals"}
    BY DEF Peer
  <2> QED BY <2>1, <2>2
<1>6. /\ \A z \in Path : z # x /\ z # y => h[z] = f.signals[z]
      /\ h[y] = f.signals[y] + 1 /\ h[x] = f.signals[x] - 1
  BY <1>1
<1> HIDE DEF h
<1>3. ASSUME NEW z \in Path, z # x, z # y
      PROVE  g.signals[z] = f.signals[z]
  BY <1>2, <1>3, <1>6
<1>4. g.signals[y] = f.signals[y] + (IF Mirrors(f, x) THEN 1 ELSE 0)
  BY <1>1, <1>2, <1>6
<1>5. g.signals[x] = f.signals[x] - (IF Mirrors(f, x) THEN 1 ELSE 0)
  BY <1>1, <1>2, <1>6
<1> QED BY <1>1, <1>3, <1>4, <1>5

LEMMA RenamedFollows ==
  ASSUME NEW f \in Peer, NEW s \in Seq(Path), NEW x \in ToSet(s), NEW y \in Path, y \notin ToSet(s),
         NEW t, t = [i \in DOMAIN s |-> IF s[i] = x THEN y ELSE s[i]],
         NEW g, g = Noticed(f, "renamed", <<x, y>>)
  PROVE  Follows(s, t, f, g) /\ \A h \in Nat : Listed(s, f, h) => Listed(t, g, h)
<1>1. /\ t \in Seq(Path) /\ Len(t) = Len(s)
      /\ \A i \in 1..Len(s) : t[i] = (IF s[i] = x THEN y ELSE s[i]) /\ s[i] \in Path
  OBVIOUS
<1>2. x \in Path /\ ToSet(s) \subseteq Path /\ x # y
  BY DEF ToSet
<1>3. /\ \A z \in Path : f.signals[z] \in Nat /\ (z # x /\ z # y => g.signals[z] = f.signals[z])
      /\ g.signals[y] = f.signals[y] + (IF Mirrors(f, x) THEN 1 ELSE 0)
      /\ g.signals[x] = f.signals[x] - (IF Mirrors(f, x) THEN 1 ELSE 0)
  BY <1>2, RenamedSignals
<1>4. /\ \A z \in Path : Mirrors(f, z) /\ z # x => Mirrors(g, z)
      /\ Mirrors(f, x) => Mirrors(g, y)
      /\ \A z \in Path : Mirrors(g, z) => Mirrors(f, z) \/ (z = y /\ Mirrors(f, x))
  <2>1. ASSUME NEW z \in Path
        PROVE  /\ Mirrors(f, z) /\ z # x => Mirrors(g, z)
               /\ z = y /\ Mirrors(f, x) => Mirrors(g, z)
               /\ Mirrors(g, z) => Mirrors(f, z) \/ (z = y /\ Mirrors(f, x))
    <3>1. CASE z = y
      BY <3>1, <1>2, <1>3 DEF Mirrors
    <3>2. CASE z = x
      BY <3>2, <1>2, <1>3 DEF Mirrors
    <3>3. CASE z # x /\ z # y
      BY <3>3, <1>3 DEF Mirrors
    <3> QED BY <3>1, <3>2, <3>3
  <2> QED BY <2>1, <1>2
<1>5. ASSUME NEW h \in Nat, Listed(s, f, h)
      PROVE  Listed(t, g, h)
  <2>1. SUFFICES ASSUME NEW i \in 1..Len(s), i <= h
                 PROVE  Mirrors(g, t[i])
    BY <1>1 DEF Listed
  <2>2. Mirrors(f, s[i])
    BY <2>1, <1>5 DEF Listed
  <2> QED BY <2>2, <1>1, <1>4
<1>6. \A z \in ToSet(s) : z # x => z \in ToSet(t)
  BY <1>1 DEF ToSet
<1>7. y \in ToSet(t)
  BY <1>1 DEF ToSet
<1>8. ASSUME \A z \in Path : Mirrors(f, z) => z \in ToSet(s) /\ f.signals[z] <= 1,
             NEW z \in Path, Mirrors(g, z)
      PROVE  z \in ToSet(t) /\ g.signals[z] <= 1
  <2>1. ~Mirrors(f, y)
    BY <1>8
  <2>2. CASE z = y
    BY <2>1, <2>2, <1>2, <1>3, <1>7 DEF Mirrors
  <2>3. CASE z # y
    <3>1. Mirrors(f, z)
      BY <2>3, <1>4, <1>8
    <3>2. z \in ToSet(s) /\ f.signals[z] <= 1
      BY <3>1, <1>8
    <3>3. z # x
      BY <3>1, <3>2, <2>3, <1>2, <1>3, <1>8 DEF Mirrors
    <3> QED BY <3>2, <3>3, <2>3, <1>3, <1>6
  <2> QED BY <2>2, <2>3
<1>9. Listed(s, f, Len(s)) => Listed(t, g, Len(t))
  <2>1. Len(s) \in Nat
    OBVIOUS
  <2> QED BY <2>1, <1>1, <1>5
<1> QED BY <1>5, <1>8, <1>9 DEF Follows

(* msg tells who mirrors s, scanning or not, how to mirror t                       *)
Tells(s, t, msg, busy) ==
  \A f \in Peer :
    /\ Follows(s, t, f, Noticed(f, msg.kind, msg.paths))
    /\ busy => \A h \in Nat : Listed(s, f, h) => Listed(t, Noticed(f, msg.kind, msg.paths), h)

(* a notice to a peer that is known                                                 *)
LEMMA MailTold ==
  ASSUME NEW a, NEW b \in Nat \ {0}, NEW s, NEW t, Len(s) \in Nat, Len(t) \in Nat,
         NEW p, NEW q \in Seq(Message), NEW r, NEW w, Mail(a, b, s, p, q, r, TRUE, w),
         NEW msg, WellFormed(msg), msg.from = b, msg.to = a, msg.kind \in Notice,
         Tells(s, t, msg, p.scanning)
  PROVE  \E W : Mail(a, b, t, p, q \o <<msg>>, r, TRUE, W)
<1> DEFINE f == Final(w)
           g == Effect(a, f, msg)
           e == Noticed(f, msg.kind, msg.paths)
<1>1. IsTrail(a, p, q, w) /\ InOrder(b, q, w) /\ Exact(b, s, TRUE, w)
  BY DEF Mail
<1>2. f \in Peer /\ Len(w) \in 1..Len(w) /\ w[1] = p
  BY <1>1, TrailShape
<1>3. f.known => f.port \in 1..b
  BY <1>1, <1>2 DEF InOrder, Final
<1>4. b = 1 => \A x \in Path : f.signals[x] <= 1
  BY <1>1, <1>2 DEF Exact, Final
<1>5. b = 1 => \A x \in Path : Mirrors(f, x) => f.known /\ x \in ToSet(s)
  BY <1>1, Zenon DEF Exact
<1> HIDE DEF f
<1>6. Follows(s, t, f, e)
  BY <1>2 DEF Tells
<1>7. p.scanning => \A h \in Nat : Listed(s, f, h) => Listed(t, e, h)
  BY <1>2 DEF Tells
<1>8. Cur(f, b) => g = e /\ g.scanning = f.scanning
  <2> HAVE Cur(f, b)
  <2>1. msg.kind # "hello" /\ msg.kind # "batch" /\ msg.kind # "entry" /\ msg.kind # "done"
    BY DEF Notice
  <2>2. g = Heard(f, msg)
    BY <2>1 DEF Effect
  <2>3. Heard(f, msg) = e
    BY <2>1 DEF Heard
  <2>4. msg.kind \notin {"batch", "done"} => Heard(f, msg).scanning = f.scanning
    BY <1>2, HeardShape
  <2> HIDE DEF g, e
  <2> QED BY <2>1, <2>2, <2>3, <2>4
<1>9. ~Cur(f, b) => g = f
  <2>1. msg.kind # "hello"
    BY DEF Notice
  <2> QED BY <2>1 DEF Effect
<1>10. g \in Peer /\ (f.known => g.known)
  BY <1>2, EffectShape
<1>11. ~Ends(a, b, msg)
  BY DEF Ends, Notice
<1> HIDE DEF g, e
<1>12. Keeps(b, s, t, w, g)
  <2>1. Cur(f, b) /\ p.scanning => \A h \in Nat : Listed(s, f, h) => Listed(t, g, h)
    BY <1>7, <1>8
  <2>2. Cur(f, b) /\ Listed(s, f, Len(s)) => Listed(t, g, Len(t))
    BY <1>6, <1>8 DEF Follows
  <2> QED BY <2>1, <2>2, <1>2 DEF Keeps, f
<1>13. Exactly(b, t, TRUE, w, <<g>>)
  <2> DEFINE v == <<g>>
  <2>1. Len(v) = 1 /\ v[1] = g
    OBVIOUS
  <2> HIDE DEF v
  <2>2. ASSUME b = 1, NEW x \in Path
        PROVE  (Mirrors(g, x) => g.known /\ x \in ToSet(t)) /\ g.signals[x] <= 1
    <3>1. \A y \in Path : Mirrors(f, y) => y \in ToSet(s) /\ f.signals[y] <= 1
      BY <1>4, <1>5, <2>2
    <3>2. CASE Cur(f, b)
      <4>1. Mirrors(g, x) => x \in ToSet(t) /\ g.signals[x] <= 1
        BY <1>6, <1>8, <3>1, <3>2 DEF Follows
      <4>2. g.signals[x] \in Nat
        BY <1>10 DEF Peer
      <4>3. g.known
        BY <1>10, <3>2 DEF Cur
      <4> QED BY <4>1, <4>2, <4>3 DEF Mirrors
    <3>3. CASE ~Cur(f, b)
      <4>1. ~f.known
        BY <1>3, <2>2, <3>3 DEF Cur
      <4> QED BY <4>1, <3>3, <1>4, <1>5, <1>9, <2>2
    <3> QED BY <3>2, <3>3
  <2>3. Exactly(b, t, TRUE, w, v)
    BY <2>1, <2>2 DEF Exactly
  <2> QED BY <2>3 DEF v
<1>14. ~Cur(f, b) /\ Cur(g, b) => g.scanning
  BY <1>9
<1>15. g = Effect(a, Final(w), msg)
  BY DEF f, g
<1>16. Mail(a, b, t, p, q \o <<msg>>, r, TRUE, w \o <<g>>)
  BY <1>11, <1>12, <1>13, <1>14, <1>15, MailOne DEF f
<1> QED BY <1>16

LEMMA CreatedTells ==
  ASSUME NEW s \in Seq(Path), NEW x \in Path, x \notin ToSet(s), NEW msg,
         msg.kind = "created", msg.paths = <<x>>, NEW busy
  PROVE  Tells(s, Append(s, x), msg, busy)
<1> SUFFICES ASSUME NEW f \in Peer
             PROVE  /\ Follows(s, Append(s, x), f, Noticed(f, msg.kind, msg.paths))
                    /\ \A h \in Nat : Listed(s, f, h) => Listed(Append(s, x), Noticed(f, msg.kind, msg.paths), h)
  BY DEF Tells
<1>1. PICK g : g = Noticed(f, "created", <<x>>)
  OBVIOUS
<1>2. PICK u : u = Append(s, x)
  OBVIOUS
<1>3. Follows(s, u, f, g)
  BY <1>1, <1>2, CreatedFollows
<1>5. ASSUME NEW h \in Nat, Listed(s, f, h)
      PROVE  Listed(u, g, h)
  BY <1>1, <1>2, <1>5, CreatedFollows, ZenonT(30)
<1> QED BY <1>1, <1>2, <1>3, <1>5

LEMMA RemovedTells ==
  ASSUME NEW s \in Seq(Path), IsInjective(s), NEW x \in ToSet(s), NEW msg,
         msg.kind = "removed", msg.paths = <<x>>
  PROVE  Tells(s, Without(s, x), msg, FALSE)
<1> SUFFICES ASSUME NEW f \in Peer
             PROVE  Follows(s, Without(s, x), f, Noticed(f, msg.kind, msg.paths))
  BY DEF Tells
<1>1. PICK g : g = Noticed(f, "removed", <<x>>)
  OBVIOUS
<1>2. PICK u : u = Without(s, x)
  OBVIOUS
<1>3. Follows(s, u, f, g)
  BY <1>1, <1>2, RemovedFollows
<1> QED BY <1>1, <1>2, <1>3

Renamed(s, x, y) == [i \in DOMAIN s |-> IF s[i] = x THEN y ELSE s[i]]

LEMMA RenamedTells ==
  ASSUME NEW s \in Seq(Path), NEW x \in ToSet(s), NEW y \in Path, y \notin ToSet(s), NEW msg,
         msg.kind = "renamed", msg.paths = <<x, y>>, NEW busy
  PROVE  Tells(s, Renamed(s, x, y), msg, busy)
<1> SUFFICES ASSUME NEW f \in Peer
             PROVE  /\ Follows(s, Renamed(s, x, y), f, Noticed(f, msg.kind, msg.paths))
                    /\ \A h \in Nat : Listed(s, f, h) => Listed(Renamed(s, x, y), Noticed(f, msg.kind, msg.paths), h)
  BY DEF Tells
<1>1. PICK g : g = Noticed(f, "renamed", <<x, y>>)
  OBVIOUS
<1>2. PICK u : u = [i \in DOMAIN s |-> IF s[i] = x THEN y ELSE s[i]]
  OBVIOUS
<1>3. Follows(s, u, f, g)
  BY <1>1, <1>2, RenamedFollows
<1>5. ASSUME NEW h \in Nat, Listed(s, f, h)
      PROVE  Listed(u, g, h)
  BY <1>1, <1>2, <1>5, RenamedFollows
<1>4. u = Renamed(s, x, y)
  BY <1>2 DEF Renamed
<1> QED BY <1>1, <1>3, <1>4, <1>5

LEMMA RenamedShape ==
  ASSUME NEW s \in Seq(Path), IsInjective(s), NEW x \in ToSet(s), NEW y \in Path, y \notin ToSet(s)
  PROVE  Renamed(s, x, y) \in Seq(Path) /\ IsInjective(Renamed(s, x, y))
<1> DEFINE t == Renamed(s, x, y)
<1>1. DOMAIN s = 1..Len(s) /\ DOMAIN t = DOMAIN s /\ \A i \in DOMAIN s : t[i] = IF s[i] = x THEN y ELSE s[i]
  BY DEF Renamed
<1>2. t \in Seq(Path)
  BY DEF Renamed
<1>3. \A i \in DOMAIN s : s[i] # y
  BY DEF ToSet
<1>4. \A i, j \in DOMAIN s : s[i] = s[j] => i = j
  BY DEF IsInjective
<1> HIDE DEF t
<1>5. \A i, j \in DOMAIN t : t[i] = t[j] => i = j
  BY <1>1, <1>3, <1>4
<1>6. IsInjective(t)
  BY <1>5 DEF IsInjective
<1> QED BY <1>2, <1>6 DEF t

-----------------------------------------------------------------------------
(* Answers                                                                     *)

LEMMA MailEnd ==
  ASSUME NEW a, NEW b \in Nat \ {0}, NEW s, Len(s) \in Nat,
         NEW p, NEW q \in Seq(Message), NEW r, NEW k, NEW w, Mail(a, b, s, p, q, r, k, w),
         NEW z \in Seq(Message), z # <<>>, NEW v, Extends(a, Final(w), z, v),
         Cur(w[1], b), w[1].scanning,
         \A i \in 1..Len(q) : ~Ends(a, b, q[i]),
         \A i \in 1..Len(r) : ~Asks(a, b, r[i]),
         \A j \in 1..Len(z) : z[j].from = b /\ Cur(v[j], b) /\ (Ends(a, b, z[j]) <=> j = Len(z)),
         z[Len(z)].kind = "batch" /\ z[Len(z)].arg = 1 =>
           v[Len(v)].scanning /\ Listed(s, v[Len(v)], v[Len(v)].current),
         ~v[Len(v)].scanning => Listed(s, v[Len(v)], Len(s)),
         Exactly(b, s, k, w, v)
  PROVE  Mail(a, b, s, p, q \o z, r, k, w \o v)
<1> DEFINE Q == q \o z
           W == w \o v
           g == v[Len(v)]
<1>1. /\ IsTrail(a, p, q, w) /\ InOrder(b, q, w) /\ Steady(a, b, q, w) /\ Exact(b, s, k, w)
  BY DEF Mail
<1>2. IsTrail(a, p, Q, W) /\ Posted(q, z, w, v, Q, W)
  BY <1>1, Extended
<1> HIDE DEF Q, W
<1>3. /\ Len(q) \in Nat /\ Len(z) \in Nat \ {0} /\ Len(v) = Len(z)
      /\ Len(Q) = Len(q) + Len(z) /\ Final(W) = g /\ W[1] = w[1]
      /\ \A j \in 1..Len(Q) :
           \/ j <= Len(q) /\ Q[j] = q[j]
           \/ j > Len(q) /\ j - Len(q) \in 1..Len(z) /\ Q[j] = z[j - Len(q)]
  BY <1>2 DEF Posted
<1>4. Continues(a, b, Final(w), z, v)
  <2> HIDE DEF g
  <2>1. g = v[Len(z)] /\ Len(z) \in 1..Len(z) /\ Ends(a, b, z[Len(z)]) /\ Cur(g, b)
    BY <1>3 DEF g
  <2>2. ASSUME NEW j \in 1..Len(z), \A i \in j + 1..Len(z) : ~Ends(a, b, z[i])
        PROVE  g.current = v[j].current /\ g.scanning = v[j].scanning
    <3>1. j = Len(z)
      BY <2>1, <2>2
    <3> QED BY <2>1, <3>1
  <2>3. \A j \in 1..Len(z) : z[j].from = b /\ (v[j].known => v[j].port \in 1..b)
    BY DEF Cur
  <2> QED BY <2>1, <2>2, <2>3 DEF Continues, g
<1>5. InOrder(b, Q, W)
  BY <1>1, <1>2, <1>4, PostInOrder
<1>6. Steady(a, b, Q, W)
  BY <1>1, <1>2, <1>4, PostSteady
<1>7. Exact(b, s, k, W)
  BY <1>1, <1>2, PostExact
<1>8. Asked(a, b, s, Q, r, W)
  BY DEF Asked
<1>9. ASSUME NEW j \in 1..Len(Q), Ends(a, b, Q[j])
      PROVE  j = Len(Q) /\ Q[j] = z[Len(z)]
  <2>1. CASE j <= Len(q)
    BY <2>1, <1>3, <1>9, SMTT(20)
  <2>2. CASE ~(j <= Len(q))
    <3>1. j - Len(q) \in 1..Len(z) /\ Q[j] = z[j - Len(q)]
      BY <2>2, <1>3
    <3>2. j - Len(q) = Len(z)
      BY <3>1, <1>9
    <3> QED BY <3>1, <3>2, <1>3
  <2> QED BY <2>1, <2>2
<1>10. Answering(a, b, s, Q, r, W)
  <2> HIDE DEF g
  <2>1. SUFFICES ASSUME NEW i \in 1..Len(Q), Ends(a, b, Q[i])
                 PROVE  /\ Cur(w[1], b) /\ w[1].scanning
                        /\ \A j \in 1..Len(Q) : Ends(a, b, Q[j]) => j = i
                        /\ \A h \in 1..Len(r) : ~Asks(a, b, r[h])
                        /\ Q[i].kind = "batch" /\ Q[i].arg = 1 =>
                             g.scanning /\ Listed(s, g, g.current)
    BY <1>3 DEF Answering
  <2> QED BY <2>1, <1>9 DEF g
<1>11. Complete(b, s, W)
  BY <1>3 DEF Complete
<1>12. Mail(a, b, s, p, Q, r, k, W)
  BY <1>2, <1>5, <1>6, <1>7, <1>8, <1>10, <1>11 DEF Mail
<1> QED BY <1>12 DEF Q, W

(* a batch                                                                         *)
LEMMA BatchAnswers ==
  ASSUME NEW b \in Nat, NEW a \in Nat, NEW s \in Seq(Path), NEW f \in Peer, Cur(f, b), f.scanning,
         NEW start \in Nat, f.current = start, Listed(s, f, start),
         NEW msg, msg = Line(b, a, "batch", Batch(s, start), More(Batch(s, start))),
         NEW g, g = Effect(a, f, msg)
  PROVE  /\ g \in Peer /\ Cur(g, b)
         /\ msg.arg = 1 => g.scanning /\ Listed(s, g, g.current)
         /\ ~g.scanning => Listed(s, g, Len(s))
         /\ \A x \in Path : Mirrors(g, x) => Mirrors(f, x) \/ x \in ToSet(s)
         /\ \A x \in Path : f.signals[x] <= 1 => g.signals[x] <= 1
<1> DEFINE xs == Batch(s, start)
<1>1. BatchSize \in Nat \ {0}
  BY OscPeersAssumption
<1>2. /\ xs \in Seq(Path) /\ Len(xs) <= BatchSize
      /\ Len(xs) # BatchSize => Len(s) <= start + Len(xs)
      /\ \A i \in 1..Len(xs) : start + i \in 1..Len(s) /\ xs[i] = s[start + i]
  BY BatchShape
<1> HIDE DEF xs
<1>3. /\ msg.kind = "batch" /\ msg.to = a /\ msg.from = b /\ msg.paths = xs
      /\ msg.arg = IF Len(xs) = BatchSize THEN 1 ELSE 0
  BY DEF Line, More, xs
<1>4. msg \in Message
  <2>1. msg.arg \in Int /\ "batch" \in Kind
    BY <1>3 DEF Kind
  <2>2. PICK arg \in Int : arg = More(xs)
    BY DEF More
  <2>3. msg = Line(b, a, "batch", xs, arg)
    BY <2>2 DEF xs
  <2> QED BY <2>1, <2>3, <1>2, LineShape
<1>5. g = Batched(f, msg)
  BY <1>3 DEF Effect, Heard
<1>6. /\ g \in Peer /\ g.known = f.known /\ g.port = f.port
      /\ g.scanning = (f.scanning /\ msg.arg # 0)
      /\ g.current = IF msg.arg = 0 THEN f.current ELSE f.current + Len(msg.paths)
      /\ g.signals = Mirrored(f, msg.paths).signals
  <2> DEFINE e == Batched(f, msg)
  <2>1. /\ e \in Peer /\ e.known = f.known /\ e.port = f.port
        /\ e.scanning = (f.scanning /\ msg.arg # 0)
        /\ e.current = IF msg.arg = 0 THEN f.current ELSE f.current + Len(msg.paths)
        /\ e.signals = Mirrored(f, msg.paths).signals
    BY <1>4, BatchedShape
  <2> QED BY <2>1, <1>5, Zenon
<1>7. \A x \in Path : f.signals[x] \in Nat /\ g.signals[x] =
                        IF x \in ToSet(xs) /\ f.signals[x] = 0 THEN 1 ELSE f.signals[x]
  <2>1. \A x \in Path : f.signals[x] \in Nat
    BY DEF Peer
  <2>2. \A x \in Path : Mirrored(f, xs).signals[x] =
           IF f.scanning /\ x \in ToSet(xs) /\ f.signals[x] = 0 THEN 1 ELSE f.signals[x]
    BY MirroredShape
  <2> QED BY <2>1, <2>2, <1>3, <1>6
<1>8. \A x \in Path : Mirrors(f, x) \/ x \in ToSet(xs) => Mirrors(g, x)
  BY <1>7 DEF Mirrors
<1>9. \A x \in Path : Mirrors(g, x) => Mirrors(f, x) \/ x \in ToSet(xs)
  BY <1>7 DEF Mirrors
<1>10. ToSet(xs) \subseteq ToSet(s)
  <2>1. DOMAIN xs = 1..Len(xs) /\ DOMAIN s = 1..Len(s)
    BY <1>2
  <2>2. \A i \in 1..Len(xs) : \E j \in 1..Len(s) : xs[i] = s[j]
    BY <1>2
  <2> QED BY <2>1, <2>2 DEF ToSet
<1>11. ASSUME NEW i \in 1..Len(s), i <= start + Len(xs)
       PROVE  Mirrors(g, s[i])
  <2>1. CASE i <= start
    BY <2>1, <1>8 DEF Listed
  <2>2. CASE ~(i <= start)
    <3>1. i - start \in 1..Len(xs) /\ start + (i - start) = i
      BY <2>2, <1>2, <1>11
    <3>2. xs[i - start] = s[i]
      BY <3>1, <1>2
    <3>3. s[i] \in ToSet(xs)
      <4>1. DOMAIN xs = 1..Len(xs)
        BY <1>2
      <4> QED BY <3>1, <3>2, <4>1 DEF ToSet
    <3> QED BY <3>3, <1>8
  <2> QED BY <2>1, <2>2
<1>12. Cur(g, b) /\ f.scanning /\ f.current = start
  BY <1>6 DEF Cur
<1>13. \A x \in Path : Mirrors(g, x) => Mirrors(f, x) \/ x \in ToSet(s)
  BY <1>9, <1>10
<1>14. \A x \in Path : f.signals[x] <= 1 => g.signals[x] <= 1
  BY <1>7
<1>15. ASSUME msg.arg = 1
       PROVE  g.scanning /\ Listed(s, g, g.current)
  <2>0. msg.arg # 0
    BY <1>15
  <2>1. g.scanning
    BY <2>0, <1>6, <1>12, Zenon
  <2>2. g.current = start + Len(xs)
    BY <1>3, <1>6, <1>12, <1>15
  <2> QED BY <2>1, <2>2, <1>11 DEF Listed
<1>16. ASSUME ~g.scanning
       PROVE  Listed(s, g, Len(s))
  <2>1. msg.arg = 0
    BY <1>6, <1>12, <1>16
  <2>2. Len(xs) # BatchSize
    BY <2>1, <1>3
  <2>3. Len(s) <= start + Len(xs) /\ Len(s) \in Nat
    BY <2>2, <1>1, <1>2
  <2> QED BY <2>3, <1>2, <1>11 DEF Listed
<1> QED BY <1>6, <1>12, <1>13, <1>14, <1>15, <1>16

(* f, that scans, after the first i signals of an old listing                        *)
Before(s, i, x) == \E h \in 1..i : s[h] = x

Upto(f, s, i) ==
  [f EXCEPT !.signals = [x \in Path |->
     IF f.signals[x] = 0 /\ Before(s, i, x) THEN 1 ELSE f.signals[x]]]

LEMMA UptoShape ==
  ASSUME NEW f \in Peer, NEW s \in Seq(Path), NEW i \in 0..Len(s)
  PROVE  /\ Upto(f, s, i) \in Peer
         /\ Upto(f, s, i).known = f.known /\ Upto(f, s, i).port = f.port
         /\ Upto(f, s, i).scanning = f.scanning
         /\ \A x \in Path : Upto(f, s, i).signals[x] =
              IF f.signals[x] = 0 /\ Before(s, i, x) THEN 1 ELSE f.signals[x]
         /\ i = 0 => Upto(f, s, i) = f
<1> DEFINE g == [x \in Path |->
                   IF f.signals[x] = 0 /\ Before(s, i, x) THEN 1 ELSE f.signals[x]]
<1>1. f.signals \in [Path -> Nat] /\ \A x \in Path : f.signals[x] \in Nat
  BY DEF Peer
<1>2. g \in [Path -> Nat]
  BY <1>1
<1>3. \A x \in Path : g[x] =
        IF f.signals[x] = 0 /\ Before(s, i, x) THEN 1 ELSE f.signals[x]
  OBVIOUS
<1>4. i = 0 => g = f.signals
  BY <1>1 DEF Before
<1>5. Upto(f, s, i) = [f EXCEPT !.signals = g]
  BY DEF Upto
<1> HIDE DEF g
<1>6. PICK e : e = Upto(f, s, i)
  OBVIOUS
<1>7. /\ e \in Peer /\ e.known = f.known /\ e.port = f.port /\ e.scanning = f.scanning
      /\ e.signals = g
  BY <1>2, <1>5, <1>6 DEF Peer
<1>8. i = 0 => e = f
  BY <1>4, <1>5, <1>6 DEF Peer
<1> QED BY <1>3, <1>6, <1>7, <1>8

LEMMA UptoNext ==
  ASSUME NEW f \in Peer, f.scanning, NEW s \in Seq(Path), NEW i \in 1..Len(s)
  PROVE  Mirrored(Upto(f, s, i - 1), <<s[i]>>) = Upto(f, s, i)
<1>1. PICK j \in 0..Len(s) : j = i - 1
  OBVIOUS
<1>2. PICK p : p = Upto(f, s, j)
  OBVIOUS
<1>3. /\ p \in Peer /\ p.scanning
      /\ \A x \in Path : p.signals[x] =
           IF f.signals[x] = 0 /\ Before(s, j, x) THEN 1 ELSE f.signals[x]
  BY <1>2, UptoShape
<1>4. \A x \in Path : f.signals[x] \in Nat
  BY DEF Peer
<1> DEFINE l == [x \in Path |-> IF x \in ToSet(<<s[i]>>) /\ ~Mirrors(p, x) THEN 1 ELSE p.signals[x]]
           g == [x \in Path |->
                   IF f.signals[x] = 0 /\ Before(s, i, x) THEN 1 ELSE f.signals[x]]
<1>5. ToSet(<<s[i]>>) = {s[i]}
  BY DEF ToSet
<1>6. ASSUME NEW x \in Path
      PROVE  (IF x \in ToSet(<<s[i]>>) /\ ~Mirrors(p, x) THEN 1 ELSE p.signals[x]) =
             (IF f.signals[x] = 0 /\ Before(s, i, x) THEN 1 ELSE f.signals[x])
  <2>1. Before(s, i, x) <=> Before(s, j, x) \/ s[i] = x
    <3>1. \A h : h \in 1..i <=> h \in 1..j \/ h = i
      BY <1>1
    <3> QED BY <3>1 DEF Before
  <2>2. p.signals[x] = IF f.signals[x] = 0 /\ Before(s, j, x) THEN 1 ELSE f.signals[x]
    BY <1>3
  <2>3. f.signals[x] \in Nat
    BY <1>4
  <2>4. CASE Before(s, j, x)
    BY <2>1, <2>2, <2>3, <2>4, <1>5 DEF Mirrors
  <2>5. CASE ~Before(s, j, x)
    BY <2>1, <2>2, <2>3, <2>5, <1>5 DEF Mirrors
  <2> QED BY <2>4, <2>5
<1>7. l = g
  BY <1>6
<1>8. Mirrored(p, <<s[i]>>) = [p EXCEPT !.signals = l]
  BY <1>3 DEF Mirrored
<1>9. p = [f EXCEPT !.signals = p.signals]
  BY <1>2 DEF Upto, Peer
<1>10. Upto(f, s, i) = [f EXCEPT !.signals = g]
  BY DEF Upto
<1> HIDE DEF l, g
<1>11. [p EXCEPT !.signals = g] = [f EXCEPT !.signals = g]
  BY <1>9 DEF Peer
<1> QED BY <1>1, <1>2, <1>7, <1>8, <1>10, <1>11

LEMMA OldListing ==
  ASSUME NEW b \in Nat, NEW a \in Nat, NEW s \in Seq(Path)
  PROVE  /\ Listing(b, s, a, Unbatched) \in Seq(Message)
         /\ Len(Listing(b, s, a, Unbatched)) = Len(s) + 1
         /\ \A i \in 1..Len(s) :
              Listing(b, s, a, Unbatched)[i] = Line(b, a, "entry", <<s[i]>>, 0)
         /\ Listing(b, s, a, Unbatched)[Len(s) + 1] = Line(b, a, "done", <<>>, 0)
<1> DEFINE z == [k \in DOMAIN s |-> Line(b, a, "entry", <<s[k]>>, 0)]
           d == Line(b, a, "done", <<>>, 0)
<1>1. ASSUME NEW k \in 1..Len(s)
      PROVE  Line(b, a, "entry", <<s[k]>>, 0) \in Message
  <2>1. WellFormed(Line(b, a, "entry", <<s[k]>>, 0))
    BY ListedWell
  <2> QED BY <2>1 DEF WellFormed
<1>2. d \in Message
  <2>1. WellFormed(d)
    BY ListedWell
  <2> QED BY <2>1 DEF WellFormed
<1>3. z \in Seq(Message) /\ Len(z) = Len(s) /\ \A k \in 1..Len(s) : z[k] = Line(b, a, "entry", <<s[k]>>, 0)
  <2>1. DOMAIN s = 1..Len(s) /\ Len(s) \in Nat
    OBVIOUS
  <2>2. z \in [1..Len(s) -> Message]
    BY <1>1, <2>1
  <2>3. \A k \in 1..Len(s) : z[k] = Line(b, a, "entry", <<s[k]>>, 0)
    BY <2>1
  <2> HIDE DEF z
  <2> QED BY <2>1, <2>2, <2>3
<1> HIDE DEF z, d
<1>4. PICK l : l = <<d>>
  OBVIOUS
<1>5. l \in Seq(Message) /\ Len(l) = 1 /\ l[1] = d
  BY <1>2, <1>4
<1>6. /\ z \o l \in Seq(Message) /\ Len(z \o l) = Len(z) + Len(l)
      /\ \A i \in 1..Len(z) + Len(l) : (z \o l)[i] = IF i <= Len(z) THEN z[i] ELSE l[i - Len(z)]
  BY <1>3, <1>5, ConcatShape
<1>7. Listing(b, s, a, Unbatched) = z \o l
  BY <1>4 DEF Listing, z, d
<1>8. Len(s) \in Nat
  OBVIOUS
<1>9. \A i \in 1..Len(s) : (z \o l)[i] = z[i]
  BY <1>3, <1>5, <1>6, <1>8
<1>10. (z \o l)[Len(s) + 1] = d
  BY <1>3, <1>5, <1>6, <1>8
<1>11. Len(z \o l) = Len(s) + 1
  BY <1>3, <1>5, <1>6
<1> QED BY <1>3, <1>6, <1>7, <1>9, <1>10, <1>11 DEF d

(* v continues f over an old listing z of s                                          *)
Answers(a, b, s, f, z, v) ==
  /\ Extends(a, f, z, v)
  /\ \A j \in 1..Len(z) : z[j].from = b /\ Cur(v[j], b) /\ (Ends(a, b, z[j]) <=> j = Len(z))
  /\ z[Len(z)].kind = "done"
  /\ Listed(s, v[Len(v)], Len(s))
  /\ \A x \in Path : Mirrors(v[Len(v)], x) => Mirrors(f, x) \/ x \in ToSet(s)
  /\ \A j \in 1..Len(v) : \A x \in Path : f.signals[x] <= 1 => v[j].signals[x] <= 1

LEMMA OldAnswers ==
  ASSUME NEW b \in Nat, NEW a \in Nat, NEW s \in Seq(Path), NEW f \in Peer, Cur(f, b), f.scanning,
         NEW z \in Seq(Message), Len(z) = Len(s) + 1,
         \A i \in 1..Len(s) : z[i] = Line(b, a, "entry", <<s[i]>>, 0),
         z[Len(s) + 1] = Line(b, a, "done", <<>>, 0)
  PROVE  \E v : Answers(a, b, s, f, z, v)
<1> DEFINE L == Len(s)
           u == [i \in 0..L |-> Upto(f, s, i)]
           e == [u[L] EXCEPT !.scanning = FALSE]
           v == [i \in 1..L + 1 |-> IF i <= L THEN u[i] ELSE e]
<1>1. L \in Nat /\ DOMAIN s = 1..L /\ \A i \in 1..L : s[i] \in Path
  OBVIOUS
<1>2. ASSUME NEW i \in 0..L
      PROVE  /\ u[i] \in Peer /\ u[i].known = f.known /\ u[i].port = f.port /\ u[i].scanning
             /\ \A x \in Path : u[i].signals[x] =
                  IF f.signals[x] = 0 /\ Before(s, i, x) THEN 1 ELSE f.signals[x]
  <2>1. u[i] = Upto(f, s, i)
    OBVIOUS
  <2> HIDE DEF u
  <2>2. /\ Upto(f, s, i) \in Peer
        /\ Upto(f, s, i).known = f.known /\ Upto(f, s, i).port = f.port
        /\ Upto(f, s, i).scanning = f.scanning
        /\ \A x \in Path : Upto(f, s, i).signals[x] =
             IF f.signals[x] = 0 /\ Before(s, i, x) THEN 1 ELSE f.signals[x]
    BY UptoShape
  <2> QED BY <2>1, <2>2
<1>3. u[0] = f
  <2>1. 0 \in 0..L
    BY <1>1
  <2>2. Upto(f, s, 0) = f
    BY <2>1, UptoShape
  <2> QED BY <2>1, <2>2
<1>4. ASSUME NEW i \in 1..L
      PROVE  Mirrored(u[i - 1], <<s[i]>>) = u[i]
  <2>1. i \in 0..L /\ i - 1 \in 0..L
    BY <1>1
  <2>2. u[i] = Upto(f, s, i) /\ u[i - 1] = Upto(f, s, i - 1)
    BY <2>1
  <2> HIDE DEF u
  <2>3. Mirrored(Upto(f, s, i - 1), <<s[i]>>) = Upto(f, s, i)
    BY UptoNext
  <2> QED BY <2>2, <2>3
<1> HIDE DEF u, L
<1>5. L \in 0..L /\ \A i \in 1..L : i \in 0..L /\ i - 1 \in 0..L
  BY <1>1
<1>6. e \in Peer /\ e.known = f.known /\ e.port = f.port /\ e.signals = u[L].signals
  BY <1>2, <1>5 DEF Peer
<1>7. e = [u[L] EXCEPT !.scanning = FALSE]
  OBVIOUS
<1> HIDE DEF e
<1>8. /\ v \in Seq(Peer) /\ Len(v) = L + 1 /\ v[L + 1] = e
      /\ \A i \in 1..L : v[i] = u[i]
  <2>1. v \in [1..L + 1 -> Peer]
    BY <1>1, <1>2, <1>6
  <2>2. v[L + 1] = e /\ \A i \in 1..L : v[i] = u[i]
    BY <1>1
  <2> HIDE DEF v
  <2> QED BY <2>1, <2>2, <1>1
<1> HIDE DEF v
<1>9. /\ Len(z) = L + 1 /\ z[L + 1] = Line(b, a, "done", <<>>, 0)
      /\ \A i \in 1..L : z[i] = Line(b, a, "entry", <<s[i]>>, 0)
  BY DEF L
<1>10. ASSUME NEW i \in 1..L
       PROVE  z[i].kind = "entry" /\ z[i].from = b /\ z[i].to = a /\ z[i].paths = <<s[i]>>
  <2>1. z[i] = Line(b, a, "entry", <<s[i]>>, 0)
    BY <1>9
  <2> QED BY <2>1 DEF Line
<1>11. z[L + 1].kind = "done" /\ z[L + 1].from = b /\ z[L + 1].to = a
  BY <1>9 DEF Line
<1>12. ASSUME NEW g, Cur(g, b), NEW msg, msg.to = a, msg.from = b
       PROVE  /\ msg.kind = "entry" => Effect(a, g, msg) = Mirrored(g, msg.paths)
              /\ msg.kind = "done" => Effect(a, g, msg) = [g EXCEPT !.scanning = FALSE]
  BY <1>12 DEF Effect, Heard
<1>13. \A i \in 0..L : Cur(u[i], b)
  BY <1>2 DEF Cur
<1>14. ASSUME NEW i \in 1..L + 1
       PROVE  v[i] = Effect(a, IF i = 1 THEN f ELSE v[i - 1], z[i])
  <2>1. (IF i = 1 THEN f ELSE v[i - 1]) = u[i - 1]
    <3>1. i = 1 \/ i - 1 \in 1..L
      BY <1>1
    <3> QED BY <3>1, <1>3, <1>8
  <2>2. i - 1 \in 0..L
    BY <1>1
  <2>3. CASE i \in 1..L
    <3>1. Effect(a, u[i - 1], z[i]) = Mirrored(u[i - 1], z[i].paths)
      BY <2>2, <2>3, <1>10, <1>12, <1>13
    <3>2. Mirrored(u[i - 1], z[i].paths) = u[i]
      BY <2>3, <1>4, <1>10
    <3> QED BY <2>1, <2>3, <3>1, <3>2, <1>8
  <2>4. CASE i = L + 1
    <3>1. i - 1 = L
      BY <2>4, <1>1
    <3>2. Effect(a, u[L], z[i]) = [u[L] EXCEPT !.scanning = FALSE]
      BY <2>4, <1>5, <1>11, <1>12, <1>13
    <3> QED BY <2>1, <2>4, <3>1, <3>2, <1>7, <1>8
  <2> QED BY <2>3, <2>4, <1>1
<1>15. Extends(a, f, z, v)
  BY <1>8, <1>9, <1>14 DEF Extends
<1>16. ASSUME NEW j \in 1..L + 1
       PROVE  z[j].from = b /\ Cur(v[j], b) /\ (Ends(a, b, z[j]) <=> j = L + 1)
  <2>1. CASE j \in 1..L
    BY <2>1, <1>1, <1>5, <1>8, <1>10, <1>13 DEF Ends
  <2>2. CASE j = L + 1
    BY <2>2, <1>6, <1>8, <1>11 DEF Ends, Cur
  <2> QED BY <2>1, <2>2, <1>1
<1>17. ASSUME NEW i \in 1..L
       PROVE  Mirrors(e, s[i])
  <2>1. s[i] \in Path /\ f.signals[s[i]] \in Nat
    BY <1>1 DEF Peer
  <2>2. Before(s, L, s[i])
    BY DEF Before
  <2> QED BY <2>1, <2>2, <1>2, <1>5, <1>6, SMTT(20) DEF Mirrors
<1>18. ASSUME NEW x \in Path, Mirrors(e, x)
       PROVE  Mirrors(f, x) \/ x \in ToSet(s)
  <2>1. CASE Before(s, L, x)
    BY <2>1, <1>1 DEF Before, ToSet
  <2>2. CASE ~Before(s, L, x)
    BY <2>2, <1>2, <1>5, <1>6, <1>18 DEF Mirrors
  <2> QED BY <2>1, <2>2
<1>19. ASSUME NEW j \in 1..L + 1, NEW x \in Path, f.signals[x] <= 1
       PROVE  v[j].signals[x] <= 1
  <2>1. CASE j \in 1..L
    <3>1. j \in 0..L /\ v[j] = u[j]
      BY <2>1, <1>5, <1>8
    <3>2. u[j].signals[x] = IF f.signals[x] = 0 /\ Before(s, j, x) THEN 1 ELSE f.signals[x]
      BY <3>1, <1>2
    <3> QED BY <3>1, <3>2, <1>19
  <2>2. CASE j = L + 1
    BY <2>2, <1>2, <1>5, <1>6, <1>8, <1>19
  <2> QED BY <2>1, <2>2, <1>1
<1>20. v[Len(v)] = e
  BY <1>8
<1>21. Listed(s, e, Len(s))
  BY <1>17 DEF Listed, L
<1>22. Answers(a, b, s, f, z, v)
  BY <1>8, <1>9, <1>11, <1>15, <1>16, <1>18, <1>19, <1>20, <1>21 DEF Answers
<1> QED BY <1>22

(* the answer to the one request                                                     *)
LEMMA MailAnswer ==
  ASSUME NEW a \in Nat, NEW b \in Nat \ {0}, NEW s \in Seq(Path),
         NEW p, NEW q \in Seq(Message), NEW r, NEW k, NEW w, Mail(a, b, s, p, q, r, k, w),
         NEW start \in Nat \cup {Unbatched},
         Cur(w[1], b), w[1].scanning, Final(w).scanning,
         \A i \in 1..Len(q) : ~Ends(a, b, q[i]),
         \A i \in 1..Len(r) : ~Asks(a, b, r[i]),
         start # Unbatched => Final(w).current = start /\ Listed(s, Final(w), start)
  PROVE  \E W : Mail(a, b, s, p, q \o Listing(b, s, a, start), r, k, W)
<1> DEFINE f == Final(w)
<1>1. IsTrail(a, p, q, w) /\ InOrder(b, q, w) /\ Exact(b, s, k, w)
  BY DEF Mail
<1>2. f \in Peer /\ Len(w) \in 1..Len(w) /\ 1 \in 1..Len(w) /\ Len(s) \in Nat
  <2>1. f \in Peer /\ Len(w) \in 1..Len(w) /\ 1 \in 1..Len(w)
    BY <1>1, TrailShape
  <2> QED BY <2>1
<1>3. Cur(f, b)
  BY <1>1, <1>2 DEF InOrder
<1>4. b = 1 => \A x \in Path : f.signals[x] <= 1
  BY <1>1, <1>2 DEF Exact, Final
<1>5. b = 1 => \A x \in Path : Mirrors(f, x) => x \in ToSet(s)
  BY <1>1, Zenon DEF Exact
<1>6. f.scanning
  OBVIOUS
<1> HIDE DEF f
<1>7. ASSUME NEW z \in Seq(Message), z # <<>>, NEW v, Extends(a, f, z, v),
             \A j \in 1..Len(z) : z[j].from = b /\ Cur(v[j], b) /\ (Ends(a, b, z[j]) <=> j = Len(z)),
             z[Len(z)].kind = "batch" /\ z[Len(z)].arg = 1 =>
               v[Len(v)].scanning /\ Listed(s, v[Len(v)], v[Len(v)].current),
             ~v[Len(v)].scanning => Listed(s, v[Len(v)], Len(s)),
             \A x \in Path : Mirrors(v[Len(v)], x) => Mirrors(f, x) \/ x \in ToSet(s),
             \A j \in 1..Len(v) : \A x \in Path : f.signals[x] <= 1 => v[j].signals[x] <= 1
      PROVE  Mail(a, b, s, p, q \o z, r, k, w \o v)
  <2>1. Len(v) = Len(z) /\ Len(z) \in 1..Len(z)
    BY <1>7 DEF Extends
  <2>2. v[Len(v)].known
    BY <2>1, <1>7 DEF Cur
  <2>3. Exactly(b, s, k, w, v)
    BY <2>2, <1>4, <1>5, <1>7 DEF Exactly
  <2> QED BY <2>3, <1>2, <1>7, MailEnd DEF f
<1>8. CASE start = Unbatched
  <2> DEFINE z == Listing(b, s, a, Unbatched)
  <2>1. /\ z \in Seq(Message) /\ Len(z) = Len(s) + 1
        /\ \A i \in 1..Len(s) : z[i] = Line(b, a, "entry", <<s[i]>>, 0)
        /\ z[Len(s) + 1] = Line(b, a, "done", <<>>, 0)
    BY OldListing
  <2> HIDE DEF z
  <2>2. PICK v : Answers(a, b, s, f, z, v)
    BY <2>1, <1>3, <1>2, <1>6, OldAnswers
  <2>3. z # <<>>
    BY <2>1, <1>2
  <2>4. Mail(a, b, s, p, q \o z, r, k, w \o v)
    BY <2>1, <2>2, <2>3, <1>7 DEF Answers
  <2> QED BY <2>4, <1>8 DEF z
<1>9. CASE start # Unbatched
  <2>1. start \in Nat /\ f.current = start /\ Listed(s, f, start)
    BY <1>9 DEF f
  <2>2. PICK msg : msg = Line(b, a, "batch", Batch(s, start), More(Batch(s, start)))
    OBVIOUS
  <2>3. PICK g : g = Effect(a, f, msg)
    OBVIOUS
  <2>4. /\ g \in Peer /\ Cur(g, b)
        /\ msg.arg = 1 => g.scanning /\ Listed(s, g, g.current)
        /\ ~g.scanning => Listed(s, g, Len(s))
        /\ \A x \in Path : Mirrors(g, x) => Mirrors(f, x) \/ x \in ToSet(s)
        /\ \A x \in Path : f.signals[x] <= 1 => g.signals[x] <= 1
    BY <2>1, <2>2, <2>3, <1>2, <1>3, <1>6, BatchAnswers, SMTT(20)
  <2>5. PICK z : z = <<msg>>
    OBVIOUS
  <2>6. PICK v : v = <<g>>
    OBVIOUS
  <2>7. Listing(b, s, a, start) = z
    BY <2>2, <2>5, <1>9 DEF Listing
  <2>8. msg \in Message
    <3>1. More(Batch(s, start)) \in Int /\ "batch" \in Kind /\ Batch(s, start) \in Seq(Path)
      BY <2>1, BatchShape DEF More, Kind
    <3> QED BY <2>2, <3>1, LineShape
  <2>9. /\ z \in Seq(Message) /\ z # <<>> /\ Len(z) = 1 /\ z[1] = msg
        /\ v \in Seq(Peer) /\ Len(v) = 1 /\ v[1] = g
    BY <2>4, <2>5, <2>6, <2>8
  <2>10. Extends(a, f, z, v)
    BY <2>3, <2>9 DEF Extends
  <2>11. msg.from = b /\ msg.to = a /\ msg.kind = "batch"
    BY <2>2 DEF Line
  <2>12. \A j \in 1..Len(z) : z[j].from = b /\ Cur(v[j], b) /\ (Ends(a, b, z[j]) <=> j = Len(z))
    BY <2>4, <2>9, <2>11 DEF Ends
  <2>13. v[Len(v)] = g /\ z[Len(z)] = msg
    BY <2>9
  <2>14. \A j \in 1..Len(v) : \A x \in Path : f.signals[x] <= 1 => v[j].signals[x] <= 1
    BY <2>4, <2>9
  <2>15. Mail(a, b, s, p, q \o z, r, k, w \o v)
    BY <2>4, <2>9, <2>10, <2>12, <2>13, <2>14, <1>7
  <2> QED BY <2>7, <2>15
<1> QED BY <1>8, <1>9

-----------------------------------------------------------------------------
(* Messages are taken                                                          *)

(* msg leaves the queue q                                                       *)
Leaves(q, msg, Q) == q # <<>> /\ msg = Head(q) /\ Q = Tail(q)

(* and makes e of p                                                             *)
Taken(a, p, q, msg, Q, e) == Leaves(q, msg, Q) /\ e = Effect(a, p, msg)

LEMMA MailTake ==
  ASSUME NEW a, NEW b \in Nat, NEW s, NEW p, NEW q \in Seq(Message), NEW r, NEW k, NEW w,
         Mail(a, b, s, p, q, r, k, w),
         NEW msg, NEW Q, NEW e, Taken(a, p, q, msg, Q, e), WellFormed(msg), msg.from \in 1..b
  PROVE  \E W : Mail(a, b, s, e, Q, r, k, W) /\ W[1] = e /\ Final(W) = Final(w)
<1> DEFINE W == Tail(w)
<1>1. /\ IsTrail(a, p, q, w) /\ InOrder(b, q, w) /\ Steady(a, b, q, w)
      /\ Asked(a, b, s, q, r, w) /\ Answering(a, b, s, q, r, w)
      /\ Complete(b, s, w) /\ Exact(b, s, k, w)
  BY DEF Mail
<1>2. /\ msg = q[1] /\ Len(q) \in Nat \ {0} /\ Q \in Seq(Message) /\ Len(Q) = Len(q) - 1
      /\ \A i \in 1..Len(q) - 1 : Q[i] = q[i + 1]
  BY Takes DEF Leaves, Taken
<1>3. /\ w \in Seq(Peer) /\ Len(w) = Len(q) + 1 /\ w[1] = p /\ w # <<>>
      /\ \A j \in 1..Len(q) : w[j + 1] = Effect(a, w[j], q[j])
  BY <1>2 DEF IsTrail, Mail
<1>4. /\ W \in Seq(Peer) /\ Len(W) = Len(w) - 1 /\ \A i \in 1..Len(w) - 1 : W[i] = w[i + 1]
  BY <1>3, Takes
<1>5. w[2] = e
  <2>1. 1 \in 1..Len(q) /\ 1 + 1 = 2
    BY <1>2
  <2>2. w[2] = Effect(a, p, msg)
    BY <2>1, <1>2, <1>3
  <2> QED BY <2>2 DEF Taken
<1>6. p \in Peer
  BY <1>2, <1>3
<1>7. /\ Cur(p, msg.from) => Cur(e, msg.from)
      /\ Cur(p, msg.from) /\ ~Ends(a, msg.from, msg) =>
           e.current = p.current /\ e.scanning = p.scanning
  <2>1. /\ Cur(p, msg.from) => Cur(Effect(a, p, msg), msg.from)
        /\ Cur(p, msg.from) /\ ~Ends(a, msg.from, msg) =>
             Effect(a, p, msg).current = p.current /\ Effect(a, p, msg).scanning = p.scanning
    BY <1>6, EffectShape
  <2> QED BY <2>1 DEF Taken
<1> HIDE DEF W
<1>8. W[1] = e /\ Final(W) = Final(w)
  <2>1. /\ Len(W) \in 1..Len(w) - 1 /\ Len(W) + 1 = Len(w)
        /\ 1 \in 1..Len(w) - 1 /\ 1 + 1 = 2
    BY <1>2, <1>3, <1>4
  <2>2. W[1] = w[2] /\ W[Len(W)] = w[Len(w)]
    BY <2>1, <1>4
  <2> QED BY <2>2, <1>5 DEF Final
<1>9. IsTrail(a, e, Q, W)
  <2>1. ASSUME NEW j \in 1..Len(Q)
        PROVE  W[j + 1] = Effect(a, W[j], Q[j])
    <3>1. j + 1 \in 1..Len(q) /\ j \in 1..Len(w) - 1 /\ j + 1 \in 1..Len(w) - 1 /\ j \in 1..Len(q) - 1
      BY <1>2, <1>3
    <3> QED BY <3>1, <1>2, <1>3, <1>4
  <2> QED BY <2>1, <1>2, <1>3, <1>4, <1>8 DEF IsTrail
<1>10. InOrder(b, Q, W)
  <2>1. ASSUME NEW j \in 1..Len(Q), W[j].known
        PROVE  W[j].port <= Q[j].from
    <3>1. j + 1 \in 1..Len(q) /\ j \in 1..Len(w) - 1 /\ j \in 1..Len(q) - 1
      BY <1>2, <1>3
    <3>2. W[j] = w[j + 1] /\ Q[j] = q[j + 1]
      BY <3>1, <1>2, <1>4
    <3> QED BY <2>1, <3>1, <3>2, <1>1 DEF InOrder
  <2>2. ASSUME NEW j \in 1..Len(W)
        PROVE  (W[j].known => W[j].port \in 1..b) /\ (Cur(W[j], b) => Cur(Final(W), b))
    <3>1. j + 1 \in 1..Len(w) /\ W[j] = w[j + 1]
      BY <1>2, <1>3, <1>4
    <3> QED BY <3>1, <1>1, <1>8 DEF InOrder
  <2> QED BY <2>1, <2>2 DEF InOrder
<1>11. Steady(a, b, Q, W)
  <2> SUFFICES ASSUME NEW j \in 1..Len(W), Cur(W[j], b), \A i \in j..Len(Q) : ~Ends(a, b, Q[i])
               PROVE  Final(W).current = W[j].current /\ Final(W).scanning = W[j].scanning
    BY DEF Steady
  <2>1. j + 1 \in 1..Len(w) /\ W[j] = w[j + 1]
    BY <1>2, <1>3, <1>4
  <2>2. ASSUME NEW i \in j + 1..Len(q)
        PROVE  ~Ends(a, b, q[i])
    <3>1. i - 1 \in j..Len(Q) /\ i - 1 \in 1..Len(q) - 1 /\ (i - 1) + 1 = i
      BY <1>2, <1>3, <1>4
    <3>2. Q[i - 1] = q[i]
      BY <3>1, <1>2
    <3> QED BY <3>1, <3>2
  <2> QED BY <2>1, <2>2, <1>1, <1>8 DEF Steady
<1>12. Cur(p, b) => Cur(e, b) /\ (~Ends(a, b, q[1]) => e.scanning = p.scanning)
  <2> HAVE Cur(p, b)
  <2>1. 1 \in 1..Len(q) /\ w[1].known /\ w[1].port = b
    BY <1>2, <1>3 DEF Cur
  <2>2. b <= q[1].from
    BY <2>1, <1>1 DEF InOrder
  <2>3. msg.from = b
    BY <2>2, <1>2
  <2> QED BY <2>3, <1>2, <1>7
<1>13. \A i \in 1..Len(Q) : i + 1 \in 1..Len(q) /\ Q[i] = q[i + 1] /\ i + 1 # 1
  BY <1>2
<1>14. 1 \in 1..Len(q)
  BY <1>2
<1>15. Asked(a, b, s, Q, r, W)
  <2> SUFFICES ASSUME NEW i \in 1..Len(r), Asks(a, b, r[i])
               PROVE  /\ Cur(e, b) /\ e.scanning /\ Final(w).scanning
                      /\ \A j \in 1..Len(Q) : ~Ends(a, b, Q[j])
                      /\ \A h \in 1..Len(r) : Asks(a, b, r[h]) => h = i
                      /\ r[i].arg # Unbatched =>
                           r[i].arg = Final(w).current /\ Listed(s, Final(w), Final(w).current)
    BY <1>8 DEF Asked
  <2>1. /\ Cur(p, b) /\ p.scanning /\ Final(w).scanning
        /\ \A j \in 1..Len(q) : ~Ends(a, b, q[j])
        /\ \A h \in 1..Len(r) : Asks(a, b, r[h]) => h = i
        /\ r[i].arg # Unbatched =>
             r[i].arg = Final(w).current /\ Listed(s, Final(w), Final(w).current)
    BY <1>1, <1>3 DEF Asked
  <2> QED BY <2>1, <1>12, <1>13, <1>14
<1>16. Answering(a, b, s, Q, r, W)
  <2> SUFFICES ASSUME NEW i \in 1..Len(Q), Ends(a, b, Q[i])
               PROVE  /\ Cur(e, b) /\ e.scanning
                      /\ \A j \in 1..Len(Q) : Ends(a, b, Q[j]) => j = i
                      /\ \A h \in 1..Len(r) : ~Asks(a, b, r[h])
                      /\ Q[i].kind = "batch" /\ Q[i].arg = 1 =>
                           Final(w).scanning /\ Listed(s, Final(w), Final(w).current)
    BY <1>8 DEF Answering
  <2>1. i + 1 \in 1..Len(q) /\ Q[i] = q[i + 1]
    BY <1>13
  <2>2. /\ Cur(p, b) /\ p.scanning
        /\ \A j \in 1..Len(q) : Ends(a, b, q[j]) => j = i + 1
        /\ \A h \in 1..Len(r) : ~Asks(a, b, r[h])
        /\ q[i + 1].kind = "batch" /\ q[i + 1].arg = 1 =>
             Final(w).scanning /\ Listed(s, Final(w), Final(w).current)
    BY <2>1, <1>1, <1>3 DEF Answering
  <2>3. ~Ends(a, b, q[1])
    BY <2>2, <1>13, <1>14
  <2>4. \A j \in 1..Len(Q) : Ends(a, b, Q[j]) => j = i
    BY <2>2, <1>13
  <2> QED BY <2>1, <2>2, <2>3, <2>4, <1>12
<1>17. Complete(b, s, W)
  BY <1>1, <1>3, <1>8, <1>12 DEF Complete
<1>18. Exact(b, s, k, W)
  <2>1. SUFFICES ASSUME b = 1
                 PROVE  /\ \A x \in Path : Mirrors(Final(w), x) => Final(w).known /\ x \in ToSet(s)
                        /\ ~k /\ ~Cur(e, b) => \A x \in Path : ~Mirrors(Final(w), x)
                        /\ \A j \in 1..Len(W) : \A x \in Path : W[j].signals[x] <= 1
    BY <1>8, Zenon DEF Exact
  <2>2. /\ \A x \in Path : Mirrors(Final(w), x) => Final(w).known /\ x \in ToSet(s)
        /\ ~k /\ ~Cur(p, b) => \A x \in Path : ~Mirrors(Final(w), x)
        /\ \A j \in 1..Len(w) : \A x \in Path : w[j].signals[x] <= 1
    BY <2>1, <1>1, <1>3, Zenon DEF Exact
  <2>3. \A j \in 1..Len(W) : j + 1 \in 1..Len(w) /\ W[j] = w[j + 1]
    BY <1>2, <1>3, <1>4
  <2> QED BY <2>2, <2>3, <1>12, Zenon
<1>19. Mail(a, b, s, e, Q, r, k, W)
  BY <1>9, <1>10, <1>11, <1>15, <1>16, <1>17, <1>18 DEF Mail
<1> QED BY <1>8, <1>19

(* what else is under way the other way                                             *)
LEMMA MailBack ==
  ASSUME NEW a, NEW b, NEW s, NEW p, NEW q, NEW r \in Seq(Message), NEW k, NEW w,
         Mail(a, b, s, p, q, r, k, w), NEW z \in Seq(Message),
         \A i \in 1..Len(z) : Asks(a, b, z[i]) =>
           /\ i = 1
           /\ Cur(w[1], b) /\ w[1].scanning /\ Final(w).scanning
           /\ \A j \in 1..Len(q) : ~Ends(a, b, q[j])
           /\ \A h \in 1..Len(r) : ~Asks(a, b, r[h])
           /\ z[i].arg # Unbatched =>
                z[i].arg = Final(w).current /\ Listed(s, Final(w), Final(w).current)
  PROVE  Mail(a, b, s, p, q, r \o z, k, w)
<1> DEFINE R == r \o z
<1>1. /\ IsTrail(a, p, q, w) /\ InOrder(b, q, w) /\ Steady(a, b, q, w)
      /\ Asked(a, b, s, q, r, w) /\ Answering(a, b, s, q, r, w)
      /\ Complete(b, s, w) /\ Exact(b, s, k, w)
  BY DEF Mail
<1>2. /\ Len(R) = Len(r) + Len(z)
      /\ \A i \in 1..Len(r) + Len(z) : R[i] = IF i <= Len(r) THEN r[i] ELSE z[i - Len(r)]
  BY ConcatShape
<1>3. Len(r) \in Nat /\ Len(z) \in Nat
  OBVIOUS
<1> HIDE DEF R
<1>4. ASSUME NEW i \in 1..Len(R)
      PROVE  \/ i \in 1..Len(r) /\ R[i] = r[i]
             \/ i - Len(r) \in 1..Len(z) /\ R[i] = z[i - Len(r)]
  BY <1>2, <1>3
<1>5. Asked(a, b, s, q, R, w)
  <2> SUFFICES ASSUME NEW i \in 1..Len(R), Asks(a, b, R[i])
               PROVE  /\ Cur(w[1], b) /\ w[1].scanning /\ Final(w).scanning
                      /\ \A j \in 1..Len(q) : ~Ends(a, b, q[j])
                      /\ \A h \in 1..Len(R) : Asks(a, b, R[h]) => h = i
                      /\ R[i].arg # Unbatched =>
                           R[i].arg = Final(w).current /\ Listed(s, Final(w), Final(w).current)
    BY DEF Asked
  <2>1. CASE i \in 1..Len(r) /\ R[i] = r[i]
    <3>1. /\ Cur(w[1], b) /\ w[1].scanning /\ Final(w).scanning
          /\ \A j \in 1..Len(q) : ~Ends(a, b, q[j])
          /\ \A h \in 1..Len(r) : Asks(a, b, r[h]) => h = i
          /\ R[i].arg # Unbatched =>
               R[i].arg = Final(w).current /\ Listed(s, Final(w), Final(w).current)
      BY <2>1, <1>1 DEF Asked
    <3>2. ASSUME NEW h \in 1..Len(R), Asks(a, b, R[h])
          PROVE  h = i
      BY <2>1, <3>1, <3>2, <1>4
    <3> QED BY <3>1, <3>2
  <2>2. CASE i - Len(r) \in 1..Len(z) /\ R[i] = z[i - Len(r)]
    <3>1. i - Len(r) = 1
      BY <2>2
    <3>2. ASSUME NEW h \in 1..Len(R), Asks(a, b, R[h])
          PROVE  h = i
      <4>1. CASE h \in 1..Len(r) /\ R[h] = r[h]
        BY <2>2, <3>2, <4>1
      <4>2. CASE h - Len(r) \in 1..Len(z) /\ R[h] = z[h - Len(r)]
        <5>1. h - Len(r) = 1
          BY <3>2, <4>2
        <5> QED BY <3>1, <5>1, <1>3
      <4> QED BY <4>1, <4>2, <1>4
    <3> QED BY <2>2, <3>2
  <2> QED BY <2>1, <2>2, <1>4
<1>6. Answering(a, b, s, q, R, w)
  <2> SUFFICES ASSUME NEW i \in 1..Len(q), Ends(a, b, q[i])
               PROVE  /\ Cur(w[1], b) /\ w[1].scanning
                      /\ \A j \in 1..Len(q) : Ends(a, b, q[j]) => j = i
                      /\ \A h \in 1..Len(R) : ~Asks(a, b, R[h])
                      /\ q[i].kind = "batch" /\ q[i].arg = 1 =>
                           Final(w).scanning /\ Listed(s, Final(w), Final(w).current)
    BY DEF Answering
  <2>1. /\ Cur(w[1], b) /\ w[1].scanning
        /\ \A j \in 1..Len(q) : Ends(a, b, q[j]) => j = i
        /\ \A h \in 1..Len(r) : ~Asks(a, b, r[h])
        /\ q[i].kind = "batch" /\ q[i].arg = 1 =>
             Final(w).scanning /\ Listed(s, Final(w), Final(w).current)
    BY <1>1 DEF Answering
  <2>2. \A h \in 1..Len(R) : ~Asks(a, b, R[h])
    BY <2>1, <1>4
  <2> QED BY <2>1, <2>2
<1>7. Mail(a, b, s, p, q, R, k, w)
  BY <1>1, <1>5, <1>6 DEF Mail
<1> QED BY <1>7 DEF R

(* what a request that leaves r says                                            *)
Due(a, b, s, q, R, w, msg) ==
  Asks(a, b, msg) =>
    /\ Cur(w[1], b) /\ w[1].scanning /\ Final(w).scanning
    /\ \A j \in 1..Len(q) : ~Ends(a, b, q[j])
    /\ \A h \in 1..Len(R) : ~Asks(a, b, R[h])
    /\ msg.arg # Unbatched =>
         msg.arg = Final(w).current /\ Listed(s, Final(w), Final(w).current)

LEMMA MailBackTaken ==
  ASSUME NEW a, NEW b, NEW s, NEW p, NEW q, NEW r \in Seq(Message), NEW k, NEW w,
         Mail(a, b, s, p, q, r, k, w), NEW msg, NEW R, Leaves(r, msg, R)
  PROVE  Mail(a, b, s, p, q, R, k, w) /\ Due(a, b, s, q, R, w, msg)
<1>1. /\ IsTrail(a, p, q, w) /\ InOrder(b, q, w) /\ Steady(a, b, q, w)
      /\ Asked(a, b, s, q, r, w) /\ Answering(a, b, s, q, r, w)
      /\ Complete(b, s, w) /\ Exact(b, s, k, w)
  BY DEF Mail
<1>2. /\ msg = r[1] /\ Len(r) \in Nat \ {0} /\ Len(R) = Len(r) - 1
      /\ \A i \in 1..Len(r) - 1 : R[i] = r[i + 1]
  BY Takes DEF Leaves
<1>3. \A i \in 1..Len(R) : i + 1 \in 1..Len(r) /\ R[i] = r[i + 1] /\ i + 1 # 1
  BY <1>2
<1>4. 1 \in 1..Len(r)
  BY <1>2
<1>5. ASSUME NEW i \in 1..Len(r), Asks(a, b, r[i])
      PROVE  /\ Cur(w[1], b) /\ w[1].scanning /\ Final(w).scanning
             /\ \A j \in 1..Len(q) : ~Ends(a, b, q[j])
             /\ \A h \in 1..Len(r) : Asks(a, b, r[h]) => h = i
             /\ r[i].arg # Unbatched =>
                  r[i].arg = Final(w).current /\ Listed(s, Final(w), Final(w).current)
  BY <1>1, <1>5 DEF Asked
<1>6. Asked(a, b, s, q, R, w)
  <2> SUFFICES ASSUME NEW i \in 1..Len(R), Asks(a, b, R[i])
               PROVE  /\ Cur(w[1], b) /\ w[1].scanning /\ Final(w).scanning
                      /\ \A j \in 1..Len(q) : ~Ends(a, b, q[j])
                      /\ \A h \in 1..Len(R) : Asks(a, b, R[h]) => h = i
                      /\ R[i].arg # Unbatched =>
                           R[i].arg = Final(w).current /\ Listed(s, Final(w), Final(w).current)
    BY DEF Asked
  <2>1. i + 1 \in 1..Len(r) /\ R[i] = r[i + 1]
    BY <1>3
  <2>2. ASSUME NEW h \in 1..Len(R), Asks(a, b, R[h])
        PROVE  h = i
    <3>1. h + 1 \in 1..Len(r) /\ R[h] = r[h + 1]
      BY <1>3
    <3>2. h + 1 = i + 1
      BY <2>1, <2>2, <3>1, <1>5
    <3> QED BY <3>2
  <2> QED BY <2>1, <2>2, <1>5
<1>7. Answering(a, b, s, q, R, w)
  <2> SUFFICES ASSUME NEW i \in 1..Len(q), Ends(a, b, q[i])
               PROVE  /\ Cur(w[1], b) /\ w[1].scanning
                      /\ \A j \in 1..Len(q) : Ends(a, b, q[j]) => j = i
                      /\ \A h \in 1..Len(R) : ~Asks(a, b, R[h])
                      /\ q[i].kind = "batch" /\ q[i].arg = 1 =>
                           Final(w).scanning /\ Listed(s, Final(w), Final(w).current)
    BY DEF Answering
  <2> QED BY <1>1, <1>3 DEF Answering
<1>9. Mail(a, b, s, p, q, R, k, w)
  BY <1>1, <1>6, <1>7 DEF Mail
<1>10. ASSUME Asks(a, b, r[1]), NEW h \in 1..Len(R)
       PROVE  ~Asks(a, b, R[h])
  <2>1. h + 1 \in 1..Len(r) /\ R[h] = r[h + 1] /\ h + 1 # 1
    BY <1>3
  <2> QED BY <2>1, <1>4, <1>5, <1>10
<1> QED BY <1>2, <1>4, <1>5, <1>9, <1>10 DEF Due

-----------------------------------------------------------------------------
(* Processes begin                                                             *)

(* n has nothing and will get nothing of what is under way                        *)
LEMMA MailNew ==
  ASSUME NEW a, NEW b, NEW s, NEW q \in Seq(Message), NEW r, NEW k,
         \A j \in 1..Len(q) : q[j].to # a,
         \A i \in 1..Len(r) : ~Asks(a, b, r[i])
  PROVE  \E w : Mail(a, b, s, Stranger, q, r, k, w)
<1> DEFINE L == Len(q) + 1
           w == [j \in 1..L |-> Stranger]
<1>1. Stranger \in Peer /\ ~Stranger.known /\ \A x \in Path : Stranger.signals[x] = 0
  BY DEF Stranger, Peer
<1>2. Len(q) \in Nat /\ L \in Nat /\ L \in 1..L /\ 1 \in 1..L
  OBVIOUS
<1>3. w \in Seq(Peer) /\ Len(w) = L /\ \A j \in 1..L : w[j] = Stranger
  BY <1>1, <1>2
<1> HIDE DEF w
<1>4. Final(w) = Stranger /\ w[1] = Stranger
  BY <1>2, <1>3 DEF Final
<1>5. IsTrail(a, Stranger, q, w)
  <2>1. ASSUME NEW j \in 1..Len(q)
        PROVE  w[j + 1] = Effect(a, w[j], q[j])
    <3>1. j \in 1..L /\ j + 1 \in 1..L
      BY <1>2
    <3>2. Effect(a, Stranger, q[j]) = Stranger
      BY EffectDead
    <3> QED BY <3>1, <3>2, <1>3
  <2> QED BY <2>1, <1>3, <1>4 DEF IsTrail
<1>6. \A j \in 1..Len(w) : ~w[j].known /\ ~Cur(w[j], b)
  BY <1>1, <1>3 DEF Cur
<1>7. \A j \in 1..Len(q) : ~Ends(a, b, q[j]) /\ j \in 1..Len(w)
  BY <1>2, <1>3 DEF Ends
<1>8. ~Cur(Final(w), b)
  BY <1>1, <1>4 DEF Cur
<1>9. InOrder(b, q, w)
  BY <1>6, <1>7 DEF InOrder
<1>10. Steady(a, b, q, w)
  BY <1>6 DEF Steady
<1>11. Asked(a, b, s, q, r, w)
  BY DEF Asked
<1>12. Answering(a, b, s, q, r, w)
  BY <1>7 DEF Answering
<1>13. Complete(b, s, w)
  BY <1>8 DEF Complete
<1>14. Exact(b, s, k, w)
  <2>1. \A x \in Path : ~Mirrors(Final(w), x)
    BY <1>1, <1>4 DEF Mirrors
  <2>2. \A j \in 1..Len(w) : \A x \in Path : w[j].signals[x] <= 1
    BY <1>1, <1>3
  <2> QED BY <2>1, <2>2 DEF Exact
<1>15. Mail(a, b, s, Stranger, q, r, k, w)
  BY <1>5, <1>9, <1>10, <1>11, <1>12, <1>13, <1>14 DEF Mail
<1> QED BY <1>15

(* m's process begins anew, at another port and with a hello                        *)
LEMMA MailRestart ==
  ASSUME NEW a, NEW b \in Nat \ {0}, NEW c, c = b + 1, NEW s, NEW t,
         NEW p, NEW q \in Seq(Message), NEW r, NEW k, NEW l, NEW w, Mail(a, b, s, p, q, r, k, w),
         \A j \in 1..Len(q) : q[j].from \in 1..b,
         \A i \in 1..Len(r) : r[i].to <= b /\ r[i].to \in Nat,
         NEW msg, WellFormed(msg), msg.kind = "hello", msg.from = c, msg.to = a
  PROVE  \E W : Mail(a, c, t, p, q \o <<msg>>, r, l, W)
<1> DEFINE f == Final(w)
           g == Effect(a, f, msg)
<1>1. IsTrail(a, p, q, w) /\ InOrder(b, q, w)
  BY DEF Mail
<1>2. /\ f \in Peer /\ Len(w) \in 1..Len(w) /\ Len(q) \in Nat /\ Len(w) = Len(q) + 1
      /\ 1 \in 1..Len(w)
  <2>1. f \in Peer /\ Len(w) \in 1..Len(w) /\ 1 \in 1..Len(w)
    BY <1>1, TrailShape
  <2>2. Len(w) = Len(q) + 1
    BY <1>1 DEF IsTrail
  <2> QED BY <2>1, <2>2
<1>3. /\ \A j \in 1..Len(q) : w[j].known => w[j].port <= q[j].from
      /\ \A j \in 1..Len(w) : w[j].known => w[j].port \in 1..b
  BY <1>1 DEF InOrder
<1>4. c \in Nat
  OBVIOUS
<1>5. g = Greeted(f, c) /\ g \in Peer /\ Cur(g, c) /\ g.scanning
  <2>1. g = Greeted(f, c)
    BY DEF Effect
  <2>2. ~Cur(f, c)
    BY <1>2, <1>3 DEF Cur, Final
  <2> HIDE DEF f, g
  <2> QED BY <2>1, <2>2, <1>2, <1>4, GreetedShape
<1>6. g = Effect(a, Final(w), msg)
  OBVIOUS
<1> HIDE DEF f, g
<1>7. PICK z : z = <<msg>>
  OBVIOUS
<1>8. PICK v : v = <<g>>
  OBVIOUS
<1>9. msg \in Message
  BY DEF WellFormed
<1>10. /\ z \in Seq(Message) /\ z # <<>> /\ Len(z) = 1 /\ z[1] = msg
       /\ v \in Seq(Peer) /\ Len(v) = 1 /\ v[1] = g
  BY <1>5, <1>7, <1>8, <1>9
<1>11. Extends(a, Final(w), z, v)
  BY <1>6, <1>10 DEF Extends
<1> DEFINE Q == q \o z
           W == w \o v
<1>12. IsTrail(a, p, Q, W) /\ Posted(q, z, w, v, Q, W)
  BY <1>1, <1>10, <1>11, Extended
<1> HIDE DEF Q, W
<1>13. /\ Len(Q) = Len(q) + 1 /\ Len(W) = Len(q) + 2 /\ Final(W) = g /\ W[1] = w[1]
       /\ \A j \in 1..Len(q) : Q[j] = q[j] /\ W[j] = w[j]
       /\ W[Len(q) + 1] = w[Len(q) + 1]
       /\ Q[Len(q) + 1] = msg /\ W[Len(q) + 2] = g
  <2>1. /\ Len(Q) = Len(q) + Len(z) /\ Len(W) = Len(q) + 1 + Len(z)
        /\ \A j \in 1..Len(Q) :
             \/ j <= Len(q) /\ Q[j] = q[j]
             \/ j > Len(q) /\ j - Len(q) \in 1..Len(z) /\ Q[j] = z[j - Len(q)]
        /\ \A j \in 1..Len(W) :
             \/ j <= Len(w) /\ W[j] = w[j]
             \/ j > Len(w) /\ j - Len(w) \in 1..Len(v) /\ W[j] = v[j - Len(w)]
        /\ Final(W) = v[Len(v)] /\ W[1] = w[1]
    BY <1>12 DEF Posted
  <2>2. \A j \in 1..Len(q) : Q[j] = q[j] /\ W[j] = w[j]
    BY <2>1, <1>2, <1>10
  <2>3. W[Len(q) + 1] = w[Len(q) + 1]
    BY <2>1, <1>2, <1>10
  <2>4. Q[Len(q) + 1] = msg
    BY <2>1, <1>2, <1>10
  <2>5. W[Len(q) + 2] = g
    BY <2>1, <1>2, <1>10
  <2> QED BY <2>1, <2>2, <2>3, <2>4, <2>5, <1>10
<1>14. \A j \in 1..Len(Q) : j \in 1..Len(q) \/ j = Len(q) + 1
  BY <1>2, <1>13
<1>15. \A j \in 1..Len(W) : (j \in 1..Len(w) /\ W[j] = w[j]) \/ (j = Len(W) /\ W[j] = g)
  BY <1>2, <1>13
<1>16. \A j \in 1..Len(w) : (w[j].known => w[j].port \in 1..c) /\ ~Cur(w[j], c)
  BY <1>3 DEF Cur
<1>17. InOrder(c, Q, W)
  <2>1. ASSUME NEW j \in 1..Len(Q), W[j].known
        PROVE  W[j].port <= Q[j].from
    <3>1. CASE j \in 1..Len(q)
      BY <2>1, <3>1, <1>3, <1>13
    <3>2. CASE j = Len(q) + 1
      <4>1. j \in 1..Len(w) /\ W[j] = w[j] /\ Q[j] = msg
        BY <3>2, <1>2, <1>13
      <4> QED BY <4>1, <2>1, <1>16
    <3> QED BY <3>1, <3>2, <1>14
  <2>2. \A j \in 1..Len(W) : W[j].known => W[j].port \in 1..c
    BY <1>5, <1>15, <1>16 DEF Cur
  <2> QED BY <2>1, <2>2, <1>5, <1>13 DEF InOrder
<1>18. Steady(a, c, Q, W)
  <2>1. \A j \in 1..Len(W) : Cur(W[j], c) => W[j] = g
    BY <1>15, <1>16
  <2> QED BY <2>1, <1>13 DEF Steady
<1>19. Asked(a, c, t, Q, r, W)
  <2>1. \A i \in 1..Len(r) : ~Asks(a, c, r[i])
    BY DEF Asks
  <2> QED BY <2>1 DEF Asked
<1>20. Answering(a, c, t, Q, r, W)
  <2>1. ASSUME NEW j \in 1..Len(Q)
        PROVE  ~Ends(a, c, Q[j])
    <3>1. CASE j \in 1..Len(q)
      <4>1. Q[j].from \in 1..b
        BY <3>1, <1>13
      <4> QED BY <4>1 DEF Ends
    <3>2. CASE j = Len(q) + 1
      BY <3>2, <1>13 DEF Ends
    <3> QED BY <3>1, <3>2, <1>14
  <2> QED BY <2>1 DEF Answering
<1>21. Complete(c, t, W)
  BY <1>5, <1>13 DEF Complete
<1>22. Exact(c, t, l, W)
  <2>1. c # 1
    OBVIOUS
  <2> QED BY <2>1 DEF Exact
<1>23. Mail(a, c, t, p, Q, r, l, W)
  BY <1>12, <1>17, <1>18, <1>19, <1>20, <1>21, <1>22 DEF Mail
<1>24. Q = q \o <<msg>>
  BY <1>7 DEF Q
<1> QED BY <1>23, <1>24

LEMMA ListingKinds ==
  ASSUME NEW a, NEW s \in Seq(Path), NEW to, NEW start
  PROVE  \A i \in 1..Len(Listing(a, s, to, start)) :
           /\ Listing(a, s, to, start)[i].kind # "list"
           /\ Listing(a, s, to, start)[i].from = a /\ Listing(a, s, to, start)[i].to = to
<1> DEFINE x == [k \in DOMAIN s |-> Line(a, to, "entry", <<s[k]>>, 0)]
           d == Line(a, to, "done", <<>>, 0)
           m == Line(a, to, "batch", Batch(s, start), More(Batch(s, start)))
<1>1. \A k \in 1..Len(s) : x[k].kind # "list" /\ x[k].from = a /\ x[k].to = to
  BY DEF Line
<1>2. d.kind # "list" /\ d.from = a /\ d.to = to
  BY DEF Line
<1>3. m.kind # "list" /\ m.from = a /\ m.to = to
  BY DEF Line
<1>4. DOMAIN x = 1..Len(s) /\ Len(s) \in Nat
  OBVIOUS
<1>5. x \in Seq({x[k] : k \in 1..Len(s)}) /\ Len(x) = Len(s)
  <2>1. x \in [1..Len(s) -> {x[k] : k \in 1..Len(s)}]
    BY <1>4
  <2> HIDE DEF x
  <2> QED BY <2>1, <1>4
<1>6. CASE start = Unbatched
  <2>1. Listing(a, s, to, start) = x \o <<d>>
    BY <1>6 DEF Listing
  <2> HIDE DEF x, d
  <2> DEFINE S == {x[k] : k \in 1..Len(s)} \cup {d}
  <2>2. x \in Seq(S) /\ d \in S
    BY <1>5
  <2> HIDE DEF S
  <2>3. PICK l : l = <<d>>
    OBVIOUS
  <2>4. l \in Seq(S) /\ Len(l) = 1 /\ l[1] = d
    BY <2>2, <2>3
  <2>5. /\ Len(x \o l) = Len(x) + Len(l)
        /\ \A i \in 1..Len(x) + Len(l) : (x \o l)[i] = IF i <= Len(x) THEN x[i] ELSE l[i - Len(x)]
    BY <2>2, <2>4, ConcatShape
  <2>6. ASSUME NEW i \in 1..Len(x \o l)
        PROVE  (x \o l)[i] = d \/ \E k \in 1..Len(s) : (x \o l)[i] = x[k]
    <3>1. CASE i <= Len(x)
      BY <3>1, <2>4, <2>5, <1>4, <1>5
    <3>2. CASE ~(i <= Len(x))
      <4>1. i - Len(x) = 1
        BY <3>2, <2>4, <2>5, <1>4, <1>5
      <4> QED BY <3>2, <4>1, <2>4, <2>5
    <3> QED BY <3>1, <3>2
  <2>7. Listing(a, s, to, start) = x \o l
    BY <2>1, <2>3
  <2> QED BY <2>6, <2>7, <1>1, <1>2
<1>7. CASE start # Unbatched
  <2>1. Listing(a, s, to, start) = <<m>>
    BY <1>7 DEF Listing
  <2> HIDE DEF m
  <2> QED BY <2>1, <1>3
<1> QED BY <1>6, <1>7

-----------------------------------------------------------------------------
(* A delivery, from both sides                                                 *)

(* n, which has received the first of q, answers it                                 *)
LEMMA MailReplied ==
  ASSUME NEW a \in Nat, NEW b \in Nat \ {0}, NEW s, NEW t \in Seq(Path), NEW p,
         NEW q \in Seq(Message), q # <<>>,
         NEW r \in Seq(Message), NEW k, NEW w, Mail(a, b, s, p, q, r, k, w),
         NEW msg, msg = Head(q), WellFormed(msg), msg.from \in 1..b,
         NEW z \in Seq(Message), z = Reply(a, t, p, msg)
  PROVE  \E W : Mail(a, b, s, Effect(a, p, msg), Tail(q), r \o z, k, W)
<1>0. PICK Q, e : Taken(a, p, q, msg, Q, e)
  BY DEF Taken, Leaves
<1>1. /\ IsTrail(a, p, q, w) /\ Asked(a, b, s, q, r, w) /\ Answering(a, b, s, q, r, w)
  BY DEF Mail
<1>2. PICK W : Mail(a, b, s, e, Q, r, k, W) /\ W[1] = e /\ Final(W) = Final(w)
  BY <1>0, MailTake
<1>3. /\ msg = q[1] /\ Len(q) \in Nat \ {0} /\ Q \in Seq(Message) /\ Len(Q) = Len(q) - 1
      /\ \A i \in 1..Len(q) - 1 : Q[i] = q[i + 1]
  BY <1>0, Takes DEF Taken, Leaves
<1>4. w[1] = p /\ p \in Peer /\ msg \in Message
  <2>1. w[1] = p /\ 1 \in 1..Len(w)
    BY <1>1, TrailShape
  <2>2. \A j \in 1..Len(w) : w[j] \in Peer
    BY <1>1, TrailShape
  <2> QED BY <2>1, <2>2 DEF WellFormed
<1>5. IsTrail(a, e, Q, W) /\ Steady(a, b, Q, W)
  BY <1>2 DEF Mail
<1>6. 1 \in 1..Len(W) /\ 1 \in 1..Len(q) /\ Len(Q) \in Nat
  <2>1. 1 \in 1..Len(W)
    BY <1>3, <1>5, TrailShape
  <2>2. 1 \in 1..Len(q) /\ Len(Q) \in Nat
    BY <1>3
  <2> QED BY <2>1, <2>2
<1>7. \A i \in 1..Len(Q) : i + 1 \in 1..Len(q) /\ Q[i] = q[i + 1] /\ i + 1 # 1
  BY <1>3
<1>8. SUFFICES \A i \in 1..Len(z) : Asks(a, b, z[i]) =>
                 /\ i = 1
                 /\ Cur(W[1], b) /\ W[1].scanning /\ Final(W).scanning
                 /\ \A j \in 1..Len(Q) : ~Ends(a, b, Q[j])
                 /\ \A h \in 1..Len(r) : ~Asks(a, b, r[h])
                 /\ z[i].arg # Unbatched =>
                      z[i].arg = Final(W).current /\ Listed(s, Final(W), Final(W).current)
  <2>1. Mail(a, b, s, e, Q, r \o z, k, W)
    BY <1>2, <1>8, MailBack
  <2> QED BY <2>1, <1>0 DEF Taken, Leaves
<1>9. Cur(e, b) /\ (\A j \in 1..Len(Q) : ~Ends(a, b, Q[j])) =>
        Final(W).current = e.current /\ Final(W).scanning = e.scanning
  BY <1>2, <1>5, <1>6 DEF Steady
<1>10. CASE msg.to = a /\ msg.kind = "hello" /\ ~Cur(p, msg.from)
  <2> DEFINE arg == IF p.known THEN Unbatched ELSE 0
  <2>1. z = <<Line(a, msg.from, "list", <<>>, arg), Line(a, msg.from, "hello", <<>>, 0)>>
    BY <1>10 DEF Reply
  <2>2. /\ Len(z) = 2 /\ z[1] = Line(a, msg.from, "list", <<>>, arg)
        /\ z[2] = Line(a, msg.from, "hello", <<>>, 0)
    BY <2>1
  <2> HIDE DEF arg
  <2>3. z[1].to = msg.from /\ z[1].arg = arg /\ z[2].kind = "hello"
    BY <2>2 DEF Line
  <2> SUFFICES ASSUME NEW i \in 1..Len(z), Asks(a, b, z[i])
               PROVE  /\ i = 1
                      /\ Cur(e, b) /\ e.scanning /\ Final(W).scanning
                      /\ \A j \in 1..Len(Q) : ~Ends(a, b, Q[j])
                      /\ \A h \in 1..Len(r) : ~Asks(a, b, r[h])
                      /\ z[i].arg # Unbatched =>
                           z[i].arg = Final(W).current /\ Listed(s, Final(W), Final(W).current)
    BY <1>2
  <2>4. i = 1 /\ msg.from = b /\ z[i].arg = arg
    <3>1. Len(z) = 2
      BY ONLY <2>2
    <3>2. i = 1 \/ i = 2
      BY ONLY <3>1, i \in 1..Len(z)
    <3>3. i # 2
      BY <2>3 DEF Asks
    <3> QED BY <3>2, <3>3, <2>3 DEF Asks
  <2>5. ~Cur(w[1], b)
    BY <2>4, <1>4, <1>10
  <2>6. \A h \in 1..Len(r) : ~Asks(a, b, r[h])
    BY <2>5, <1>1 DEF Asked
  <2>7. \A j \in 1..Len(Q) : ~Ends(a, b, Q[j])
    BY <2>5, <1>1, <1>7 DEF Answering
  <2>8. e = Greeted(p, b)
    BY <2>4, <1>0, <1>10 DEF Effect, Taken
  <2>9. Cur(e, b) /\ e.scanning /\ e.current = IF p.known THEN p.current ELSE 0
    BY <2>4, <2>8, <1>4, <1>10, GreetedShape
  <2>10. Final(W).current = e.current /\ Final(W).scanning
    BY <2>7, <2>9, <1>9
  <2>11. Listed(s, Final(W), 0)
    BY DEF Listed
  <2> QED BY <2>4, <2>6, <2>7, <2>9, <2>10, <2>11 DEF arg
<1>11. CASE msg.to = a /\ msg.kind = "batch" /\ Cur(p, msg.from) /\ msg.arg = 1
  <2> DEFINE l == Line(a, msg.from, "list", <<>>, p.current + Len(msg.paths))
  <2>1. z = <<l>>
    BY <1>11 DEF Reply
  <2>2. Len(z) = 1 /\ z[1] = l
    BY <2>1
  <2>3. z[1].to = msg.from /\ z[1].arg = p.current + Len(msg.paths)
    BY <2>2 DEF Line
  <2>4. SUFFICES ASSUME msg.from = b
                 PROVE  /\ Cur(e, b) /\ e.scanning /\ Final(W).scanning
                        /\ \A j \in 1..Len(Q) : ~Ends(a, b, Q[j])
                        /\ \A h \in 1..Len(r) : ~Asks(a, b, r[h])
                        /\ p.current + Len(msg.paths) = Final(W).current
                        /\ Listed(s, Final(W), Final(W).current)
    BY <2>2, <2>3, <1>2 DEF Asks
  <2>5. Ends(a, b, q[1])
    BY <2>4, <1>3, <1>11 DEF Ends
  <2>6. /\ w[1].scanning
        /\ \A j \in 1..Len(q) : Ends(a, b, q[j]) => j = 1
        /\ \A h \in 1..Len(r) : ~Asks(a, b, r[h])
        /\ Final(w).scanning /\ Listed(s, Final(w), Final(w).current)
    BY <2>5, <1>1, <1>3, <1>6, <1>11 DEF Answering
  <2>7. \A j \in 1..Len(Q) : ~Ends(a, b, Q[j])
    BY <2>6, <1>7
  <2>8. e = Batched(p, msg)
    BY <2>4, <1>0, <1>11 DEF Effect, Heard, Taken
  <2>9. /\ e.known = p.known /\ e.port = p.port
        /\ e.current = p.current + Len(msg.paths) /\ e.scanning = (p.scanning /\ msg.arg # 0)
    BY <2>8, <1>4, <1>11, BatchedShape
  <2>10. Cur(e, b) /\ e.scanning
    <3>1. msg.arg # 0 /\ p.scanning
      BY <2>6, <1>4, <1>11
    <3>2. e.scanning
      BY <2>9, <3>1, Zenon
    <3> QED BY <2>4, <2>9, <3>2, <1>11 DEF Cur
  <2>11. Final(W).current = e.current
    BY <2>7, <2>10, <1>9
  <2> QED BY <2>6, <2>7, <2>9, <2>10, <2>11, <1>2
<1>12. CASE msg.to = a /\ msg.kind = "list"
  <2>1. z = Listing(a, t, msg.from, msg.arg)
    BY <1>12 DEF Reply
  <2>2. \A i \in 1..Len(z) : z[i].kind # "list"
    BY <2>1, ListingKinds
  <2> QED BY <2>2 DEF Asks
<1>13. CASE ~(\/ msg.to = a /\ msg.kind = "hello" /\ ~Cur(p, msg.from)
              \/ msg.to = a /\ msg.kind = "batch" /\ Cur(p, msg.from) /\ msg.arg = 1
              \/ msg.to = a /\ msg.kind = "list")
  <2>1. z = <<>>
    BY <1>13 DEF Reply
  <2> QED BY <2>1
<1> QED BY <1>10, <1>11, <1>12, <1>13

LEMMA MailK ==
  ASSUME NEW a, NEW b, NEW s, NEW p, NEW q, NEW r, NEW k, NEW w, Mail(a, b, s, p, q, r, k, w),
         NEW l, k => l
  PROVE  Mail(a, b, s, p, q, r, l, w)
BY DEF Mail, Exact

(* m, which has received the first of r, answers it                                 *)
LEMMA MailServed ==
  ASSUME NEW a \in Nat \ {0}, NEW b \in Nat \ {0}, NEW s \in Seq(Path), NEW p,
         NEW q \in Seq(Message), NEW r \in Seq(Message),
         NEW k, NEW w, Mail(a, b, s, p, q, r, k, w),
         NEW msg, NEW R, Leaves(r, msg, R), WellFormed(msg), msg.from \in 1..a,
         NEW o \in Peer, NEW z, z = Reply(b, s, o, msg)
  PROVE  \E W : Mail(a, b, s, p, q \o z, R, k, W)
<1>2. Mail(a, b, s, p, q, R, k, w) /\ Due(a, b, s, q, R, w, msg)
  BY MailBackTaken
<1>4. Len(s) \in Nat /\ msg.from \in Nat /\ z \in Seq(Message)
  <2>1. Reply(b, s, o, msg) \in Seq(Message)
    BY ReplySent
  <2> QED BY <2>1
<1>5. ASSUME z = <<>>
      PROVE  \E W : Mail(a, b, s, p, q \o z, R, k, W)
  <2>1. q \o z = q
    BY <1>5
  <2> QED BY <2>1, <1>2
<1>6. ASSUME NEW m, z = <<m>>, WellFormed(m), m.from = b, m.kind \in {"hello", "list"}
      PROVE  \E W : Mail(a, b, s, p, q \o z, R, k, W)
  BY <1>2, <1>4, <1>6, MailPlain
<1>7. ASSUME NEW m, NEW n, z = <<m, n>>, WellFormed(m), m.from = b, m.kind \in {"hello", "list"},
             WellFormed(n), n.from = b, n.kind \in {"hello", "list"}
      PROVE  \E W : Mail(a, b, s, p, q \o z, R, k, W)
  <2>1. PICK W : Mail(a, b, s, p, q \o <<m>>, R, k, W)
    BY <1>2, <1>4, <1>7, MailPlain
  <2>2. PICK Q : Q = q \o <<m>>
    OBVIOUS
  <2>3. Q \in Seq(Message) /\ Q \o <<n>> = q \o z
    <3>1. m \in Message /\ n \in Message
      BY <1>7 DEF WellFormed
    <3>2. Q = Append(q, m) /\ q \o z = Append(Append(q, m), n)
      <4>1. q \o <<m>> = Append(q, m) /\ q \o <<m, n>> = Append(Append(q, m), n)
        BY <3>1, Joins
      <4> QED BY ONLY <4>1, <2>2, <1>7
    <3>3. Q \in Seq(Message)
      BY <3>1, <3>2
    <3>4. Q \o <<n>> = Append(Q, n)
      BY <3>1, <3>3, Joins
    <3> QED BY <3>2, <3>3, <3>4
  <2>4. Mail(a, b, s, p, Q, R, k, W)
    BY <2>1, <2>2
  <2>5. \E V : Mail(a, b, s, p, Q \o <<n>>, R, k, V)
    BY <2>3, <2>4, <1>4, <1>7, MailPlain
  <2> QED BY <2>3, <2>5
<1>8. CASE msg.to = b /\ msg.kind = "hello" /\ ~Cur(o, msg.from)
  <2> DEFINE arg == IF o.known THEN Unbatched ELSE 0
             x == Line(b, msg.from, "list", <<>>, arg)
             y == Line(b, msg.from, "hello", <<>>, 0)
  <2>1. z = <<x, y>>
    BY <1>8 DEF Reply
  <2>2. arg \in Nat \cup {Unbatched}
    OBVIOUS
  <2> HIDE DEF arg
  <2>3. WellFormed(x) /\ WellFormed(y)
    BY <2>2, <1>4, Asking
  <2>4. x.from = b /\ x.kind = "list" /\ y.from = b /\ y.kind = "hello"
    BY DEF Line
  <2> HIDE DEF x, y
  <2> QED BY <2>1, <2>3, <2>4, <1>7
<1>9. CASE msg.to = b /\ msg.kind = "list" /\ msg.from = a
  <2>1. z = Listing(b, s, a, msg.arg) /\ Asks(a, b, msg)
    BY <1>9 DEF Reply, Asks
  <2>2. PICK start : start = msg.arg
    OBVIOUS
  <2>3. start \in Nat \cup {Unbatched}
    BY <2>2, <1>9 DEF WellFormed
  <2>4. /\ Cur(w[1], b) /\ w[1].scanning /\ Final(w).scanning
        /\ \A j \in 1..Len(q) : ~Ends(a, b, q[j])
        /\ \A h \in 1..Len(R) : ~Asks(a, b, R[h])
        /\ start # Unbatched => Final(w).current = start /\ Listed(s, Final(w), start)
    BY <2>1, <2>2, <1>2 DEF Due
  <2>5. Mail(a, b, s, p, q, R, k, w) /\ a \in Nat /\ b \in Nat \ {0} /\ s \in Seq(Path) /\ q \in Seq(Message)
    BY <1>2
  <2>6. \E W : Mail(a, b, s, p, q \o Listing(b, s, a, start), R, k, W)
    BY ONLY <2>3, <2>4, <2>5, MailAnswer
  <2> QED BY <2>1, <2>2, <2>6
<1>10. CASE msg.to = b /\ msg.kind = "list" /\ msg.from # a
  <2>1. z = Listing(b, s, msg.from, msg.arg)
    BY <1>10 DEF Reply
  <2>2. \A j \in 1..Len(z) : z[j].kind # "list" /\ z[j].from = b /\ z[j].to = msg.from
    BY <2>1, ListingKinds
  <2>3. \A j \in 1..Len(z) : /\ z[j].from = b /\ ~Ends(a, b, z[j])
                             /\ Effect(a, Final(w), z[j]) = Final(w)
    BY <2>2, <1>10, EffectDead DEF Ends
  <2> QED BY <2>3, <1>2, <1>4, MailSame
<1>11. CASE msg.to = b /\ msg.kind = "batch" /\ Cur(o, msg.from) /\ msg.arg = 1
  <2> DEFINE x == Line(b, msg.from, "list", <<>>, o.current + Len(msg.paths))
  <2>1. z = <<x>>
    BY <1>11 DEF Reply
  <2>2. o.current + Len(msg.paths) \in Nat
    <3>1. o.current \in Nat /\ msg.paths \in Seq(Path)
      BY DEF WellFormed, Message, Peer
    <3> QED BY <3>1
  <2>3. WellFormed(x)
    BY <2>2, <1>4, Asking
  <2>4. x.from = b /\ x.kind = "list"
    BY DEF Line
  <2> HIDE DEF x
  <2> QED BY <2>1, <2>3, <2>4, <1>6
<1>12. CASE ~(\/ msg.to = b /\ msg.kind = "hello" /\ ~Cur(o, msg.from)
              \/ msg.to = b /\ msg.kind = "batch" /\ Cur(o, msg.from) /\ msg.arg = 1
              \/ msg.to = b /\ msg.kind = "list")
  <2>1. z = <<>>
    BY <1>12 DEF Reply
  <2> QED BY <2>1, <1>5
<1> QED BY <1>8, <1>9, <1>10, <1>11, <1>12

-----------------------------------------------------------------------------
(* Steps of the system                                                         *)

(* the mail from m to n is in order                                              *)
Met(n, m) ==
  \E w : Mail(port[n], port[m], signals[m], peers[n][m], net[m][n], net[n][m],
              Cur(peers[m][n], port[n]), w)

Correspondence ==
  /\ Typed
  /\ \A n \in Node : IsInjective(signals[n])
  /\ \A n \in Node : \A m \in Others(n) : Met(n, m)

(* what Typed says of two that may meet                                           *)
LEMMA PairOf ==
  ASSUME Typed, NEW n \in Node, NEW m \in Others(n)
  PROVE  /\ m \in Node /\ n \in Others(m) /\ n # m
         /\ port[n] \in Nat \ {0} /\ port[m] \in Nat \ {0}
         /\ signals[m] \in Seq(Path) /\ Len(signals[m]) \in Nat
         /\ peers[n][m] \in Peer /\ peers[n][m].port <= port[m]
         /\ net[n][m] \in Seq(Message) /\ Sent(port[m], port[n], net[n][m])
         /\ net[m][n] \in Seq(Message) /\ Sent(port[n], port[m], net[m][n])
<1>1. m \in Node /\ n \in Others(m) /\ n # m
  BY DEF Others
<1>2. PairTyped(n, m) /\ PairTyped(m, n)
  BY <1>1 DEF Typed
<1> QED BY <1>1, <1>2 DEF Typed, PairTyped

LEMMA InitMet == Init => Correspondence
<1> SUFFICES ASSUME Init PROVE Correspondence
  OBVIOUS
<1>1. Typed
  BY InitTyped
<1>2. ASSUME NEW n \in Node
      PROVE  IsInjective(signals[n])
  BY DEF Init, IsInjective
<1>3. ASSUME NEW n \in Node, NEW m \in Others(n)
      PROVE  Met(n, m)
  <2>1. peers[n][m] = Stranger /\ net[n][m] = <<>> /\ net[m][n] = <<>>
    BY DEF Init, Others
  <2>2. \E w : Mail(port[n], port[m], signals[m], Stranger, net[m][n], net[n][m],
                    Cur(peers[m][n], port[n]), w)
    <3>1. net[m][n] \in Seq(Message)
      BY <2>1
    <3>2. /\ \A j \in 1..Len(net[m][n]) : net[m][n][j].to # port[n]
          /\ \A i \in 1..Len(net[n][m]) : ~Asks(port[n], port[m], net[n][m][i])
      BY <2>1
    <3> QED BY <3>1, <3>2, MailNew
  <2> QED BY <2>1, <2>2 DEF Met
<1> QED BY <1>1, <1>2, <1>3 DEF Correspondence

LEMMA MetSame ==
  ASSUME NEW n \in Node, NEW m \in Others(n), Met(n, m),
         port'[n] = port[n], port'[m] = port[m], signals'[m] = signals[m],
         peers'[n][m] = peers[n][m], peers'[m][n] = peers[m][n],
         net'[m][n] = net[m][n], net'[n][m] = net[n][m]
  PROVE  Met(n, m)'
BY DEF Met

-----------------------------------------------------------------------------
(* A program says hello                                                        *)

LEMMA HelloMet ==
  ASSUME Correspondence, NEW i \in Node, NEW j \in Others(i), Hello(i, j)
  PROVE  Correspondence'
<1>1. Typed /\ Typed'
  BY HelloTyped DEF Correspondence
<1>2. PICK msg : msg = Line(port[i], port[j], "hello", <<>>, 0)
  OBVIOUS
<1>3. PICK q : q = Append(net[i][j], msg)
  OBVIOUS
<1>4. /\ UNCHANGED <<port, signals, peers>> /\ net' = Put(net, i, j, q)
  BY <1>2, <1>3 DEF Hello, Put, Letter, Line
<1>5. /\ net'[i][j] = q
      /\ \A n \in Node : \A m \in Others(n) : n # i \/ m # j => net'[n][m] = net[n][m]
  <2>1. Table(net)
    BY <1>1 DEF Typed
  <2> QED BY <1>4, <2>1, EntryShape
<1>6. WellFormed(msg) /\ msg.from = port[i] /\ msg.kind = "hello"
  <2>1. port[i] \in Nat \ {0} /\ port[j] \in Nat
    BY <1>1, PairOf
  <2>2. WellFormed(msg)
    BY <2>1, <1>2, Asking
  <2> QED BY <2>2, <1>2 DEF Line
<1>7. ASSUME NEW n \in Node, NEW m \in Others(n)
      PROVE  Met(n, m)'
  <2>1. PICK w : Mail(port[n], port[m], signals[m], peers[n][m], net[m][n], net[n][m],
                      Cur(peers[m][n], port[n]), w)
    BY DEF Correspondence, Met
  <2>2. /\ m \in Node /\ n \in Others(m) /\ n # m /\ port[n] \in Nat /\ port[m] \in Nat \ {0}
        /\ Len(signals[m]) \in Nat /\ net[n][m] \in Seq(Message) /\ net[m][n] \in Seq(Message)
    BY <1>1, PairOf
  <2>3. CASE n = j /\ m = i
    <3>1. \E W : Mail(port[n], port[m], signals[m], peers[n][m], net[m][n] \o <<msg>>, net[n][m],
                      Cur(peers[m][n], port[n]), W)
      BY <2>1, <2>2, <2>3, <1>6, MailPlain
    <3>2. net'[m][n] = net[m][n] \o <<msg>> /\ net'[n][m] = net[n][m]
      BY <2>2, <2>3, <1>3, <1>5, <1>6, SMTT(20) DEF WellFormed
    <3> QED BY <3>1, <3>2, <1>4 DEF Met
  <2>4. CASE n = i /\ m = j
    <3>1. PICK z : z = <<msg>>
      OBVIOUS
    <3>2. z \in Seq(Message) /\ Len(z) = 1 /\ z[1].kind = "hello"
      BY <3>1, <1>6 DEF WellFormed
    <3>3. \A h \in 1..Len(z) : ~Asks(port[n], port[m], z[h])
      BY <3>2 DEF Asks
    <3>4. Mail(port[n], port[m], signals[m], peers[n][m], net[m][n], net[n][m] \o z,
               Cur(peers[m][n], port[n]), w)
      BY <3>2, <3>3, <2>1, <2>2, MailBack
    <3>5. net'[n][m] = net[n][m] \o z /\ net'[m][n] = net[m][n]
      BY <3>1, <2>2, <2>4, <1>3, <1>5, <1>6, SMTT(20) DEF WellFormed
    <3> QED BY <3>4, <3>5, <1>4 DEF Met
  <2>5. CASE ~(n = j /\ m = i) /\ ~(n = i /\ m = j)
    <3>1. net'[n][m] = net[n][m] /\ net'[m][n] = net[m][n]
      BY <2>2, <2>5, <1>5
    <3> QED BY <3>1, <1>4, MetSame DEF Correspondence
  <2> QED BY <2>3, <2>4, <2>5
<1>8. \A n \in Node : IsInjective(signals'[n])
  BY <1>4 DEF Correspondence
<1> QED BY <1>1, <1>7, <1>8 DEF Correspondence

-----------------------------------------------------------------------------
(* A program changes its signals                                               *)

(* The peers that know it are told; one that it does not know must not know it.   *)
LEMMA EditMet ==
  ASSUME Correspondence, Typed', NEW i \in Node, ~HalfMet(i),
         NEW t \in Seq(Path), IsInjective(t), signals' = [signals EXCEPT ![i] = t],
         NEW kind \in Notice, NEW xs,
         \A to \in Nat : WellFormed(Line(port[i], to, kind, xs, 0)),
         \A n \in Others(i) : \A to \in Nat :
           Tells(signals[i], t, Line(port[i], to, kind, xs, 0), peers[n][i].scanning),
         net' = Tell(i, kind, xs), UNCHANGED <<port, peers>>
  PROVE  Correspondence'
<1>1. Typed
  BY DEF Correspondence
<1>2. /\ \A m \in Others(i) : net'[i][m] =
           IF Knows(i, m) THEN Append(net[i][m], Line(port[i], peers[i][m].port, kind, xs, 0))
           ELSE net[i][m]
      /\ \A n \in Node : n # i => net'[n] = net[n]
  <2>1. Table(net)
    BY <1>1 DEF Typed
  <2> QED BY <2>1, TellShape
<1>3. signals'[i] = t /\ \A n \in Node : n # i => signals'[n] = signals[n]
  BY <1>1 DEF Typed
<1>4. ASSUME NEW n \in Node
      PROVE  IsInjective(signals'[n])
  BY <1>3 DEF Correspondence
<1>5. ASSUME NEW n \in Others(i)
      PROVE  Met(n, i)'
  <2>1. PICK k : k = Cur(peers[i][n], port[n])
    OBVIOUS
  <2>2. PICK w : Mail(port[n], port[i], signals[i], peers[n][i], net[i][n], net[n][i], k, w)
    BY <2>1 DEF Correspondence, Met, Others
  <2>3. /\ n \in Node /\ i \in Others(n) /\ port[n] \in Nat /\ port[i] \in Nat \ {0}
        /\ signals[i] \in Seq(Path) /\ Len(signals[i]) \in Nat
        /\ net[i][n] \in Seq(Message) /\ peers[i][n] \in Peer /\ peers[n][i] \in Peer
    BY <1>1, PairOf
  <2>4. Len(t) \in Nat
    OBVIOUS
  <2>5. PICK msg : msg = Line(port[i], peers[i][n].port, kind, xs, 0)
    OBVIOUS
  <2>6. /\ WellFormed(msg) /\ msg.from = port[i] /\ msg.to = peers[i][n].port
        /\ msg.kind = kind /\ Tells(signals[i], t, msg, peers[n][i].scanning)
    <3>1. peers[i][n].port \in Nat
      BY <2>3 DEF Peer
    <3>2. WellFormed(msg) /\ Tells(signals[i], t, msg, peers[n][i].scanning)
      BY <3>1, <2>5
    <3> QED BY <3>2, <2>5 DEF Line
  <2>7. net'[i][n] = IF Knows(i, n) THEN net[i][n] \o <<msg>> ELSE net[i][n]
    <3>1. net[i][n] \in Seq(Message) /\ msg \in Message
      BY <2>3, <2>6 DEF WellFormed
    <3>2. Append(net[i][n], msg) = net[i][n] \o <<msg>>
      BY <3>1, Joins
    <3> QED BY <3>2, <1>2, <2>5
  <2>8. SUFFICES \E W : Mail(port[n], port[i], t, peers[n][i], net'[i][n], net[n][i], k, W)
    <3>1. net'[n][i] = net[n][i]
      BY <2>3, <1>2 DEF Others
    <3> QED BY <3>1, <2>1, <2>8, <1>3 DEF Met
  <2>9. CASE k
    <3>1. Knows(i, n) /\ msg.to = port[n]
      BY <2>1, <2>6, <2>9 DEF Cur, Knows
    <3>2. Mail(port[n], port[i], signals[i], peers[n][i], net[i][n], net[n][i], TRUE, w)
      BY <2>2, MailK
    <3>3. /\ WellFormed(msg) /\ msg.from = port[i] /\ msg.to = port[n] /\ msg.kind \in Notice
          /\ Tells(signals[i], t, msg, peers[n][i].scanning)
      BY <3>1, <2>6
    <3>4. \E W : Mail(port[n], port[i], t, peers[n][i], net[i][n] \o <<msg>>, net[n][i], TRUE, W)
      BY ONLY <3>2, <3>3, <2>3, <2>4, MailTold
    <3>5. PICK W : Mail(port[n], port[i], t, peers[n][i], net[i][n] \o <<msg>>, net[n][i], TRUE, W)
      BY <3>4
    <3>6. Mail(port[n], port[i], t, peers[n][i], net[i][n] \o <<msg>>, net[n][i], k, W)
      BY <3>5, <2>9, MailK
    <3> QED BY <3>1, <3>6, <2>7
  <2>10. CASE ~k
    <3>1. ~Cur(peers[n][i], port[i])
      BY <2>1, <2>3, <2>10 DEF HalfMet, Cur, Knows
    <3>2. Mail(port[n], port[i], signals[i], peers[n][i], net[i][n], net[n][i], FALSE, w)
      <4>1. k = FALSE
        BY <2>1, <2>10, Zenon DEF Cur
      <4> QED BY <4>1, <2>2, Zenon
    <3>3. Mail(port[n], port[i], t, peers[n][i], net[i][n], net[n][i], FALSE, w)
      BY <3>1, <3>2, <2>3, MailUnheard
    <3>4. Mail(port[n], port[i], t, peers[n][i], net[i][n], net[n][i], k, w)
      BY <3>3, MailK
    <3>5. CASE ~Knows(i, n)
      BY <3>4, <3>5, <2>7
    <3>6. CASE Knows(i, n)
      <4>1. msg.to # port[n]
        BY <3>6, <2>1, <2>6, <2>10 DEF Cur, Knows
      <4>2. PICK z : z = <<msg>>
        OBVIOUS
      <4>3. z \in Seq(Message) /\ Len(z) = 1 /\ z[1] = msg
        BY <4>2, <2>6 DEF WellFormed
      <4>4. \A j \in 1..Len(z) : /\ z[j].from = port[i] /\ ~Ends(port[n], port[i], z[j])
                                 /\ Effect(port[n], Final(w), z[j]) = Final(w)
        BY <4>1, <4>3, <2>6, EffectDead DEF Ends
      <4>5. \E W : Mail(port[n], port[i], t, peers[n][i], net[i][n] \o z, net[n][i], k, W)
        BY <4>3, <4>4, <3>4, <2>3, <2>4, MailSame
      <4> QED BY <4>2, <4>5, <3>6, <2>7
    <3> QED BY <3>5, <3>6
  <2> QED BY <2>9, <2>10
<1>6. ASSUME NEW m \in Others(i)
      PROVE  Met(i, m)'
  <2>1. PICK w : Mail(port[i], port[m], signals[m], peers[i][m], net[m][i], net[i][m],
                      Cur(peers[m][i], port[i]), w)
    BY DEF Correspondence, Met
  <2>2. m \in Node /\ i \in Others(m) /\ m # i /\ net[i][m] \in Seq(Message) /\ peers[i][m] \in Peer
    BY <1>1, PairOf
  <2>3. PICK msg : msg = Line(port[i], peers[i][m].port, kind, xs, 0)
    OBVIOUS
  <2>4. WellFormed(msg) /\ msg.kind = kind
    <3>1. peers[i][m].port \in Nat
      BY <2>2 DEF Peer
    <3> QED BY <3>1, <2>3 DEF Line
  <2>5. net'[i][m] = net[i][m] \/ net'[i][m] = net[i][m] \o <<msg>>
    <3>1. net[i][m] \in Seq(Message) /\ msg \in Message
      BY <2>2, <2>4 DEF WellFormed
    <3>2. Append(net[i][m], msg) = net[i][m] \o <<msg>>
      BY <3>1, Joins
    <3> QED BY <3>2, <1>2, <2>3
  <2>6. PICK z : z = <<msg>>
    OBVIOUS
  <2>7. z \in Seq(Message) /\ Len(z) = 1 /\ z[1] = msg
    BY <2>6, <2>4 DEF WellFormed
  <2>8. \A h \in 1..Len(z) : ~Asks(port[i], port[m], z[h])
    BY <2>7, <2>4 DEF Asks, Notice
  <2>9. Mail(port[i], port[m], signals[m], peers[i][m], net[m][i], net[i][m] \o z,
             Cur(peers[m][i], port[i]), w)
    BY <2>1, <2>2, <2>7, <2>8, MailBack
  <2>10. net'[m][i] = net[m][i] /\ signals'[m] = signals[m]
    BY <2>2, <1>2, <1>3
  <2> QED BY <2>1, <2>5, <2>6, <2>9, <2>10 DEF Met
<1>7. ASSUME NEW n \in Node, NEW m \in Others(n)
      PROVE  Met(n, m)'
  <2>1. m \in Node /\ n # m
    BY DEF Others
  <2>2. CASE n # i /\ m # i
    <3>1. net'[n] = net[n] /\ net'[m] = net[m] /\ signals'[m] = signals[m]
      BY <2>1, <2>2, <1>2, <1>3
    <3> QED BY <3>1, MetSame DEF Correspondence
  <2> QED BY <2>1, <2>2, <1>5, <1>6 DEF Others
<1> QED BY <1>4, <1>7 DEF Correspondence

LEMMA AppendShape ==
  ASSUME NEW s \in Seq(Path), IsInjective(s), NEW x \in Path, x \notin ToSet(s)
  PROVE  Append(s, x) \in Seq(Path) /\ IsInjective(Append(s, x))
<1> DEFINE t == Append(s, x)
<1>1. /\ t \in Seq(Path) /\ DOMAIN t = 1..Len(s) + 1 /\ DOMAIN s = 1..Len(s) /\ Len(s) \in Nat
      /\ t[Len(s) + 1] = x /\ \A i \in 1..Len(s) : t[i] = s[i]
  OBVIOUS
<1>2. \A i \in 1..Len(s) : s[i] # x
  BY <1>1 DEF ToSet
<1>3. \A i, j \in 1..Len(s) : s[i] = s[j] => i = j
  BY <1>1 DEF IsInjective
<1> HIDE DEF t
<1>4. ASSUME NEW i \in 1..Len(s) + 1, NEW j \in 1..Len(s) + 1, t[i] = t[j]
      PROVE  i = j
  <2>1. CASE i = Len(s) + 1 \/ j = Len(s) + 1
    BY <2>1, <1>1, <1>2, <1>4
  <2>2. CASE i \in 1..Len(s) /\ j \in 1..Len(s)
    BY <2>2, <1>1, <1>3, <1>4
  <2> QED BY <2>1, <2>2, <1>1
<1> QED BY <1>1, <1>4 DEF IsInjective, t

LEMMA ProgramEditMet ==
  ASSUME ~EditsWhenHalfMet, ~DeletesWhileScanned, Correspondence, NEW i \in Node,
         NEW x \in Path, NEW y \in Path, AddSignal(i, x) \/ DelSignal(i, x) \/ Rename(i, x, y)
  PROVE  Correspondence'
<1>1. Typed /\ Typed'
  BY EditTyped DEF Correspondence
<1>2. ~HalfMet(i) /\ UNCHANGED <<port, peers>>
  BY DEF AddSignal, DelSignal, Rename, MayEdit
<1>3. PICK s : s = signals[i]
  OBVIOUS
<1>4. s \in Seq(Path) /\ IsInjective(s) /\ port[i] \in Nat /\ DOMAIN signals = Node
  BY <1>1, <1>3 DEF Correspondence, Typed
<1>5. CASE AddSignal(i, x)
  <2>1. PICK t : t = Append(s, x)
    OBVIOUS
  <2>2. PICK xs : xs = <<x>>
    OBVIOUS
  <2>3. x \notin ToSet(s) /\ signals' = [signals EXCEPT ![i] = t] /\ net' = Tell(i, "created", xs)
    BY <2>1, <2>2, <1>3, <1>5 DEF AddSignal
  <2>4. t \in Seq(Path) /\ IsInjective(t)
    BY <2>1, <2>3, <1>4, AppendShape
  <2>5. \A to \in Nat : WellFormed(Line(port[i], to, "created", xs, 0))
    BY <2>2, <1>4, NoticeWell
  <2>6. ASSUME NEW n \in Others(i), NEW to \in Nat
        PROVE  Tells(s, t, Line(port[i], to, "created", xs, 0), peers[n][i].scanning)
    <3>1. PICK msg : msg = Line(port[i], to, "created", xs, 0)
      OBVIOUS
    <3>2. msg.kind = "created" /\ msg.paths = <<x>>
      BY <3>1, <2>2 DEF Line
    <3>3. PICK busy : busy = peers[n][i].scanning
      OBVIOUS
    <3>4. Tells(s, Append(s, x), msg, busy)
      BY <3>2, <2>3, <1>4, CreatedTells
    <3> QED BY <3>1, <3>3, <3>4, <2>1
  <2>7. "created" \in Notice
    BY DEF Notice
  <2> QED BY <2>3, <2>4, <2>5, <2>6, <2>7, <1>1, <1>2, <1>3, EditMet
<1>6. CASE DelSignal(i, x)
  <2>1. PICK t : t = Without(s, x)
    OBVIOUS
  <2>2. PICK xs : xs = <<x>>
    OBVIOUS
  <2>3. /\ x \in ToSet(s) /\ signals' = [signals EXCEPT ![i] = t] /\ net' = Tell(i, "removed", xs)
        /\ \A n \in Others(i) : ~peers[n][i].scanning
    BY <2>1, <2>2, <1>3, <1>6 DEF DelSignal
  <2>4. t \in Seq(Path) /\ IsInjective(t)
    BY <2>1, <2>3, <1>4, WithoutShape
  <2>5. \A to \in Nat : WellFormed(Line(port[i], to, "removed", xs, 0))
    BY <2>2, <1>4, NoticeWell
  <2>6. ASSUME NEW n \in Others(i), NEW to \in Nat
        PROVE  Tells(s, t, Line(port[i], to, "removed", xs, 0), peers[n][i].scanning)
    <3>1. PICK msg : msg = Line(port[i], to, "removed", xs, 0)
      OBVIOUS
    <3>2. msg.kind = "removed" /\ msg.paths = <<x>>
      BY <3>1, <2>2 DEF Line
    <3>3. peers[n][i].scanning = FALSE
      <4>1. peers[n][i] \in Peer
        BY <1>1, PairOf
      <4> QED BY <4>1, <2>3 DEF Peer
    <3>4. Tells(s, Without(s, x), msg, FALSE)
      BY <3>2, <2>3, <1>4, RemovedTells
    <3> QED BY <3>1, <3>3, <3>4, <2>1
  <2>7. "removed" \in Notice
    BY DEF Notice
  <2> QED BY <2>3, <2>4, <2>5, <2>6, <2>7, <1>1, <1>2, <1>3, EditMet
<1>7. CASE Rename(i, x, y)
  <2>1. PICK t : t = Renamed(s, x, y)
    OBVIOUS
  <2>2. PICK xs : xs = <<x, y>>
    OBVIOUS
  <2>3. /\ x \in ToSet(s) /\ y \notin ToSet(s)
        /\ signals' = [signals EXCEPT ![i] = t] /\ net' = Tell(i, "renamed", xs)
    BY <2>1, <2>2, <1>3, <1>7 DEF Rename, Renamed
  <2>4. t \in Seq(Path) /\ IsInjective(t)
    BY <2>1, <2>3, <1>4, RenamedShape
  <2>5. \A to \in Nat : WellFormed(Line(port[i], to, "renamed", xs, 0))
    BY <2>2, <1>4, NoticeWell
  <2>6. ASSUME NEW n \in Others(i), NEW to \in Nat
        PROVE  Tells(s, t, Line(port[i], to, "renamed", xs, 0), peers[n][i].scanning)
    <3>1. PICK msg : msg = Line(port[i], to, "renamed", xs, 0)
      OBVIOUS
    <3>2. msg.kind = "renamed" /\ msg.paths = <<x, y>>
      BY <3>1, <2>2 DEF Line
    <3>3. PICK busy : busy = peers[n][i].scanning
      OBVIOUS
    <3>4. Tells(s, Renamed(s, x, y), msg, busy)
      BY <3>2, <2>3, <1>4, RenamedTells
    <3> QED BY <3>1, <3>3, <3>4, <2>1
  <2>7. "renamed" \in Notice
    BY DEF Notice
  <2> QED BY <2>3, <2>4, <2>5, <2>6, <2>7, <1>1, <1>2, <1>3, EditMet
<1> QED BY <1>5, <1>6, <1>7

-----------------------------------------------------------------------------
(* A process is restarted                                                      *)

(* Of what is under way nothing is for the new process, and nothing is from it.   *)
LEMMA RestartMet ==
  ASSUME Correspondence, NEW i \in Node, Restart(i)
  PROVE  Correspondence'
<1>1. Typed /\ Typed'
  BY RestartTyped DEF Correspondence
<1>2. /\ port' = [port EXCEPT ![i] = port[i] + 1] /\ signals' = [signals EXCEPT ![i] = <<>>]
      /\ \A m \in Others(i) : peers'[i][m] = Stranger
      /\ \A n \in Node : n # i => peers'[n] = peers[n]
      /\ \A m \in Others(i) : net'[i][m] =
           Append(net[i][m], Line(port[i] + 1, port[m], "hello", <<>>, 0))
      /\ \A n \in Node : n # i => net'[n] = net[n]
  BY <1>1, RestartShape
<1>3. /\ port'[i] = port[i] + 1 /\ signals'[i] = <<>>
      /\ \A n \in Node : n # i => port'[n] = port[n] /\ signals'[n] = signals[n]
  BY <1>1, <1>2 DEF Typed
<1>4. ASSUME NEW n \in Node
      PROVE  IsInjective(signals'[n])
  <2>1. CASE n = i
    BY <2>1, <1>3 DEF IsInjective
  <2>2. CASE n # i
    BY <2>2, <1>3 DEF Correspondence
  <2> QED BY <2>1, <2>2
<1>5. ASSUME NEW m \in Others(i)
      PROVE  Met(i, m)' /\ Met(m, i)'
  <2>1. /\ m \in Node /\ i \in Others(m) /\ m # i
        /\ port[i] \in Nat \ {0} /\ port[m] \in Nat \ {0}
        /\ net[i][m] \in Seq(Message) /\ Sent(port[m], port[i], net[i][m])
        /\ net[m][i] \in Seq(Message) /\ Sent(port[i], port[m], net[m][i])
    BY <1>1, PairOf
  <2>2. PICK msg : msg = Line(port[i] + 1, port[m], "hello", <<>>, 0)
    OBVIOUS
  <2>3. WellFormed(msg) /\ msg.kind = "hello" /\ msg.from = port[i] + 1 /\ msg.to = port[m]
    <3>1. port[i] + 1 \in Nat \ {0} /\ port[m] \in Nat
      BY <2>1
    <3>2. WellFormed(msg)
      BY <3>1, <2>2, Asking
    <3> QED BY <3>2, <2>2 DEF Line
  <2>4. PICK q : q = net[i][m] \o <<msg>>
    OBVIOUS
  <2>5. /\ q \in Seq(Message) /\ Len(q) = Len(net[i][m]) + 1 /\ Len(net[i][m]) \in Nat
        /\ q[Len(q)] = msg /\ \A h \in 1..Len(net[i][m]) : q[h] = net[i][m][h]
        /\ q = Append(net[i][m], msg)
    BY <2>1, <2>3, <2>4 DEF WellFormed
  <2>6. /\ net'[i][m] = q /\ net'[m][i] = net[m][i] /\ peers'[i][m] = Stranger
        /\ peers'[m][i] = peers[m][i] /\ port'[m] = port[m] /\ signals'[m] = signals[m]
    BY <2>1, <2>2, <2>5, <1>2, <1>3
  <2>7. Met(i, m)'
    <3>1. ASSUME NEW j \in 1..Len(net[m][i])
          PROVE  net[m][i][j].to # port'[i]
      <4>1. net[m][i][j].to <= port[i] /\ net[m][i][j].to \in Nat
        BY <2>1 DEF Sent, WellFormed, Message
      <4> QED BY <4>1, <2>1, <1>3
    <3>2. ASSUME NEW h \in 1..Len(q)
          PROVE  ~Asks(port'[i], port'[m], q[h])
      <4>1. CASE h = Len(q)
        BY <4>1, <2>3, <2>5 DEF Asks
      <4>2. CASE h \in 1..Len(net[i][m])
        <5>1. net[i][m][h].from \in 1..port[i]
          BY <4>2, <2>1 DEF Sent
        <5>2. q[h].from # port'[i]
          BY <5>1, <4>2, <2>1, <2>5, <1>3
        <5> QED BY <5>2 DEF Asks
      <4> QED BY <4>1, <4>2, <2>5
    <3>3. \E w : Mail(port'[i], port'[m], signals'[m], Stranger, net[m][i], q,
                      Cur(peers'[m][i], port'[i]), w)
      BY <3>1, <3>2, <2>1, MailNew
    <3> QED BY <3>3, <2>6 DEF Met
  <2>8. Met(m, i)'
    <3>1. PICK w : Mail(port[m], port[i], signals[i], peers[m][i], net[i][m], net[m][i],
                        Cur(peers[i][m], port[m]), w)
      BY <2>1 DEF Correspondence, Met
    <3>2. /\ \A j \in 1..Len(net[i][m]) : net[i][m][j].from \in 1..port[i]
          /\ \A j \in 1..Len(net[m][i]) : net[m][i][j].to <= port[i] /\ net[m][i][j].to \in Nat
      BY <2>1 DEF Sent, WellFormed, Message
    <3>3. \E W : Mail(port[m], port'[i], signals'[i], peers[m][i], net[i][m] \o <<msg>>, net[m][i],
                      Cur(peers'[i][m], port'[m]), W)
      BY <3>1, <3>2, <2>1, <2>3, <1>3, MailRestart
    <3> QED BY <3>3, <2>4, <2>6 DEF Met
  <2> QED BY <2>7, <2>8
<1>6. ASSUME NEW n \in Node, NEW m \in Others(n)
      PROVE  Met(n, m)'
  <2>1. m \in Node /\ n # m
    BY DEF Others
  <2>2. CASE n # i /\ m # i
    <3>1. /\ net'[n] = net[n] /\ net'[m] = net[m] /\ signals'[m] = signals[m]
          /\ port'[n] = port[n] /\ port'[m] = port[m] /\ peers'[n] = peers[n] /\ peers'[m] = peers[m]
      BY <2>1, <2>2, <1>2, <1>3
    <3> QED BY <3>1, MetSame DEF Correspondence
  <2> QED BY <2>1, <2>2, <1>5 DEF Others
<1> QED BY <1>1, <1>4, <1>6 DEF Correspondence

-----------------------------------------------------------------------------
(* A message arrives                                                           *)

(* A process known at its address stays so: nothing older is under way behind     *)
(* what made it known.                                                            *)
LEMMA StaysKnown ==
  ASSUME Correspondence, NEW i \in Node, NEW j \in Others(i), net[i][j] # <<>>,
         Cur(peers[j][i], port[i])
  PROVE  Cur(Effect(port[j], peers[j][i], Head(net[i][j])), port[i])
<1>1. /\ j \in Node /\ i \in Others(j) /\ port[i] \in Nat \ {0}
      /\ peers[j][i] \in Peer /\ net[i][j] \in Seq(Message)
  BY PairOf DEF Correspondence
<1>2. PICK w : Mail(port[j], port[i], signals[i], peers[j][i], net[i][j], net[j][i],
                    Cur(peers[i][j], port[j]), w)
  BY <1>1 DEF Correspondence, Met
<1>3. PICK msg : msg = Head(net[i][j])
  OBVIOUS
<1>4. msg = net[i][j][1] /\ 1 \in 1..Len(net[i][j])
  BY <1>1, <1>3
<1>5. WellFormed(msg) /\ msg.from \in 1..port[i]
  BY <1>3, HeadOf DEF Correspondence
<1>6. w[1] = peers[j][i] /\ (w[1].known => w[1].port <= msg.from)
  <2>1. IsTrail(port[j], peers[j][i], net[i][j], w) /\ InOrder(port[i], net[i][j], w)
    BY <1>2 DEF Mail
  <2> QED BY <2>1, <1>4 DEF IsTrail, InOrder
<1>7. msg.from = port[i]
  <2>1. port[i] <= msg.from
    BY <1>6 DEF Cur
  <2> QED BY <2>1, <1>1, <1>5
<1>8. Cur(peers[j][i], msg.from) => Cur(Effect(port[j], peers[j][i], msg), msg.from)
  BY <1>1, <1>5, EffectShape
<1> QED BY <1>3, <1>7, <1>8

LEMMA DeliverMet ==
  ASSUME Correspondence, NEW i \in Node, NEW j \in Others(i), Deliver(i, j)
  PROVE  Correspondence'
<1>1. Typed /\ Typed'
  BY DeliverTyped DEF Correspondence
<1>2. PICK msg : msg = Head(net[i][j])
  OBVIOUS
<1>3. PICK z : z = Reply(port[j], signals[j], peers[j][i], msg)
  OBVIOUS
<1>4. PICK e : e = Effect(port[j], peers[j][i], msg)
  OBVIOUS
<1>5. /\ net[i][j] # <<>> /\ UNCHANGED <<port, signals>>
      /\ peers'[j][i] = e
      /\ net'[i][j] = Tail(net[i][j])
      /\ net'[j][i] = net[j][i] \o z
      /\ \A n \in Node : \A m \in Others(n) : n # j \/ m # i => peers'[n][m] = peers[n][m]
      /\ \A n \in Node : \A m \in Others(n) : {n, m} # {i, j} => net'[n][m] = net[n][m]
  BY <1>1, <1>2, <1>3, <1>4, DeliverShape
<1>6. /\ j \in Node /\ i \in Others(j) /\ i # j
      /\ port[i] \in Nat \ {0} /\ port[j] \in Nat \ {0}
      /\ signals[i] \in Seq(Path) /\ signals[j] \in Seq(Path)
      /\ peers[j][i] \in Peer /\ net[i][j] \in Seq(Message) /\ net[j][i] \in Seq(Message)
  <2>1. j \in Node /\ i \in Others(j)
    BY DEF Others
  <2> QED BY <2>1, <1>1, PairOf
<1>7. WellFormed(msg) /\ msg.from \in 1..port[i]
  BY <1>1, <1>2, <1>5, HeadOf
<1>8. z \in Seq(Message)
  BY <1>3, <1>6, <1>7, ReplySent
<1>9. Met(j, i)'
  <2>1. PICK k : k = Cur(peers[i][j], port[j])
    OBVIOUS
  <2>2. PICK w : Mail(port[j], port[i], signals[i], peers[j][i], net[i][j], net[j][i], k, w)
    BY <2>1, <1>6 DEF Correspondence, Met
  <2>3. \E W : Mail(port[j], port[i], signals[i], Effect(port[j], peers[j][i], msg),
                    Tail(net[i][j]), net[j][i] \o z, k, W)
    BY ONLY <2>2, <1>2, <1>3, <1>5, <1>6, <1>7, <1>8, MailReplied
  <2>4. k = Cur(peers'[i][j], port'[j])
    BY <2>1, <1>5, <1>6
  <2> QED BY <2>3, <2>4, <1>4, <1>5 DEF Met
<1>10. Met(i, j)'
  <2>1. PICK k : k = Cur(peers[j][i], port[i])
    OBVIOUS
  <2>2. PICK l : l = Cur(peers'[j][i], port'[i])
    OBVIOUS
  <2>3. PICK w : Mail(port[i], port[j], signals[j], peers[i][j], net[j][i], net[i][j], k, w)
    BY <2>1 DEF Correspondence, Met
  <2>4. k => l
    BY <2>1, <2>2, <1>2, <1>4, <1>5, StaysKnown
  <2>5. PICK o : o = peers[j][i]
    OBVIOUS
  <2>6. o \in Peer /\ z = Reply(port[j], signals[j], o, msg)
    BY <2>5, <1>3, <1>6
  <2>7. \E W : Mail(port[i], port[j], signals[j], peers[i][j], net[j][i] \o z,
                    Tail(net[i][j]), l, W)
    <3>1. /\ port[i] \in Nat \ {0} /\ port[j] \in Nat \ {0} /\ signals[j] \in Seq(Path)
          /\ net[j][i] \in Seq(Message) /\ net[i][j] \in Seq(Message) /\ net[i][j] # <<>>
          /\ msg = Head(net[i][j]) /\ WellFormed(msg) /\ msg.from \in 1..port[i]
      BY <1>2, <1>5, <1>6, <1>7
    <3>2. PICK a, b : a = port[i] /\ b = port[j]
      OBVIOUS
    <3>3. PICK s, p, q, r : s = signals[j] /\ p = peers[i][j] /\ q = net[j][i] /\ r = net[i][j]
      OBVIOUS
    <3>4. /\ a \in Nat \ {0} /\ b \in Nat \ {0} /\ s \in Seq(Path)
          /\ q \in Seq(Message) /\ r \in Seq(Message)
          /\ WellFormed(msg) /\ msg.from \in 1..a
      BY <3>1, <3>2, <3>3
    <3>7. PICK R : Leaves(r, msg, R) /\ R = Tail(net[i][j])
      BY <3>1, <3>3 DEF Leaves
    <3>5. Mail(a, b, s, p, q, r, k, w) /\ o \in Peer /\ z = Reply(b, s, o, msg)
      BY <2>3, <2>6, <3>2, <3>3
    <3>6. PICK W : Mail(a, b, s, p, q \o z, R, k, W)
      BY ONLY <3>4, <3>5, <3>7, MailServed
    <3>8. Mail(a, b, s, p, q \o z, R, l, W)
      BY <2>4, <3>6, MailK
    <3> QED BY <3>2, <3>3, <3>7, <3>8
  <2>8. peers'[i][j] = peers[i][j]
    BY <1>5, <1>6
  <2> QED BY <2>2, <2>7, <2>8, <1>5 DEF Met
<1>11. ASSUME NEW n \in Node, NEW m \in Others(n)
       PROVE  Met(n, m)'
  <2>1. m \in Node /\ n # m /\ n \in Others(m)
    BY DEF Others
  <2>2. CASE {n, m} = {i, j}
    <3>1. (n = i /\ m = j) \/ (n = j /\ m = i)
      BY <2>1, <2>2
    <3> QED BY <3>1, <1>9, <1>10
  <2>3. CASE {n, m} # {i, j}
    <3>1. {m, n} # {i, j} /\ (n # j \/ m # i) /\ (m # j \/ n # i)
      BY <2>3
    <3>2. /\ net'[n][m] = net[n][m] /\ net'[m][n] = net[m][n]
          /\ peers'[n][m] = peers[n][m] /\ peers'[m][n] = peers[m][n]
      BY <3>1, <2>1, <2>3, <1>5
    <3> QED BY <3>2, <1>5, MetSame DEF Correspondence
  <2> QED BY <2>2, <2>3
<1>12. \A n \in Node : IsInjective(signals'[n])
  BY <1>5 DEF Correspondence
<1> QED BY <1>1, <1>11, <1>12 DEF Correspondence

-----------------------------------------------------------------------------
(* Mirrors                                                                     *)

LEMMA NextMet ==
  ASSUME ~EditsWhenHalfMet, ~DeletesWhileScanned
  PROVE  Correspondence /\ [Next]_vars => Correspondence'
<1> SUFFICES ASSUME Correspondence, [Next]_vars PROVE Correspondence'
  OBVIOUS
<1>1. ASSUME NEW i \in Node, Program(i) PROVE Correspondence'
  BY <1>1, ProgramEditMet, HelloMet, RestartMet DEF Program
<1>2. ASSUME NEW i \in Node, NEW j \in Others(i), Deliver(i, j) PROVE Correspondence'
  BY <1>2, DeliverMet
<1>3. CASE UNCHANGED vars
  <2>1. Typed'
    BY <1>3, NextTyped DEF Correspondence
  <2> QED BY <2>1, <1>3 DEF vars, Correspondence, Met
<1> QED BY <1>1, <1>2, <1>3 DEF Next

LEMMA AlwaysMet ==
  ASSUME ~EditsWhenHalfMet, ~DeletesWhileScanned
  PROVE  Spec => []Correspondence
BY InitMet, NextMet, PTL DEF Spec

(* With nothing under way, what will be known is what is known.                    *)
LEMMA MetSettled ==
  ASSUME Correspondence, NEW n \in Node, NEW m \in Others(n), Settled(n, m)
  PROVE  /\ Listed(signals[m], peers[n][m], Len(signals[m]))
         /\ port[m] = 1 => \A x \in Path : Mirrors(peers[n][m], x) => x \in ToSet(signals[m])
<1>1. PICK w : Mail(port[n], port[m], signals[m], peers[n][m], net[m][n], net[n][m],
                    Cur(peers[m][n], port[n]), w)
  BY DEF Correspondence, Met
<1>2. net[m][n] = <<>> /\ Cur(peers[n][m], port[m]) /\ ~peers[n][m].scanning
  BY DEF Settled, Acquainted, Knows, Cur
<1>3. Final(w) = peers[n][m]
  BY <1>1, <1>2 DEF Mail, IsTrail, Final
<1>4. Complete(port[m], signals[m], w) /\ Exact(port[m], signals[m], Cur(peers[m][n], port[n]), w)
  BY <1>1 DEF Mail
<1>5. Listed(signals[m], peers[n][m], Len(signals[m]))
  BY <1>2, <1>3, <1>4 DEF Complete
<1>6. port[m] = 1 => \A x \in Path : Mirrors(peers[n][m], x) => x \in ToSet(signals[m])
  BY <1>3, <1>4 DEF Exact
<1> QED BY <1>5, <1>6

LEMMA MetOnce ==
  ASSUME Correspondence, NEW n \in Node, NEW m \in Others(n), port[m] = 1, NEW x \in Path
  PROVE  peers[n][m].signals[x] <= 1
<1>1. PICK w : Mail(port[n], port[m], signals[m], peers[n][m], net[m][n], net[n][m],
                    Cur(peers[m][n], port[n]), w)
  BY DEF Correspondence, Met
<1>2. net[m][n] \in Seq(Message)
  BY PairOf DEF Correspondence
<1>3. w[1] = peers[n][m] /\ 1 \in 1..Len(w)
  BY <1>1, <1>2, TrailShape DEF Mail
<1>4. Exact(port[m], signals[m], Cur(peers[m][n], port[n]), w)
  BY <1>1 DEF Mail
<1> QED BY <1>3, <1>4 DEF Exact

(* Once scan and notices have come to rest, every signal of a peer is mirrored,     *)
(* if no program changes its signals while a peer knows it that it does not know    *)
(* (nobody would be told), and none deletes one while a peer lists them (the next   *)
(* batch would begin one too late).                                                *)
THEOREM MirrorsAreComplete ==
  ASSUME ~EditsWhenHalfMet, ~DeletesWhileScanned
  PROVE  Spec => []MirrorIsComplete
<1>1. Correspondence => MirrorIsComplete
  <2> SUFFICES ASSUME Correspondence, NEW n \in Node, NEW m \in Others(n), Settled(n, m)
               PROVE  \A x \in ToSet(signals[m]) : Mirrors(peers[n][m], x)
    BY DEF MirrorIsComplete
  <2>1. Listed(signals[m], peers[n][m], Len(signals[m])) /\ signals[m] \in Seq(Path)
    BY MetSettled, PairOf DEF Correspondence
  <2> QED BY <2>1, ListedAll
<1> QED BY <1>1, AlwaysMet, PTL

(* Of a peer that has not restarted each signal is mirrored once at any time, and   *)
(* at rest nothing else is, on the same conditions.                                *)
THEOREM MirrorsAreExact ==
  ASSUME ~EditsWhenHalfMet, ~DeletesWhileScanned
  PROVE  Spec => []MirrorIsExact
<1>1. Correspondence => MirrorIsExact
  BY MetSettled, MetOnce DEF MirrorIsExact
<1> QED BY <1>1, AlwaysMet, PTL
=============================================================================
