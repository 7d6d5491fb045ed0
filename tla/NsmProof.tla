------------------------------ MODULE NsmProof ------------------------------
(***************************************************************************)
(* What the client of the session manager keeps to, for any number of       *)
(* announcements, requests and changes.                                     *)
(***************************************************************************)
EXTENDS NsmClient, TLAPS, FiniteSetTheorems, SequenceTheorems

-----------------------------------------------------------------------------
(* The inductive invariant *)

ClientMessage == [kind : {"registered", "refused"} \cup Command]
Announcement == [kind : {"announce"}]
Report == [kind : {"gui", "dirty"}, is : BOOLEAN]
Reply == [kind : {"answer"}, of : Request, ok : BOOLEAN]
ManagerMessage == Announcement \cup Report \cup Reply

MessagesOK ==
  /\ toClient \in Seq(ClientMessage) /\ toManager \in Seq(ManagerMessage)
  /\ handler \in [kind : {"none", "registered", "refused"} \cup Command, ok : BOOLEAN, at : 0..3]

(* with check() a handler and a report of the user never overlap *)
TurnsOK == ~threaded => handler = NoHandler \/ ui = Idle

(* is there a message of the kinds K in the queue? *)
Holds(q, K) == \E k \in 1..Len(q) : q[k].kind \in K

(* every request in the queue comes after a registration in it *)
Introduced(q) ==
  \A j \in 1..Len(q) :
    q[j].kind \in Request => \E i \in 1..j - 1 : q[i].kind = "registered"

(* the address of the manager is there, or is about to be set *)
Coming == handler.kind = "registered" /\ handler.at \in {1, 2}

AddressOK ==
  /\ handler.kind = "registered" /\ handler.at = 3 => addr
  /\ handler.kind \in Request => addr
  /\ active => addr \/ (Coming /\ handler.at = 2)
  /\ manager.registered => addr \/ Coming \/ Holds(toClient, {"registered"})
  /\ addr \/ Coming \/ Introduced(toClient)
  /\ NothingGoesAstray

(* The requests without an answer are, oldest first: those whose answers are under  *)
(* way, the one that runs, and those that wait.                                     *)
Runs(n) == handler.kind \in Request /\ handler.at = n
AnswersIn(q) == Count(q, {"answer"}, Len(q))
RequestsIn(q) == Count(q, Request, Len(q))
Taken == Len(due) + IF Runs(1) THEN 1 ELSE 0

AnswersMatch(q, d) ==
  \A k \in 1..Len(q) :
    q[k].kind = "answer" => d[Count(q, {"answer"}, k)] = [of |-> q[k].of, ok |-> q[k].ok]

RequestsMatch(q, t, a) ==
  \A k \in 1..Len(q) : q[k].kind \in Request => a[t + Count(q, Request, k)] = q[k].kind

RequestsOK ==
  /\ Len(due) = AnswersIn(toManager) + IF Runs(2) THEN 1 ELSE 0
  /\ Len(asked) = Taken + RequestsIn(toClient)
  /\ \A k \in 1..Len(due) : due[k].of = asked[k]
  /\ Runs(1) => asked[Taken] = handler.kind
  /\ Runs(2) => due[Len(due)] = [of |-> handler.kind, ok |-> handler.ok]
  /\ AnswersMatch(toManager, due)
  /\ RequestsMatch(toClient, Taken, asked)

(* is a registration, or its refusal, under way? *)
Registering ==
  \/ Holds(toManager, {"announce"})
  \/ Holds(toClient, {"registered", "refused"})
  \/ handler.kind \in {"registered", "refused"}

(* who knows `known' of x and then reads all of the queue takes v for x *)
WillKnow(q, x, known, v) ==
  \/ known = v /\ \A k \in 1..Len(q) : q[k].kind # x
  \/ \E k \in 1..Len(q) :
       /\ q[k].kind = x /\ q[k].is = v
       /\ \A i \in k + 1 .. Len(q) : q[i].kind # x

ShowsGui == handler.kind \in {"show", "hide"} /\ handler.at = 2

KnowledgeOK ==
  ~threaded =>
    /\ ShowsGui => gui = (handler.kind = "show")
    /\ active /\ ~Registering =>
         /\ ui = "gui" \/ ShowsGui \/ WillKnow(toManager, "gui", manager.gui, gui)
         /\ ui = "dirty" \/ WillKnow(toManager, "dirty", manager.dirty, dirty)

IInv ==
  /\ TypeOK /\ MessagesOK /\ TurnsOK
  /\ AddressOK /\ RequestsOK /\ KnowledgeOK

-----------------------------------------------------------------------------
(* Counting the messages of a queue *)

Counted(queue, K, n) == {j \in 1..n : queue[j].kind \in K}

LEMMA CountedFinite ==
  ASSUME NEW q, NEW K, NEW n \in Nat
  PROVE  /\ IsFiniteSet(Counted(q, K, n))
         /\ Count(q, K, n) = Cardinality(Counted(q, K, n))
         /\ Count(q, K, n) \in 0..n
<1>1. IsFiniteSet(1..n) /\ Cardinality(1..n) = n
  BY FS_Interval
<1>2. Counted(q, K, n) \subseteq 1..n
  BY DEF Counted
<1>3. IsFiniteSet(Counted(q, K, n)) /\ Cardinality(Counted(q, K, n)) <= n
  BY <1>1, <1>2, FS_Subset
<1>4. Cardinality(Counted(q, K, n)) \in Nat
  BY <1>3, FS_CardinalityType
<1>5. Count(q, K, n) = Cardinality(Counted(q, K, n))
  BY DEF Count, Counted
<1> QED BY <1>3, <1>4, <1>5

LEMMA CountNone ==
  ASSUME NEW q, NEW K
  PROVE  Count(q, K, 0) = 0
BY CountedFinite

LEMMA CountNext ==
  ASSUME NEW q, NEW K, NEW n \in Nat
  PROVE  Count(q, K, n + 1) = Count(q, K, n) + IF q[n + 1].kind \in K THEN 1 ELSE 0
<1>1. CASE q[n + 1].kind \in K
  <2>1. Counted(q, K, n + 1) = Counted(q, K, n) \cup {n + 1} /\ n + 1 \notin Counted(q, K, n)
    BY <1>1 DEF Counted
  <2>2. Cardinality(Counted(q, K, n + 1)) = Cardinality(Counted(q, K, n)) + 1
    BY <2>1, CountedFinite, FS_AddElement
  <2> QED BY <2>2, <1>1, CountedFinite
<1>2. CASE q[n + 1].kind \notin K
  <2>1. Counted(q, K, n + 1) = Counted(q, K, n)
    BY <1>2 DEF Counted
  <2> QED BY <2>1, <1>2, CountedFinite
<1> QED BY <1>1, <1>2

LEMMA CountSame ==
  ASSUME NEW q, NEW p, NEW K, NEW n \in Nat, \A j \in 1..n : q[j] = p[j]
  PROVE  Count(q, K, n) = Count(p, K, n)
<1>1. Counted(q, K, n) = Counted(p, K, n)
  BY DEF Counted
<1> QED BY <1>1, CountedFinite

(* A message further on is counted later. *)
LEMMA CountGrows ==
  ASSUME NEW q, NEW K, NEW m \in Nat, NEW n \in Nat, m <= n
  PROVE  Count(q, K, m) <= Count(q, K, n)
<1>1. Counted(q, K, m) \subseteq Counted(q, K, n)
  BY DEF Counted
<1> QED BY <1>1, CountedFinite, FS_Subset

LEMMA CountAppend ==
  ASSUME NEW S, NEW q \in Seq(S), NEW x \in S, NEW K
  PROVE  /\ \A n \in 0..Len(q) : Count(Append(q, x), K, n) = Count(q, K, n)
         /\ Len(Append(q, x)) = Len(q) + 1
         /\ Count(Append(q, x), K, Len(q) + 1) =
              Count(q, K, Len(q)) + IF x.kind \in K THEN 1 ELSE 0
<1>1. Len(q) \in Nat /\ Len(Append(q, x)) = Len(q) + 1 /\ Append(q, x)[Len(q) + 1] = x
  OBVIOUS
<1>2. ASSUME NEW n \in 0..Len(q)
      PROVE  Count(Append(q, x), K, n) = Count(q, K, n)
  <2>1. n \in Nat /\ \A j \in 1..n : Append(q, x)[j] = q[j]
    BY <1>1
  <2> QED BY <2>1, CountSame, ZenonT(60)
<1>3. Count(Append(q, x), K, Len(q) + 1) =
        Count(Append(q, x), K, Len(q)) + IF x.kind \in K THEN 1 ELSE 0
  <2>1. \A p : Count(p, K, Len(q) + 1) = Count(p, K, Len(q)) + IF p[Len(q) + 1].kind \in K THEN 1 ELSE 0
    BY <1>1, CountNext
  <2> QED BY <1>1, <2>1
<1>4. Len(q) \in 0..Len(q)
  BY <1>1
<1> QED BY <1>1, <1>2, <1>3, <1>4

(* Taking the head off a queue shifts the count. *)
LEMMA CountTail ==
  ASSUME NEW S, NEW q \in Seq(S), q # <<>>, NEW K, NEW n \in 0..Len(q) - 1
  PROVE  Count(Tail(q), K, n) = Count(q, K, n + 1) - IF Head(q).kind \in K THEN 1 ELSE 0
<1> DEFINE A == Counted(Tail(q), K, n)
           B == Counted(q, K, n + 1) \ {1}
           f == [j \in A |-> j + 1]
<1>1. Len(q) \in Nat /\ Head(q) = q[1] /\ \A j \in 1..Len(q) - 1 : Tail(q)[j] = q[j + 1]
  OBVIOUS
<1>2. f \in Bijection(A, B)
  <2>1. \A j \in A : f[j] \in B
    BY <1>1 DEF Counted
  <2>2. \A i, j \in A : f[i] = f[j] => i = j
    BY DEF Counted
  <2>3. ASSUME NEW b \in B
        PROVE  \E j \in A : f[j] = b
    <3>1. b - 1 \in A
      BY <1>1 DEF Counted
    <3>2. f[b - 1] = b
      BY <3>1 DEF Counted
    <3> QED BY <3>1, <3>2
  <2>4. f \in [A -> B]
    BY <2>1
  <2> QED BY <2>2, <2>3, <2>4 DEF Bijection, Injection, Surjection, IsInjective
<1>3. IsFiniteSet(A) /\ Cardinality(A) = Cardinality(B)
  <2>1. ExistsBijection(A, B)
    BY <1>2 DEF ExistsBijection
  <2>2. n \in Nat /\ n + 1 \in Nat
    BY <1>1
  <2>3. IsFiniteSet(A) /\ IsFiniteSet(B)
    BY <2>2, CountedFinite, FS_Subset
  <2> QED BY <2>1, <2>3, FS_Bijection
<1> HIDE DEF f
<1> n \in Nat /\ n + 1 \in Nat
  BY <1>1
<1>4. CASE Head(q).kind \in K
  <2>1. 1 \in Counted(q, K, n + 1)
    BY <1>1, <1>4 DEF Counted
  <2>2. Cardinality(B) = Cardinality(Counted(q, K, n + 1)) - 1
    BY <2>1, CountedFinite, FS_RemoveElement
  <2> QED BY <2>2, <1>3, <1>4, CountedFinite
<1>5. CASE Head(q).kind \notin K
  <2>1. B = Counted(q, K, n + 1)
    BY <1>1, <1>5 DEF Counted
  <2>2. Cardinality(B) = Cardinality(Counted(q, K, n + 1))
    BY <2>1
  <2> QED BY <2>2, <1>3, <1>5, CountedFinite
<1> QED BY <1>4, <1>5

-----------------------------------------------------------------------------
(* What a message more or less in a queue changes *)

LEMMA Queues ==
  ASSUME NEW S, NEW q \in Seq(S), NEW x \in S
  PROVE  /\ Len(q) \in Nat
         /\ Append(q, x) \in Seq(S) /\ Len(Append(q, x)) = Len(q) + 1
         /\ \A k \in 1..Len(q) : Append(q, x)[k] = q[k]
         /\ Append(q, x)[Len(q) + 1] = x
         /\ q \o <<x>> = Append(q, x) /\ q \o <<>> = q
         /\ q # <<>> => /\ Head(q) = q[1] /\ Head(q) \in S /\ Len(q) > 0
                        /\ Tail(q) \in Seq(S) /\ Len(Tail(q)) = Len(q) - 1
                        /\ \A k \in 1..Len(q) - 1 : Tail(q)[k] = q[k + 1]
<1>1. Len(q) \in Nat /\ Append(q, x) \in Seq(S) /\ Len(Append(q, x)) = Len(q) + 1
  OBVIOUS
<1>2. /\ \A k \in 1..Len(q) : Append(q, x)[k] = q[k]
      /\ Append(q, x)[Len(q) + 1] = x
  OBVIOUS
<1>3. q \o <<x>> = Append(q, x) /\ q \o <<>> = q
  OBVIOUS
<1>4. ASSUME q # <<>>
      PROVE  /\ Head(q) = q[1] /\ Head(q) \in S /\ Len(q) > 0
             /\ Tail(q) \in Seq(S) /\ Len(Tail(q)) = Len(q) - 1
             /\ \A k \in 1..Len(q) - 1 : Tail(q)[k] = q[k + 1]
  BY <1>4
<1> QED BY <1>1, <1>2, <1>3, <1>4

LEMMA HoldsAppend ==
  ASSUME NEW S, NEW q \in Seq(S), NEW x \in S, NEW K
  PROVE  Holds(Append(q, x), K) <=> Holds(q, K) \/ x.kind \in K
BY Queues DEF Holds

LEMMA HoldsTail ==
  ASSUME NEW S, NEW q \in Seq(S), q # <<>>, NEW K
  PROVE  Holds(q, K) <=> Head(q).kind \in K \/ Holds(Tail(q), K)
<1>1. /\ Len(q) \in Nat /\ Head(q) = q[1] /\ Head(q) \in S /\ Len(q) > 0
      /\ Len(Tail(q)) = Len(q) - 1
      /\ \A k \in 1..Len(q) - 1 : Tail(q)[k] = q[k + 1]
  OBVIOUS
<1>2. ASSUME NEW k \in 1..Len(q), q[k].kind \in K
      PROVE  Head(q).kind \in K \/ Holds(Tail(q), K)
  <2>1. CASE k = 1
    BY <2>1, <1>1, <1>2
  <2>2. CASE k # 1
    <3>1. k - 1 \in 1..Len(Tail(q)) /\ Tail(q)[k - 1] = q[k]
      BY <2>2, <1>1
    <3> QED BY <3>1, <1>2 DEF Holds
  <2> QED BY <2>1, <2>2
<1>3. ASSUME NEW k \in 1..Len(Tail(q)), Tail(q)[k].kind \in K
      PROVE  Holds(q, K)
  <2>1. k + 1 \in 1..Len(q) /\ q[k + 1] = Tail(q)[k]
    BY <1>1
  <2> QED BY <2>1, <1>3 DEF Holds
<1>4. Head(q).kind \in K => Holds(q, K)
  BY <1>1 DEF Holds
<1> QED BY <1>2, <1>3, <1>4 DEF Holds

LEMMA IntroducedAppend ==
  ASSUME NEW S, NEW q \in Seq(S), NEW x \in S, Introduced(q),
         x.kind \in Request => Holds(q, {"registered"})
  PROVE  Introduced(Append(q, x))
<1>1. SUFFICES ASSUME NEW j \in 1..Len(Append(q, x)), Append(q, x)[j].kind \in Request
               PROVE  \E i \in 1..j - 1 : Append(q, x)[i].kind = "registered"
  BY DEF Introduced
<1>2. CASE j = Len(q) + 1
  BY <1>1, <1>2, Queues DEF Holds
<1>3. CASE j \in 1..Len(q)
  <2>1. PICK i \in 1..j - 1 : q[i].kind = "registered"
    BY <1>1, <1>3, Queues DEF Introduced
  <2>2. Append(q, x)[i] = q[i]
    BY <1>3, Queues
  <2> QED BY <2>1, <2>2
<1> QED BY <1>2, <1>3, Queues

LEMMA IntroducedTail ==
  ASSUME NEW S, NEW q \in Seq(S), q # <<>>, Introduced(q), Head(q).kind # "registered"
  PROVE  Introduced(Tail(q)) /\ Head(q).kind \notin Request
<1>1. /\ Len(q) \in Nat /\ Head(q) = q[1] /\ Len(q) > 0 /\ Len(Tail(q)) = Len(q) - 1
      /\ \A k \in 1..Len(q) - 1 : Tail(q)[k] = q[k + 1]
  OBVIOUS
<1>2. Head(q).kind \notin Request
  BY <1>1 DEF Introduced
<1>3. ASSUME NEW j \in 1..Len(Tail(q)), Tail(q)[j].kind \in Request
      PROVE  \E i \in 1..j - 1 : Tail(q)[i].kind = "registered"
  <2>1. PICK i \in 1..j : q[i].kind = "registered"
    BY <1>1, <1>3 DEF Introduced
  <2>2. i # 1
    BY <2>1, <1>1
  <2>3. i - 1 \in 1..j - 1 /\ Tail(q)[i - 1] = q[i]
    BY <2>2, <1>1
  <2> QED BY <2>1, <2>3
<1> QED BY <1>2, <1>3 DEF Introduced

LEMMA KnowsAppend ==
  ASSUME NEW S, NEW q \in Seq(S), NEW m \in S, NEW x, NEW known, NEW v
  PROVE  /\ m.kind # x /\ WillKnow(q, x, known, v) => WillKnow(Append(q, m), x, known, v)
         /\ m.kind = x /\ m.is = v => WillKnow(Append(q, m), x, known, v)
<1>1. ASSUME m.kind # x, known = v, \A k \in 1..Len(q) : q[k].kind # x
      PROVE  WillKnow(Append(q, m), x, known, v)
  BY <1>1, Queues DEF WillKnow
<1>2. ASSUME m.kind # x,
             NEW k \in 1..Len(q), q[k].kind = x, q[k].is = v,
             \A i \in k + 1 .. Len(q) : q[i].kind # x
      PROVE  WillKnow(Append(q, m), x, known, v)
  <2>1. k \in 1..Len(Append(q, m)) /\ Append(q, m)[k] = q[k]
    BY Queues
  <2>2. \A i \in k + 1 .. Len(Append(q, m)) : Append(q, m)[i].kind # x
    BY <1>2, Queues
  <2> QED BY <2>1, <2>2, <1>2 DEF WillKnow
<1>3. ASSUME m.kind = x, m.is = v
      PROVE  WillKnow(Append(q, m), x, known, v)
  <2>1. Len(q) + 1 \in 1..Len(Append(q, m)) /\ Append(q, m)[Len(q) + 1] = m
    BY Queues
  <2>2. (Len(q) + 1) + 1 .. Len(Append(q, m)) = {}
    BY Queues
  <2> QED BY <2>1, <2>2, <1>3 DEF WillKnow
<1> QED BY <1>1, <1>2, <1>3 DEF WillKnow

LEMMA KnowsTail ==
  ASSUME NEW S, NEW q \in Seq(S), q # <<>>, NEW x, NEW known, NEW v,
         WillKnow(q, x, known, v)
  PROVE  WillKnow(Tail(q), x, IF Head(q).kind = x THEN Head(q).is ELSE known, v)
<1> DEFINE now == IF Head(q).kind = x THEN Head(q).is ELSE known
<1>1. /\ Len(q) \in Nat /\ Head(q) = q[1] /\ Len(q) > 0 /\ Len(Tail(q)) = Len(q) - 1
      /\ \A k \in 1..Len(q) - 1 : Tail(q)[k] = q[k + 1]
  OBVIOUS
<1>2. CASE known = v /\ \A k \in 1..Len(q) : q[k].kind # x
  BY <1>1, <1>2 DEF WillKnow
<1>3. ASSUME NEW k \in 1..Len(q), q[k].kind = x, q[k].is = v,
             \A i \in k + 1 .. Len(q) : q[i].kind # x
      PROVE  WillKnow(Tail(q), x, now, v)
  <2>1. CASE k = 1
    BY <2>1, <1>1, <1>3 DEF WillKnow
  <2>2. CASE k # 1
    <3>1. k - 1 \in 1..Len(Tail(q)) /\ Tail(q)[k - 1] = q[k]
      BY <2>2, <1>1
    <3>2. \A i \in (k - 1) + 1 .. Len(Tail(q)) : Tail(q)[i].kind # x
      BY <1>1, <1>3
    <3> QED BY <3>1, <3>2, <1>3 DEF WillKnow
  <2> QED BY <2>1, <2>2
<1> QED BY <1>2, <1>3 DEF WillKnow

(* One message more: the counts of the whole queue. *)
LEMMA TotalAppend ==
  ASSUME NEW S, NEW q \in Seq(S), NEW x \in S, NEW K
  PROVE  Count(Append(q, x), K, Len(Append(q, x))) =
           Count(q, K, Len(q)) + IF x.kind \in K THEN 1 ELSE 0
BY CountAppend

LEMMA TotalTail ==
  ASSUME NEW S, NEW q \in Seq(S), q # <<>>, NEW K
  PROVE  Count(Tail(q), K, Len(Tail(q))) =
           Count(q, K, Len(q)) - IF Head(q).kind \in K THEN 1 ELSE 0
<1>1. Len(q) - 1 \in 0..Len(q) - 1 /\ Len(Tail(q)) = Len(q) - 1 /\ (Len(q) - 1) + 1 = Len(q)
  OBVIOUS
<1>2. \A n \in 0..Len(q) - 1 :
        Count(Tail(q), K, n) = Count(q, K, n + 1) - IF Head(q).kind \in K THEN 1 ELSE 0
  BY CountTail
<1> QED BY <1>1, <1>2

(* A message that is there has been counted. *)
LEMMA Present ==
  ASSUME NEW S, NEW q \in Seq(S), NEW K, NEW k \in 1..Len(q)
  PROVE  /\ Count(q, K, k) \in 0..Count(q, K, Len(q))
         /\ q[k].kind \in K => Count(q, K, k) >= 1
<1>1. Len(q) \in Nat /\ k \in Nat /\ k - 1 \in Nat /\ (k - 1) + 1 = k /\ k <= Len(q)
  OBVIOUS
<1>2. Count(q, K, k) \in Nat /\ Count(q, K, k - 1) \in Nat /\ Count(q, K, Len(q)) \in Nat
  BY <1>1, CountedFinite
<1>3. Count(q, K, (k - 1) + 1) = Count(q, K, k - 1) + IF q[(k - 1) + 1].kind \in K THEN 1 ELSE 0
  BY <1>1, CountNext
<1>4. Count(q, K, k) <= Count(q, K, Len(q))
  BY <1>1, CountGrows
<1> QED BY <1>1, <1>2, <1>3, <1>4

LEMMA AnswersAppend ==
  ASSUME NEW S, NEW q \in Seq(S), NEW x \in S, NEW d, AnswersMatch(q, d),
         x.kind = "answer" => d[AnswersIn(q) + 1] = [of |-> x.of, ok |-> x.ok]
  PROVE  AnswersMatch(Append(q, x), d)
<1>1. SUFFICES ASSUME NEW k \in 1..Len(Append(q, x)), Append(q, x)[k].kind = "answer"
               PROVE  d[Count(Append(q, x), {"answer"}, k)] =
                        [of |-> Append(q, x)[k].of, ok |-> Append(q, x)[k].ok]
  BY DEF AnswersMatch
<1>2. CASE k \in 1..Len(q)
  <2>1. Append(q, x)[k] = q[k] /\ k \in 0..Len(q)
    BY <1>2, Queues
  <2>2. Count(Append(q, x), {"answer"}, k) = Count(q, {"answer"}, k)
    <3>1. k \in Nat /\ \A j \in 1..k : Append(q, x)[j] = q[j]
      BY <1>2, Queues
    <3> QED BY <3>1, CountSame, ZenonT(60)
  <2> QED BY <2>1, <2>2, <1>1, <1>2 DEF AnswersMatch
<1>3. CASE k = Len(q) + 1
  <2>1. Append(q, x)[k] = x
    BY <1>3, Queues
  <2>2. Count(Append(q, x), {"answer"}, k) = AnswersIn(q) + 1
    <3>1. Count(Append(q, x), {"answer"}, Len(q) + 1) =
            Count(q, {"answer"}, Len(q)) + IF x.kind \in {"answer"} THEN 1 ELSE 0
      BY CountAppend
    <3> QED BY <3>1, <2>1, <1>1, <1>3 DEF AnswersIn
  <2> QED BY <2>1, <2>2, <1>1
<1> QED BY <1>2, <1>3, Queues

(* A new answer of the program comes after all those that are under way. *)
LEMMA AnswersGrow ==
  ASSUME NEW S, NEW q \in Seq(S), NEW T, NEW d \in Seq(T), NEW y \in T,
         AnswersMatch(q, d), AnswersIn(q) <= Len(d)
  PROVE  AnswersMatch(q, Append(d, y))
<1>1. SUFFICES ASSUME NEW k \in 1..Len(q), q[k].kind = "answer"
               PROVE  Append(d, y)[Count(q, {"answer"}, k)] = d[Count(q, {"answer"}, k)]
  BY DEF AnswersMatch
<1>2. AnswersIn(q) \in Nat
  BY CountedFinite DEF AnswersIn
<1>3. Count(q, {"answer"}, k) \in 1..Len(d)
  BY <1>1, <1>2, Present DEF AnswersIn
<1> QED BY <1>3

LEMMA AnswersTail ==
  ASSUME NEW S, NEW q \in Seq(S), q # <<>>, NEW T, NEW d \in Seq(T),
         AnswersMatch(q, d), AnswersIn(q) <= Len(d)
  PROVE  AnswersMatch(Tail(q), IF Head(q).kind = "answer" THEN Tail(d) ELSE d)
<1> DEFINE e == IF Head(q).kind = "answer" THEN Tail(d) ELSE d
           h == IF Head(q).kind = "answer" THEN 1 ELSE 0
<1>1. SUFFICES ASSUME NEW k \in 1..Len(Tail(q)), Tail(q)[k].kind = "answer"
               PROVE  e[Count(Tail(q), {"answer"}, k)] =
                        [of |-> Tail(q)[k].of, ok |-> Tail(q)[k].ok]
  BY DEF AnswersMatch
<1>2. k + 1 \in 1..Len(q) /\ q[k + 1] = Tail(q)[k] /\ k \in 0..Len(q) - 1 /\ k \in Nat
      /\ Tail(q) \in Seq(S)
  OBVIOUS
<1>3. Count(Tail(q), {"answer"}, k) = Count(q, {"answer"}, k + 1) - h
  BY <1>2, CountTail
<1>4. Count(Tail(q), {"answer"}, k) >= 1
  BY <1>1, <1>2, Present
<1>5. Count(q, {"answer"}, k + 1) \in 0..AnswersIn(q)
  BY <1>2, Present DEF AnswersIn
<1>6. AnswersIn(q) \in Nat /\ Len(d) \in Nat
  BY CountedFinite DEF AnswersIn
<1>7. e[Count(Tail(q), {"answer"}, k)] = d[Count(q, {"answer"}, k + 1)]
  <2>1. CASE Head(q).kind = "answer"
    <3> DEFINE c == Count(q, {"answer"}, k + 1)
    <3>1. c - 1 \in 1..Len(d) - 1 /\ (c - 1) + 1 = c /\ Count(Tail(q), {"answer"}, k) = c - 1
      BY <2>1, <1>3, <1>4, <1>5, <1>6
    <3> HIDE DEF c
    <3>2. \A j \in 1..Len(d) - 1 : Tail(d)[j] = d[j + 1]
      OBVIOUS
    <3>3. e[Count(Tail(q), {"answer"}, k)] = Tail(d)[c - 1]
      BY <3>1, <2>1
    <3>4. Tail(d)[c - 1] = d[c]
      BY <3>1, <3>2
    <3> QED BY <3>3, <3>4 DEF c
  <2>2. CASE Head(q).kind # "answer"
    BY <2>2, <1>3, <1>5, <1>6
  <2> QED BY <2>1, <2>2
<1> QED BY <1>1, <1>2, <1>7 DEF AnswersMatch

LEMMA RequestsAppend ==
  ASSUME NEW S, NEW q \in Seq(S), NEW x \in S, NEW t \in Nat, NEW a,
         RequestsMatch(q, t, a),
         x.kind \in Request => a[t + RequestsIn(q) + 1] = x.kind
  PROVE  RequestsMatch(Append(q, x), t, a)
<1>1. SUFFICES ASSUME NEW k \in 1..Len(Append(q, x)), Append(q, x)[k].kind \in Request
               PROVE  a[t + Count(Append(q, x), Request, k)] = Append(q, x)[k].kind
  BY DEF RequestsMatch
<1>2. CASE k \in 1..Len(q)
  <2>1. Append(q, x)[k] = q[k] /\ k \in 0..Len(q)
    BY <1>2, Queues
  <2>2. Count(Append(q, x), Request, k) = Count(q, Request, k)
    <3>1. k \in Nat /\ \A j \in 1..k : Append(q, x)[j] = q[j]
      BY <1>2, Queues
    <3> QED BY <3>1, CountSame, ZenonT(60)
  <2> QED BY <2>1, <2>2, <1>1, <1>2 DEF RequestsMatch
<1>3. CASE k = Len(q) + 1
  <2>1. Append(q, x)[k] = x
    BY <1>3, Queues
  <2>2. RequestsIn(q) \in Nat
    BY CountedFinite DEF RequestsIn
  <2>3. Count(Append(q, x), Request, k) = RequestsIn(q) + 1
    <3>1. Count(Append(q, x), Request, Len(q) + 1) =
            Count(q, Request, Len(q)) + IF x.kind \in Request THEN 1 ELSE 0
      BY CountAppend
    <3> QED BY <3>1, <2>1, <1>1, <1>3 DEF RequestsIn
  <2>4. t + Count(Append(q, x), Request, k) = t + RequestsIn(q) + 1
    BY <2>2, <2>3
  <2> QED BY <2>1, <2>4, <1>1
<1> QED BY <1>2, <1>3, Queues

(* A new request of the manager comes after all those that wait. *)
LEMMA RequestsGrow ==
  ASSUME NEW S, NEW q \in Seq(S), NEW t \in Nat, NEW T, NEW a \in Seq(T), NEW y \in T,
         RequestsMatch(q, t, a), t + RequestsIn(q) <= Len(a)
  PROVE  RequestsMatch(q, t, Append(a, y))
<1>1. SUFFICES ASSUME NEW k \in 1..Len(q), q[k].kind \in Request
               PROVE  Append(a, y)[t + Count(q, Request, k)] = a[t + Count(q, Request, k)]
  BY DEF RequestsMatch
<1>2. RequestsIn(q) \in Nat
  BY CountedFinite DEF RequestsIn
<1>3. t + Count(q, Request, k) \in 1..Len(a)
  BY <1>1, <1>2, Present DEF RequestsIn
<1> QED BY <1>3

(* The client takes a message. *)
LEMMA RequestsTail ==
  ASSUME NEW S, NEW q \in Seq(S), q # <<>>, NEW t \in Nat, NEW a, RequestsMatch(q, t, a)
  PROVE  RequestsMatch(Tail(q), t + IF Head(q).kind \in Request THEN 1 ELSE 0, a)
<1> DEFINE h == IF Head(q).kind \in Request THEN 1 ELSE 0
<1>1. SUFFICES ASSUME NEW k \in 1..Len(Tail(q)), Tail(q)[k].kind \in Request
               PROVE  a[(t + h) + Count(Tail(q), Request, k)] = Tail(q)[k].kind
  BY DEF RequestsMatch
<1>2. k + 1 \in 1..Len(q) /\ q[k + 1] = Tail(q)[k] /\ k \in 0..Len(q) - 1 /\ k + 1 \in Nat
  OBVIOUS
<1>3. Count(Tail(q), Request, k) = Count(q, Request, k + 1) - h
  BY <1>2, CountTail
<1>4. Count(q, Request, k + 1) \in Nat
  BY <1>2, CountedFinite
<1>5. (t + h) + Count(Tail(q), Request, k) = t + Count(q, Request, k + 1)
  BY <1>3, <1>4
<1> QED BY <1>1, <1>2, <1>5 DEF RequestsMatch

(* The manager takes an answer. *)
LEMMA RequestsShift ==
  ASSUME NEW S, NEW q \in Seq(S), NEW t \in Nat, t >= 1, NEW T, NEW a \in Seq(T),
         RequestsMatch(q, t, a), t + RequestsIn(q) <= Len(a)
  PROVE  RequestsMatch(q, t - 1, Tail(a))
<1>1. SUFFICES ASSUME NEW k \in 1..Len(q), q[k].kind \in Request
               PROVE  Tail(a)[(t - 1) + Count(q, Request, k)] = a[t + Count(q, Request, k)]
  BY DEF RequestsMatch
<1> DEFINE c == Count(q, Request, k)
<1>2. RequestsIn(q) \in Nat
  BY CountedFinite DEF RequestsIn
<1>3. c \in 1..RequestsIn(q)
  BY <1>1, <1>2, Present DEF RequestsIn
<1> HIDE DEF c
<1>4. (t - 1) + c \in 1..Len(a) - 1 /\ ((t - 1) + c) + 1 = t + c
  BY <1>2, <1>3
<1>5. \A j \in 1..Len(a) - 1 : Tail(a)[j] = a[j + 1]
  OBVIOUS
<1>6. Tail(a)[(t - 1) + c] = a[t + c]
  BY <1>4, <1>5
<1> QED BY <1>6 DEF c

-----------------------------------------------------------------------------
(* The messages *)

LEMMA Kinds ==
  /\ \A k \in {"registered", "refused"} \cup Command : Msg(k) \in ClientMessage /\ Msg(k).kind = k
  /\ Msg("announce") \in ManagerMessage /\ Msg("announce").kind = "announce"
  /\ \A b \in BOOLEAN : /\ GuiMsg(b) \in ManagerMessage
                        /\ GuiMsg(b).kind = "gui" /\ GuiMsg(b).is = b
                        /\ DirtyMsg(b) \in ManagerMessage
                        /\ DirtyMsg(b).kind = "dirty" /\ DirtyMsg(b).is = b
  /\ \A k \in Request, ok \in BOOLEAN :
       [kind |-> "answer", of |-> k, ok |-> ok] \in ManagerMessage
  /\ \A m \in ManagerMessage :
       /\ m.kind \in {"announce", "gui", "dirty", "answer"}
       /\ m.kind \in {"gui", "dirty"} => m.is \in BOOLEAN
BY DEF Msg, GuiMsg, DirtyMsg, ClientMessage, ManagerMessage, Announcement, Report, Reply,
       Command, Request

LEMMA Reported ==
  ASSUME NEW S, NEW q \in Seq(S), NEW x \in S, x.kind # "answer", NEW d
  PROVE  /\ AnswersIn(Append(q, x)) = AnswersIn(q)
         /\ AnswersMatch(q, d) => AnswersMatch(Append(q, x), d)
<1>1. Count(Append(q, x), {"answer"}, Len(Append(q, x))) =
        Count(q, {"answer"}, Len(q)) + IF x.kind \in {"answer"} THEN 1 ELSE 0
  BY TotalAppend
<1>2. AnswersIn(q) \in Nat
  BY CountedFinite DEF AnswersIn
<1>3. AnswersIn(Append(q, x)) = AnswersIn(q)
  BY <1>1, <1>2 DEF AnswersIn
<1>4. AnswersMatch(q, d) => AnswersMatch(Append(q, x), d)
  BY AnswersAppend
<1> QED BY <1>3, <1>4

(* The accounts of the requests do not depend on the reports of the program. *)
LEMMA RequestsKept ==
  ASSUME RequestsOK, UNCHANGED <<asked, due, toClient>>,
         Runs(1)' <=> Runs(1), Runs(2)' <=> Runs(2),
         Runs(1) \/ Runs(2) => handler'.kind = handler.kind /\ handler'.ok = handler.ok,
         AnswersIn(toManager') = AnswersIn(toManager), AnswersMatch(toManager', due)
  PROVE  RequestsOK'
<1>1. Taken' = Taken
  BY DEF Taken
<1> QED BY <1>1 DEF RequestsOK

LEMMA AnnounceKeeps ==
  ASSUME IInv, Announce
  PROVE  IInv'
<1> USE DEF IInv, Announce, program, bounds
<1>1. /\ toManager \in Seq(ManagerMessage) /\ Msg("announce") \in ManagerMessage
      /\ toManager' = Append(toManager, Msg("announce")) /\ Msg("announce").kind = "announce"
  BY Kinds DEF MessagesOK
<1>2. TypeOK'
  BY DEF TypeOK
<1>3. MessagesOK'
  BY <1>1 DEF MessagesOK
<1>4. TurnsOK'
  BY DEF TurnsOK
<1>5. AddressOK'
  BY DEF AddressOK, Coming, NothingGoesAstray
<1>6. RequestsOK'
  BY <1>1, Reported, RequestsKept DEF Runs, RequestsOK
<1>7. KnowledgeOK'
  <2>1. Registering'
    BY <1>1, HoldsAppend DEF Registering
  <2> QED BY <2>1 DEF KnowledgeOK, ShowsGui
<1> QED BY <1>2, <1>3, <1>4, <1>5, <1>6, <1>7

LEMMA UserChangeKeeps ==
  ASSUME IInv, NEW what \in {"gui", "dirty"}, UserChange(what)
  PROVE  IInv'
<1> USE DEF IInv, UserChange, bounds
<1>1. TypeOK'
  BY DEF TypeOK
<1>2. MessagesOK'
  BY DEF MessagesOK
<1>3. TurnsOK'
  BY DEF TurnsOK, UiFree
<1>4. AddressOK'
  BY DEF AddressOK, Coming, NothingGoesAstray
<1>5. RequestsOK'
  BY RequestsKept DEF Runs, RequestsOK
<1>6. KnowledgeOK'
  <2> SUFFICES ASSUME ~threaded
               PROVE  KnowledgeOK'
    BY DEF KnowledgeOK
  <2>1. ui = Idle /\ handler = NoHandler /\ ui' = what
    BY DEF UiFree
  <2>2. ~ShowsGui /\ ~ShowsGui' /\ (Registering' <=> Registering)
    BY <2>1 DEF ShowsGui, NoHandler, Registering
  <2>3. active /\ ~Registering =>
          /\ WillKnow(toManager, "gui", manager.gui, gui)
          /\ WillKnow(toManager, "dirty", manager.dirty, dirty)
    BY <2>1, <2>2 DEF KnowledgeOK, Idle
  <2>4. (what = "gui" \/ gui' = gui) /\ (what = "dirty" \/ dirty' = dirty)
    <3>1. dirty \in BOOLEAN
      BY DEF TypeOK
    <3> QED BY <3>1
  <2> QED BY <2>1, <2>2, <2>3, <2>4 DEF KnowledgeOK
<1> QED BY <1>1, <1>2, <1>3, <1>4, <1>5, <1>6

LEMMA UserReportKeeps ==
  ASSUME IInv, UserReport
  PROVE  IInv'
<1> USE DEF IInv, UserReport, bounds
<1> DEFINE m == IF ui = "gui" THEN GuiMsg(gui) ELSE DirtyMsg(dirty)
<1>1. gui \in BOOLEAN /\ dirty \in BOOLEAN /\ ui \in {"gui", "dirty"}
  BY DEF TypeOK, Idle
<1>2. m \in ManagerMessage /\ m.kind = ui /\ m.is = (IF ui = "gui" THEN gui ELSE dirty)
  BY <1>1, Kinds
<1>3. toManager \in Seq(ManagerMessage)
  BY DEF MessagesOK
<1>4. \/ toManager' = toManager /\ (threaded \/ ~active)
      \/ toManager' = Append(toManager, m)
  <2>1. CASE ui = "gui"
    BY <2>1 DEF SendGui
  <2>2. CASE ui # "gui"
    <3>1. ~threaded /\ active => addr
      BY <1>1 DEF TurnsOK, AddressOK, Coming, NoHandler, Idle
    <3> QED BY <1>2, <1>3, <2>2, <3>1, Queues DEF ReportDirty, SendToManager
  <2> QED BY <2>1, <2>2
<1>5. ~threaded => astray' = astray
  BY <1>1 DEF TurnsOK, AddressOK, Coming, NoHandler, Idle, SendGui, ReportDirty, SendToManager
<1> HIDE DEF m
<1>6. TypeOK'
  <2>1. astray' \in BOOLEAN
    BY DEF TypeOK, SendGui, ReportDirty, SendToManager
  <2> QED BY <2>1 DEF TypeOK, program
<1>7. MessagesOK'
  BY <1>2, <1>3, <1>4 DEF MessagesOK
<1>8. TurnsOK'
  BY DEF TurnsOK
<1>9. AddressOK'
  BY <1>5 DEF AddressOK, Coming, NothingGoesAstray
<1>10. RequestsOK'
  <2>1. AnswersIn(toManager') = AnswersIn(toManager) /\ AnswersMatch(toManager', due)
    <3>1. AnswersMatch(toManager, due) /\ m.kind # "answer"
      BY <1>1, <1>2 DEF RequestsOK
    <3>2. AnswersIn(Append(toManager, m)) = AnswersIn(toManager)
          /\ AnswersMatch(Append(toManager, m), due)
      BY <1>2, <1>3, <3>1, Reported
    <3> QED BY <1>4, <3>1, <3>2
  <2> QED BY <2>1, RequestsKept DEF Runs
<1>11. KnowledgeOK'
  <2> SUFFICES ASSUME ~threaded, active, ~Registering'
               PROVE  /\ WillKnow(toManager', "gui", manager.gui, gui)
                      /\ WillKnow(toManager', "dirty", manager.dirty, dirty)
    BY <1>1 DEF KnowledgeOK, TurnsOK, NoHandler, ShowsGui, Idle
  <2>1. ~Registering /\ ~ShowsGui
    <3>1. Holds(Append(toManager, m), {"announce"}) <=>
            Holds(toManager, {"announce"}) \/ m.kind \in {"announce"}
      BY <1>2, <1>3, HoldsAppend
    <3>2. Holds(toManager', {"announce"}) <=> Holds(toManager, {"announce"})
      BY <1>1, <1>2, <1>4, <3>1
    <3>3. handler = NoHandler
      BY <1>1 DEF TurnsOK, Idle
    <3> QED BY <3>2, <3>3 DEF Registering, ShowsGui, NoHandler
  <2>2. /\ ui = "gui" \/ WillKnow(toManager, "gui", manager.gui, gui)
        /\ ui = "dirty" \/ WillKnow(toManager, "dirty", manager.dirty, dirty)
    BY <2>1 DEF KnowledgeOK
  <2>3. toManager' = Append(toManager, m)
    BY <1>4
  <2> QED BY <1>1, <1>2, <1>3, <2>2, <2>3, KnowsAppend
<1> QED BY <1>6, <1>7, <1>8, <1>9, <1>10, <1>11

LEMMA ReceiveKeeps ==
  ASSUME IInv, Receive
  PROVE  IInv'
<1> USE DEF IInv, Receive, program, bounds
<1> DEFINE k == Head(toClient).kind
<1>1. /\ toClient \in Seq(ClientMessage) /\ toClient # <<>> /\ handler = NoHandler
      /\ k \in {"registered", "refused"} \cup Command /\ Tail(toClient) \in Seq(ClientMessage)
  <2>1. toClient \in Seq(ClientMessage) /\ toClient # <<>>
    BY DEF MessagesOK
  <2>2. Head(toClient) \in ClientMessage /\ Tail(toClient) \in Seq(ClientMessage)
    BY <2>1
  <2> QED BY <2>1, <2>2 DEF ClientMessage
<1>2. handler' = [kind |-> k, ok |-> TRUE, at |-> 1] /\ toClient' = Tail(toClient)
  OBVIOUS
<1> HIDE DEF k
<1>3. TypeOK'
  BY <1>1, <1>2 DEF TypeOK
<1>4. MessagesOK'
  BY <1>1, <1>2 DEF MessagesOK, Command, Request
<1>5. TurnsOK'
  BY DEF TurnsOK
<1>6. AddressOK'
  <2>1. ~Coming /\ handler'.at = 1 /\ (k = "registered" => Coming')
    BY <1>1, <1>2 DEF Coming, NoHandler
  <2>2. \A K : Holds(toClient, K) <=> k \in K \/ Holds(toClient', K)
    BY <1>1, <1>2, HoldsTail DEF k
  <2>3. addr \/ k = "registered" \/ (Introduced(toClient') /\ k \notin Request)
    BY <1>1, <1>2, <2>1, IntroducedTail DEF AddressOK, k
  <2>4. handler'.kind = k
    BY <1>2
  <2> QED BY <2>1, <2>2, <2>3, <2>4 DEF AddressOK, NothingGoesAstray, Request
<1>7. RequestsOK'
  <2>1. /\ ~Runs(1) /\ ~Runs(2) /\ ~Runs(2)' /\ (Runs(1)' <=> k \in Request)
        /\ handler'.kind = k
    BY <1>1, <1>2 DEF Runs, NoHandler, Request
  <2>2. Len(due) \in Nat /\ Taken = Len(due)
    BY <2>1 DEF TypeOK, Taken
  <2>3. Taken' = Taken + IF k \in Request THEN 1 ELSE 0
    BY <2>1, <2>2 DEF Taken
  <2>4. RequestsMatch(toClient', Taken', asked)
    BY <1>1, <1>2, <2>2, <2>3, RequestsTail DEF RequestsOK, k
  <2>5. RequestsIn(toClient) \in Nat
    BY CountedFinite, <1>1 DEF RequestsIn
  <2>6. Count(Tail(toClient), Request, Len(Tail(toClient))) =
          Count(toClient, Request, Len(toClient)) - IF Head(toClient).kind \in Request THEN 1 ELSE 0
    BY <1>1, TotalTail
  <2>7. Len(asked) = Taken' + RequestsIn(toClient')
    BY <1>2, <2>2, <2>3, <2>5, <2>6 DEF RequestsIn, RequestsOK, k
  <2>8. k \in Request => asked[Taken'] = k
    <3>1. Count(toClient, Request, 0) = 0
      BY CountNone
    <3>2. Count(toClient, Request, 0 + 1) =
            Count(toClient, Request, 0) + IF toClient[0 + 1].kind \in Request THEN 1 ELSE 0
      BY CountNext
    <3>3. Head(toClient) = toClient[1] /\ 1 \in 1..Len(toClient)
      BY <1>1
    <3>4. k \in Request => Count(toClient, Request, 1) = 1
      BY <3>1, <3>2, <3>3 DEF k
    <3> QED BY <2>2, <2>3, <3>3, <3>4 DEF RequestsOK, RequestsMatch, k
  <2> QED BY <2>1, <2>4, <2>7, <2>8 DEF RequestsOK
<1>8. KnowledgeOK'
  <2>1. Registering <=> Registering'
    BY <1>1, <1>2, HoldsTail DEF Registering, k, NoHandler, Command, Request
  <2>2. ~ShowsGui /\ ~ShowsGui'
    BY <1>1, <1>2 DEF ShowsGui, NoHandler
  <2> QED BY <2>1, <2>2 DEF KnowledgeOK
<1> QED BY <1>3, <1>4, <1>5, <1>6, <1>7, <1>8

(* the first two steps of osc_announce_reply() *)
LEMMA ReplyStepKeeps ==
  ASSUME IInv, ReplySetsActive \/ ReplySetsAddress
  PROVE  IInv'
<1> USE DEF IInv, ReplySetsActive, ReplySetsAddress, Handling, Step, program, bounds
<1>1. /\ handler.kind = "registered" /\ handler.at \in {1, 2}
      /\ handler' = [handler EXCEPT !.at = handler.at + 1]
      /\ handler' \in [kind : {"none", "registered", "refused"} \cup Command, ok : BOOLEAN, at : 0..3]
      /\ handler'.kind = "registered" /\ handler'.at = handler.at + 1
  BY DEF MessagesOK
<1>2. TypeOK'
  <2>1. handler'.at \in 1..3
    BY <1>1
  <2>2. active' \in BOOLEAN /\ addr' \in BOOLEAN
    <3>1. CASE ReplySetsActive
      BY <3>1 DEF TypeOK
    <3>2. CASE ReplySetsAddress
      BY <3>2 DEF TypeOK
    <3> QED BY <3>1, <3>2
  <2> QED BY <1>1, <2>1, <2>2 DEF TypeOK
<1>3. MessagesOK'
  BY <1>1 DEF MessagesOK
<1>4. TurnsOK'
  BY <1>1 DEF TurnsOK, NoHandler
<1>5. AddressOK'
  <2>1. CASE ReplySetsActive
    BY <1>1, <2>1 DEF AddressOK, Coming, NothingGoesAstray, Request
  <2>2. CASE ReplySetsAddress
    BY <1>1, <2>2 DEF AddressOK, Coming, NothingGoesAstray, Request
  <2> QED BY <2>1, <2>2
<1>6. RequestsOK'
  BY <1>1, RequestsKept DEF Runs, RequestsOK, Request
<1>7. KnowledgeOK'
  BY <1>1 DEF KnowledgeOK, Registering, ShowsGui
<1> QED BY <1>2, <1>3, <1>4, <1>5, <1>6, <1>7

LEMMA ReplyTellsProgramKeeps ==
  ASSUME IInv, ReplyTellsProgram
  PROVE  IInv'
<1> USE DEF IInv, ReplyTellsProgram, Handling, Done, program, bounds
<1> DEFINE g == GuiMsg(gui)
           d == DirtyMsg(dirty)
           q == Append(toManager, g)
<1>1. /\ handler.kind = "registered" /\ handler.at = 3 /\ addr
      /\ handler' = NoHandler
  BY DEF AddressOK
<1>2. /\ g \in ManagerMessage /\ g.kind = "gui" /\ g.is = gui
      /\ d \in ManagerMessage /\ d.kind = "dirty" /\ d.is = dirty
  BY Kinds DEF TypeOK
<1>3. toManager \in Seq(ManagerMessage) /\ q \in Seq(ManagerMessage)
  BY <1>2 DEF MessagesOK
<1>4. toManager' = Append(q, d) /\ astray' = astray
  <2>1. astray' = astray /\ toManager' = toManager \o <<g>> \o <<d>>
    BY <1>1 DEF ReportAll, TypeOK
  <2>2. toManager \o <<g>> = q
    BY <1>2, <1>3, Queues
  <2>3. q \o <<d>> = Append(q, d)
    BY <1>2, <1>3, Queues
  <2> QED BY <2>1, <2>2, <2>3
<1> HIDE DEF g, d, q
<1>5. TypeOK'
  BY <1>1, <1>4 DEF TypeOK
<1>6. MessagesOK'
  BY <1>1, <1>2, <1>3, <1>4 DEF MessagesOK, NoHandler
<1>7. TurnsOK'
  BY <1>1 DEF TurnsOK
<1>8. AddressOK'
  BY <1>1, <1>4 DEF AddressOK, NothingGoesAstray, NoHandler, Request
<1>9. RequestsOK'
  <2>1. AnswersIn(q) = AnswersIn(toManager) /\ AnswersMatch(q, due)
    BY <1>2, <1>3, Reported DEF RequestsOK, q
  <2>2. AnswersIn(toManager') = AnswersIn(toManager) /\ AnswersMatch(toManager', due)
    BY <1>2, <1>3, <1>4, <2>1, Reported
  <2> QED BY <1>1, <2>2, RequestsKept DEF Runs, NoHandler, Request
<1>10. KnowledgeOK'
  <2>1. WillKnow(q, "gui", manager.gui, gui)
    BY <1>2, <1>3, KnowsAppend DEF q
  <2>2. WillKnow(toManager', "gui", manager.gui, gui)
    BY <1>2, <1>3, <1>4, <2>1, KnowsAppend
  <2>3. WillKnow(toManager', "dirty", manager.dirty, dirty)
    BY <1>2, <1>3, <1>4, KnowsAppend
  <2> QED BY <1>1, <2>2, <2>3 DEF KnowledgeOK, ShowsGui, NoHandler
<1> QED BY <1>5, <1>6, <1>7, <1>8, <1>9, <1>10

LEMMA HandleErrorKeeps ==
  ASSUME IInv, HandleError
  PROVE  IInv'
<1> USE DEF IInv, HandleError, Handling, Done, program, bounds
<1>1. handler.kind = "refused" /\ handler' = NoHandler /\ active' = FALSE
  OBVIOUS
<1>2. TypeOK'
  BY <1>1 DEF TypeOK
<1>3. MessagesOK'
  BY <1>1 DEF MessagesOK, NoHandler
<1>4. TurnsOK'
  BY <1>1 DEF TurnsOK
<1>5. AddressOK'
  BY <1>1 DEF AddressOK, Coming, NothingGoesAstray, NoHandler, Request
<1>6. RequestsOK'
  BY <1>1, RequestsKept DEF Runs, RequestsOK, NoHandler, Request
<1>7. KnowledgeOK'
  BY <1>1 DEF KnowledgeOK, ShowsGui, NoHandler
<1> QED BY <1>2, <1>3, <1>4, <1>5, <1>6, <1>7

LEMMA Sending ==
  ASSUME NEW S, NEW q \in Seq(S), NEW x \in S
  PROVE  q \o <<x>> = Append(q, x)
OBVIOUS

LEMMA TwoFields ==
  ASSUME NEW K, NEW B, NEW N, NEW h \in [kind : K, ok : B, at : N],
         NEW b \in B, NEW n \in N
  PROVE  LET h2 == [h EXCEPT !.at = n, !.ok = b]
         IN h2 \in [kind : K, ok : B, at : N] /\ h2.kind = h.kind /\ h2.at = n /\ h2.ok = b
OBVIOUS

LEMMA RunCommandKeeps ==
  ASSUME IInv, NEW k \in Request, NEW ok \in BOOLEAN, RunCommand(k, ok)
  PROVE  IInv'
<1> USE DEF IInv, RunCommand, Handling, bounds
<1> DEFINE m == DirtyMsg(FALSE)
           y == [of |-> k, ok |-> ok]
<1>1. /\ handler.kind = k /\ handler.at = 1 /\ addr
      /\ handler' \in [kind : {"none", "registered", "refused"} \cup Command, ok : BOOLEAN, at : 0..3]
      /\ handler'.kind = k /\ handler'.at = 2 /\ handler'.ok = ok
      /\ ~threaded => ui = Idle
  <2>1. handler.kind = k /\ handler.at = 1 /\ addr /\ handler # NoHandler
    BY DEF AddressOK, NoHandler, Request
  <2>2. handler \in [kind : {"none", "registered", "refused"} \cup Command, ok : BOOLEAN, at : 0..3]
    BY DEF MessagesOK
  <2>3. handler' = [handler EXCEPT !.at = 2, !.ok = ok]
    OBVIOUS
  <2>4. /\ handler' \in [kind : {"none", "registered", "refused"} \cup Command, ok : BOOLEAN, at : 0..3]
        /\ handler'.kind = handler.kind /\ handler'.at = 2 /\ handler'.ok = ok
    <3>1. 2 \in 0..3
      OBVIOUS
    <3>2. LET h2 == [handler EXCEPT !.at = 2, !.ok = ok]
          IN  /\ h2 \in [kind : {"none", "registered", "refused"} \cup Command, ok : BOOLEAN, at : 0..3]
              /\ h2.kind = handler.kind /\ h2.at = 2 /\ h2.ok = ok
      BY <2>2, <3>1, TwoFields, Zenon
    <3> QED BY <2>3, <3>2, Zenon
  <2>5. ~threaded => ui = Idle
    BY <2>1 DEF TurnsOK
  <2> QED BY <2>1, <2>4, <2>5
<1>2. m \in ManagerMessage /\ m.kind = "dirty" /\ m.is = FALSE
  BY Kinds
<1>3. toManager \in Seq(ManagerMessage)
  BY DEF MessagesOK
<1>4. /\ astray' = astray
      /\ \/ toManager' = toManager /\ (~ok \/ ~active)
         \/ toManager' = Append(toManager, m) /\ ok
  <2>1. CASE ok /\ active
    <3>1. toManager \o <<m>> = Append(toManager, m)
      BY <1>2, <1>3, Sending, Zenon
    <3>2. ReportDirty(FALSE)
      BY <2>1
    <3>3. toManager' = toManager \o <<m>> /\ astray' = astray
      <4> HIDE DEF IInv, RunCommand
      <4> QED BY <1>1, <2>1, <3>2 DEF ReportDirty, SendToManager
    <3> QED BY <2>1, <3>1, <3>3
  <2>2. CASE ~(ok /\ active)
    BY <2>2 DEF ReportDirty
  <2> QED BY <2>1, <2>2
<1> HIDE DEF m
<1>5. due \in Seq(Answer) /\ y \in Answer /\ due' = Append(due, y) /\ dirty \in BOOLEAN
  BY DEF TypeOK, Answer
<1>6. TypeOK'
  BY <1>1, <1>4, <1>5 DEF TypeOK, Command
<1>7. MessagesOK'
  <2>1. toManager' \in Seq(ManagerMessage)
    BY <1>2, <1>3, <1>4
  <2> QED BY <1>1, <2>1 DEF MessagesOK
<1>8. TurnsOK'
  BY <1>1 DEF TurnsOK
<1>9. AddressOK'
  BY <1>1, <1>4 DEF AddressOK, NothingGoesAstray, Coming, Request
<1>10. RequestsOK'
  <2>1. Runs(1) /\ ~Runs(2) /\ ~Runs(1)' /\ Runs(2)'
    BY <1>1 DEF Runs
  <2>2. Len(due) \in Nat /\ Len(due') = Len(due) + 1 /\ Taken = Len(due) + 1 /\ Taken' = Taken
    BY <1>5, <2>1 DEF Taken
  <2>3. AnswersIn(toManager) = Len(due) /\ AnswersMatch(toManager, due')
    <3>1. AnswersIn(toManager) = Len(due) /\ AnswersMatch(toManager, due)
      BY <1>5, <2>1, CountedFinite DEF RequestsOK, AnswersIn
    <3> QED BY <1>3, <1>5, <2>2, <3>1, AnswersGrow
  <2>4. AnswersIn(toManager') = Len(due) /\ AnswersMatch(toManager', due')
    <3>1. /\ AnswersIn(Append(toManager, m)) = AnswersIn(toManager)
          /\ AnswersMatch(Append(toManager, m), due')
      BY <1>2, <1>3, <2>3, Reported
    <3> QED BY <1>4, <2>3, <3>1
  <2>5. /\ \A j \in 1..Len(due) : due'[j] = due[j]
        /\ due'[Len(due')] = y /\ due'[Taken] = y
    BY <1>5, <2>2
  <2>6. \A j \in 1..Len(due') : due'[j].of = asked'[j]
    <3>1. asked[Taken] = k /\ y.of = k
      BY <1>1, <2>1 DEF RequestsOK
    <3>2. \A j \in 1..Len(due) : due[j].of = asked[j]
      BY DEF RequestsOK
    <3> QED BY <2>2, <2>5, <3>1, <3>2
  <2>7. Len(asked) = Taken + RequestsIn(toClient) /\ RequestsMatch(toClient, Taken, asked)
    BY DEF RequestsOK
  <2> QED BY <1>1, <2>1, <2>2, <2>4, <2>5, <2>6, <2>7 DEF RequestsOK
<1>11. KnowledgeOK'
  <2> SUFFICES ASSUME ~threaded, active, ~Registering'
               PROVE  /\ WillKnow(toManager', "gui", manager.gui, gui)
                      /\ WillKnow(toManager', "dirty", manager.dirty, dirty')
    BY <1>1 DEF KnowledgeOK, ShowsGui, Request
  <2>1. Holds(Append(toManager, m), {"announce"}) <=>
          Holds(toManager, {"announce"}) \/ m.kind \in {"announce"}
    BY <1>2, <1>3, HoldsAppend
  <2>2. ~Registering /\ ~ShowsGui
    BY <1>1, <1>2, <1>4, <2>1 DEF Registering, ShowsGui, Request
  <2>3. /\ WillKnow(toManager, "gui", manager.gui, gui)
        /\ WillKnow(toManager, "dirty", manager.dirty, dirty)
    BY <1>1, <2>2 DEF KnowledgeOK, Idle
  <2>4. CASE toManager' = toManager /\ ~ok
    BY <1>5, <2>3, <2>4
  <2>5. CASE toManager' = Append(toManager, m) /\ ok
    BY <1>2, <1>3, <2>3, <2>5, KnowsAppend
  <2> QED BY <1>4, <2>4, <2>5
<1> QED BY <1>6, <1>7, <1>8, <1>9, <1>10, <1>11

LEMMA AnswerCommandKeeps ==
  ASSUME IInv, NEW k \in Request, AnswerCommand(k)
  PROVE  IInv'
<1> USE DEF IInv, AnswerCommand, Handling, Done, program, bounds
<1> DEFINE m == [kind |-> "answer", of |-> k, ok |-> handler.ok]
<1>1. handler.kind = k /\ handler.at = 2 /\ addr /\ handler' = NoHandler /\ handler.ok \in BOOLEAN
  BY DEF AddressOK, MessagesOK
<1>2. m \in ManagerMessage /\ m.kind = "answer" /\ m.of = k /\ m.ok = handler.ok
  BY <1>1, Kinds
<1>3. toManager \in Seq(ManagerMessage)
  BY DEF MessagesOK
<1>4. toManager' = Append(toManager, m) /\ astray' = astray
  BY <1>1, <1>2, <1>3, Queues DEF SendToManager
<1> HIDE DEF m
<1>5. TypeOK'
  BY <1>1, <1>4 DEF TypeOK
<1>6. MessagesOK'
  BY <1>1, <1>2, <1>3, <1>4 DEF MessagesOK, NoHandler
<1>7. TurnsOK'
  BY <1>1 DEF TurnsOK
<1>8. AddressOK'
  BY <1>1, <1>4 DEF AddressOK, NothingGoesAstray, NoHandler, Request
<1>9. RequestsOK'
  <2>1. ~Runs(1) /\ Runs(2) /\ ~Runs(1)' /\ ~Runs(2)'
    BY <1>1 DEF Runs, NoHandler, Request
  <2>2. Taken' = Taken
    BY <2>1 DEF Taken
  <2>3. Len(due) \in Nat /\ AnswersIn(toManager) \in Nat /\ Len(due) = AnswersIn(toManager) + 1
    BY <2>1, CountedFinite DEF RequestsOK, AnswersIn, TypeOK
  <2>4. due[Len(due)] = [of |-> m.of, ok |-> m.ok] /\ AnswersMatch(toManager, due)
    BY <1>1, <1>2, <2>1 DEF RequestsOK
  <2>5. AnswersMatch(toManager', due)
    BY <1>2, <1>3, <1>4, <2>3, <2>4, AnswersAppend
  <2>6. AnswersIn(toManager') = Len(due)
    <3>1. Count(Append(toManager, m), {"answer"}, Len(Append(toManager, m))) =
            Count(toManager, {"answer"}, Len(toManager)) + IF m.kind \in {"answer"} THEN 1 ELSE 0
      BY <1>2, <1>3, TotalAppend
    <3> QED BY <1>2, <1>4, <2>3, <3>1 DEF AnswersIn
  <2> QED BY <2>1, <2>2, <2>3, <2>5, <2>6 DEF RequestsOK
<1>10. KnowledgeOK'
  <2> SUFFICES ASSUME ~threaded, active, ~Registering'
               PROVE  /\ ui = "gui" \/ WillKnow(toManager', "gui", manager.gui, gui)
                      /\ ui = "dirty" \/ WillKnow(toManager', "dirty", manager.dirty, dirty)
    BY <1>1 DEF KnowledgeOK, ShowsGui, NoHandler
  <2>1. Holds(Append(toManager, m), {"announce"}) <=>
          Holds(toManager, {"announce"}) \/ m.kind \in {"announce"}
    BY <1>2, <1>3, HoldsAppend
  <2>2. ~Registering /\ ~ShowsGui
    BY <1>1, <1>2, <1>4, <2>1 DEF Registering, ShowsGui, Request
  <2>3. /\ ui = "gui" \/ WillKnow(toManager, "gui", manager.gui, gui)
        /\ ui = "dirty" \/ WillKnow(toManager, "dirty", manager.dirty, dirty)
    BY <2>2 DEF KnowledgeOK
  <2> QED BY <1>2, <1>3, <1>4, <2>3, KnowsAppend
<1> QED BY <1>5, <1>6, <1>7, <1>8, <1>9, <1>10

LEMMA RunGuiKeeps ==
  ASSUME IInv, NEW k \in {"show", "hide"}, RunGui(k)
  PROVE  IInv'
<1> USE DEF IInv, RunGui, Handling, Step, bounds
<1>1. /\ handler.kind = k /\ handler.at = 1
      /\ handler' \in [kind : {"none", "registered", "refused"} \cup Command, ok : BOOLEAN, at : 0..3]
      /\ handler'.kind = k /\ handler'.at = 2
      /\ ~threaded => ui = Idle
  BY DEF MessagesOK, TurnsOK, NoHandler
<1>2. TypeOK'
  <2>1. handler'.ok \in BOOLEAN /\ k \in Command
    BY <1>1 DEF Command
  <2> QED BY <1>1, <2>1 DEF TypeOK
<1>3. MessagesOK'
  BY <1>1 DEF MessagesOK
<1>4. TurnsOK'
  BY <1>1 DEF TurnsOK
<1>5. AddressOK'
  BY <1>1 DEF AddressOK, Coming, NothingGoesAstray, Request
<1>6. RequestsOK'
  BY <1>1, RequestsKept DEF Runs, RequestsOK, Request
<1>7. KnowledgeOK'
  <2>1. ShowsGui' /\ ~ShowsGui /\ (Registering <=> Registering')
    BY <1>1 DEF ShowsGui, Registering
  <2> QED BY <1>1, <2>1 DEF KnowledgeOK, Idle
<1> QED BY <1>2, <1>3, <1>4, <1>5, <1>6, <1>7

LEMMA ReportGuiKeeps ==
  ASSUME IInv, NEW k \in {"show", "hide"}, ReportGui(k)
  PROVE  IInv'
<1> USE DEF IInv, ReportGui, Handling, Done, program, bounds
<1> DEFINE m == GuiMsg(k = "show")
<1>1. handler.kind = k /\ handler.at = 2 /\ handler' = NoHandler
  OBVIOUS
<1>2. m \in ManagerMessage /\ m.kind = "gui" /\ m.is = (k = "show")
  <2>1. (k = "show") \in BOOLEAN
    OBVIOUS
  <2> QED BY <2>1, Kinds
<1>3. toManager \in Seq(ManagerMessage) /\ toManager' = Append(toManager, m)
  BY DEF MessagesOK
<1> HIDE DEF m
<1>4. TypeOK'
  BY <1>1 DEF TypeOK
<1>5. MessagesOK'
  <2>1. toManager' \in Seq(ManagerMessage)
    BY <1>2, <1>3
  <2> QED BY <1>1, <2>1 DEF MessagesOK, NoHandler
<1>6. TurnsOK'
  BY <1>1 DEF TurnsOK
<1>7. AddressOK'
  BY <1>1 DEF AddressOK, Coming, NothingGoesAstray, NoHandler, Request
<1>8. RequestsOK'
  <2>1. AnswersIn(toManager') = AnswersIn(toManager) /\ AnswersMatch(toManager', due)
    BY <1>2, <1>3, Reported DEF RequestsOK
  <2>2. ~Runs(1) /\ ~Runs(2) /\ ~Runs(1)' /\ ~Runs(2)'
    BY <1>1 DEF Runs, NoHandler, Request
  <2>3. RequestsOK /\ UNCHANGED <<asked, due, toClient>>
    OBVIOUS
  <2> HIDE DEF IInv, ReportGui
  <2> QED BY <2>1, <2>2, <2>3, RequestsKept
<1>9. KnowledgeOK'
  <2> SUFFICES ASSUME ~threaded, active, ~Registering'
               PROVE  /\ WillKnow(toManager', "gui", manager.gui, gui)
                      /\ ui = "dirty" \/ WillKnow(toManager', "dirty", manager.dirty, dirty)
    BY <1>1 DEF KnowledgeOK, ShowsGui, NoHandler
  <2>1. Holds(Append(toManager, m), {"announce"}) <=>
          Holds(toManager, {"announce"}) \/ m.kind \in {"announce"}
    BY <1>2, <1>3, HoldsAppend
  <2>2. ~Registering /\ ShowsGui
    BY <1>1, <1>2, <1>3, <2>1 DEF Registering, ShowsGui
  <2>3. /\ gui = (k = "show")
        /\ ui = "dirty" \/ WillKnow(toManager, "dirty", manager.dirty, dirty)
    BY <1>1, <2>2 DEF KnowledgeOK
  <2>4. m.is = gui
    BY <1>2, <2>3
  <2> QED BY <1>2, <1>3, <2>3, <2>4, KnowsAppend
<1> QED BY <1>4, <1>5, <1>6, <1>7, <1>8, <1>9

LEMMA ManagerReceiveKeeps ==
  ASSUME IInv, ManagerReceive
  PROVE  IInv'
<1> USE DEF IInv, program, bounds
<1> DEFINE m == Head(toManager)
           a == IF m.kind = "answer" THEN 1 ELSE 0
<1>1. /\ toManager \in Seq(ManagerMessage) /\ toManager # <<>> /\ toManager' = Tail(toManager)
      /\ m \in ManagerMessage /\ Tail(toManager) \in Seq(ManagerMessage)
      /\ UNCHANGED <<threaded, active, addr, handler, program, astray, bounds>>
  <2>1. toManager \in Seq(ManagerMessage) /\ toManager # <<>>
    BY DEF MessagesOK, ManagerReceive
  <2> QED BY <2>1 DEF ManagerReceive
<1>2. \/ /\ m.kind = "announce" /\ UNCHANGED <<asked, due>>
         /\ \E ok \in BOOLEAN :
              /\ manager' = IF ok THEN Welcomed ELSE [manager EXCEPT !.registered = FALSE]
              /\ toClient' = Append(toClient, Msg(IF ok THEN "registered" ELSE "refused"))
      \/ /\ m.kind = "gui" /\ manager' = [manager EXCEPT !.gui = m.is]
         /\ UNCHANGED <<toClient, asked, due>>
      \/ /\ m.kind = "dirty" /\ manager' = [manager EXCEPT !.dirty = m.is]
         /\ UNCHANGED <<toClient, asked, due>>
      \/ /\ m.kind = "answer" /\ asked' = Tail(asked) /\ due' = Tail(due)
         /\ UNCHANGED <<toClient, manager>>
  BY DEF ManagerReceive
<1>3. m.kind \in {"gui", "dirty"} => m.is \in BOOLEAN
  BY <1>1, Kinds
<1>4. /\ manager \in [registered : BOOLEAN, gui : BOOLEAN, dirty : BOOLEAN]
      /\ asked \in Seq(Request) /\ due \in Seq(Answer) /\ toClient \in Seq(ClientMessage)
  BY DEF TypeOK, MessagesOK
<1>5. /\ AnswersIn(toManager) \in Nat /\ AnswersIn(toManager') = AnswersIn(toManager) - a
      /\ AnswersIn(toManager') \in Nat
  <2>1. Count(Tail(toManager), {"answer"}, Len(Tail(toManager))) =
          Count(toManager, {"answer"}, Len(toManager))
            - IF Head(toManager).kind \in {"answer"} THEN 1 ELSE 0
    BY <1>1, TotalTail
  <2>2. Len(toManager) \in Nat /\ Len(Tail(toManager)) \in Nat
    BY <1>1
  <2>3. AnswersIn(toManager) \in Nat /\ AnswersIn(Tail(toManager)) \in Nat
    BY <2>2, CountedFinite DEF AnswersIn
  <2>4. AnswersIn(Tail(toManager)) = AnswersIn(toManager) - a
    BY <2>1 DEF AnswersIn
  <2> QED BY <1>1, <2>3, <2>4
<1>6. RequestsIn(toClient) \in Nat
  <2>1. Len(toClient) \in Nat
    BY <1>4
  <2> QED BY <2>1, CountedFinite DEF RequestsIn
<1>7. AnswersMatch(toManager', IF m.kind = "answer" THEN Tail(due) ELSE due)
  <2>1. AnswersMatch(toManager, due) /\ AnswersIn(toManager) <= Len(due)
    BY <1>4, <1>5 DEF RequestsOK
  <2> QED BY <1>1, <1>4, <2>1, AnswersTail
<1> HIDE DEF m
<1>8. CASE m.kind = "announce"
  <2>1. UNCHANGED <<asked, due>>
    BY <1>2, <1>8
  <2>2. PICK ok \in BOOLEAN :
          /\ manager' = IF ok THEN Welcomed ELSE [manager EXCEPT !.registered = FALSE]
          /\ toClient' = Append(toClient, Msg(IF ok THEN "registered" ELSE "refused"))
    BY <1>2, <1>8
  <2>3. PICK x \in {"registered", "refused"} :
          /\ toClient' = Append(toClient, Msg(x))
          /\ manager' \in [registered : BOOLEAN, gui : BOOLEAN, dirty : BOOLEAN]
          /\ manager'.registered => x = "registered"
    <3>1. CASE ok
      BY <1>4, <2>2, <3>1 DEF Welcomed
    <3>2. CASE ~ok
      BY <1>4, <2>2, <3>2
    <3> QED BY <3>1, <3>2
  <2> DEFINE c == Msg(x)
  <2>4. c \in ClientMessage /\ c.kind = x /\ x \notin Request
    BY Kinds DEF Request
  <2> HIDE DEF c
  <2>5. toClient' = Append(toClient, c) /\ toClient' \in Seq(ClientMessage)
    BY <1>4, <2>3, <2>4 DEF c
  <2>6. \A K : Holds(toClient', K) <=> Holds(toClient, K) \/ x \in K
    BY <1>4, <2>4, <2>5, HoldsAppend
  <2>7. TypeOK'
    BY <1>1, <1>4, <2>1, <2>3 DEF TypeOK
  <2>8. MessagesOK'
    BY <1>1, <2>5 DEF MessagesOK
  <2>9. TurnsOK'
    BY <1>1 DEF TurnsOK
  <2>10. AddressOK'
    <3>1. Introduced(toClient) => Introduced(toClient')
      BY <1>4, <2>4, <2>5, IntroducedAppend
    <3> QED BY <1>1, <2>3, <2>6, <3>1 DEF AddressOK, Coming, NothingGoesAstray
  <2>11. RequestsOK'
    <3>1. (Runs(1)' <=> Runs(1)) /\ (Runs(2)' <=> Runs(2)) /\ Taken' = Taken /\ Taken \in Nat
      BY <1>1, <1>4, <2>1 DEF Runs, Taken
    <3>2. RequestsMatch(toClient', Taken, asked)
      BY <1>4, <2>4, <2>5, <3>1, RequestsAppend DEF RequestsOK
    <3>3. RequestsIn(toClient') = RequestsIn(toClient)
      <4>1. Count(Append(toClient, c), Request, Len(Append(toClient, c))) =
              Count(toClient, Request, Len(toClient)) + IF c.kind \in Request THEN 1 ELSE 0
        BY <1>4, <2>4, TotalAppend
      <4> QED BY <1>6, <2>4, <2>5, <4>1 DEF RequestsIn
    <3>4. AnswersIn(toManager') = AnswersIn(toManager) /\ AnswersMatch(toManager', due)
      BY <1>5, <1>7, <1>8
    <3> QED BY <1>1, <2>1, <3>1, <3>2, <3>3, <3>4 DEF RequestsOK
  <2>12. KnowledgeOK'
    <3>1. Registering'
      BY <2>6 DEF Registering
    <3> QED BY <1>1, <3>1 DEF KnowledgeOK, ShowsGui
  <2> QED BY <2>7, <2>8, <2>9, <2>10, <2>11, <2>12
<1>9. CASE m.kind \in {"gui", "dirty"}
  <2>1. /\ UNCHANGED <<toClient, asked, due>>
        /\ manager' \in [registered : BOOLEAN, gui : BOOLEAN, dirty : BOOLEAN]
        /\ manager'.registered = manager.registered
        /\ manager'.gui = IF m.kind = "gui" THEN m.is ELSE manager.gui
        /\ manager'.dirty = IF m.kind = "dirty" THEN m.is ELSE manager.dirty
    <3>1. CASE m.kind = "gui"
      BY <1>2, <1>3, <1>4, <3>1
    <3>2. CASE m.kind = "dirty"
      BY <1>2, <1>3, <1>4, <3>2
    <3> QED BY <1>9, <3>1, <3>2
  <2>2. TypeOK'
    BY <1>1, <2>1 DEF TypeOK
  <2>3. MessagesOK'
    BY <1>1, <2>1 DEF MessagesOK
  <2>4. TurnsOK'
    BY <1>1 DEF TurnsOK
  <2>5. AddressOK'
    BY <1>1, <2>1 DEF AddressOK, Coming, NothingGoesAstray
  <2>6. RequestsOK'
    <3>1. AnswersIn(toManager') = AnswersIn(toManager) /\ AnswersMatch(toManager', due)
      BY <1>5, <1>7, <1>9
    <3> QED BY <1>1, <2>1, <3>1, RequestsKept DEF Runs
  <2>7. KnowledgeOK'
    <3>1. Registering <=> Registering'
      <4>1. Holds(toManager, {"announce"}) <=> m.kind \in {"announce"} \/ Holds(toManager', {"announce"})
        BY <1>1, HoldsTail DEF m
      <4> QED BY <1>1, <1>9, <2>1, <4>1 DEF Registering
    <3>2. /\ WillKnow(toManager, "gui", manager.gui, gui) =>
               WillKnow(toManager', "gui", manager'.gui, gui)
          /\ WillKnow(toManager, "dirty", manager.dirty, dirty) =>
               WillKnow(toManager', "dirty", manager'.dirty, dirty)
      BY <1>1, <2>1, KnowsTail DEF m
    <3> QED BY <1>1, <3>1, <3>2 DEF KnowledgeOK, ShowsGui
  <2> QED BY <2>2, <2>3, <2>4, <2>5, <2>6, <2>7
<1>10. CASE m.kind = "answer"
  <2>1. asked' = Tail(asked) /\ due' = Tail(due) /\ UNCHANGED <<toClient, manager>>
    BY <1>2, <1>10
  <2>2. /\ (Runs(1)' <=> Runs(1)) /\ (Runs(2)' <=> Runs(2)) /\ ~(Runs(1) /\ Runs(2))
    BY <1>1 DEF Runs
  <2>3. /\ Len(due) \in Nat /\ Len(asked) \in Nat /\ Len(due) >= 1 /\ Len(asked) >= Taken
        /\ Taken \in Nat /\ Taken >= Len(due) /\ (Runs(2) => Len(due) >= 2)
        /\ (Runs(1) => Taken >= 2)
    <3>1. Len(due) \in Nat /\ Len(asked) \in Nat
      BY <1>4
    <3>2. AnswersIn(toManager) >= 1
      BY <1>5, <1>10
    <3> QED BY <1>5, <1>6, <3>1, <3>2 DEF RequestsOK, Taken
  <2>4. /\ due # <<>> /\ asked # <<>> /\ Len(due') = Len(due) - 1 /\ Len(asked') = Len(asked) - 1
        /\ \A j \in 1..Len(due) - 1 : due'[j] = due[j + 1]
        /\ \A j \in 1..Len(asked) - 1 : asked'[j] = asked[j + 1]
        /\ asked' \in Seq(Request) /\ due' \in Seq(Answer)
    BY <1>4, <2>1, <2>3
  <2>5. Taken' = Taken - 1
    BY <2>2, <2>3, <2>4 DEF Taken
  <2>6. TypeOK'
    BY <1>1, <2>1, <2>4 DEF TypeOK
  <2>7. MessagesOK'
    BY <1>1, <2>1 DEF MessagesOK
  <2>8. TurnsOK'
    BY <1>1 DEF TurnsOK
  <2>9. AddressOK'
    BY <1>1, <2>1 DEF AddressOK, Coming, NothingGoesAstray
  <2>10. RequestsOK'
    <3>1. AnswersMatch(toManager', due') /\ AnswersIn(toManager') = AnswersIn(toManager) - 1
      BY <1>5, <1>7, <1>10, <2>1
    <3>2. RequestsMatch(toClient', Taken', asked')
      <4>1. RequestsMatch(toClient, Taken, asked) /\ Taken + RequestsIn(toClient) <= Len(asked)
        BY <1>6, <2>3 DEF RequestsOK
      <4>2. Taken \in Nat /\ Taken >= 1
        BY <2>3
      <4>3. RequestsMatch(toClient, Taken - 1, Tail(asked))
        BY <1>4, <4>1, <4>2, RequestsShift
      <4> QED BY <2>1, <2>5, <4>3
    <3>3. Len(due') = AnswersIn(toManager') + IF Runs(2)' THEN 1 ELSE 0
      BY <1>5, <2>2, <2>3, <2>4, <3>1 DEF RequestsOK
    <3>4. Len(asked') = Taken' + RequestsIn(toClient')
      BY <1>6, <2>1, <2>3, <2>4, <2>5 DEF RequestsOK
    <3>5. ASSUME NEW j \in 1..Len(due')
          PROVE  due'[j].of = asked'[j]
      <4>1. j + 1 \in 1..Len(due) /\ j \in 1..Len(due) - 1 /\ j \in 1..Len(asked) - 1
        BY <2>3, <2>4
      <4> QED BY <2>4, <4>1 DEF RequestsOK
    <3>6. Runs(1) => asked'[Taken'] = handler.kind
      <4>1. Runs(1) => Taken - 1 \in 1..Len(asked) - 1 /\ (Taken - 1) + 1 = Taken
        BY <2>3
      <4> QED BY <2>4, <2>5, <4>1 DEF RequestsOK
    <3>7. Runs(2) => due'[Len(due')] = [of |-> handler.kind, ok |-> handler.ok]
      <4>1. Runs(2) => Len(due) - 1 \in 1..Len(due) - 1 /\ (Len(due) - 1) + 1 = Len(due)
        BY <2>3
      <4>2. Runs(2) => due'[Len(due')] = due[Len(due)]
        BY <2>4, <4>1
      <4> QED BY <4>2 DEF RequestsOK
    <3> QED BY <1>1, <2>2, <3>1, <3>2, <3>3, <3>4, <3>5, <3>6, <3>7 DEF RequestsOK
  <2>11. KnowledgeOK'
    <3>1. Registering <=> Registering'
      <4>1. Holds(toManager, {"announce"}) <=> m.kind \in {"announce"} \/ Holds(toManager', {"announce"})
        BY <1>1, HoldsTail DEF m
      <4> QED BY <1>1, <1>10, <2>1, <4>1 DEF Registering
    <3>2. \A known, v :
            /\ WillKnow(toManager, "gui", known, v) => WillKnow(toManager', "gui", known, v)
            /\ WillKnow(toManager, "dirty", known, v) => WillKnow(toManager', "dirty", known, v)
      BY <1>1, <1>10, KnowsTail DEF m
    <3> QED BY <1>1, <2>1, <3>1, <3>2 DEF KnowledgeOK, ShowsGui
  <2> QED BY <2>6, <2>7, <2>8, <2>9, <2>10, <2>11
<1> QED BY <1>2, <1>8, <1>9, <1>10

LEMMA ManagerAskKeeps ==
  ASSUME IInv, NEW k \in Command, ManagerAsk(k)
  PROVE  IInv'
<1> USE DEF IInv, ManagerAsk, program
<1> DEFINE c == Msg(k)
<1>1. c \in ClientMessage /\ c.kind = k /\ k \notin {"registered", "refused"}
  BY Kinds DEF Command, Request
<1>2. /\ toClient \in Seq(ClientMessage) /\ toClient' = Append(toClient, c)
      /\ asked \in Seq(Request) /\ due \in Seq(Answer)
      /\ asked' = IF k \in Request THEN Append(asked, k) ELSE asked
  BY DEF MessagesOK, TypeOK
<1> HIDE DEF c
<1>3. toClient' \in Seq(ClientMessage) /\ asked' \in Seq(Request)
  BY <1>1, <1>2
<1>4. \A K : Holds(toClient', K) <=> Holds(toClient, K) \/ k \in K
  BY <1>1, <1>2, HoldsAppend
<1>5. TypeOK'
  BY <1>3 DEF TypeOK
<1>6. MessagesOK'
  BY <1>3 DEF MessagesOK
<1>7. TurnsOK'
  BY DEF TurnsOK
<1>8. AddressOK'
  <2>1. addr \/ Coming \/ Introduced(toClient')
    BY <1>1, <1>2, IntroducedAppend DEF AddressOK
  <2> QED BY <1>4, <2>1 DEF AddressOK, Coming, NothingGoesAstray
<1>9. RequestsOK'
  <2>1. (Runs(1)' <=> Runs(1)) /\ (Runs(2)' <=> Runs(2)) /\ Taken' = Taken
        /\ Taken \in Nat /\ Len(due) \in Nat /\ Taken >= Len(due) /\ (Runs(1) => Taken >= 1)
    BY <1>2 DEF Runs, Taken
  <2>2. RequestsIn(toClient) \in Nat /\ Len(asked) \in Nat
    <3>1. Len(toClient) \in Nat
      BY <1>2
    <3> QED BY <1>2, <3>1, CountedFinite DEF RequestsIn
  <2>3. Len(asked) = Taken + RequestsIn(toClient)
    BY DEF RequestsOK
  <2>4. RequestsIn(toClient') = RequestsIn(toClient) + IF k \in Request THEN 1 ELSE 0
    <3>1. Count(Append(toClient, c), Request, Len(Append(toClient, c))) =
            Count(toClient, Request, Len(toClient)) + IF c.kind \in Request THEN 1 ELSE 0
      BY <1>1, <1>2, TotalAppend
    <3> QED BY <1>1, <1>2, <3>1 DEF RequestsIn
  <2>5. /\ Len(asked') = Len(asked) + IF k \in Request THEN 1 ELSE 0
        /\ \A j \in 1..Len(asked) : asked'[j] = asked[j]
        /\ k \in Request => asked'[Len(asked) + 1] = k
    BY <1>2
  <2>6. RequestsMatch(toClient, Taken, asked')
    <3>1. CASE k \in Request
      <4>1. RequestsMatch(toClient, Taken, asked) /\ Taken + RequestsIn(toClient) <= Len(asked)
        BY <2>2, <2>3 DEF RequestsOK
      <4>2. RequestsMatch(toClient, Taken, Append(asked, k))
        BY <1>2, <2>1, <3>1, <4>1, RequestsGrow
      <4> QED BY <1>2, <3>1, <4>2
    <3>2. CASE k \notin Request
      BY <1>2, <3>2 DEF RequestsOK
    <3> QED BY <3>1, <3>2
  <2>7. RequestsMatch(toClient', Taken, asked')
    <3>1. k \in Request => asked'[Taken + RequestsIn(toClient) + 1] = k
      BY <2>3, <2>5
    <3> QED BY <1>1, <1>2, <2>1, <2>6, <3>1, RequestsAppend
  <2>8. \A j \in 1..Len(due) : due[j].of = asked'[j]
    <3>1. \A j \in 1..Len(due) : j \in 1..Len(asked)
      BY <2>1, <2>2, <2>3
    <3> QED BY <2>5, <3>1 DEF RequestsOK
  <2>9. Runs(1) => asked'[Taken] = handler.kind
    <3>1. Runs(1) => Taken \in 1..Len(asked)
      BY <2>1, <2>2, <2>3
    <3> QED BY <2>5, <3>1 DEF RequestsOK
  <2>10. Len(asked') = Taken + RequestsIn(toClient')
    BY <2>1, <2>2, <2>3, <2>4, <2>5
  <2> QED BY <2>1, <2>7, <2>8, <2>9, <2>10 DEF RequestsOK
<1>10. KnowledgeOK'
  <2>1. Registering <=> Registering'
    BY <1>1, <1>4 DEF Registering
  <2> QED BY <2>1 DEF KnowledgeOK, ShowsGui
<1> QED BY <1>5, <1>6, <1>7, <1>8, <1>9, <1>10

-----------------------------------------------------------------------------
(* The invariant *)

LEMMA InitIInv == Init => IInv
<1> SUFFICES ASSUME Init
             PROVE  IInv
  OBVIOUS
<1> USE DEF Init, NoHandler, Idle
<1>1. TypeOK
  <2>1. {threaded, active, addr, gui, dirty, astray} \subseteq BOOLEAN
    OBVIOUS
  <2>2. asked \in Seq(Request) /\ due \in Seq(Answer)
    OBVIOUS
  <2>3. manager \in [registered : BOOLEAN, gui : BOOLEAN, dirty : BOOLEAN]
    OBVIOUS
  <2> QED BY <2>1, <2>2, <2>3 DEF TypeOK
<1>2. MessagesOK
  BY DEF MessagesOK
<1>3. TurnsOK
  BY DEF TurnsOK
<1>4. AddressOK
  BY DEF AddressOK, NothingGoesAstray, Introduced, Request
<1>5. RequestsOK
  <2>1. AnswersIn(toManager) = 0 /\ RequestsIn(toClient) = 0
    BY CountNone DEF AnswersIn, RequestsIn
  <2>2. ~Runs(1) /\ ~Runs(2) /\ Taken = 0
    BY DEF Runs, Request, Taken
  <2> QED BY <2>1, <2>2 DEF RequestsOK, AnswersMatch, RequestsMatch
<1>6. KnowledgeOK
  BY DEF KnowledgeOK, ShowsGui
<1> QED BY <1>1, <1>2, <1>3, <1>4, <1>5, <1>6 DEF IInv

LEMMA StutterKeeps == IInv /\ UNCHANGED vars => IInv'
<1> SUFFICES ASSUME IInv, UNCHANGED vars
             PROVE  IInv'
  OBVIOUS
<1> USE DEF IInv, vars, program, bounds
<1>1. TypeOK'
  BY DEF TypeOK
<1>2. MessagesOK'
  BY DEF MessagesOK
<1>3. TurnsOK'
  BY DEF TurnsOK
<1>4. AddressOK'
  BY DEF AddressOK, Coming, NothingGoesAstray
<1>5. RequestsOK'
  BY RequestsKept DEF RequestsOK, Runs
<1>6. KnowledgeOK'
  BY DEF KnowledgeOK, Registering, ShowsGui
<1> QED BY <1>1, <1>2, <1>3, <1>4, <1>5, <1>6

LEMMA NextIInv == IInv /\ [Next]_vars => IInv'
<1> SUFFICES ASSUME IInv, [Next]_vars
             PROVE  IInv'
  OBVIOUS
<1>1. CASE Announce
  BY <1>1, AnnounceKeeps
<1>2. CASE \E w \in {"gui", "dirty"} : UserChange(w)
  BY <1>2, UserChangeKeeps
<1>3. CASE UserReport
  BY <1>3, UserReportKeeps
<1>4. CASE Receive
  BY <1>4, ReceiveKeeps
<1>5. CASE HandlerStep
  <2>1. CASE ReplySetsActive \/ ReplySetsAddress
    BY <2>1, ReplyStepKeeps
  <2>2. CASE ReplyTellsProgram
    BY <2>2, ReplyTellsProgramKeeps
  <2>3. CASE HandleError
    BY <2>3, HandleErrorKeeps
  <2>4. CASE \E k \in Request, ok \in BOOLEAN : RunCommand(k, ok)
    BY <2>4, RunCommandKeeps
  <2>5. CASE \E k \in Request : AnswerCommand(k)
    BY <2>5, AnswerCommandKeeps
  <2>6. CASE \E k \in {"show", "hide"} : RunGui(k)
    BY <2>6, RunGuiKeeps
  <2>7. CASE \E k \in {"show", "hide"} : ReportGui(k)
    BY <2>7, ReportGuiKeeps
  <2> QED BY <1>5, <2>1, <2>2, <2>3, <2>4, <2>5, <2>6, <2>7 DEF HandlerStep
<1>6. CASE ManagerReceive
  BY <1>6, ManagerReceiveKeeps
<1>7. CASE \E k \in Command : ManagerAsk(k)
  BY <1>7, ManagerAskKeeps
<1>8. CASE UNCHANGED vars
  BY <1>8, StutterKeeps
<1> QED BY <1>1, <1>2, <1>3, <1>4, <1>5, <1>6, <1>7, <1>8 DEF Next

LEMMA Invariance == Spec => []IInv
BY InitIInv, NextIInv, PTL DEF Spec

-----------------------------------------------------------------------------
(* What follows *)

(* NSM::Client: its state keeps its type, whatever the manager and the program do. *)
THEOREM ClientTypes == Spec => []TypeOK
<1>1. IInv => TypeOK
  BY DEF IInv
<1> QED BY <1>1, Invariance, PTL

(* osc_open(), osc_save() and OSC_REPLY: the answers come in the order of the      *)
(* requests, one for each, with what the program returned, and when nothing is     *)
(* under way no request is left.                                                   *)
THEOREM AnswersInOrder == Spec => []AnswersMatchRequests
<1>1. ASSUME IInv
      PROVE  AnswersMatchRequests
  <2>1. Len(due) \in Nat /\ Len(asked) \in Nat /\ asked \in Seq(Request)
    BY <1>1 DEF IInv, TypeOK
  <2>2. RequestsIn(toClient) \in Nat /\ AnswersIn(toManager) \in Nat
    <3>1. Len(toClient) \in Nat /\ Len(toManager) \in Nat
      BY <1>1 DEF IInv, MessagesOK
    <3> QED BY <3>1, CountedFinite DEF RequestsIn, AnswersIn
  <2>3. RequestsOK
    BY <1>1 DEF IInv
  <2>4. Len(due) <= Len(asked)
    BY <2>1, <2>2, <2>3 DEF RequestsOK, Taken
  <2>5. \A k \in DOMAIN due : due[k].of = asked[k]
    BY <1>1, <2>3 DEF IInv, TypeOK, RequestsOK
  <2>6. (\E k \in Request : Handling(k, 2)) <=> Runs(2)
    BY DEF Handling, Runs
  <2>7. Count(toManager, {"answer"}, Len(toManager)) = Len(due) - (IF Runs(2) THEN 1 ELSE 0)
    BY <2>1, <2>2, <2>3 DEF RequestsOK, AnswersIn
  <2>8. \A k \in DOMAIN toManager :
          toManager[k].kind = "answer" =>
            due[Count(toManager, {"answer"}, k)] = [of |-> toManager[k].of, ok |-> toManager[k].ok]
    BY <1>1, <2>3 DEF IInv, MessagesOK, RequestsOK, AnswersMatch
  <2>9. AtRest => asked = <<>>
    <3>1. SUFFICES ASSUME AtRest
                   PROVE  asked = <<>>
      OBVIOUS
    <3>2. AnswersIn(toManager) = 0 /\ RequestsIn(toClient) = 0
      BY <3>1, CountNone DEF AtRest, AnswersIn, RequestsIn
    <3>3. ~Runs(1) /\ ~Runs(2)
      BY <3>1 DEF AtRest, Runs, NoHandler, Request
    <3>4. Len(asked) = 0
      BY <2>3, <3>2, <3>3 DEF RequestsOK, Taken
    <3> QED BY <2>1, <3>4
  <2> QED BY <2>4, <2>5, <2>6, <2>7, <2>8, <2>9 DEF AnswersMatchRequests
<1> QED BY <1>1, Invariance, PTL

(* is_dirty(), is_clean(), nsm_send_is_shown(), osc_show_gui(), command_active():  *)
(* with check(), once nothing is under way the manager has the right idea of the   *)
(* program's window and of its unsaved changes.                                    *)
THEOREM ManagerIsInformed == Spec => []ManagerKnowsTheProgram
<1>1. ASSUME IInv
      PROVE  ManagerKnowsTheProgram
  <2>1. SUFFICES ASSUME ~threaded, AtRest, active
                 PROVE  manager.gui = gui /\ manager.dirty = dirty
    BY DEF ManagerKnowsTheProgram
  <2>2. ~Registering /\ ~ShowsGui /\ ui = Idle /\ toManager = <<>>
    BY <2>1 DEF AtRest, Registering, Holds, ShowsGui, NoHandler
  <2>3. /\ WillKnow(toManager, "gui", manager.gui, gui)
        /\ WillKnow(toManager, "dirty", manager.dirty, dirty)
    BY <1>1, <2>1, <2>2 DEF IInv, KnowledgeOK, Idle
  <2> QED BY <2>2, <2>3 DEF WillKnow
<1> QED BY <1>1, Invariance, PTL

(* nsm_is_active and nsm_addr: with check() nothing is sent before the address of  *)
(* the manager is known.                                                           *)
THEOREM NothingSentAstray == Spec => []NothingGoesAstray
<1>1. IInv => NothingGoesAstray
  BY DEF IInv, AddressOK
<1> QED BY <1>1, Invariance, PTL
=============================================================================
