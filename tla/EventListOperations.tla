------------------------- MODULE EventListOperations -------------------------
(***************************************************************************)
(* What the operations of MIDI/event_list.C make of a list, for every list   *)
(* that may be in use and every parameter: in order of time, its notes       *)
(* paired, nothing else in memory touched.  relink() and the other loops     *)
(* over the events are folds; the lemmas about folds come first.             *)
(***************************************************************************)
EXTENDS EventList, TLAPS, SequenceTheorems, FiniteSetTheorems, WellFoundedInduction

-----------------------------------------------------------------------------
(* Induction                                                                   *)

(* a set of natural numbers has a least one *)
LEMMA Least ==
  ASSUME NEW T, T \subseteq Nat, T # {}
  PROVE  \E n \in T : \A m \in T : n <= m
<1>1. PICK x \in T : \A y \in T : ~(<<y, x>> \in OpToRel(<, Nat))
  BY NatLessThanWellFounded, WFMin
<1>2. \A y \in T : ~(y < x)
  BY <1>1 DEF OpToRel
<1> QED BY <1>2

(* so what begins at 0 and goes on reaches every number *)
LEMMA Climb ==
  ASSUME NEW n \in Nat, NEW S, 0 \in S, \A k \in 1..n : k - 1 \in S => k \in S
  PROVE  \A k \in 0..n : k \in S
<1> SUFFICES ASSUME NEW j \in 0..n, j \notin S
             PROVE  FALSE
  OBVIOUS
<1> DEFINE T == {k \in 0..n : k \notin S}
<1>1. PICK k \in T : \A m \in T : k <= m
  <2>1. T \subseteq Nat /\ T # {}
    OBVIOUS
  <2> HIDE DEF T
  <2> QED BY <2>1, Least
<1>2. k \in 1..n /\ k - 1 \in 0..n /\ k - 1 \notin T
  BY <1>1
<1> QED BY <1>1, <1>2

(* the greatest of some numbers up to n is one of them *)
LEMMA MaxReached ==
  ASSUME NEW n \in Nat, NEW T, T \subseteq 0..n, T # {}
  PROVE  Max(T) \in T /\ \A m \in T : m <= Max(T)
<1> DEFINE U == {n - m : m \in T}
<1>1. PICK u \in U : \A m \in U : u <= m
  <2>1. U \subseteq Nat /\ U # {}
    <3>1. \A m \in T : m \in 0..n /\ n - m \in Nat
      OBVIOUS
    <3> QED BY <3>1
  <2> HIDE DEF U
  <2> QED BY <2>1, Least
<1>2. PICK x \in T : u = n - x
  BY <1>1
<1>3. \A m \in T : m <= x
  BY <1>1, <1>2
<1>4. \E y \in T : \A m \in T : y >= m
  BY <1>3
<1> QED BY <1>4 DEF Max

(* the least of some numbers is one of them *)
LEMMA MinReached ==
  ASSUME NEW T, T \subseteq Nat, T # {}
  PROVE  Min(T) \in T /\ \A m \in T : Min(T) <= m
<1>1. \E y \in T : \A m \in T : y <= m
  BY Least
<1> QED BY <1>1 DEF Min

-----------------------------------------------------------------------------
(* Folds                                                                       *)

(* A fold goes from the results W[k - 1] to the results W[k] with the k-th       *)
(* element; H is its step.                                                       *)
Staged(n, W, H, base) ==
  /\ base \in W[0]
  /\ \A k \in 1..n : W[k - 1] \subseteq W[k] /\ \A m \in W[k - 1] : H[<<m, k>>] \in W[k]

(* what FoldLeft() computes with *)
Folding(f, n, base, H) ==
  \A t \in SUBSET (1..n) : f[t] = IF t = {} THEN base ELSE H[<<f[t \ {Max(t)}], Max(t)>>]

(* f does so as long as its results are those *)
Follows(f, n, base, W, H) ==
  /\ f[{}] = base
  /\ \A t \in SUBSET (1..n) :
       t # {} /\ Max(t) \in 1..n /\ f[t \ {Max(t)}] \in W[Max(t) - 1] =>
         f[t] = H[<<f[t \ {Max(t)}], Max(t)>>]

(* the greatest of a set that goes up to its member k *)
LEMMA HighestIn ==
  ASSUME NEW k \in Nat, NEW t, t \subseteq 1..k, k \in t
  PROVE  Max(t) = k
<1>1. t \subseteq 0..k /\ t # {}
  OBVIOUS
<1>2. Max(t) \in t /\ \A m \in t : m <= Max(t)
  BY <1>1, MaxReached
<1>3. Max(t) \in 0..k /\ k <= Max(t)
  BY <1>1, <1>2
<1> QED BY <1>3

(* the first k numbers, without the last *)
LEMMA LastOf ==
  ASSUME NEW n \in Nat, NEW k \in 1..n
  PROVE  (1..k) \ {k} = 1..k - 1 /\ 1..k # {} /\ k - 1 \in 0..n /\ k \in 0..n
OBVIOUS

(* there is such a function *)
LEMMA FoldDefined ==
  ASSUME NEW n \in Nat, NEW W, NEW H, NEW base, Staged(n, W, H, base)
  PROVE  \E f : /\ f = [t \in SUBSET (1..n) |-> f[t]] /\ Folding(f, n, base, H)
                /\ \A t \in SUBSET (1..n) : t # {} =>
                     Max(t) \in 1..n /\ f[t \ {Max(t)}] \in W[Max(t) - 1]
<1> DEFINE Serves(f, k) ==
             /\ f = [t \in SUBSET (1..k) |-> f[t]] /\ Folding(f, k, base, H)
             /\ \A j \in 0..k : \A t \in SUBSET (1..j) : f[t] \in W[j]
           S == {k \in 0..n : \E f : Serves(f, k)}
<1>1. 0 \in S
  <2> DEFINE f == [t \in SUBSET (1..0) |-> base]
  <2>1. \A t \in SUBSET (1..0) : t = {} /\ f[t] = base
    OBVIOUS
  <2>2. f = [t \in SUBSET (1..0) |-> f[t]]
    OBVIOUS
  <2> HIDE DEF f
  <2>3. Folding(f, 0, base, H)
    BY <2>1 DEF Folding
  <2>4. \A j \in 0..0 : j = 0
    OBVIOUS
  <2>5. \A j \in 0..0 : \A t \in SUBSET (1..j) : f[t] \in W[j]
    BY <2>1, <2>4 DEF Staged
  <2>6. Serves(f, 0)
    BY <2>2, <2>3, <2>5
  <2>7. 0 \in 0..n
    OBVIOUS
  <2> QED BY <2>6, <2>7
<1>2. ASSUME NEW k \in 1..n, k - 1 \in S
      PROVE  k \in S
  <2>1. PICK f : Serves(f, k - 1)
    BY <1>2
  <2> DEFINE g == [t \in SUBSET (1..k) |->
                     IF k \in t THEN H[<<f[t \ {k}], k>>] ELSE f[t]]
  <2>2. \A t \in SUBSET (1..k) : t \ {k} \in SUBSET (1..k - 1) /\ (k \notin t => t \in SUBSET (1..k - 1))
    OBVIOUS
  <2>3. \A t \in SUBSET (1..k) : g[t] = IF k \in t THEN H[<<f[t \ {k}], k>>] ELSE f[t]
    OBVIOUS
  <2>4. g = [t \in SUBSET (1..k) |-> g[t]]
    OBVIOUS
  <2> HIDE DEF g
  <2>5. ASSUME NEW t \in SUBSET (1..k)
        PROVE  g[t] = IF t = {} THEN base ELSE H[<<g[t \ {Max(t)}], Max(t)>>]
    <3>1. CASE k \in t
      <4>1. Max(t) = k
        <5>1. k \in Nat /\ t \subseteq 1..k
          OBVIOUS
        <5> QED BY <5>1, <3>1, HighestIn
      <4>2. t \ {k} \in SUBSET (1..k) /\ k \notin t \ {k}
        OBVIOUS
      <4>3. g[t \ {k}] = f[t \ {k}]
        BY <4>2, <2>3
      <4> QED BY <3>1, <4>1, <4>3, <2>3
    <3>2. CASE k \notin t
      <4>1. t \in SUBSET (1..k - 1) /\ g[t] = f[t]
        BY <3>2, <2>2, <2>3
      <4>2. f[t] = IF t = {} THEN base ELSE H[<<f[t \ {Max(t)}], Max(t)>>]
        BY <2>1, <4>1 DEF Folding
      <4>3. t \ {Max(t)} \in SUBSET (1..k) /\ k \notin t \ {Max(t)}
        BY <3>2
      <4>4. g[t \ {Max(t)}] = f[t \ {Max(t)}]
        BY <4>3, <2>3
      <4> QED BY <4>1, <4>2, <4>4
    <3> QED BY <3>1, <3>2
  <2>6. Folding(g, k, base, H)
    BY <2>5 DEF Folding
  <2>7. ASSUME NEW j \in 0..k, NEW t \in SUBSET (1..j)
        PROVE  g[t] \in W[j]
    <3>1. t \in SUBSET (1..k)
      OBVIOUS
    <3>2. CASE k \in t
      <4>1. j = k
        BY <3>2
      <4>2. t \ {k} \in SUBSET (1..k - 1) /\ k - 1 \in 0..k - 1
        BY <3>1, <2>2
      <4>3. f[t \ {k}] \in W[k - 1]
        BY <4>2, <2>1
      <4>4. H[<<f[t \ {k}], k>>] \in W[k]
        BY <4>3 DEF Staged
      <4> QED BY <3>1, <3>2, <4>1, <4>4, <2>3
    <3>3. CASE k \notin t
      <4>1. g[t] = f[t] /\ t \in SUBSET (1..k - 1)
        BY <3>1, <3>3, <2>2, <2>3
      <4>2. CASE j = k
        <5>1. f[t] \in W[k - 1]
          <6>1. k - 1 \in 0..k - 1
            OBVIOUS
          <6> QED BY <6>1, <4>1, <2>1
        <5>2. W[k - 1] \subseteq W[k]
          BY DEF Staged
        <5> QED BY <5>1, <5>2, <4>1, <4>2
      <4>3. CASE j # k
        <5>1. j \in 0..k - 1
          BY <4>3
        <5> QED BY <5>1, <4>1, <2>1
      <4> QED BY <4>2, <4>3
    <3> QED BY <3>2, <3>3
  <2>8. Serves(g, k)
    BY <2>4, <2>6, <2>7
  <2> HIDE DEF Serves
  <2> QED BY <2>8
<1>3. n \in S
  <2> HIDE DEF S
  <2> QED BY <1>1, <1>2, Climb
<1>4. PICK f : Serves(f, n)
  BY <1>3
<1>5. ASSUME NEW t \in SUBSET (1..n), t # {}
      PROVE  Max(t) \in 1..n /\ f[t \ {Max(t)}] \in W[Max(t) - 1]
  <2>1. PICK k : k = Max(t)
    OBVIOUS
  <2>2. k \in t /\ \A m \in t : m <= k
    <3>1. t \subseteq 0..n /\ t # {}
      BY <1>5
    <3> QED BY <2>1, <3>1, MaxReached
  <2>3. k \in 1..n
    BY <2>2
  <2>4. k - 1 \in 0..n /\ t \ {k} \in SUBSET (1..k - 1)
    BY <2>2, <2>3
  <2>5. f[t \ {k}] \in W[k - 1]
    BY <1>4, <2>4
  <2> QED BY <2>1, <2>3, <2>5
<1> QED BY <1>4, <1>5

(* Of any such function: the results of the first k steps. *)
LEMMA FoldResults ==
  ASSUME NEW n \in Nat, NEW W, NEW H, NEW base, Staged(n, W, H, base), NEW f,
         Follows(f, n, base, W, H)
  PROVE  \E M : /\ M[0] = base /\ f[1..n] = M[n]
                /\ \A k \in 0..n : M[k] \in W[k]
                /\ \A k \in 1..n : M[k] = H[<<M[k - 1], k>>]
<1> DEFINE M == [k \in 0..n |-> f[1..k]]
           S == {k \in 0..n : M[k] \in W[k]}
<1>1. M[0] = base /\ f[1..n] = M[n]
  <2>1. 1..0 = {} /\ 0 \in 0..n /\ n \in 0..n
    OBVIOUS
  <2> QED BY <2>1 DEF Follows
<1>2. ASSUME NEW k \in 1..n, M[k - 1] \in W[k - 1]
      PROVE  M[k] = H[<<M[k - 1], k>>]
  <2>1. Max(1..k) = k
    <3>1. k \in Nat /\ 1..k \subseteq 1..k /\ k \in 1..k
      OBVIOUS
    <3> QED BY <3>1, HighestIn
  <2>2. (1..k) \ {k} = 1..k - 1 /\ 1..k # {} /\ k - 1 \in 0..n /\ k \in 0..n
    BY LastOf
  <2>3. M[k] = f[1..k] /\ M[k - 1] = f[1..k - 1]
    BY <2>2
  <2>4. (1..k) \in SUBSET (1..n)
    OBVIOUS
  <2>5. PICK t : t = 1..k
    OBVIOUS
  <2>6. f[t \ {k}] = M[k - 1] /\ Max(t) = k /\ t # {} /\ t \in SUBSET (1..n)
    BY <2>1, <2>2, <2>3, <2>4, <2>5
  <2>7. Max(t) \in 1..n /\ f[t \ {Max(t)}] \in W[Max(t) - 1]
    BY <2>6, <1>2
  <2>8. f[t] = H[<<f[t \ {Max(t)}], Max(t)>>]
    <3> HIDE DEF M
    <3> QED BY <2>6, <2>7 DEF Follows
  <2> QED BY <2>3, <2>5, <2>6, <2>8
<1> HIDE DEF M
<1>3. 0 \in S
  BY <1>1 DEF Staged
<1>4. \A k \in 1..n : k - 1 \in S => k \in S
  <2> SUFFICES ASSUME NEW k \in 1..n, M[k - 1] \in W[k - 1]
               PROVE  k \in S
    OBVIOUS
  <2>1. M[k] = H[<<M[k - 1], k>>]
    BY <1>2
  <2>2. H[<<M[k - 1], k>>] \in W[k]
    BY DEF Staged
  <2> QED BY <2>1, <2>2
<1>5. \A k \in 0..n : M[k] \in W[k]
  <2>1. \A k \in 0..n : k \in S
    <3> HIDE DEF S
    <3> QED BY <1>3, <1>4, Climb
  <2> QED BY <2>1
<1>6. \A k \in 1..n : M[k] = H[<<M[k - 1], k>>]
  <2>1. \A k \in 1..n : k - 1 \in 0..n
    OBVIOUS
  <2> QED BY <2>1, <1>2, <1>5
<1> QED BY <1>1, <1>5, <1>6
(* what FoldLeft() chooses among *)
Makes(f, n, base, W, H) ==
  /\ f = [t \in SUBSET (1..n) |-> f[t]] /\ f[{}] = base
  /\ \A t \in SUBSET (1..n) : t # {} =>
       /\ Max(t) \in 1..n /\ f[t \ {Max(t)}] \in W[Max(t) - 1]
       /\ f[t] = H[<<f[t \ {Max(t)}], Max(t)>>]

(* whoever does what FoldLeft() chooses among, g does its steps *)
Leads(g, n, base, W, H) == \A f : Makes(f, n, base, W, H) => Follows(g, n, base, W, H)

(* The steps of a fold. That it follows the others is left to every fold to show: *)
(* its step is an operator, which no lemma can be about.                         *)
LEMMA FoldGives ==
  ASSUME NEW n \in Nat, NEW W, NEW H, NEW base, Staged(n, W, H, base), NEW g,
         Leads(g, n, base, W, H)
  PROVE  \E M : /\ M[0] = base /\ g[1..n] = M[n]
                /\ \A k \in 0..n : M[k] \in W[k]
                /\ \A k \in 1..n : M[k] = H[<<M[k - 1], k>>]
<1>1. PICK f : /\ f = [t \in SUBSET (1..n) |-> f[t]] /\ Folding(f, n, base, H)
               /\ \A t \in SUBSET (1..n) : t # {} =>
                    Max(t) \in 1..n /\ f[t \ {Max(t)}] \in W[Max(t) - 1]
  BY FoldDefined
<1>2. f[{}] = base
  <2>1. {} \in SUBSET (1..n)
    OBVIOUS
  <2> QED BY <2>1, <1>1 DEF Folding
<1>3. Makes(f, n, base, W, H)
  BY <1>1, <1>2 DEF Makes, Folding
<1>4. Follows(g, n, base, W, H)
  BY <1>3 DEF Leads
<1> QED BY <1>4, FoldResults

-----------------------------------------------------------------------------
(* Sequences                                                                   *)

(* x comes to the i-th place and what was there moves on *)
LEMMA InsertedAt ==
  ASSUME NEW S, NEW s \in Seq(S), NEW x \in S, NEW i \in 1..Len(s) + 1, NEW t, t = InsertAt(s, i, x)
  PROVE  /\ t \in Seq(S) /\ Len(t) = Len(s) + 1
         /\ \A j \in 1..Len(t) : t[j] = IF j < i THEN s[j] ELSE IF j = i THEN x ELSE s[j - 1]
<1> DEFINE u == SubSeq(s, 1, i - 1)
           v == SubSeq(s, i, Len(s))
<1>1. u \in Seq(S) /\ Len(u) = i - 1 /\ \A j \in 1..i - 1 : u[j] = s[j]
  OBVIOUS
<1>2. v \in Seq(S) /\ Len(v) = Len(s) - i + 1 /\ \A j \in 1..Len(v) : v[j] = s[i + j - 1]
  OBVIOUS
<1>3. t = (u \o <<x>>) \o v
  BY DEF InsertAt
<1> HIDE DEF u, v
<1>4. PICK w : w = u \o <<x>>
  OBVIOUS
<1>5. w \in Seq(S) /\ Len(w) = i /\ \A j \in 1..i : w[j] = IF j < i THEN s[j] ELSE x
  BY <1>1, <1>4
<1>6. /\ w \o v \in Seq(S) /\ Len(w \o v) = Len(s) + 1
      /\ \A j \in 1..Len(s) + 1 : (w \o v)[j] = IF j <= i THEN w[j] ELSE v[j - i]
  BY <1>2, <1>5
<1>7. t \in Seq(S) /\ Len(t) = Len(s) + 1
  BY <1>3, <1>4, <1>6
<1>8. ASSUME NEW j \in 1..Len(t)
      PROVE  t[j] = IF j < i THEN s[j] ELSE IF j = i THEN x ELSE s[j - 1]
  <2>1. t[j] = IF j <= i THEN w[j] ELSE v[j - i]
    BY <1>3, <1>4, <1>6, <1>7
  <2>2. CASE j <= i
    BY <2>1, <2>2, <1>5
  <2>3. CASE j > i
    <3>1. j - i \in 1..Len(v) /\ i + (j - i) - 1 = j - 1
      BY <2>3, <1>2, <1>7
    <3> QED BY <2>1, <2>3, <3>1, <1>2
  <2> QED BY <2>2, <2>3
<1> QED BY <1>7, <1>8

(* the i-th goes and what is behind it moves up *)
LEMMA RemovedAt ==
  ASSUME NEW S, NEW s \in Seq(S), NEW i \in 1..Len(s), NEW t, t = RemoveAt(s, i)
  PROVE  /\ t \in Seq(S) /\ Len(t) = Len(s) - 1
         /\ \A j \in 1..Len(t) : t[j] = IF j < i THEN s[j] ELSE s[j + 1]
<1> DEFINE u == SubSeq(s, 1, i - 1)
           v == SubSeq(s, i + 1, Len(s))
<1>1. u \in Seq(S) /\ Len(u) = i - 1 /\ \A j \in 1..i - 1 : u[j] = s[j]
  OBVIOUS
<1>2. v \in Seq(S) /\ Len(v) = Len(s) - i /\ \A j \in 1..Len(v) : v[j] = s[i + j]
  OBVIOUS
<1>3. t = u \o v
  BY DEF RemoveAt
<1> HIDE DEF u, v
<1>4. /\ t \in Seq(S) /\ Len(t) = Len(s) - 1
      /\ \A j \in 1..Len(t) : t[j] = IF j < i THEN u[j] ELSE v[j - (i - 1)]
  BY <1>1, <1>2, <1>3
<1>5. ASSUME NEW j \in 1..Len(t)
      PROVE  t[j] = IF j < i THEN s[j] ELSE s[j + 1]
  <2>1. CASE j < i
    BY <2>1, <1>4, <1>1
  <2>2. CASE j >= i
    <3>1. j - (i - 1) \in 1..Len(v) /\ i + (j - (i - 1)) = j + 1
      BY <2>2, <1>2, <1>4
    <3>2. v[j - (i - 1)] = s[i + (j - (i - 1))]
      BY <3>1, <1>2
    <3>3. ~(j < i)
      BY <2>2
    <3>4. t[j] = v[j - (i - 1)]
      BY <3>3, <1>4
    <3> QED BY <3>1, <3>2, <3>3, <3>4
  <2> QED BY <2>1, <2>2
<1> QED BY <1>4, <1>5

(* y stands before z *)
Before(s, y, z) == \E j, k \in DOMAIN s : j < k /\ s[j] = y /\ s[k] = z

-----------------------------------------------------------------------------
(* Events in memory, of whatever time and selection                             *)

(* addresses; events while they are worked on; the events at some addresses; a list in such a memory *)
Addr == Nat \ {None}
Loose == [op : Op, note : Note, ts : Int, sel : Int, link : Nat]
Memory == {e \in UNION {[D -> Loose] : D \in SUBSET Addr} : IsFiniteSet(DOMAIN e)}
Raw == [ev : Memory, seq : Seq(Addr), size : Int]

(* a memory is a function on finitely many addresses *)
LEMMA MemoryIs ==
  \A e : e \in Memory <=> IsFiniteSet(DOMAIN e) /\ DOMAIN e \subseteq Addr /\ e \in [DOMAIN e -> Loose]
<1>1. ASSUME NEW e \in Memory
      PROVE  IsFiniteSet(DOMAIN e) /\ DOMAIN e \subseteq Addr /\ e \in [DOMAIN e -> Loose]
  <2>1. PICK D \in SUBSET Addr : e \in [D -> Loose]
    BY DEF Memory
  <2>2. DOMAIN e = D
    BY <2>1
  <2> QED BY <2>1, <2>2 DEF Memory
<1>2. ASSUME NEW e, IsFiniteSet(DOMAIN e), DOMAIN e \subseteq Addr, e \in [DOMAIN e -> Loose]
      PROVE  e \in Memory
  <2>1. PICK D : D = DOMAIN e
    OBVIOUS
  <2>2. D \in SUBSET Addr /\ e \in [D -> Loose] /\ IsFiniteSet(DOMAIN e)
    BY <1>2, <2>1
  <2>3. e \in UNION {[E -> Loose] : E \in SUBSET Addr}
    BY <2>2
  <2> QED BY <2>2, <2>3 DEF Memory
<1> QED BY <1>1, <1>2

(* the parts of a list in memory *)
LEMMA RawIs ==
  ASSUME NEW L \in Raw
  PROVE  /\ L.ev \in Memory /\ L.seq \in Seq(Addr) /\ L.size \in Int /\ Len(L.seq) \in Nat
         /\ L = [ev |-> L.ev, seq |-> L.seq, size |-> L.size]
         /\ DOMAIN L.seq = 1..Len(L.seq) /\ \A k \in 1..Len(L.seq) : L.seq[k] \in Addr
         /\ IsFiniteSet(DOMAIN L.ev) /\ DOMAIN L.ev \subseteq Addr /\ L.ev \in [DOMAIN L.ev -> Loose]
<1>1. L.ev \in Memory /\ L.seq \in Seq(Addr) /\ L.size \in Int
  BY DEF Raw
<1>2. L = [ev |-> L.ev, seq |-> L.seq, size |-> L.size]
  BY DEF Raw
<1>3. IsFiniteSet(DOMAIN L.ev) /\ DOMAIN L.ev \subseteq Addr /\ L.ev \in [DOMAIN L.ev -> Loose]
  BY <1>1, MemoryIs
<1> QED BY <1>1, <1>2, <1>3

(* the same list in another memory *)
LEMMA Remade ==
  ASSUME NEW L \in Raw, NEW e \in Memory
  PROVE  /\ [L EXCEPT !.ev = e] \in Raw
         /\ [L EXCEPT !.ev = e] = [ev |-> e, seq |-> L.seq, size |-> L.size]
BY RawIs DEF Raw

(* a new event gets an address that is not in use *)
LEMMA FreshIs ==
  ASSUME NEW L \in Raw
  PROVE  FreshEvent(L) \in Addr /\ FreshEvent(L) \notin DOMAIN L.ev
<1> DEFINE links == {L.ev[x].link : x \in DOMAIN L.ev}
           used == DOMAIN L.ev \cup links
           c == Cardinality(used)
           free == (1..c + 1) \ used
<1>1. IsFiniteSet(DOMAIN L.ev)
  BY RawIs
<1>2. IsFiniteSet(links)
  <2> DEFINE f == [x \in DOMAIN L.ev |-> L.ev[x].link]
  <2>1. f \in Surjection(DOMAIN L.ev, links)
    BY DEF Surjection
  <2> QED BY <1>1, <2>1, FS_Surjection
<1>3. IsFiniteSet(used) /\ c \in Nat
  <2>1. IsFiniteSet(used)
    BY <1>1, <1>2, FS_Union
  <2> HIDE DEF used
  <2> QED BY <2>1, FS_CardinalityType
<1>4. free # {}
  <2> SUFFICES ASSUME 1..c + 1 \subseteq used
               PROVE  FALSE
    OBVIOUS
  <2> HIDE DEF used
  <2>1. Cardinality(1..c + 1) <= c
    BY <1>3, FS_Subset
  <2>2. Cardinality(1..c + 1) = c + 1
    <3>1. c + 1 \in Nat /\ 1 \in Nat
      BY <1>3
    <3> QED BY <3>1, FS_Interval
  <2> QED BY <2>1, <2>2, <1>3
<1>5. FreshEvent(L) = Min(free)
  BY DEF FreshEvent
<1>6. Min(free) \in free
  <2>1. free \subseteq Nat
    BY <1>3
  <2> HIDE DEF free
  <2> QED BY <2>1, <1>4, MinReached
<1>7. Min(free) \in 1..c + 1 /\ Min(free) \notin DOMAIN L.ev
  <2> HIDE DEF c
  <2>1. \A m \in free : m \in 1..c + 1 /\ m \notin DOMAIN L.ev
    OBVIOUS
  <2> HIDE DEF free
  <2> QED BY <2>1, <1>6
<1> QED BY <1>3, <1>5, <1>7 DEF Addr, None

(* new: one more event, the others stay *)
LEMMA AllocateMakes ==
  ASSUME NEW L \in Raw, NEW x \in Addr, NEW r \in Loose, NEW M, M = Allocate(L, x, r)
  PROVE  /\ M \in Raw /\ M.seq = L.seq /\ M.size = L.size /\ Listed(M) = Listed(L)
         /\ DOMAIN M.ev = DOMAIN L.ev \cup {x} /\ M.ev[x] = r
         /\ \A y \in DOMAIN L.ev : y # x => M.ev[y] = L.ev[y]
<1> DEFINE e == [y \in DOMAIN L.ev \cup {x} |-> IF y = x THEN r ELSE L.ev[y]]
<1>1. IsFiniteSet(DOMAIN L.ev) /\ DOMAIN L.ev \subseteq Addr /\ L.ev \in [DOMAIN L.ev -> Loose]
  BY RawIs
<1>2. DOMAIN e = DOMAIN L.ev \cup {x} /\ e[x] = r /\ \A y \in DOMAIN L.ev : y # x => e[y] = L.ev[y]
  OBVIOUS
<1>3. e \in [DOMAIN e -> Loose] /\ DOMAIN e \subseteq Addr
  BY <1>1
<1>4. IsFiniteSet(DOMAIN e)
  BY <1>1, <1>2, FS_AddElement
<1>5. M = [L EXCEPT !.ev = e]
  BY RawIs DEF Allocate
<1> HIDE DEF e
<1>6. e \in Memory
  BY <1>3, <1>4, MemoryIs
<1>7. M \in Raw /\ M = [ev |-> e, seq |-> L.seq, size |-> L.size]
  BY <1>5, <1>6, Remade
<1> QED BY <1>2, <1>7 DEF Listed

(* delete: these events are gone, the others stay *)
LEMMA ReleaseFrees ==
  ASSUME NEW L \in Raw, NEW X, NEW M, M = Release(L, X)
  PROVE  /\ M \in Raw /\ M.seq = L.seq /\ M.size = L.size /\ Listed(M) = Listed(L)
         /\ DOMAIN M.ev = DOMAIN L.ev \ X
         /\ \A y \in DOMAIN L.ev : y \notin X => M.ev[y] = L.ev[y]
<1> DEFINE e == [y \in DOMAIN L.ev \ X |-> L.ev[y]]
<1>1. IsFiniteSet(DOMAIN L.ev) /\ DOMAIN L.ev \subseteq Addr /\ L.ev \in [DOMAIN L.ev -> Loose]
  BY RawIs
<1>2. DOMAIN e = DOMAIN L.ev \ X /\ \A y \in DOMAIN L.ev : y \notin X => e[y] = L.ev[y]
  OBVIOUS
<1>3. e \in [DOMAIN e -> Loose] /\ DOMAIN e \subseteq Addr
  BY <1>1
<1>4. IsFiniteSet(DOMAIN e)
  <2>1. DOMAIN e \subseteq DOMAIN L.ev
    OBVIOUS
  <2> QED BY <1>1, <2>1, FS_Subset
<1>5. M = [L EXCEPT !.ev = e]
  BY RawIs DEF Release
<1> HIDE DEF e
<1>6. e \in Memory
  BY <1>3, <1>4, MemoryIs
<1>7. M \in Raw /\ M = [ev |-> e, seq |-> L.seq, size |-> L.size]
  BY <1>5, <1>6, Remade
<1> QED BY <1>2, <1>7 DEF Listed

(* the events of a list are changed, one by one *)
LEMMA ChangedAre ==
  ASSUME NEW L \in Raw, NEW e, DOMAIN e = DOMAIN L.ev, \A y \in DOMAIN e : e[y] \in Loose,
         e = [y \in DOMAIN L.ev |-> e[y]], NEW M, M = [L EXCEPT !.ev = e]
  PROVE  M \in Raw /\ M.ev = e /\ M.seq = L.seq /\ M.size = L.size /\ Listed(M) = Listed(L)
<1>1. e \in Memory
  <2>1. IsFiniteSet(DOMAIN e) /\ DOMAIN e \subseteq Addr
    BY RawIs
  <2>2. e \in [DOMAIN e -> Loose]
    OBVIOUS
  <2> QED BY <2>1, <2>2, MemoryIs
<1>2. M \in Raw /\ M = [ev |-> e, seq |-> L.seq, size |-> L.size]
  BY <1>1, Remade
<1> QED BY <1>2 DEF Listed

(* all but the link *)
Alike(r, q) == r.op = q.op /\ r.note = q.note /\ r.ts = q.ts /\ r.sel = q.sel

(* another link changes nothing else *)
LEMMA LinkChanges ==
  ASSUME NEW r \in Loose, NEW n \in Nat, NEW q, q = [r EXCEPT !.link = n]
  PROVE  q \in Loose /\ q.link = n /\ Alike(q, r)
BY DEF Loose, Alike

(* event::link(): the two link to each other *)
LEMMA CoupleLinks ==
  ASSUME NEW L \in Raw, NEW a \in DOMAIN L.ev, NEW b \in DOMAIN L.ev, a # b, NEW M, M = Couple(L, a, b)
  PROVE  /\ M \in Raw /\ M.seq = L.seq /\ M.size = L.size /\ Listed(M) = Listed(L)
         /\ DOMAIN M.ev = DOMAIN L.ev
         /\ \A y \in DOMAIN L.ev : Alike(M.ev[y], L.ev[y])
         /\ M.ev[a].link = b /\ M.ev[b].link = a
         /\ \A y \in DOMAIN L.ev : y \notin {a, b} => M.ev[y] = L.ev[y]
<1>1. L.ev \in [DOMAIN L.ev -> Loose] /\ DOMAIN L.ev \subseteq Addr
  BY RawIs
<1> DEFINE e == [[L.ev EXCEPT ![a].link = b] EXCEPT ![b].link = a]
<1>2. DOMAIN e = DOMAIN L.ev /\ e = [y \in DOMAIN L.ev |-> e[y]]
  BY <1>1
<1>3. /\ e[a] = [L.ev[a] EXCEPT !.link = b] /\ e[b] = [L.ev[b] EXCEPT !.link = a]
      /\ \A y \in DOMAIN L.ev : y \notin {a, b} => e[y] = L.ev[y]
  BY <1>1
<1>4. M = [L EXCEPT !.ev = e]
  BY RawIs DEF Couple
<1> HIDE DEF e
<1>5. /\ e[a] \in Loose /\ e[a].link = b /\ Alike(e[a], L.ev[a])
      /\ e[b] \in Loose /\ e[b].link = a /\ Alike(e[b], L.ev[b])
  <2>1. a \in Nat /\ b \in Nat /\ L.ev[a] \in Loose /\ L.ev[b] \in Loose
    BY <1>1 DEF Addr
  <2> QED BY <2>1, <1>3, LinkChanges
<1>6. ASSUME NEW y \in DOMAIN e
      PROVE  e[y] \in Loose /\ Alike(e[y], L.ev[y])
  <2>1. L.ev[y] \in Loose
    BY <1>1, <1>2
  <2> QED BY <2>1, <1>2, <1>3, <1>5 DEF Alike
<1>7. M \in Raw /\ M.ev = e /\ M.seq = L.seq /\ M.size = L.size /\ Listed(M) = Listed(L)
  BY <1>2, <1>4, <1>6, ChangedAre
<1> QED BY <1>2, <1>3, <1>5, <1>6, <1>7

-----------------------------------------------------------------------------
(* Order                                                                       *)

(* an event that stands before another is not later *)
Ordered(L) ==
  \A y, z \in Listed(L) : Before(L.seq, y, z) => L.ev[y].ts <= L.ev[z].ts

(* two of a list stand one before the other, and none before itself *)
LEMMA StandsBefore ==
  ASSUME NEW L \in Raw, IsInjective(L.seq), NEW y \in Listed(L), NEW z \in Listed(L)
  PROVE  /\ y # z => Before(L.seq, y, z) \/ Before(L.seq, z, y)
         /\ ~Before(L.seq, y, y)
         /\ ~(Before(L.seq, y, z) /\ Before(L.seq, z, y))
<1>1. DOMAIN L.seq = 1..Len(L.seq) /\ Len(L.seq) \in Nat
  BY RawIs
<1>2. PICK j \in DOMAIN L.seq, k \in DOMAIN L.seq : L.seq[j] = y /\ L.seq[k] = z
  BY DEF Listed
<1>3. \A h \in DOMAIN L.seq : (L.seq[h] = y => h = j) /\ (L.seq[h] = z => h = k)
  BY <1>2 DEF IsInjective
<1> QED BY <1>1, <1>2, <1>3 DEF Before

(* Insert() puts x behind all that is not later and before all that is.          *)
LEMMA InsertPuts ==
  ASSUME NEW L \in Raw, NEW x \in DOMAIN L.ev, Listed(L) \subseteq DOMAIN L.ev,
         NEW M, M = Insert(L, x)
  PROVE  /\ M \in Raw /\ M.ev = L.ev /\ M.size = L.size + 1
         /\ Len(M.seq) = Len(L.seq) + 1 /\ Listed(M) = Listed(L) \cup {x}
         /\ IsInjective(L.seq) /\ x \notin Listed(L) => IsInjective(M.seq)
         /\ IsInjective(L.seq) /\ Ordered(L) => Ordered(M)
         /\ \A y, z : Before(L.seq, y, z) => Before(M.seq, y, z)
         /\ \A y, z : Before(M.seq, y, z) => Before(L.seq, y, z) \/ y = x \/ z = x
<1> DEFINE T == {0} \cup {j \in DOMAIN L.seq : L.ev[L.seq[j]].ts <= L.ev[x].ts}
           n == Len(L.seq)
<1>1. /\ DOMAIN L.seq = 1..n /\ n \in Nat /\ L.seq \in Seq(Addr) /\ x \in Addr
      /\ L = [ev |-> L.ev, seq |-> L.seq, size |-> L.size]
      /\ L.ev \in Memory /\ L.size \in Int /\ L.ev \in [DOMAIN L.ev -> Loose]
  BY RawIs
<1>2. PICK k : k = Max(T)
  OBVIOUS
<1>24. \A m : m \in T <=> m = 0 \/ (m \in 1..n /\ L.ev[L.seq[m]].ts <= L.ev[x].ts)
  BY <1>1
<1>25. k \in T /\ \A m \in T : m <= k
  <2>1. T \subseteq 0..n /\ T # {}
    BY <1>1
  <2> HIDE DEF T
  <2> QED BY <2>1, <1>1, <1>2, MaxReached
<1>6. M = [ev |-> L.ev, seq |-> InsertAt(L.seq, k + 1, x), size |-> L.size + 1]
  BY <1>1, <1>2 DEF Insert
<1> HIDE DEF T
<1>3. k \in 0..n /\ k + 1 \in 1..n + 1
  BY <1>1, <1>24, <1>25
<1>4. k > 0 => L.ev[L.seq[k]].ts <= L.ev[x].ts
  BY <1>24, <1>25
<1>5. \A j \in k + 1..n : ~(L.ev[L.seq[j]].ts <= L.ev[x].ts)
  <2> SUFFICES ASSUME NEW j \in k + 1..n, L.ev[L.seq[j]].ts <= L.ev[x].ts
               PROVE  FALSE
    OBVIOUS
  <2>1. j \in 1..n /\ j > k
    BY <1>1, <1>3
  <2> QED BY <2>1, <1>3, <1>24, <1>25
<1>7. PICK i : i = k + 1
  OBVIOUS
<1>8. i \in 1..n + 1 /\ i = k + 1
  BY <1>3, <1>7
<1>9. PICK t : t = InsertAt(L.seq, i, x)
  OBVIOUS
<1>10. /\ t \in Seq(Addr) /\ Len(t) = n + 1
       /\ \A j \in 1..Len(t) : t[j] = IF j < i THEN L.seq[j] ELSE IF j = i THEN x ELSE L.seq[j - 1]
  <2>1. i \in 1..Len(L.seq) + 1 /\ L.seq \in Seq(Addr) /\ x \in Addr
    BY <1>1, <1>8
  <2> QED BY <2>1, <1>9, InsertedAt
<1>11. M = [ev |-> L.ev, seq |-> t, size |-> L.size + 1]
  BY <1>6, <1>7, <1>9
<1>12. M \in Raw /\ M.ev = L.ev /\ M.size = L.size + 1 /\ M.seq = t
  BY <1>1, <1>10, <1>11 DEF Raw
<1>13. DOMAIN t = 1..n + 1
  BY <1>10, <1>1
<1> DEFINE At(j) == IF j < i THEN j ELSE j + 1
<1>14. \A j \in 1..n : At(j) \in 1..n + 1 /\ At(j) # i /\ t[At(j)] = L.seq[j]
  BY <1>1, <1>8, <1>10
<1>15. i \in 1..n + 1 /\ t[i] = x
  BY <1>1, <1>8, <1>10
<1>16. \A h \in 1..n + 1 : h # i => \E j \in 1..n : h = At(j)
  <2> SUFFICES ASSUME NEW h \in 1..n + 1, h # i
               PROVE  \E j \in 1..n : h = At(j)
    OBVIOUS
  <2>1. CASE h < i
    BY <2>1, <1>8, <1>1
  <2>2. CASE h > i
    <3>1. h - 1 \in 1..n /\ h = At(h - 1)
      BY <2>2, <1>8, <1>1
    <3> QED BY <3>1
  <2> QED BY <2>1, <2>2, <1>8
<1>17. \A j, h \in 1..n : j < h <=> At(j) < At(h)
  BY <1>8, <1>1
<1>18. \A j \in 1..n : At(j) < i <=> j <= k
  BY <1>8, <1>1, <1>3
<1> HIDE DEF At
<1>19. Listed(M) = Listed(L) \cup {x}
  <2>1. ASSUME NEW y \in Listed(M)
        PROVE  y \in Listed(L) \cup {x}
    <3>1. PICK h \in 1..n + 1 : t[h] = y
      BY <1>12, <1>13 DEF Listed
    <3> QED BY <3>1, <1>14, <1>15, <1>16, <1>1 DEF Listed
  <2>2. x \in Listed(M)
    BY <1>12, <1>13, <1>15 DEF Listed
  <2>3. ASSUME NEW y \in Listed(L)
        PROVE  y \in Listed(M)
    <3>1. PICK j \in 1..n : L.seq[j] = y
      BY <1>1 DEF Listed
    <3> QED BY <3>1, <1>12, <1>13, <1>14 DEF Listed
  <2> QED BY <2>1, <2>2, <2>3
<1>20. ASSUME IsInjective(L.seq), x \notin Listed(L)
       PROVE  IsInjective(M.seq)
  <2>1. \A j \in 1..n : L.seq[j] # x
    BY <1>1, <1>20 DEF Listed
  <2>2. \A j, h \in 1..n : L.seq[j] = L.seq[h] => j = h
    BY <1>1, <1>20 DEF IsInjective
  <2> SUFFICES ASSUME NEW g \in 1..n + 1, NEW h \in 1..n + 1, t[g] = t[h]
               PROVE  g = h
    BY <1>12, <1>13 DEF IsInjective
  <2>3. g # i => \E j \in 1..n : g = At(j) /\ t[g] = L.seq[j]
    BY <1>14, <1>16
  <2>4. h # i => \E j \in 1..n : h = At(j) /\ t[h] = L.seq[j]
    BY <1>14, <1>16
  <2> QED BY <2>1, <2>2, <2>3, <2>4, <1>15
<1>21. \A y, z : Before(L.seq, y, z) => Before(M.seq, y, z)
  <2> SUFFICES ASSUME NEW j \in 1..n, NEW h \in 1..n, j < h
               PROVE  Before(t, L.seq[j], L.seq[h])
    BY <1>1, <1>12 DEF Before
  <2> QED BY <1>13, <1>14, <1>17 DEF Before
<1>22. ASSUME NEW y, NEW z, Before(M.seq, y, z)
       PROVE  \/ Before(L.seq, y, z)
              \/ y = x /\ \E h \in k + 1..n : z = L.seq[h]
              \/ z = x /\ \E h \in 1..k : y = L.seq[h]
  <2>1. PICK g \in 1..n + 1, h \in 1..n + 1 : g < h /\ t[g] = y /\ t[h] = z
    BY <1>12, <1>13, <1>22 DEF Before
  <2>2. CASE g # i /\ h # i
    <3>1. PICK a \in 1..n, b \in 1..n : g = At(a) /\ h = At(b)
      BY <2>2, <1>16
    <3> QED BY <3>1, <2>1, <1>1, <1>14, <1>17 DEF Before
  <2>3. CASE g = i
    <3>1. h # i
      BY <2>1, <2>3
    <3>2. PICK b \in 1..n : h = At(b)
      BY <3>1, <1>16
    <3>3. ~(At(b) < i) /\ b \in Nat
      BY <2>1, <2>3, <3>2, <1>8
    <3>4. b \in k + 1..n
      BY <3>2, <3>3, <1>18, <1>3
    <3> QED BY <3>2, <3>4, <2>1, <2>3, <1>14, <1>15
  <2>4. CASE h = i
    <3>1. g # i
      BY <2>1, <2>4
    <3>2. PICK b \in 1..n : g = At(b)
      BY <3>1, <1>16
    <3>3. b \in 1..k
      BY <3>2, <2>1, <2>4, <1>18, <1>3
    <3> QED BY <3>2, <3>3, <2>1, <2>4, <1>14, <1>15
  <2> QED BY <2>2, <2>3, <2>4
<1>23. ASSUME IsInjective(L.seq), Ordered(L)
       PROVE  Ordered(M)
  <2> SUFFICES ASSUME NEW y \in Listed(M), NEW z \in Listed(M), Before(M.seq, y, z)
               PROVE  L.ev[y].ts <= L.ev[z].ts
    BY <1>12 DEF Ordered
  <2>0. \A a \in Listed(L) \cup {x} : L.ev[a].ts \in Int
    BY <1>1 DEF Loose
  <2>1. CASE Before(L.seq, y, z)
    <3>1. y \in Listed(L) /\ z \in Listed(L)
      BY <2>1 DEF Before, Listed
    <3> QED BY <3>1, <2>1, <1>23 DEF Ordered
  <2>2. CASE y = x /\ \E h \in k + 1..n : z = L.seq[h]
    <3>1. PICK h \in k + 1..n : z = L.seq[h]
      BY <2>2
    <3>2. ~(L.ev[L.seq[h]].ts <= L.ev[x].ts)
      BY <1>5
    <3> QED BY <2>0, <2>2, <3>1, <3>2, <1>19
  <2>3. CASE z = x /\ \E h \in 1..k : y = L.seq[h]
    <3>1. PICK h \in 1..k : y = L.seq[h]
      BY <2>3
    <3>2. k \in 1..n /\ L.ev[L.seq[k]].ts <= L.ev[x].ts
      BY <3>1, <1>4, <1>3
    <3>3. L.ev[y].ts <= L.ev[L.seq[k]].ts
      <4>1. CASE h = k
        <5>1. y \in Listed(L)
          BY <3>1, <3>2, <4>1, <1>1 DEF Listed
        <5> QED BY <5>1, <3>1, <4>1, <2>0
      <4>2. CASE h < k
        <5>1. h \in DOMAIN L.seq /\ k \in DOMAIN L.seq
          BY <3>1, <3>2, <1>1
        <5>2. Before(L.seq, y, L.seq[k]) /\ y \in Listed(L) /\ L.seq[k] \in Listed(L)
          BY <3>1, <4>2, <5>1 DEF Before, Listed
        <5> QED BY <5>2, <1>23 DEF Ordered
      <4> QED BY <4>1, <4>2, <3>1, <3>2
    <3>4. L.seq[k] \in Listed(L) /\ y \in Listed(L)
      BY <3>1, <3>2, <1>1 DEF Listed
    <3> QED BY <3>2, <3>3, <3>4, <2>0, <2>3
  <2> QED BY <1>22, <2>1, <2>2, <2>3
<1> QED BY <1>10, <1>12, <1>19, <1>20, <1>21, <1>22, <1>23

(* Unlink() takes x out and leaves the others in their order. *)
LEMMA UnlinkTakes ==
  ASSUME NEW L \in Raw, NEW x \in Listed(L), IsInjective(L.seq), NEW M, M = Unlink(L, x)
  PROVE  /\ M \in Raw /\ M.ev = L.ev /\ M.size = L.size - 1
         /\ Len(M.seq) = Len(L.seq) - 1 /\ Listed(M) = Listed(L) \ {x}
         /\ IsInjective(M.seq)
         /\ \A y, z : Before(M.seq, y, z) => Before(L.seq, y, z)
<1> DEFINE n == Len(L.seq)
<1>1. /\ DOMAIN L.seq = 1..n /\ n \in Nat /\ L.seq \in Seq(Addr)
      /\ L = [ev |-> L.ev, seq |-> L.seq, size |-> L.size]
      /\ L.ev \in Memory /\ L.size \in Int
  BY RawIs
<1>2. PICK i : i = PosOf(L, x)
  OBVIOUS
<1>3. i \in 1..n /\ L.seq[i] = x
  BY <1>1, <1>2 DEF PosOf, Listed
<1>4. PICK t : t = RemoveAt(L.seq, i)
  OBVIOUS
<1>5. /\ t \in Seq(Addr) /\ Len(t) = n - 1
      /\ \A j \in 1..Len(t) : t[j] = IF j < i THEN L.seq[j] ELSE L.seq[j + 1]
  BY <1>1, <1>3, <1>4, RemovedAt
<1>6. M = [ev |-> L.ev, seq |-> t, size |-> L.size - 1]
  BY <1>1, <1>2, <1>4 DEF Unlink
<1>7. M \in Raw /\ M.ev = L.ev /\ M.size = L.size - 1 /\ M.seq = t
  BY <1>1, <1>5, <1>6 DEF Raw
<1>8. DOMAIN t = 1..n - 1 /\ n - 1 \in Nat
  BY <1>1, <1>3, <1>5
<1> DEFINE At(j) == IF j < i THEN j ELSE j + 1
<1>9. \A j \in 1..n - 1 : At(j) \in 1..n /\ At(j) # i /\ t[j] = L.seq[At(j)]
  BY <1>1, <1>3, <1>5
<1>10. \A h \in 1..n : h # i => \E j \in 1..n - 1 : h = At(j)
  <2> SUFFICES ASSUME NEW h \in 1..n, h # i
               PROVE  \E j \in 1..n - 1 : h = At(j)
    OBVIOUS
  <2>1. CASE h < i
    BY <2>1, <1>3, <1>1
  <2>2. CASE h > i
    <3>1. h - 1 \in 1..n - 1 /\ h = At(h - 1)
      BY <2>2, <1>3, <1>1
    <3> QED BY <3>1
  <2> QED BY <2>1, <2>2, <1>3
<1>11. \A j, h \in 1..n - 1 : (j < h <=> At(j) < At(h)) /\ (At(j) = At(h) => j = h)
  BY <1>3, <1>1
<1> HIDE DEF At
<1>12. \A j, h \in 1..n : L.seq[j] = L.seq[h] => j = h
  BY <1>1 DEF IsInjective
<1>13. Listed(M) = Listed(L) \ {x}
  <2>1. ASSUME NEW y \in Listed(M)
        PROVE  y \in Listed(L) /\ y # x
    <3>1. PICK h \in 1..n - 1 : t[h] = y
      BY <1>7, <1>8 DEF Listed
    <3> QED BY <3>1, <1>9, <1>12, <1>3, <1>1 DEF Listed
  <2>2. ASSUME NEW y \in Listed(L), y # x
        PROVE  y \in Listed(M)
    <3>1. PICK j \in 1..n : L.seq[j] = y
      BY <1>1 DEF Listed
    <3>2. PICK h \in 1..n - 1 : j = At(h)
      BY <3>1, <2>2, <1>3, <1>10
    <3> QED BY <3>1, <3>2, <1>7, <1>8, <1>9 DEF Listed
  <2> QED BY <2>1, <2>2
<1>14. IsInjective(M.seq)
  <2> SUFFICES ASSUME NEW g \in 1..n - 1, NEW h \in 1..n - 1, t[g] = t[h]
               PROVE  g = h
    BY <1>7, <1>8 DEF IsInjective
  <2> QED BY <1>9, <1>11, <1>12
<1>15. \A y, z : Before(M.seq, y, z) => Before(L.seq, y, z)
  <2> SUFFICES ASSUME NEW j \in 1..n - 1, NEW h \in 1..n - 1, j < h
               PROVE  Before(L.seq, t[j], t[h])
    BY <1>7, <1>8 DEF Before
  <2> QED BY <1>1, <1>9, <1>11 DEF Before
<1> QED BY <1>5, <1>7, <1>13, <1>14, <1>15

-----------------------------------------------------------------------------
(* What a list keeps                                                            *)

(* x is linked to the other half of its note                                     *)
Halves(L, x, y) ==
  /\ y \in Listed(L) /\ L.ev[x].link = y /\ L.ev[y].link = x /\ L.ev[y].note = L.ev[x].note
  /\ \/ L.ev[x].op = "on" /\ L.ev[y].op = "off"
     \/ L.ev[x].op = "off" /\ L.ev[y].op = "on"

(* every link leads to the other half of a note, and every note on has one *)
Linked(L) == \A x \in Listed(L) : L.ev[x].link # None => Halves(L, x, L.ev[x].link)

Paired(L) == Linked(L) /\ \A x \in Ons(L) : L.ev[x].link # None

(* a list of events in memory, each once *)
Listable(L) == L \in Raw /\ IsInjective(L.seq) /\ Listed(L) \subseteq DOMAIN L.ev

(* the events of a list that may be in use: no time before 0, all notes paired      *)
Good(L) ==
  Listable(L) /\ Ordered(L) /\ Paired(L) /\ \A x \in Listed(L) : L.ev[x] \in Event

(* both halves of a note are selected alike; the note off is the later one, and     *)
(* every note off is that of a note                                                 *)
Whole(L) == \A x \in Listed(L) : L.ev[x].link # None => L.ev[L.ev[x].link].sel = L.ev[x].sel
Strict(L) ==
  /\ \A x \in Ons(L) : L.ev[x].ts < L.ev[L.ev[x].link].ts
  /\ \A x \in Listed(L) : L.ev[x].op = "off" => L.ev[x].link # None

-----------------------------------------------------------------------------
(* Relinking                                                                   *)

(* what that says of its events *)
LEMMA ListableIs ==
  ASSUME NEW L, Listable(L)
  PROVE  /\ L \in Raw /\ IsInjective(L.seq) /\ Listed(L) \subseteq DOMAIN L.ev
         /\ DOMAIN L.seq = 1..Len(L.seq) /\ Len(L.seq) \in Nat /\ L.size \in Int
         /\ \A j \in DOMAIN L.seq : L.seq[j] \in Listed(L)
         /\ \A j, k \in DOMAIN L.seq : L.seq[j] = L.seq[k] => j = k
         /\ \A x \in DOMAIN L.ev : x \in Addr /\ x \in Nat /\ x # None /\ L.ev[x] \in Loose
         /\ \A x \in DOMAIN L.ev : L.ev[x].ts \in Int /\ L.ev[x].link \in Nat /\ L.ev[x].op \in Op
<1>1. L \in Raw /\ IsInjective(L.seq) /\ Listed(L) \subseteq DOMAIN L.ev
  BY DEF Listable
<1>2. /\ DOMAIN L.seq = 1..Len(L.seq) /\ Len(L.seq) \in Nat /\ L.size \in Int
      /\ DOMAIN L.ev \subseteq Addr /\ L.ev \in [DOMAIN L.ev -> Loose]
  BY <1>1, RawIs
<1>3. \A x \in DOMAIN L.ev : x \in Addr /\ x \in Nat /\ x # None /\ L.ev[x] \in Loose
  BY <1>2 DEF Addr
<1>4. \A x \in DOMAIN L.ev : L.ev[x].ts \in Int /\ L.ev[x].link \in Nat /\ L.ev[x].op \in Op
  BY <1>3 DEF Loose
<1>5. \A j, k \in DOMAIN L.seq : L.seq[j] = L.seq[k] => j = k
  BY <1>1 DEF IsInjective
<1>6. \A j \in DOMAIN L.seq : L.seq[j] \in Listed(L)
  BY DEF Listed
<1> QED BY <1>1, <1>2, <1>3, <1>4, <1>5, <1>6

(* event::link( NULL ) on all: no event has a link, none has another change *)
LEMMA UnlinkedFrees ==
  ASSUME NEW L \in Raw, NEW M, M = Unlinked(L), Listed(L) \subseteq DOMAIN L.ev
  PROVE  /\ M \in Raw /\ M.seq = L.seq /\ M.size = L.size /\ Listed(M) = Listed(L)
         /\ DOMAIN M.ev = DOMAIN L.ev
         /\ \A x \in Listed(L) : M.ev[x].link = None /\ Alike(M.ev[x], L.ev[x])
         /\ \A x \in DOMAIN L.ev : x \notin Listed(L) => M.ev[x] = L.ev[x]
<1> DEFINE e == [x \in DOMAIN L.ev |->
                   IF x \in Listed(L) THEN [L.ev[x] EXCEPT !.link = None] ELSE L.ev[x]]
<1>1. L.ev \in [DOMAIN L.ev -> Loose]
  BY RawIs
<1>2. /\ DOMAIN e = DOMAIN L.ev /\ e = [y \in DOMAIN L.ev |-> e[y]]
      /\ \A x \in DOMAIN L.ev : x \notin Listed(L) => e[x] = L.ev[x]
      /\ \A x \in Listed(L) : e[x] = [L.ev[x] EXCEPT !.link = None]
  OBVIOUS
<1>3. M = [L EXCEPT !.ev = e]
  BY RawIs DEF Unlinked
<1> HIDE DEF e
<1>4. \A x \in Listed(L) : e[x] \in Loose /\ e[x].link = None /\ Alike(e[x], L.ev[x])
  <2> SUFFICES ASSUME NEW x \in Listed(L)
               PROVE  e[x] \in Loose /\ e[x].link = None /\ Alike(e[x], L.ev[x])
    OBVIOUS
  <2>1. L.ev[x] \in Loose /\ None \in Nat
    BY <1>1 DEF None
  <2> QED BY <2>1, <1>2, LinkChanges
<1>5. \A y \in DOMAIN e : e[y] \in Loose
  BY <1>1, <1>2, <1>4
<1>6. M \in Raw /\ M.ev = e /\ M.seq = L.seq /\ M.size = L.size /\ Listed(M) = Listed(L)
  BY <1>2, <1>3, <1>5, ChangedAre
<1> QED BY <1>2, <1>4, <1>6

(* free offs of that note behind x *)
Free(M, x, y) ==
  /\ y \in Listed(M) /\ Before(M.seq, x, y)
  /\ M.ev[y].link = None /\ M.ev[y].op = "off" /\ M.ev[y].note = M.ev[x].note

(* a note off for it, made at its time *)
Repaired(M, on, off) ==
  Insert(Couple(Allocate(M, off, [M.ev[on] EXCEPT !.op = "off", !.link = None]), on, off), off)

(* The note off that LinkOn() takes is the first that is free, or a new one.       *)
LEMMA LinkOnTakes ==
  ASSUME NEW M, Listable(M), NEW on \in Listed(M), M.ev[on].op = "on", NEW N, N = LinkOn(M, on)
  PROVE  \/ \E off : /\ Free(M, on, off) /\ \A b : Free(M, on, b) => ~Before(M.seq, b, off)
                     /\ off # on /\ N = Couple(M, on, off)
         \/ \E off : /\ \A b : ~Free(M, on, b)
                     /\ off = FreshEvent(M) /\ N = Repaired(M, on, off)
<1> DEFINE later == {k \in PosOf(M, on) + 1 .. Len(M.seq) :
                       LET e == M.ev[M.seq[k]]
                       IN e.link = None /\ e.op = "off" /\ e.note = M.ev[on].note}
<1>1. M \in Raw /\ IsInjective(M.seq) /\ DOMAIN M.seq = 1..Len(M.seq) /\ Len(M.seq) \in Nat
  BY RawIs DEF Listable
<1>2. PosOf(M, on) \in 1..Len(M.seq) /\ M.seq[PosOf(M, on)] = on
  BY <1>1 DEF PosOf, Listed
<1>3. PICK p : p = PosOf(M, on)
  OBVIOUS
<1>4. \A k \in 1..Len(M.seq) : M.seq[k] = on => k = p
  BY <1>1, <1>2, <1>3 DEF IsInjective
<1>5. \A k \in later : /\ k \in 1..Len(M.seq) /\ p < k
                       /\ M.ev[M.seq[k]].link = None /\ M.ev[M.seq[k]].op = "off"
                       /\ M.ev[M.seq[k]].note = M.ev[on].note
  BY <1>1, <1>2, <1>3
<1>6. \A k \in later : Free(M, on, M.seq[k])
  BY <1>1, <1>2, <1>3, <1>5 DEF Free, Before, Listed
<1>7. \A b : Free(M, on, b) => \E k \in later : M.seq[k] = b
  <2> SUFFICES ASSUME NEW b, Free(M, on, b)
               PROVE  \E k \in later : M.seq[k] = b
    OBVIOUS
  <2>1. PICK j \in 1..Len(M.seq), k \in 1..Len(M.seq) : j < k /\ M.seq[j] = on /\ M.seq[k] = b
    BY <1>1 DEF Free, Before
  <2>2. j = p
    BY <2>1, <1>4
  <2>3. k \in PosOf(M, on) + 1 .. Len(M.seq)
    BY <2>1, <2>2, <1>2, <1>3, <1>1
  <2>4. M.ev[M.seq[k]].link = None /\ M.ev[M.seq[k]].op = "off" /\ M.ev[M.seq[k]].note = M.ev[on].note
    BY <2>1 DEF Free
  <2> QED BY <2>1, <2>3, <2>4
<1>8. /\ later # {} => N = Couple(M, on, M.seq[Min(later)])
      /\ later = {} => N = Repaired(M, on, FreshEvent(M))
  BY DEF LinkOn, Repaired
<1> HIDE DEF later
<1>9. CASE later # {}
  <2>1. later \subseteq Nat
    BY <1>5
  <2>2. PICK k \in later : k = Min(later) /\ \A m \in later : k <= m
    BY <2>1, <1>9, MinReached
  <2>3. N = Couple(M, on, M.seq[k]) /\ Free(M, on, M.seq[k])
    BY <2>2, <1>6, <1>8, <1>9
  <2>4. M.seq[k] # on
    BY <1>4, <1>5
  <2>5. ASSUME NEW b, Free(M, on, b), Before(M.seq, b, M.seq[k])
        PROVE  FALSE
    <3>1. PICK h \in later : M.seq[h] = b
      BY <2>5, <1>7
    <3>2. PICK i \in 1..Len(M.seq), j \in 1..Len(M.seq) : i < j /\ M.seq[i] = b /\ M.seq[j] = M.seq[k]
      BY <2>5, <1>1 DEF Before
    <3>3. i = h /\ j = k
      BY <3>1, <3>2, <1>1, <1>5 DEF IsInjective
    <3>4. k <= h /\ h \in Nat /\ k \in Nat
      BY <2>1, <2>2
    <3> QED BY <3>2, <3>3, <3>4
  <2> QED BY <2>3, <2>4, <2>5
<1>10. CASE later = {}
  <2>1. \A b : ~Free(M, on, b)
    BY <1>7, <1>10
  <2> QED BY <2>1, <1>8, <1>10
<1> QED BY <1>9, <1>10

(* F, freed of all links, has been linked up to its k-th event, which made M of it    *)
Added(F, r, on) == on \in Ons(F) /\ r.link = on /\ Alike(r, [F.ev[on] EXCEPT !.op = "off"])

Linking(F, k, M) ==
  /\ Listable(M) /\ Ordered(M) /\ Linked(M)
  /\ Listed(F) \subseteq Listed(M) /\ DOMAIN M.ev = DOMAIN F.ev \cup Listed(M)
  /\ \A x \in DOMAIN F.ev : x \notin Listed(F) => M.ev[x] = F.ev[x] /\ x \notin Listed(M)
  /\ \A x \in Listed(F) : Alike(M.ev[x], F.ev[x])
  /\ \A x \in Listed(M) : x \notin Listed(F) => \E on : Added(F, M.ev[x], on)
  /\ \A j \in DOMAIN F.seq : F.ev[F.seq[j]].op = "on" =>
       (M.ev[F.seq[j]].link # None <=> j <= k)
  /\ M.size - Len(M.seq) = F.size - Len(F.seq)
  /\ \A y, z \in Listed(F) : Before(M.seq, y, z) <=> Before(F.seq, y, z)

(* relink() begins with all links gone. *)
LEMMA LinkingStarts ==
  ASSUME NEW L, Listable(L), Ordered(L), NEW F, F = Unlinked(L)
  PROVE  Linking(F, 0, F)
<1>1. /\ F \in Raw /\ F.seq = L.seq /\ F.size = L.size /\ Listed(F) = Listed(L)
      /\ DOMAIN F.ev = DOMAIN L.ev
      /\ \A x \in Listed(L) : F.ev[x].link = None /\ Alike(F.ev[x], L.ev[x])
  BY UnlinkedFrees DEF Listable
<1>2. Listable(F)
  BY <1>1 DEF Listable
<1>3. Ordered(F) /\ Linked(F)
  BY <1>1 DEF Ordered, Linked, Alike
<1>4. \A j \in DOMAIN F.seq : F.seq[j] \in Listed(F) /\ ~(j <= 0)
  BY <1>2, ListableIs
<1>5. DOMAIN F.ev = DOMAIN F.ev \cup Listed(F)
  BY <1>2 DEF Listable
<1>6. \A x \in Listed(F) : Alike(F.ev[x], F.ev[x])
  BY DEF Alike
<1> QED BY <1>1, <1>2, <1>3, <1>4, <1>5, <1>6 DEF Linking

(* Two halves are brought together that were free. *)
LEMMA LinksAgain ==
  ASSUME NEW M, Listable(M), Linked(M), Ordered(M), NEW on \in Listed(M), NEW off \in Listed(M),
         M.ev[on].op = "on", M.ev[on].link = None, M.ev[off].op = "off", M.ev[off].link = None,
         M.ev[on].note = M.ev[off].note, NEW N, N = Couple(M, on, off)
  PROVE  /\ Listable(N) /\ Linked(N) /\ Ordered(N)
         /\ N.seq = M.seq /\ N.size = M.size /\ Listed(N) = Listed(M) /\ DOMAIN N.ev = DOMAIN M.ev
         /\ \A x \in DOMAIN M.ev : Alike(N.ev[x], M.ev[x])
         /\ \A x \in DOMAIN M.ev : x \notin {on, off} => N.ev[x] = M.ev[x]
         /\ N.ev[on].link = off /\ N.ev[off].link = on
<1>1. M \in Raw /\ Listed(M) \subseteq DOMAIN M.ev /\ \A x \in DOMAIN M.ev : x # None
  BY ListableIs
<1>2. /\ N \in Raw /\ N.seq = M.seq /\ N.size = M.size /\ Listed(N) = Listed(M) /\ DOMAIN N.ev = DOMAIN M.ev
      /\ \A x \in DOMAIN M.ev : Alike(N.ev[x], M.ev[x])
      /\ \A x \in DOMAIN M.ev : x \notin {on, off} => N.ev[x] = M.ev[x]
      /\ N.ev[on].link = off /\ N.ev[off].link = on
  <2>1. on \in DOMAIN M.ev /\ off \in DOMAIN M.ev /\ on # off
    BY <1>1
  <2> QED BY <2>1, <1>1, CoupleLinks
<1>3. Listable(N)
  BY <1>1, <1>2 DEF Listable
<1>4. Ordered(N)
  BY <1>1, <1>2 DEF Ordered, Alike
<1>5. \A x \in Listed(M) : N.ev[x].op = M.ev[x].op /\ N.ev[x].note = M.ev[x].note
  BY <1>1, <1>2 DEF Alike
<1>6. Linked(N)
  <2> SUFFICES ASSUME NEW x \in Listed(M), N.ev[x].link # None
               PROVE  Halves(N, x, N.ev[x].link)
    BY <1>2 DEF Linked
  <2>1. CASE x = on
    BY <2>1, <1>2, <1>5 DEF Halves
  <2>2. CASE x = off
    BY <2>2, <1>2, <1>5 DEF Halves
  <2>3. CASE x \notin {on, off}
    <3>1. N.ev[x] = M.ev[x]
      BY <2>3, <1>1, <1>2
    <3>2. PICK y : y = M.ev[x].link
      OBVIOUS
    <3>3. Halves(M, x, y)
      BY <3>1, <3>2 DEF Linked
    <3>4. x # None
      BY <1>1
    <3>5. y \in Listed(M) /\ y \notin {on, off}
      BY <3>3, <3>4 DEF Halves
    <3>6. N.ev[y] = M.ev[y]
      BY <3>5, <1>1, <1>2
    <3>7. Halves(N, x, y)
      BY <3>1, <3>3, <3>6, <1>2 DEF Halves
    <3> QED BY <3>1, <3>2, <3>7
  <2> QED BY <2>1, <2>2, <2>3
<1> QED BY <1>2, <1>3, <1>4, <1>6

(* A note off is made where there was none. *)
LEMMA Repairs ==
  ASSUME NEW M, Listable(M), Linked(M), Ordered(M), NEW on \in Listed(M),
         M.ev[on].op = "on", M.ev[on].link = None, NEW off, off = FreshEvent(M),
         NEW N, N = Repaired(M, on, off)
  PROVE  /\ Listable(N) /\ Linked(N) /\ Ordered(N) /\ off \notin DOMAIN M.ev
         /\ N.size = M.size + 1 /\ Len(N.seq) = Len(M.seq) + 1
         /\ Listed(N) = Listed(M) \cup {off} /\ DOMAIN N.ev = DOMAIN M.ev \cup {off}
         /\ \A x \in DOMAIN M.ev : Alike(N.ev[x], M.ev[x])
         /\ \A x \in DOMAIN M.ev : x # on => N.ev[x] = M.ev[x]
         /\ N.ev[on].link = off /\ N.ev[off].link = on /\ Alike(N.ev[off], [M.ev[on] EXCEPT !.op = "off"])
         /\ \A y, z \in Listed(M) : Before(N.seq, y, z) <=> Before(M.seq, y, z)
<1> DEFINE r == [M.ev[on] EXCEPT !.op = "off", !.link = None]
<1>1. /\ M \in Raw /\ IsInjective(M.seq) /\ Listed(M) \subseteq DOMAIN M.ev
      /\ \A x \in DOMAIN M.ev : x # None /\ M.ev[x] \in Loose
  BY ListableIs
<1>2. off \in Addr /\ off \notin DOMAIN M.ev /\ off # None /\ on # off
  BY <1>1, FreshIs DEF Addr
<1>3. r \in Loose /\ r.link = None /\ Alike(r, [M.ev[on] EXCEPT !.op = "off"]) /\ r.op = "off" /\ r.note = M.ev[on].note
  <2>1. M.ev[on] \in Loose
    BY <1>1
  <2> QED BY <2>1 DEF Loose, Alike, Op, None
<1>4. PICK A : A = Allocate(M, off, r)
  OBVIOUS
<1>5. PICK B : B = Couple(A, on, off)
  OBVIOUS
<1>6. N = Insert(B, off)
  BY <1>4, <1>5 DEF Repaired
<1> HIDE DEF r
<1>7. /\ A \in Raw /\ A.seq = M.seq /\ A.size = M.size /\ Listed(A) = Listed(M)
      /\ DOMAIN A.ev = DOMAIN M.ev \cup {off} /\ A.ev[off] = r
      /\ \A y \in DOMAIN M.ev : y # off => A.ev[y] = M.ev[y]
  BY <1>1, <1>2, <1>3, <1>4, AllocateMakes
<1>8. /\ B \in Raw /\ B.seq = A.seq /\ B.size = A.size /\ Listed(B) = Listed(A)
      /\ DOMAIN B.ev = DOMAIN A.ev
      /\ \A y \in DOMAIN A.ev : Alike(B.ev[y], A.ev[y])
      /\ B.ev[on].link = off /\ B.ev[off].link = on
      /\ \A y \in DOMAIN A.ev : y \notin {on, off} => B.ev[y] = A.ev[y]
  <2>1. on \in DOMAIN A.ev /\ off \in DOMAIN A.ev /\ on # off
    BY <1>1, <1>2, <1>7
  <2> QED BY <2>1, <1>5, <1>7, CoupleLinks
<1>9. /\ B.seq = M.seq /\ B.size = M.size /\ Listed(B) = Listed(M) /\ DOMAIN B.ev = DOMAIN M.ev \cup {off}
      /\ \A x \in DOMAIN M.ev : Alike(B.ev[x], M.ev[x])
      /\ \A x \in DOMAIN M.ev : x # on => B.ev[x] = M.ev[x]
      /\ Alike(B.ev[off], r)
  <2>1. \A x \in DOMAIN M.ev : x # off /\ A.ev[x] = M.ev[x] /\ x \in DOMAIN A.ev
    BY <1>2, <1>7
  <2>2. off \in DOMAIN A.ev
    BY <1>7
  <2> QED BY <2>1, <2>2, <1>7, <1>8
<1>10. Ordered(B)
  BY <1>1, <1>9 DEF Ordered, Alike
<1>11. /\ N \in Raw /\ N.ev = B.ev /\ N.size = B.size + 1
       /\ Len(N.seq) = Len(B.seq) + 1 /\ Listed(N) = Listed(B) \cup {off}
       /\ IsInjective(N.seq) /\ Ordered(N)
       /\ \A y, z : Before(B.seq, y, z) => Before(N.seq, y, z)
       /\ \A y, z : Before(N.seq, y, z) => Before(B.seq, y, z) \/ y = off \/ z = off
  <2>1. off \in DOMAIN B.ev /\ Listed(B) \subseteq DOMAIN B.ev /\ off \notin Listed(B)
    BY <1>1, <1>2, <1>9
  <2>2. IsInjective(B.seq)
    BY <1>1, <1>9
  <2> QED BY <2>1, <2>2, <1>6, <1>8, <1>10, InsertPuts
<1>12. Listable(N)
  BY <1>1, <1>9, <1>11 DEF Listable
<1>13. Alike(N.ev[off], [M.ev[on] EXCEPT !.op = "off"]) /\ N.ev[off].op = "off" /\ N.ev[off].note = M.ev[on].note
  BY <1>3, <1>9, <1>11 DEF Alike
<1>14. \A x \in Listed(M) : N.ev[x].op = M.ev[x].op /\ N.ev[x].note = M.ev[x].note
  BY <1>1, <1>9, <1>11 DEF Alike
<1>15. Linked(N)
  <2> SUFFICES ASSUME NEW x \in Listed(N), N.ev[x].link # None
               PROVE  Halves(N, x, N.ev[x].link)
    BY DEF Linked
  <2>0. /\ N.ev[on].link = off /\ N.ev[off].link = on /\ on \in Listed(N) /\ off \in Listed(N)
        /\ N.ev[on].op = "on" /\ N.ev[on].note = M.ev[on].note
    BY <1>8, <1>9, <1>11, <1>14
  <2>1. CASE x = on
    BY <2>0, <2>1, <1>13 DEF Halves
  <2>2. CASE x = off
    BY <2>0, <2>2, <1>13 DEF Halves
  <2>3. CASE x \notin {on, off}
    <3>1. x \in Listed(M) /\ N.ev[x] = M.ev[x]
      BY <2>3, <1>1, <1>9, <1>11
    <3>2. PICK y : y = M.ev[x].link
      OBVIOUS
    <3>3. Halves(M, x, y)
      BY <3>1, <3>2 DEF Linked
    <3>4. x # None
      BY <3>1, <1>1
    <3>5. y \in Listed(M) /\ y # on
      BY <3>3, <3>4 DEF Halves
    <3>6. N.ev[y] = M.ev[y]
      BY <3>5, <1>1, <1>9, <1>11
    <3>7. Halves(N, x, y)
      BY <3>1, <3>3, <3>6, <1>9, <1>11 DEF Halves
    <3> QED BY <3>1, <3>2, <3>7
  <2> QED BY <2>1, <2>2, <2>3
<1>16. \A y, z \in Listed(M) : Before(N.seq, y, z) <=> Before(M.seq, y, z)
  BY <1>1, <1>2, <1>9, <1>11
<1> QED BY <1>2, <1>8, <1>9, <1>11, <1>12, <1>13, <1>15, <1>16

(* relink() links one note on more. *)
LEMMA LinkingGoesOn ==
  ASSUME NEW F, Listable(F), NEW k \in DOMAIN F.seq, NEW M, Linking(F, k - 1, M),
         NEW on, on = F.seq[k], NEW N, N = IF M.ev[on].op = "on" THEN LinkOn(M, on) ELSE M
  PROVE  Linking(F, k, N)
<1>1. /\ Listable(M) /\ Ordered(M) /\ Linked(M)
      /\ Listed(F) \subseteq Listed(M) /\ DOMAIN M.ev = DOMAIN F.ev \cup Listed(M)
  BY DEF Linking
<1>2. \A x \in DOMAIN F.ev : x \notin Listed(F) => M.ev[x] = F.ev[x] /\ x \notin Listed(M)
  BY DEF Linking
<1>3. \A x \in Listed(F) : Alike(M.ev[x], F.ev[x])
  BY DEF Linking
<1>4. \A x \in Listed(M) : x \notin Listed(F) => \E o : Added(F, M.ev[x], o)
  BY DEF Linking
<1>5. \A j \in DOMAIN F.seq : F.ev[F.seq[j]].op = "on" => (M.ev[F.seq[j]].link # None <=> j <= k - 1)
  BY DEF Linking
<1>6. /\ M.size - Len(M.seq) = F.size - Len(F.seq)
      /\ \A y, z \in Listed(F) : Before(M.seq, y, z) <=> Before(F.seq, y, z)
  BY DEF Linking
<1>7. /\ DOMAIN F.seq = 1..Len(F.seq) /\ k \in Nat /\ Listed(F) \subseteq DOMAIN F.ev
      /\ \A j \in DOMAIN F.seq : F.seq[j] \in Listed(F)
      /\ \A j \in DOMAIN F.seq : F.seq[j] = on => j = k
      /\ \A x \in DOMAIN F.ev : x # None
  BY ListableIs
<1>8. /\ Listed(M) \subseteq DOMAIN M.ev /\ \A x \in DOMAIN M.ev : x # None
      /\ M.size \in Int /\ Len(M.seq) \in Nat
  BY <1>1, ListableIs
<1>9. on \in Listed(F) /\ on \in Listed(M) /\ M.ev[on].op = F.ev[on].op
  BY <1>1, <1>3, <1>7 DEF Alike
(* what either way of linking leaves *)
<1>10. ASSUME F.ev[on].op = "on", Listable(N), Ordered(N), Linked(N),
              NEW off, off \in Listed(N), N.ev[on].link = off,
              Listed(N) = Listed(M) \cup {off}, DOMAIN N.ev = DOMAIN M.ev \cup {off},
              off \notin Listed(M) => off \notin DOMAIN M.ev,
              off \in Listed(F) => F.ev[off].op = "off",
              off \notin Listed(F) => \E o : Added(F, N.ev[off], o),
              \A x \in DOMAIN M.ev : Alike(N.ev[x], M.ev[x]),
              \A x \in DOMAIN M.ev : x \notin {on, off} => N.ev[x] = M.ev[x],
              N.size - Len(N.seq) = M.size - Len(M.seq),
              \A y, z \in Listed(M) : Before(N.seq, y, z) <=> Before(M.seq, y, z)
       PROVE  Linking(F, k, N)
  <2>1. DOMAIN N.ev = DOMAIN F.ev \cup Listed(N) /\ Listed(F) \subseteq Listed(N)
    BY <1>1, <1>10
  <2>2. \A x \in DOMAIN F.ev : x \notin Listed(F) => N.ev[x] = F.ev[x] /\ x \notin Listed(N)
    <3> SUFFICES ASSUME NEW x \in DOMAIN F.ev, x \notin Listed(F)
                 PROVE  N.ev[x] = F.ev[x] /\ x \notin Listed(N)
      OBVIOUS
    <3>1. M.ev[x] = F.ev[x] /\ x \notin Listed(M) /\ x \in DOMAIN M.ev
      BY <1>1, <1>2
    <3>2. x # off /\ x # on
      BY <3>1, <1>9, <1>10
    <3> QED BY <3>1, <3>2, <1>10
  <2>3. \A x \in Listed(F) : Alike(N.ev[x], F.ev[x])
    <3> SUFFICES ASSUME NEW x \in Listed(F)
                 PROVE  Alike(N.ev[x], F.ev[x])
      OBVIOUS
    <3>1. Alike(M.ev[x], F.ev[x]) /\ Alike(N.ev[x], M.ev[x])
      BY <1>1, <1>3, <1>8, <1>10
    <3> QED BY <3>1 DEF Alike
  <2>4. \A x \in Listed(N) : x \notin Listed(F) => \E o : Added(F, N.ev[x], o)
    <3> SUFFICES ASSUME NEW x \in Listed(N), x \notin Listed(F)
                 PROVE  \E o : Added(F, N.ev[x], o)
      OBVIOUS
    <3>1. CASE x = off
      BY <3>1, <1>10
    <3>2. CASE x # off
      <4>1. x \in Listed(M) /\ x # on
        BY <3>2, <1>9, <1>10
      <4>2. N.ev[x] = M.ev[x]
        BY <4>1, <3>2, <1>8, <1>10
      <4> QED BY <4>1, <4>2, <1>4
    <3> QED BY <3>1, <3>2
  <2>5. \A j \in DOMAIN F.seq : F.ev[F.seq[j]].op = "on" => (N.ev[F.seq[j]].link # None <=> j <= k)
    <3> SUFFICES ASSUME NEW j \in DOMAIN F.seq, F.ev[F.seq[j]].op = "on"
                 PROVE  N.ev[F.seq[j]].link # None <=> j <= k
      OBVIOUS
    <3>1. F.seq[j] \in Listed(F) /\ F.seq[j] \in DOMAIN M.ev
      BY <1>1, <1>7, <1>8
    <3>2. CASE j = k
      <4>1. off # None
        <5>1. off \in DOMAIN N.ev
          BY <1>10
        <5> QED BY <5>1, <1>10, ListableIs
      <4>2. F.seq[j] = on /\ j <= k
        BY <3>2, <1>7
      <4> QED BY <4>1, <4>2, <1>10
    <3>3. CASE j # k
      <4>1. F.seq[j] # on
        BY <3>3, <1>7
      <4>2. F.seq[j] # off
        BY <3>1, <1>10
      <4>3. N.ev[F.seq[j]] = M.ev[F.seq[j]]
        BY <3>1, <4>1, <4>2, <1>10
      <4>4. j <= k <=> j <= k - 1
        BY <3>3, <1>7
      <4>5. M.ev[F.seq[j]].link # None <=> j <= k - 1
        BY <1>5
      <4> QED BY <4>3, <4>4, <4>5
    <3> QED BY <3>2, <3>3
  <2>6. /\ N.size - Len(N.seq) = F.size - Len(F.seq)
        /\ \A y, z \in Listed(F) : Before(N.seq, y, z) <=> Before(F.seq, y, z)
    BY <1>1, <1>6, <1>10
  <2> QED BY <2>1, <2>2, <2>3, <2>4, <2>5, <2>6, <1>10 DEF Linking
<1>11. CASE F.ev[on].op # "on"
  <2>1. N = M
    BY <1>9, <1>11
  <2>2. \A j \in DOMAIN F.seq : F.ev[F.seq[j]].op = "on" => (M.ev[F.seq[j]].link # None <=> j <= k)
    <3> SUFFICES ASSUME NEW j \in DOMAIN F.seq, F.ev[F.seq[j]].op = "on"
                 PROVE  M.ev[F.seq[j]].link # None <=> j <= k
      OBVIOUS
    <3>1. j # k
      BY <1>11
    <3>2. j <= k <=> j <= k - 1
      BY <3>1, <1>7
    <3> QED BY <3>2, <1>5
  <2> QED BY <2>1, <2>2, <1>1, <1>2, <1>3, <1>4, <1>6 DEF Linking
<1>12. CASE F.ev[on].op = "on"
  <2>1. N = LinkOn(M, on) /\ M.ev[on].op = "on" /\ M.ev[on].link = None
    <3>1. ~(k <= k - 1)
      BY <1>7
    <3>2. ~(M.ev[F.seq[k]].link # None)
      BY <3>1, <1>5, <1>12
    <3> QED BY <3>2, <1>9, <1>12
  <2>2. ASSUME NEW off, Free(M, on, off), N = Couple(M, on, off)
        PROVE  Linking(F, k, N)
    <3>1. off \in Listed(M) /\ M.ev[off].link = None /\ M.ev[off].op = "off" /\ M.ev[off].note = M.ev[on].note
      BY <2>2 DEF Free
    <3>2. off \in Listed(F)
      <4> SUFFICES ASSUME off \notin Listed(F)
                   PROVE  FALSE
        OBVIOUS
      <4>1. PICK o : Added(F, M.ev[off], o)
        BY <3>1, <1>4
      <4>2. o \in Listed(F) /\ M.ev[off].link = o
        BY <4>1 DEF Added, Ons
      <4> QED BY <4>2, <3>1, <1>7
    <3>3. F.ev[off].op = "off"
      BY <3>1, <3>2, <1>3 DEF Alike
    <3>4. /\ Listable(N) /\ Linked(N) /\ Ordered(N)
          /\ N.seq = M.seq /\ N.size = M.size /\ Listed(N) = Listed(M) /\ DOMAIN N.ev = DOMAIN M.ev
          /\ \A x \in DOMAIN M.ev : Alike(N.ev[x], M.ev[x])
          /\ \A x \in DOMAIN M.ev : x \notin {on, off} => N.ev[x] = M.ev[x]
          /\ N.ev[on].link = off /\ N.ev[off].link = on
      BY <2>1, <2>2, <3>1, <1>1, <1>9, LinksAgain
    <3>5. Listed(N) = Listed(M) \cup {off} /\ DOMAIN N.ev = DOMAIN M.ev \cup {off} /\ off \in Listed(N)
      BY <3>1, <3>4, <1>8
    <3>6. /\ N.size - Len(N.seq) = M.size - Len(M.seq)
          /\ \A y, z \in Listed(M) : Before(N.seq, y, z) <=> Before(M.seq, y, z)
      BY <3>4
    <3> QED BY <3>1, <3>2, <3>3, <3>4, <3>5, <3>6, <1>10, <1>12
  <2>3. ASSUME NEW off, off = FreshEvent(M),
               N = Repaired(M, on, off)
        PROVE  Linking(F, k, N)
    <3>1. /\ Listable(N) /\ Linked(N) /\ Ordered(N) /\ off \notin DOMAIN M.ev
          /\ N.size = M.size + 1 /\ Len(N.seq) = Len(M.seq) + 1
          /\ Listed(N) = Listed(M) \cup {off} /\ DOMAIN N.ev = DOMAIN M.ev \cup {off}
          /\ \A x \in DOMAIN M.ev : Alike(N.ev[x], M.ev[x])
          /\ \A x \in DOMAIN M.ev : x # on => N.ev[x] = M.ev[x]
          /\ N.ev[on].link = off /\ N.ev[off].link = on /\ Alike(N.ev[off], [M.ev[on] EXCEPT !.op = "off"])
          /\ \A y, z \in Listed(M) : Before(N.seq, y, z) <=> Before(M.seq, y, z)
      BY <2>1, <2>3, <1>1, <1>9, Repairs
    <3>2. off \notin Listed(F)
      BY <3>1, <1>1
    <3>3. Added(F, N.ev[off], on)
      <4>1. on \in Ons(F)
        BY <1>9, <1>12 DEF Ons
      <4>2. M.ev[on] \in Loose /\ F.ev[on] \in Loose /\ Alike(M.ev[on], F.ev[on])
        <5>1. on \in DOMAIN M.ev /\ on \in DOMAIN F.ev
          BY <1>7, <1>8, <1>9
        <5> QED BY <5>1, <1>1, <1>3, <1>9, ListableIs
      <4>3. Alike([M.ev[on] EXCEPT !.op = "off"], [F.ev[on] EXCEPT !.op = "off"])
        BY <4>2 DEF Alike, Loose
      <4> QED BY <4>1, <4>3, <3>1 DEF Added, Alike
    <3>4. N.size - Len(N.seq) = M.size - Len(M.seq) /\ off \in Listed(N)
      <4>3. N.size = M.size + 1 /\ Len(N.seq) = Len(M.seq) + 1
        BY <3>1
      <4>4. M.size \in Int /\ Len(M.seq) \in Nat
        BY <1>8
      <4>1. N.size = M.size + 1 /\ Len(N.seq) = Len(M.seq) + 1 /\ M.size \in Int /\ Len(M.seq) \in Int
        BY <4>3, <4>4
      <4>2. N.size - Len(N.seq) = M.size - Len(M.seq)
        BY <4>1
      <4> QED BY <4>2, <3>1
    <3> QED BY <3>1, <3>2, <3>3, <3>4, <1>10, <1>12
  <2> QED BY <2>1, <2>2, <2>3, <1>1, <1>9, LinkOnTakes
<1> QED BY <1>11, <1>12

(* LinkOn() of any event of a list in memory *)
LEMMA LinkOnStays ==
  ASSUME NEW M \in Raw, Listed(M) \subseteq DOMAIN M.ev, NEW on \in Listed(M), M.ev[on].op = "on",
         NEW N, N = LinkOn(M, on)
  PROVE  N \in Raw /\ Listed(M) \subseteq Listed(N) /\ Listed(N) \subseteq DOMAIN N.ev
<1> DEFINE later == {k \in PosOf(M, on) + 1 .. Len(M.seq) :
                       LET e == M.ev[M.seq[k]]
                       IN e.link = None /\ e.op = "off" /\ e.note = M.ev[on].note}
           off == FreshEvent(M)
           r == [M.ev[on] EXCEPT !.op = "off", !.link = None]
<1>1. /\ DOMAIN M.seq = 1..Len(M.seq) /\ Len(M.seq) \in Nat
      /\ M.ev \in [DOMAIN M.ev -> Loose] /\ DOMAIN M.ev \subseteq Addr
  BY RawIs
<1>2. PosOf(M, on) \in 1..Len(M.seq)
  BY <1>1 DEF PosOf, Listed
<1>3. \A k \in later : k \in Nat /\ k \in 1..Len(M.seq) /\ M.ev[M.seq[k]].op = "off"
  BY <1>1, <1>2
<1>4. /\ later # {} => N = Couple(M, on, M.seq[Min(later)])
      /\ later = {} => N = Insert(Couple(Allocate(M, off, r), on, off), off)
  BY DEF LinkOn
<1> HIDE DEF later
<1>5. CASE later # {}
  <2>1. PICK k \in later : k = Min(later)
    <3>1. later \subseteq Nat
      BY <1>3
    <3> QED BY <3>1, <1>5, MinReached
  <2>2. M.seq[k] \in Listed(M) /\ M.ev[M.seq[k]].op = "off"
    BY <2>1, <1>1, <1>3 DEF Listed
  <2>3. M.seq[k] # on /\ on \in DOMAIN M.ev /\ M.seq[k] \in DOMAIN M.ev
    BY <2>2
  <2>4. N = Couple(M, on, M.seq[k])
    BY <2>1, <1>4, <1>5
  <2> QED BY <2>3, <2>4, CoupleLinks
<1>6. CASE later = {}
  <2>1. off \in Addr /\ off \notin DOMAIN M.ev
    BY FreshIs
  <2>2. r \in Loose
    <3>1. M.ev[on] \in Loose
      BY <1>1
    <3> QED BY <3>1 DEF Loose, Op, None
  <2> HIDE DEF off, r
  <2>3. PICK A : A = Allocate(M, off, r)
    OBVIOUS
  <2>4. PICK B : B = Couple(A, on, off)
    OBVIOUS
  <2>5. A \in Raw /\ Listed(A) = Listed(M) /\ DOMAIN A.ev = DOMAIN M.ev \cup {off}
    BY <2>1, <2>2, <2>3, AllocateMakes
  <2>6. on \in DOMAIN A.ev /\ off \in DOMAIN A.ev /\ on # off
    BY <2>1, <2>5
  <2>7. B \in Raw /\ Listed(B) = Listed(A) /\ DOMAIN B.ev = DOMAIN A.ev
    BY <2>4, <2>5, <2>6, CoupleLinks
  <2>8. N = Insert(B, off) /\ off \in DOMAIN B.ev /\ Listed(B) \subseteq DOMAIN B.ev
    BY <2>3, <2>4, <2>5, <2>7, <1>4, <1>6
  <2>9. N \in Raw /\ N.ev = B.ev /\ Listed(N) = Listed(B) \cup {off}
    BY <2>7, <2>8, InsertPuts
  <2> QED BY <2>5, <2>7, <2>8, <2>9
<1> QED BY <1>5, <1>6

(* relink() takes one event after the other. *)
LEMMA RelinkSteps ==
  ASSUME NEW L, Listable(L), Ordered(L), NEW F, F = Unlinked(L), NEW N, N = Relink(L)
  PROVE  \E M : /\ M[0] = F /\ N = M[Len(L.seq)]
                /\ \A k \in 0..Len(L.seq) : Linking(F, k, M[k])
                /\ \A k \in 1..Len(L.seq) :
                     M[k] = IF M[k - 1].ev[F.seq[k]].op = "on" THEN LinkOn(M[k - 1], F.seq[k]) ELSE M[k - 1]
<1> DEFINE n == Len(L.seq)
           V == {M \in Raw : Listed(F) \subseteq Listed(M) /\ Listed(M) \subseteq DOMAIN M.ev}
           Step(M, x) == IF M.ev[x].op = "on" THEN LinkOn(M, x) ELSE M
           H == [p \in V \X (1..n) |-> Step(p[1], L.seq[p[2]])]
           W == [k \in 0..n |-> V]
           Folds(f) == f = [t \in SUBSET DOMAIN L.seq |->
                              IF t = {} THEN F ELSE Step(f[t \ {Max(t)}], L.seq[Max(t)])]
<1>1. N = (CHOOSE f : Folds(f))[DOMAIN L.seq]
  <2>1. N = (CHOOSE f : f = [t \in SUBSET DOMAIN L.seq |->
                           IF t = {} THEN Unlinked(L) ELSE Step(f[t \ {Max(t)}], L.seq[Max(t)])])[DOMAIN L.seq]
    BY Zenon DEF Relink, FoldLeft, MapThenFoldSet
  <2>2. N = (CHOOSE f : f = [t \in SUBSET DOMAIN L.seq |->
                           IF t = {} THEN F ELSE Step(f[t \ {Max(t)}], L.seq[Max(t)])])[DOMAIN L.seq]
    BY Zenon, <2>1
  <2> QED BY Zenon, <2>2
<1>2. /\ Listable(F) /\ F.seq = L.seq /\ Listed(F) = Listed(L) /\ DOMAIN L.seq = 1..n /\ n \in Nat
      /\ \A k \in 1..n : L.seq[k] \in Listed(F)
  <2>1. F \in Raw /\ F.seq = L.seq /\ Listed(F) = Listed(L) /\ DOMAIN F.ev = DOMAIN L.ev
    BY UnlinkedFrees DEF Listable
  <2>2. Listable(F)
    BY <2>1 DEF Listable
  <2> QED BY <2>1, <2>2, ListableIs
<1>3. Linking(F, 0, F)
  BY LinkingStarts
<1>4. \A M \in V : \A k \in 1..n : Step(M, L.seq[k]) \in V
  <2> SUFFICES ASSUME NEW M \in V, NEW k \in 1..n
               PROVE  Step(M, L.seq[k]) \in V
    OBVIOUS
  <2>1. CASE M.ev[L.seq[k]].op = "on"
    <3>1. M \in Raw /\ Listed(M) \subseteq DOMAIN M.ev /\ L.seq[k] \in Listed(M) /\ Listed(F) \subseteq Listed(M)
      BY <1>2
    <3>2. LinkOn(M, L.seq[k]) \in V
      BY <2>1, <3>1, LinkOnStays
    <3> QED BY <2>1, <3>2
  <2> QED BY <2>1
<1>5. \A M \in V : \A k \in 1..n : H[<<M, k>>] = Step(M, L.seq[k])
  <2> HIDE DEF V, Step
  <2> QED OBVIOUS
<1>6. F \in V /\ \A k \in 0..n : W[k] = V
  <2>1. F \in V
    BY <1>2 DEF Listable
  <2> QED BY <2>1
<1> HIDE DEF V, H, W, Step
<1>7. Staged(n, W, H, F)
  <2>1. \A k \in 1..n : k - 1 \in 0..n /\ k \in 0..n
    BY <1>2
  <2>2. 0 \in 0..n
    BY <1>2
  <2> QED BY <2>1, <2>2, <1>4, <1>5, <1>6 DEF Staged
<1>8. PICK g : g = (CHOOSE f : Folds(f))
  OBVIOUS
<1>9. \A k \in 1..n : \A m \in W[k - 1] : H[<<m, k>>] = Step(m, L.seq[k])
  <2>1. \A k \in 1..n : k - 1 \in 0..n
    BY <1>2
  <2> QED BY <2>1, <1>5, <1>6
<1>10. Leads(g, n, F, W, H)
  <2> SUFFICES ASSUME NEW f, Makes(f, n, F, W, H)
               PROVE  Follows(g, n, F, W, H)
    BY DEF Leads
  <2>1. ASSUME NEW t \in SUBSET (1..n)
        PROVE  f[t] = IF t = {} THEN F ELSE Step(f[t \ {Max(t)}], L.seq[Max(t)])
    <3>1. CASE t = {}
      BY <3>1 DEF Makes
    <3>2. CASE t # {}
      <4>1. /\ Max(t) \in 1..n /\ f[t \ {Max(t)}] \in W[Max(t) - 1]
            /\ f[t] = H[<<f[t \ {Max(t)}], Max(t)>>]
        BY <3>2 DEF Makes
      <4> QED BY <3>2, <4>1, <1>9
    <3> QED BY <3>1, <3>2
  <2>2. Folds(f)
    BY <2>1, <1>2 DEF Makes
  <2>3. Folds(g)
    <3> HIDE DEF Folds
    <3> QED BY <2>2, <1>8
  <2>4. g = [t \in SUBSET (1..n) |-> IF t = {} THEN F ELSE Step(g[t \ {Max(t)}], L.seq[Max(t)])]
    BY <2>3, <1>2
  <2>5. g[{}] = F /\ \A t \in SUBSET (1..n) : t # {} => g[t] = Step(g[t \ {Max(t)}], L.seq[Max(t)])
    BY <2>4
  <2>6. ASSUME NEW t \in SUBSET (1..n), t # {}, NEW k \in 1..n, k = Max(t), g[t \ {k}] \in W[k - 1]
        PROVE  g[t] = H[<<g[t \ {k}], k>>]
    BY <2>5, <2>6, <1>9
  <2> QED BY <2>5, <2>6 DEF Follows
<1> HIDE DEF Folds
<1>13. PICK M : /\ M[0] = F /\ g[1..n] = M[n]
                /\ \A k \in 0..n : M[k] \in W[k]
                /\ \A k \in 1..n : M[k] = H[<<M[k - 1], k>>]
  BY <1>2, <1>7, <1>10, FoldGives
<1>14. \A k \in 1..n : M[k] = Step(M[k - 1], L.seq[k])
  <2> SUFFICES ASSUME NEW k \in 1..n
               PROVE  M[k] = Step(M[k - 1], L.seq[k])
    OBVIOUS
  <2>1. k - 1 \in 0..n
    BY <1>2
  <2>2. M[k - 1] \in V
    BY <2>1, <1>6, <1>13
  <2> QED BY <2>2, <1>5, <1>13
<1> DEFINE S == {k \in 0..n : Linking(F, k, M[k])}
<1>15. 0 \in S
  BY <1>2, <1>3, <1>13
<1>16. \A k \in 1..n : k - 1 \in S => k \in S
  <2> SUFFICES ASSUME NEW k \in 1..n, Linking(F, k - 1, M[k - 1])
               PROVE  k \in S
    OBVIOUS
  <2>1. Linking(F, k, M[k])
    <3>1. M[k] = IF M[k - 1].ev[F.seq[k]].op = "on" THEN LinkOn(M[k - 1], F.seq[k]) ELSE M[k - 1]
      BY <1>2, <1>14 DEF Step
    <3>2. k \in DOMAIN F.seq
      BY <1>2
    <3> QED BY <3>1, <3>2, <1>2, LinkingGoesOn
  <2> QED BY <2>1
<1>17. \A k \in 0..n : k \in S
  <2> HIDE DEF S
  <2> QED BY <1>2, <1>15, <1>16, Climb
<1>18. N = M[n]
  <2>1. N = g[1..n]
    BY <1>1, <1>2, <1>8
  <2> QED BY <2>1, <1>13
<1>19. \A k \in 1..n : M[k] = IF M[k - 1].ev[F.seq[k]].op = "on" THEN LinkOn(M[k - 1], F.seq[k]) ELSE M[k - 1]
  BY <1>2, <1>14 DEF Step
<1> QED BY <1>13, <1>17, <1>18, <1>19

(* relink() goes on to the last event. *)
LEMMA RelinkEnds ==
  ASSUME NEW L, Listable(L), Ordered(L), NEW N, N = Relink(L)
  PROVE  Linking(Unlinked(L), Len(L.seq), N)
<1>1. PICK F : F = Unlinked(L)
  OBVIOUS
<1>2. PICK n : n = Len(L.seq)
  OBVIOUS
<1>3. PICK M : N = M[n] /\ \A k \in 0..n : Linking(F, k, M[k])
  BY <1>1, <1>2, RelinkSteps
<1>4. n \in 0..n
  BY <1>2, ListableIs
<1> QED BY <1>1, <1>2, <1>3, <1>4

(* the events that are not of L stay what they are and where they are            *)
Aside(L, N) ==
  \A x \in DOMAIN L.ev : x \notin Listed(L) => x \in DOMAIN N.ev /\ x \notin Listed(N) /\ N.ev[x] = L.ev[x]

(* how much size() is off *)
Excess(L) == L.size - Len(L.seq)

(* relink(): every note on has a note off, and the only new events are note offs at the time of their note on. *)
LEMMA Relinked ==
  ASSUME NEW L, Listable(L), Ordered(L), NEW N, N = Relink(L)
  PROVE  /\ Listable(N) /\ Ordered(N) /\ Paired(N) /\ Excess(N) = Excess(L) /\ Aside(L, N)
         /\ Listed(L) \subseteq Listed(N) /\ Ons(N) = Ons(L)
         /\ \A x \in Listed(L) : Alike(N.ev[x], L.ev[x])
         /\ \A x \in Listed(N) : x \notin Listed(L) =>
              \E a \in Ons(L) : /\ N.ev[x].link = a /\ N.ev[x].op = "off"
                                /\ N.ev[x].ts = L.ev[a].ts /\ N.ev[x].sel = L.ev[a].sel
<1> DEFINE F == Unlinked(L)
           n == Len(L.seq)
<1>1. /\ F \in Raw /\ F.seq = L.seq /\ F.size = L.size /\ Listed(F) = Listed(L) /\ DOMAIN F.ev = DOMAIN L.ev
      /\ \A x \in Listed(L) : F.ev[x].link = None /\ Alike(F.ev[x], L.ev[x])
      /\ \A x \in DOMAIN L.ev : x \notin Listed(L) => F.ev[x] = L.ev[x]
  BY UnlinkedFrees DEF Listable
<1>2. Linking(F, n, N)
  BY RelinkEnds
<1> HIDE DEF F
<1>3. Listable(F) /\ DOMAIN F.seq = 1..n /\ n \in Nat
  <2>1. Listable(F)
    BY <1>1 DEF Listable
  <2> QED BY <2>1, <1>1, ListableIs
<1>4. /\ Listable(N) /\ Ordered(N) /\ Linked(N) /\ Listed(F) \subseteq Listed(N)
      /\ DOMAIN N.ev = DOMAIN F.ev \cup Listed(N)
      /\ \A x \in DOMAIN F.ev : x \notin Listed(F) => N.ev[x] = F.ev[x] /\ x \notin Listed(N)
      /\ N.size - Len(N.seq) = F.size - Len(F.seq)
  BY <1>2 DEF Linking
<1>5. /\ \A x \in Listed(F) : Alike(N.ev[x], F.ev[x])
      /\ \A x \in Listed(N) : x \notin Listed(F) => \E on : Added(F, N.ev[x], on)
      /\ \A j \in DOMAIN F.seq : F.ev[F.seq[j]].op = "on" => (N.ev[F.seq[j]].link # None <=> j <= n)
  BY <1>2 DEF Linking
<1>6. \A x \in Listed(L) : Alike(N.ev[x], L.ev[x])
  BY <1>1, <1>5 DEF Alike
<1>7. Ons(F) = Ons(L)
  BY <1>1 DEF Ons, Alike
<1>8. \A x \in Listed(N) : x \notin Listed(L) =>
        \E a \in Ons(L) : /\ N.ev[x].link = a /\ N.ev[x].op = "off"
                          /\ N.ev[x].ts = L.ev[a].ts /\ N.ev[x].sel = L.ev[a].sel
  <2> SUFFICES ASSUME NEW x \in Listed(N), x \notin Listed(L)
               PROVE  \E a \in Ons(L) : /\ N.ev[x].link = a /\ N.ev[x].op = "off"
                                        /\ N.ev[x].ts = L.ev[a].ts /\ N.ev[x].sel = L.ev[a].sel
    OBVIOUS
  <2>1. PICK a : Added(F, N.ev[x], a)
    BY <1>1, <1>5
  <2>2. a \in Ons(L) /\ a \in Listed(L) /\ N.ev[x].link = a /\ Alike(N.ev[x], [F.ev[a] EXCEPT !.op = "off"])
    BY <2>1, <1>7 DEF Added, Ons
  <2>3. F.ev[a] \in Loose
    BY <2>2, <1>1, <1>3, ListableIs
  <2>4. N.ev[x].op = "off" /\ N.ev[x].ts = F.ev[a].ts /\ N.ev[x].sel = F.ev[a].sel
    BY <2>2, <2>3 DEF Alike, Loose
  <2> QED BY <2>2, <2>4, <1>1 DEF Alike
<1>9. Ons(N) = Ons(L)
  <2>1. \A x \in Listed(L) : N.ev[x].op = L.ev[x].op
    BY <1>6 DEF Alike
  <2>2. \A x \in Listed(N) : x \notin Listed(L) => N.ev[x].op = "off"
    BY <1>8
  <2> QED BY <2>1, <2>2, <1>1, <1>4 DEF Ons
<1>10. Paired(N)
  <2> SUFFICES ASSUME NEW x \in Ons(N)
               PROVE  N.ev[x].link # None
    BY <1>4 DEF Paired
  <2>1. x \in Listed(F) /\ F.ev[x].op = "on"
    BY <1>7, <1>9 DEF Ons
  <2>2. PICK j \in 1..n : F.seq[j] = x
    BY <2>1, <1>3 DEF Listed
  <2>3. j <= n
    BY <1>3
  <2> QED BY <2>1, <2>2, <2>3, <1>3, <1>5
<1>11. Aside(L, N)
  BY <1>1, <1>4 DEF Aside
<1>12. Excess(N) = Excess(L)
  BY <1>1, <1>4 DEF Excess
<1> QED BY <1>1, <1>4, <1>6, <1>8, <1>9, <1>10, <1>11, <1>12

(* p takes every note on to a note off of its own *)
Pairs(L, p) ==
  /\ \A a \in Ons(L) : /\ p[a] \in Listed(L) /\ L.ev[p[a]].op = "off"
                       /\ L.ev[p[a]].note = L.ev[a].note /\ L.ev[a].ts < L.ev[p[a]].ts
  /\ \A a, b \in Ons(L) : p[a] = p[b] => a = b

(* Relinking gives every note on the note off it had, if what it makes is clean:   *)
(* of the notes that got another one the last begins before it ended, and the note *)
(* that got its note off begins behind that and is one of them.                    *)
LEMMA RelinkPairs ==
  ASSUME NEW L, Listable(L), Ordered(L), NEW N, N = Relink(L), Clean(N), NEW p, Pairs(L, p)
  PROVE  \A a \in Ons(N) : a \in Ons(L) /\ N.ev[a].link = p[a]
<1> DEFINE Astray(k) == L.seq[k] \in Ons(L) /\ N.ev[L.seq[k]].link # p[L.seq[k]]
           Bad == {k \in 1..Len(L.seq) : Astray(k)}
<1>1. /\ Listable(N) /\ Ordered(N) /\ Paired(N) /\ Listed(L) \subseteq Listed(N) /\ Ons(N) = Ons(L)
      /\ \A x \in Listed(L) : Alike(N.ev[x], L.ev[x])
  BY Relinked
<1>2. /\ DOMAIN L.seq = 1..Len(L.seq) /\ Len(L.seq) \in Nat /\ Listed(L) \subseteq DOMAIN L.ev
      /\ \A x \in DOMAIN L.ev : L.ev[x].ts \in Int
  BY ListableIs
<1>3. SUFFICES ASSUME Bad # {}
               PROVE  FALSE
  <2> SUFFICES ASSUME NEW a \in Ons(L)
               PROVE  N.ev[a].link = p[a] \/ Bad # {}
    BY <1>1
  <2>1. PICK k \in 1..Len(L.seq) : L.seq[k] = a
    BY <1>2 DEF Ons, Listed
  <2>2. Astray(k) => Bad # {}
    BY <2>1
  <2> QED BY <2>1, <2>2
<1>4. PICK k \in Bad : \A m \in Bad : m <= k
  <2>1. Bad \subseteq 0..Len(L.seq)
    BY <1>2
  <2> HIDE DEF Bad
  <2> QED BY <2>1, <1>2, <1>3, MaxReached
<1>5. PICK a : a = L.seq[k]
  OBVIOUS
<1>6. a \in Ons(L) /\ N.ev[a].link # p[a] /\ k \in 1..Len(L.seq)
  BY <1>4, <1>5
<1>7. \A m \in 1..Len(L.seq) : L.seq[m] \in Ons(L) /\ k < m => N.ev[L.seq[m]].link = p[L.seq[m]]
  <2> SUFFICES ASSUME NEW m \in 1..Len(L.seq), L.seq[m] \in Ons(L), k < m, N.ev[L.seq[m]].link # p[L.seq[m]]
               PROVE  FALSE
    OBVIOUS
  <2>1. m \in Bad
    OBVIOUS
  <2> QED BY <2>1, <1>4, <1>6
<1> HIDE DEF Bad
<1>8. PICK d : d = p[a]
  OBVIOUS
<1>9. d \in Listed(L) /\ L.ev[d].op = "off" /\ L.ev[d].note = L.ev[a].note /\ L.ev[a].ts < L.ev[d].ts
  BY <1>6, <1>8 DEF Pairs
<1>10. \A x \in Listed(L) : N.ev[x].op = L.ev[x].op /\ N.ev[x].note = L.ev[x].note /\ N.ev[x].ts = L.ev[x].ts
  BY <1>1 DEF Alike
<1>11. PICK c : c = N.ev[d].link
  OBVIOUS
<1>12. c \in Ons(N) /\ N.ev[c].link = d /\ N.ev[c].note = N.ev[d].note
  <2>1. d \in Listed(N) /\ N.ev[d].op = "off"
    BY <1>1, <1>9, <1>10
  <2>2. c # None
    BY <2>1, <1>11 DEF Clean
  <2>3. Halves(N, d, c)
    BY <2>1, <2>2, <1>1, <1>11 DEF Paired, Linked
  <2> QED BY <2>1, <2>3 DEF Halves, Ons
<1>13. c # a /\ c \in Ons(L) /\ a \in Ons(N)
  BY <1>1, <1>6, <1>8, <1>12
<1>14. a \in Listed(L) /\ c \in Listed(L)
  BY <1>13, <1>6 DEF Ons
<1>15. N.ev[N.ev[a].link].ts > N.ev[a].ts /\ N.ev[N.ev[a].link].ts \in Int
  <2>1. N.ev[a].link \in Listed(N) /\ N.ev[N.ev[a].link].ts > N.ev[a].ts
    BY <1>13 DEF Clean
  <2> QED BY <2>1, <1>1, ListableIs
<1>16. N.ev[N.ev[c].link].ts <= N.ev[a].ts \/ N.ev[N.ev[a].link].ts <= N.ev[c].ts
  <2>1. N.ev[c].note = N.ev[a].note /\ c \in Ons(N) \ {a}
    BY <1>9, <1>10, <1>12, <1>13, <1>14
  <2> QED BY <2>1, <1>13 DEF Clean
<1>17. L.ev[a].ts < L.ev[c].ts
  <2>1. N.ev[a].ts = L.ev[a].ts /\ N.ev[c].ts = L.ev[c].ts /\ N.ev[d].ts = L.ev[d].ts
    BY <1>9, <1>10, <1>14
  <2>2. L.ev[a].ts \in Int /\ L.ev[c].ts \in Int /\ L.ev[d].ts \in Int
    BY <1>2, <1>9, <1>14
  <2>3. ~(L.ev[d].ts <= L.ev[a].ts)
    BY <2>2, <1>9
  <2> QED BY <2>1, <2>2, <2>3, <1>12, <1>15, <1>16
<1>18. PICK m \in 1..Len(L.seq) : L.seq[m] = c
  BY <1>2, <1>14 DEF Listed
<1>19. k < m
  <2>1. CASE m = k
    BY <2>1, <1>5, <1>13, <1>18
  <2>2. CASE m < k
    <3>1. Before(L.seq, c, a)
      BY <2>2, <1>2, <1>5, <1>6, <1>18 DEF Before
    <3>2. L.ev[c].ts <= L.ev[a].ts
      BY <3>1, <1>14 DEF Ordered
    <3>3. L.ev[a].ts \in Int /\ L.ev[c].ts \in Int
      BY <1>2, <1>14
    <3> QED BY <3>2, <3>3, <1>17
  <2> QED BY <2>1, <2>2, <1>2, <1>6
<1>20. p[c] = d
  BY <1>7, <1>12, <1>13, <1>18, <1>19
<1> QED BY <1>6, <1>8, <1>13, <1>20 DEF Pairs

(* So both halves are marked alike, if those that belong together are. *)
LEMMA RelinkWhole ==
  ASSUME NEW L, Listable(L), Ordered(L), NEW N, N = Relink(L), Clean(N), NEW p, Pairs(L, p),
         \A a \in Ons(L) : L.ev[p[a]].sel = L.ev[a].sel
  PROVE  Whole(N)
<1>1. /\ Paired(N) /\ Listed(L) \subseteq Listed(N)
      /\ \A x \in Listed(L) : Alike(N.ev[x], L.ev[x])
  BY Relinked
<1>2. \A a \in Ons(N) : N.ev[N.ev[a].link].sel = N.ev[a].sel
  <2> SUFFICES ASSUME NEW a \in Ons(N)
               PROVE  N.ev[N.ev[a].link].sel = N.ev[a].sel
    OBVIOUS
  <2>1. a \in Ons(L) /\ N.ev[a].link = p[a]
    BY RelinkPairs
  <2>2. a \in Listed(L) /\ p[a] \in Listed(L)
    BY <2>1 DEF Ons, Pairs
  <2>3. N.ev[a].sel = L.ev[a].sel /\ N.ev[p[a]].sel = L.ev[p[a]].sel
    BY <2>2, <1>1 DEF Alike
  <2> QED BY <2>1, <2>3
<1> SUFFICES ASSUME NEW x \in Listed(N), N.ev[x].link # None
             PROVE  N.ev[N.ev[x].link].sel = N.ev[x].sel
  BY DEF Whole
<1>3. PICK y : y = N.ev[x].link
  OBVIOUS
<1>4. Halves(N, x, y)
  BY <1>1, <1>3 DEF Paired, Linked
<1>5. CASE N.ev[x].op = "on"
  <2>1. x \in Ons(N)
    BY <1>5 DEF Ons
  <2> QED BY <2>1, <1>2
<1>6. CASE N.ev[y].op = "on"
  <2>1. y \in Ons(N) /\ N.ev[y].link = x
    BY <1>4, <1>6 DEF Ons, Halves
  <2>2. N.ev[N.ev[y].link].sel = N.ev[y].sel
    BY <2>1, <1>2
  <2> QED BY <2>1, <2>2, <1>3
<1> QED BY <1>4, <1>5, <1>6 DEF Halves

(* an event with a time and a mark that are not negative *)
LEMMA LooseIsEvent ==
  ASSUME NEW r \in Loose, r.ts \in Nat, r.sel \in Nat
  PROVE  r \in Event
BY DEF Loose, Event

(* What is relinked may be in use if only its times and marks allow it. *)
LEMMA RelinkGood ==
  ASSUME NEW L, Listable(L), Ordered(L), NEW N, N = Relink(L),
         \A x \in Listed(L) : L.ev[x].ts \in Nat /\ L.ev[x].sel \in Nat
  PROVE  Good(N)
<1>1. /\ Listable(N) /\ Ordered(N) /\ Paired(N)
      /\ \A x \in Listed(L) : Alike(N.ev[x], L.ev[x])
      /\ \A x \in Listed(N) : x \notin Listed(L) =>
           \E a \in Ons(L) : /\ N.ev[x].link = a /\ N.ev[x].op = "off"
                             /\ N.ev[x].ts = L.ev[a].ts /\ N.ev[x].sel = L.ev[a].sel
  BY Relinked
<1>2. ASSUME NEW x \in Listed(N)
      PROVE  N.ev[x].ts \in Nat /\ N.ev[x].sel \in Nat
  <2>1. CASE x \in Listed(L)
    BY <2>1, <1>1 DEF Alike
  <2>2. CASE x \notin Listed(L)
    <3>1. PICK a \in Ons(L) : N.ev[x].ts = L.ev[a].ts /\ N.ev[x].sel = L.ev[a].sel
      BY <2>2, <1>1
    <3>2. a \in Listed(L)
      BY DEF Ons
    <3> QED BY <3>1, <3>2
  <2> QED BY <2>1, <2>2
<1>3. \A x \in Listed(N) : N.ev[x] \in Loose
  BY <1>1, ListableIs
<1>4. \A x \in Listed(N) : N.ev[x] \in Event
  BY <1>2, <1>3, LooseIsEvent
<1> QED BY <1>1, <1>4 DEF Good

-----------------------------------------------------------------------------
(* Changes of the events of a list                                              *)

(* N is made of L by an edit: in use as L is, with the same error of size(), and  *)
(* nothing else in memory is touched                                             *)
Edited(L, N) == Good(N) /\ Excess(N) = Excess(L) /\ Aside(L, N)

(* the parts of Good() *)
LEMMA GoodIs ==
  ASSUME NEW L, Good(L)
  PROVE  /\ L \in Raw /\ Listable(L) /\ Ordered(L) /\ Paired(L) /\ Linked(L)
         /\ Listed(L) \subseteq DOMAIN L.ev /\ DOMAIN L.seq = 1..Len(L.seq) /\ Len(L.seq) \in Nat
         /\ L.size \in Int /\ \A k \in 1..Len(L.seq) : L.seq[k] \in Listed(L)
         /\ \A x \in Listed(L) : x \in Nat /\ x # None /\ x \in Addr
         /\ \A x \in Listed(L) : /\ L.ev[x] \in Event /\ L.ev[x] \in Loose /\ L.ev[x].op \in Op
                                 /\ L.ev[x].note \in Note /\ L.ev[x].ts \in Nat /\ L.ev[x].sel \in Nat
                                 /\ L.ev[x].link \in Nat
         /\ \A x \in Listed(L) : L.ev[x].link # None => Halves(L, x, L.ev[x].link)
<1>1. Listable(L) /\ Ordered(L) /\ Paired(L) /\ Linked(L) /\ \A x \in Listed(L) : L.ev[x] \in Event
  BY DEF Good, Paired
<1>2. /\ L \in Raw /\ Listed(L) \subseteq DOMAIN L.ev /\ DOMAIN L.seq = 1..Len(L.seq) /\ Len(L.seq) \in Nat
      /\ L.size \in Int /\ \A k \in 1..Len(L.seq) : L.seq[k] \in Listed(L)
      /\ \A x \in Listed(L) : x \in Nat /\ x # None /\ x \in Addr
  BY <1>1, ListableIs
<1>3. \A x \in Listed(L) : L.ev[x] \in Loose
  BY <1>1, ListableIs
<1>4. \A x \in Listed(L) : /\ L.ev[x].op \in Op /\ L.ev[x].note \in Note /\ L.ev[x].ts \in Nat
                           /\ L.ev[x].sel \in Nat /\ L.ev[x].link \in Nat
  BY <1>1 DEF Event
<1>5. \A x \in Listed(L) : L.ev[x].link # None => Halves(L, x, L.ev[x].link)
  BY <1>1 DEF Linked
<1> QED BY <1>1, <1>2, <1>3, <1>4, <1>5

(* the pairing rests on kinds and links, and on the notes of both halves             *)
LEMMA PairedStays ==
  ASSUME NEW L, Paired(L), NEW N, Listed(N) = Listed(L),
         \A x \in Listed(L) : N.ev[x].op = L.ev[x].op /\ N.ev[x].link = L.ev[x].link,
         \A x, y \in Listed(L) : Halves(L, x, y) => N.ev[y].note = N.ev[x].note
  PROVE  Paired(N)
<1>1. Linked(N)
  <2> SUFFICES ASSUME NEW x \in Listed(L), N.ev[x].link # None
               PROVE  Halves(N, x, N.ev[x].link)
    BY DEF Linked
  <2>1. PICK y : y = L.ev[x].link
    OBVIOUS
  <2>2. Halves(L, x, y)
    BY <2>1 DEF Paired, Linked
  <2>3. y \in Listed(L)
    BY <2>2 DEF Halves
  <2>4. Halves(N, x, y)
    BY <2>2, <2>3 DEF Halves
  <2> QED BY <2>1, <2>4
<1>2. \A x \in Ons(N) : N.ev[x].link # None
  BY DEF Ons, Paired
<1> QED BY <1>1, <1>2 DEF Paired

(* events changed where they stand *)
LEMMA Touched ==
  ASSUME NEW L, Good(L), NEW N \in Raw, N.seq = L.seq, N.size = L.size, DOMAIN N.ev = DOMAIN L.ev, Ordered(N),
         \A x \in DOMAIN L.ev : x \notin Listed(L) => N.ev[x] = L.ev[x],
         \A x \in Listed(L) : /\ N.ev[x].op = L.ev[x].op /\ N.ev[x].link = L.ev[x].link
                              /\ N.ev[x].ts \in Nat /\ N.ev[x].sel \in Nat,
         \A x, y \in Listed(L) : Halves(L, x, y) => N.ev[y].note = N.ev[x].note
  PROVE  Edited(L, N)
<1>1. Listed(N) = Listed(L)
  BY DEF Listed
<1>2. Listable(N)
  BY <1>1, GoodIs DEF Listable
<1>3. Paired(N)
  BY <1>1, PairedStays, GoodIs
<1>4. \A x \in Listed(N) : N.ev[x] \in Loose
  BY <1>2, ListableIs
<1>5. \A x \in Listed(N) : N.ev[x] \in Event
  BY <1>1, <1>4, LooseIsEvent
<1>6. Excess(N) = Excess(L) /\ Aside(L, N)
  BY <1>1 DEF Excess, Aside
<1> QED BY <1>2, <1>3, <1>5, <1>6 DEF Edited, Good

(* both halves are in such a set, or neither *)
WithPartners(L, X) == X \cup {L.ev[x].link : x \in X}

(* X with the partners of X has both halves of a note or none, and nothing from elsewhere *)
LEMMA PartnersTogether ==
  ASSUME NEW L, Good(L), NEW X, X \subseteq Listed(L)
  PROVE  /\ \A x, y \in Listed(L) : Halves(L, x, y) => (x \in WithPartners(L, X) <=> y \in WithPartners(L, X))
         /\ \A x \in DOMAIN L.ev : x \notin Listed(L) => x \notin WithPartners(L, X)
<1>1. ASSUME NEW x \in Listed(L), NEW y \in Listed(L), Halves(L, x, y), x \in WithPartners(L, X)
      PROVE  y \in WithPartners(L, X)
  <2>1. L.ev[x].link = y /\ L.ev[y].link = x
    BY <1>1 DEF Halves
  <2>2. CASE x \in X
    BY <2>1, <2>2 DEF WithPartners
  <2>3. CASE x \notin X
    <3>1. PICK z \in X : L.ev[z].link = x
      BY <2>3, <1>1 DEF WithPartners
    <3>2. Halves(L, z, x)
      BY <3>1, GoodIs
    <3>3. y = z
      BY <3>2, <2>1 DEF Halves
    <3> QED BY <3>1, <3>3 DEF WithPartners
  <2> QED BY <2>2, <2>3
<1>2. \A x, y \in Listed(L) : Halves(L, x, y) => Halves(L, y, x)
  BY DEF Halves
<1>3. ASSUME NEW x \in DOMAIN L.ev, x \notin Listed(L), x \in WithPartners(L, X)
      PROVE  FALSE
  <2>1. PICK z \in X : L.ev[z].link = x
    BY <1>3 DEF WithPartners
  <2>2. x # None
    BY <1>3, GoodIs, ListableIs
  <2>3. Halves(L, z, x)
    BY <2>1, <2>2, GoodIs
  <2> QED BY <2>3, <1>3 DEF Halves
<1> QED BY <1>1, <1>2, <1>3

(* select() and deselect() *)
LEMMA MarkGives ==
  ASSUME NEW L, Good(L), NEW X, X \subseteq Listed(L), NEW n \in Nat, NEW N, N = Mark(L, X, n)
  PROVE  /\ Edited(L, N) /\ N.seq = L.seq /\ Listed(N) = Listed(L) /\ DOMAIN N.ev = DOMAIN L.ev
         /\ \A x \in Listed(L) : /\ N.ev[x].op = L.ev[x].op /\ N.ev[x].note = L.ev[x].note
                                 /\ N.ev[x].ts = L.ev[x].ts /\ N.ev[x].link = L.ev[x].link
                                 /\ N.ev[x].sel = IF x \in WithPartners(L, X) THEN n ELSE L.ev[x].sel
         /\ Whole(L) => Whole(N)
<1> DEFINE Y == WithPartners(L, X)
           e == [z \in DOMAIN L.ev |-> IF z \in Y THEN [L.ev[z] EXCEPT !.sel = n] ELSE L.ev[z]]
<1>1. /\ L \in Raw /\ Listed(L) \subseteq DOMAIN L.ev /\ Ordered(L)
      /\ L.ev \in [DOMAIN L.ev -> Loose]
      /\ \A x \in Listed(L) : L.ev[x].ts \in Nat /\ L.ev[x].sel \in Nat
  BY GoodIs, RawIs
<1>2. N = [L EXCEPT !.ev = e]
  BY <1>1, RawIs DEF Mark, WithPartners
<1>3. /\ \A x, y \in Listed(L) : Halves(L, x, y) => (x \in Y <=> y \in Y)
      /\ \A x \in DOMAIN L.ev : x \notin Listed(L) => x \notin Y
  BY PartnersTogether
<1> HIDE DEF Y
<1>4. /\ DOMAIN e = DOMAIN L.ev /\ e = [z \in DOMAIN L.ev |-> e[z]]
      /\ \A z \in DOMAIN L.ev : e[z] = IF z \in Y THEN [L.ev[z] EXCEPT !.sel = n] ELSE L.ev[z]
  OBVIOUS
<1> HIDE DEF e
<1>5. \A z \in DOMAIN L.ev : /\ e[z] \in Loose /\ e[z].op = L.ev[z].op /\ e[z].note = L.ev[z].note
                             /\ e[z].ts = L.ev[z].ts /\ e[z].link = L.ev[z].link
                             /\ e[z].sel = IF z \in Y THEN n ELSE L.ev[z].sel
  <2> SUFFICES ASSUME NEW z \in DOMAIN L.ev, NEW r \in Loose, r = L.ev[z]
               PROVE  /\ e[z] \in Loose /\ e[z].op = r.op /\ e[z].note = r.note
                      /\ e[z].ts = r.ts /\ e[z].link = r.link
                      /\ e[z].sel = IF z \in Y THEN n ELSE r.sel
    BY <1>1
  <2>1. e[z] = IF z \in Y THEN [r EXCEPT !.sel = n] ELSE r
    BY <1>4
  <2> QED BY <2>1 DEF Loose
<1>6. N \in Raw /\ N.ev = e /\ N.seq = L.seq /\ N.size = L.size /\ Listed(N) = Listed(L)
  BY <1>1, <1>2, <1>4, <1>5, ChangedAre
<1>7. Ordered(N)
  BY <1>1, <1>5, <1>6 DEF Ordered
<1>8. Edited(L, N)
  <2>1. \A x \in DOMAIN L.ev : x \notin Listed(L) => N.ev[x] = L.ev[x]
    BY <1>3, <1>4, <1>6
  <2>2. \A x \in Listed(L) : /\ N.ev[x].op = L.ev[x].op /\ N.ev[x].link = L.ev[x].link
                             /\ N.ev[x].ts \in Nat /\ N.ev[x].sel \in Nat
    BY <1>1, <1>5, <1>6
  <2>3. \A x, y \in Listed(L) : Halves(L, x, y) => N.ev[y].note = N.ev[x].note
    BY <1>1, <1>5, <1>6 DEF Halves
  <2>4. DOMAIN N.ev = DOMAIN L.ev
    BY <1>4, <1>6
  <2> QED BY <2>1, <2>2, <2>3, <2>4, <1>6, <1>7, Touched
<1>9. ASSUME Whole(L)
      PROVE  Whole(N)
  <2> SUFFICES ASSUME NEW x \in Listed(L), NEW y, y = L.ev[x].link, y # None
               PROVE  N.ev[y].sel = N.ev[x].sel
    BY <1>1, <1>5, <1>6 DEF Whole
  <2>1. Halves(L, x, y)
    BY GoodIs
  <2>2. y \in Listed(L) /\ (x \in Y <=> y \in Y)
    BY <2>1, <1>3 DEF Halves
  <2>3. L.ev[y].sel = L.ev[x].sel
    BY <1>9 DEF Whole
  <2> QED BY <2>2, <2>3, <1>1, <1>5, <1>6
<1> QED BY <1>1, <1>4, <1>5, <1>6, <1>8, <1>9 DEF Y

(* event::note() *)
LEMMA SetNoteGives ==
  ASSUME NEW L, Good(L), NEW X, X \subseteq Listed(L), NEW n \in [Note -> Note], NEW N, N = SetNote(L, X, n)
  PROVE  Edited(L, N) /\ (Whole(L) => Whole(N))
<1> DEFINE Y == WithPartners(L, X)
           e == [z \in DOMAIN L.ev |-> IF z \in Y THEN [L.ev[z] EXCEPT !.note = n[@]] ELSE L.ev[z]]
<1>1. /\ L \in Raw /\ Listed(L) \subseteq DOMAIN L.ev /\ Ordered(L)
      /\ L.ev \in [DOMAIN L.ev -> Loose]
      /\ \A x \in Listed(L) : L.ev[x].ts \in Nat /\ L.ev[x].sel \in Nat
  BY GoodIs, RawIs
<1>2. N = [L EXCEPT !.ev = e]
  BY <1>1, RawIs DEF SetNote, WithPartners
<1>3. /\ \A x, y \in Listed(L) : Halves(L, x, y) => (x \in Y <=> y \in Y)
      /\ \A x \in DOMAIN L.ev : x \notin Listed(L) => x \notin Y
  BY PartnersTogether
<1> HIDE DEF Y
<1>4. /\ DOMAIN e = DOMAIN L.ev /\ e = [z \in DOMAIN L.ev |-> e[z]]
      /\ \A z \in DOMAIN L.ev : e[z] = IF z \in Y THEN [L.ev[z] EXCEPT !.note = n[@]] ELSE L.ev[z]
  OBVIOUS
<1> HIDE DEF e
<1>5. \A z \in DOMAIN L.ev : /\ e[z] \in Loose /\ e[z].op = L.ev[z].op /\ e[z].sel = L.ev[z].sel
                             /\ e[z].ts = L.ev[z].ts /\ e[z].link = L.ev[z].link
                             /\ e[z].note = IF z \in Y THEN n[L.ev[z].note] ELSE L.ev[z].note
  <2> SUFFICES ASSUME NEW z \in DOMAIN L.ev, NEW r \in Loose, r = L.ev[z]
               PROVE  /\ e[z] \in Loose /\ e[z].op = r.op /\ e[z].sel = r.sel
                      /\ e[z].ts = r.ts /\ e[z].link = r.link
                      /\ e[z].note = IF z \in Y THEN n[r.note] ELSE r.note
    BY <1>1
  <2>1. e[z] = IF z \in Y THEN [r EXCEPT !.note = n[r.note]] ELSE r
    BY <1>4
  <2>2. r.note \in Note /\ n[r.note] \in Note
    BY DEF Loose
  <2> QED BY <2>1, <2>2 DEF Loose
<1>6. N \in Raw /\ N.ev = e /\ N.seq = L.seq /\ N.size = L.size /\ Listed(N) = Listed(L)
  BY <1>1, <1>2, <1>4, <1>5, ChangedAre
<1>7. Ordered(N)
  BY <1>1, <1>5, <1>6 DEF Ordered
<1>8. Edited(L, N)
  <2>1. \A x \in DOMAIN L.ev : x \notin Listed(L) => N.ev[x] = L.ev[x]
    BY <1>3, <1>4, <1>6
  <2>2. \A x \in Listed(L) : /\ N.ev[x].op = L.ev[x].op /\ N.ev[x].link = L.ev[x].link
                             /\ N.ev[x].ts \in Nat /\ N.ev[x].sel \in Nat
    BY <1>1, <1>5, <1>6
  <2>3. \A x, y \in Listed(L) : Halves(L, x, y) => N.ev[y].note = N.ev[x].note
    <3> SUFFICES ASSUME NEW x \in Listed(L), NEW y \in Listed(L), Halves(L, x, y)
                 PROVE  N.ev[y].note = N.ev[x].note
      OBVIOUS
    <3>1. (x \in Y <=> y \in Y) /\ L.ev[y].note = L.ev[x].note
      BY <1>3 DEF Halves
    <3> QED BY <3>1, <1>1, <1>5, <1>6
  <2>4. DOMAIN N.ev = DOMAIN L.ev
    BY <1>4, <1>6
  <2> QED BY <2>1, <2>2, <2>3, <2>4, <1>6, <1>7, Touched
<1>9. ASSUME Whole(L)
      PROVE  Whole(N)
  <2> SUFFICES ASSUME NEW x \in Listed(L), NEW y, y = L.ev[x].link, y # None
               PROVE  N.ev[y].sel = N.ev[x].sel
    BY <1>1, <1>5, <1>6 DEF Whole
  <2>1. y \in Listed(L)
    BY GoodIs DEF Halves
  <2>2. L.ev[y].sel = L.ev[x].sel
    BY <1>9 DEF Whole
  <2> QED BY <2>1, <2>2, <1>1, <1>5, <1>6
<1> QED BY <1>8, <1>9

(* push_selection() and pop_selection(): a mark never falls below 0 *)
LEMMA DeepenGives ==
  ASSUME NEW L, Good(L), NEW d \in {1, -1}, NEW N, N = Deepen(L, d)
  PROVE  /\ Edited(L, N) /\ N.seq = L.seq /\ Listed(N) = Listed(L) /\ DOMAIN N.ev = DOMAIN L.ev
         /\ \A x \in Listed(L) : /\ N.ev[x].op = L.ev[x].op /\ N.ev[x].note = L.ev[x].note
                                 /\ N.ev[x].ts = L.ev[x].ts /\ N.ev[x].link = L.ev[x].link
                                 /\ N.ev[x].sel = IF L.ev[x].sel > 0 THEN L.ev[x].sel + d ELSE L.ev[x].sel
         /\ Whole(L) => Whole(N)
<1> DEFINE Y == {x \in Listed(L) : L.ev[x].sel > 0}
           e == [z \in DOMAIN L.ev |->
                   IF z \in Listed(L) /\ L.ev[z].sel > 0 THEN [L.ev[z] EXCEPT !.sel = @ + d] ELSE L.ev[z]]
<1>1. /\ L \in Raw /\ Listed(L) \subseteq DOMAIN L.ev /\ Ordered(L)
      /\ L.ev \in [DOMAIN L.ev -> Loose]
      /\ \A x \in Listed(L) : L.ev[x].ts \in Nat /\ L.ev[x].sel \in Nat
  BY GoodIs, RawIs
<1>2. N = [L EXCEPT !.ev = e]
  BY <1>1, RawIs DEF Deepen
<1>4. /\ DOMAIN e = DOMAIN L.ev /\ e = [z \in DOMAIN L.ev |-> e[z]]
      /\ \A z \in DOMAIN L.ev : e[z] = IF z \in Y THEN [L.ev[z] EXCEPT !.sel = @ + d] ELSE L.ev[z]
  OBVIOUS
<1> HIDE DEF e
<1>5. \A z \in DOMAIN L.ev : /\ e[z] \in Loose /\ e[z].op = L.ev[z].op /\ e[z].note = L.ev[z].note
                             /\ e[z].ts = L.ev[z].ts /\ e[z].link = L.ev[z].link
                             /\ e[z].sel = IF z \in Y THEN L.ev[z].sel + d ELSE L.ev[z].sel
  <2> SUFFICES ASSUME NEW z \in DOMAIN L.ev, NEW r \in Loose, r = L.ev[z]
               PROVE  /\ e[z] \in Loose /\ e[z].op = r.op /\ e[z].note = r.note
                      /\ e[z].ts = r.ts /\ e[z].link = r.link
                      /\ e[z].sel = IF z \in Y THEN r.sel + d ELSE r.sel
    BY <1>1
  <2> HIDE DEF Y
  <2>1. e[z] = IF z \in Y THEN [r EXCEPT !.sel = r.sel + d] ELSE r
    BY <1>4
  <2>2. r.sel + d \in Int
    BY DEF Loose
  <2> QED BY <2>1, <2>2 DEF Loose
<1>6. N \in Raw /\ N.ev = e /\ N.seq = L.seq /\ N.size = L.size /\ Listed(N) = Listed(L)
  BY <1>1, <1>2, <1>4, <1>5, ChangedAre
<1>7. Ordered(N)
  BY <1>1, <1>5, <1>6 DEF Ordered
<1>8. \A x \in Listed(L) : N.ev[x].sel = IF L.ev[x].sel > 0 THEN L.ev[x].sel + d ELSE L.ev[x].sel
  BY <1>1, <1>5, <1>6
<1>9. Edited(L, N)
  <2>1. \A x \in DOMAIN L.ev : x \notin Listed(L) => N.ev[x] = L.ev[x]
    BY <1>4, <1>6
  <2>2. \A x \in Listed(L) : N.ev[x].op = L.ev[x].op /\ N.ev[x].link = L.ev[x].link /\ N.ev[x].ts \in Nat
    BY <1>1, <1>5, <1>6
  <2>3. \A x, y \in Listed(L) : Halves(L, x, y) => N.ev[y].note = N.ev[x].note
    BY <1>1, <1>5, <1>6 DEF Halves
  <2>4. DOMAIN N.ev = DOMAIN L.ev
    BY <1>4, <1>6
  <2>5. \A x \in Listed(L) : N.ev[x].sel \in Nat
    BY <1>1, <1>8
  <2> QED BY <2>1, <2>2, <2>3, <2>4, <2>5, <1>6, <1>7, Touched
<1>10. ASSUME Whole(L)
       PROVE  Whole(N)
  <2> SUFFICES ASSUME NEW x \in Listed(L), NEW y, y = L.ev[x].link, y # None
               PROVE  N.ev[y].sel = N.ev[x].sel
    BY <1>1, <1>5, <1>6 DEF Whole
  <2>1. y \in Listed(L)
    BY GoodIs DEF Halves
  <2>2. L.ev[y].sel = L.ev[x].sel
    BY <1>10 DEF Whole
  <2> QED BY <2>1, <2>2, <1>8
<1> QED BY <1>1, <1>4, <1>5, <1>6, <1>8, <1>9, <1>10

(* other times *)
LEMMA LaterGives ==
  ASSUME NEW L \in Raw, NEW X, NEW o \in Int, NEW N, N = Later(L, X, o)
  PROVE  /\ N \in Raw /\ N.seq = L.seq /\ N.size = L.size /\ Listed(N) = Listed(L) /\ DOMAIN N.ev = DOMAIN L.ev
         /\ \A x \in DOMAIN L.ev : /\ N.ev[x].op = L.ev[x].op /\ N.ev[x].note = L.ev[x].note
                                   /\ N.ev[x].sel = L.ev[x].sel /\ N.ev[x].link = L.ev[x].link
                                   /\ N.ev[x].ts = IF x \in X THEN L.ev[x].ts + o ELSE L.ev[x].ts
                                   /\ x \notin X => N.ev[x] = L.ev[x]
<1> DEFINE e == [z \in DOMAIN L.ev |-> IF z \in X THEN [L.ev[z] EXCEPT !.ts = @ + o] ELSE L.ev[z]]
<1>1. L.ev \in [DOMAIN L.ev -> Loose]
  BY RawIs
<1>2. N = [L EXCEPT !.ev = e]
  BY <1>1, RawIs DEF Later
<1>4. /\ DOMAIN e = DOMAIN L.ev /\ e = [z \in DOMAIN L.ev |-> e[z]]
      /\ \A z \in DOMAIN L.ev : e[z] = IF z \in X THEN [L.ev[z] EXCEPT !.ts = @ + o] ELSE L.ev[z]
  OBVIOUS
<1> HIDE DEF e
<1>5. \A z \in DOMAIN L.ev : /\ e[z] \in Loose /\ e[z].op = L.ev[z].op /\ e[z].note = L.ev[z].note
                             /\ e[z].sel = L.ev[z].sel /\ e[z].link = L.ev[z].link
                             /\ e[z].ts = IF z \in X THEN L.ev[z].ts + o ELSE L.ev[z].ts
                             /\ z \notin X => e[z] = L.ev[z]
  <2> SUFFICES ASSUME NEW z \in DOMAIN L.ev, NEW r \in Loose, r = L.ev[z]
               PROVE  /\ e[z] \in Loose /\ e[z].op = r.op /\ e[z].note = r.note
                      /\ e[z].sel = r.sel /\ e[z].link = r.link
                      /\ e[z].ts = IF z \in X THEN r.ts + o ELSE r.ts
                      /\ z \notin X => e[z] = r
    BY <1>1
  <2>1. e[z] = IF z \in X THEN [r EXCEPT !.ts = r.ts + o] ELSE r
    BY <1>4
  <2>2. r.ts + o \in Int
    BY DEF Loose
  <2> QED BY <2>1, <2>2 DEF Loose
<1>6. N \in Raw /\ N.ev = e /\ N.seq = L.seq /\ N.size = L.size /\ Listed(N) = Listed(L)
  BY <1>2, <1>4, <1>5, ChangedAre
<1> QED BY <1>4, <1>5, <1>6

(* move(): x comes to the place of its new time. *)
LEMMA MoveGives ==
  ASSUME NEW L, Listable(L), Ordered(L), NEW x \in Listed(L), NEW o \in Int, NEW N, N = Move(L, x, o)
  PROVE  /\ Listable(N) /\ Ordered(N) /\ Listed(N) = Listed(L) /\ DOMAIN N.ev = DOMAIN L.ev
         /\ Excess(N) = Excess(L)
         /\ \A y \in DOMAIN L.ev : /\ N.ev[y].op = L.ev[y].op /\ N.ev[y].note = L.ev[y].note
                                   /\ N.ev[y].sel = L.ev[y].sel /\ N.ev[y].link = L.ev[y].link
                                   /\ N.ev[y].ts = IF y = x THEN L.ev[y].ts + o ELSE L.ev[y].ts
                                   /\ y # x => N.ev[y] = L.ev[y]
<1>1. L \in Raw /\ IsInjective(L.seq) /\ Listed(L) \subseteq DOMAIN L.ev /\ L.size \in Int /\ Len(L.seq) \in Nat
  BY ListableIs
<1>2. PICK T : T = Later(L, {x}, o)
  OBVIOUS
<1>3. PICK U : U = Unlink(T, x)
  OBVIOUS
<1>4. N = Insert(U, x)
  BY <1>2, <1>3 DEF Move
<1>5. /\ T \in Raw /\ T.seq = L.seq /\ T.size = L.size /\ Listed(T) = Listed(L) /\ DOMAIN T.ev = DOMAIN L.ev
      /\ \A y \in DOMAIN L.ev : /\ T.ev[y].op = L.ev[y].op /\ T.ev[y].note = L.ev[y].note
                                /\ T.ev[y].sel = L.ev[y].sel /\ T.ev[y].link = L.ev[y].link
                                /\ T.ev[y].ts = IF y \in {x} THEN L.ev[y].ts + o ELSE L.ev[y].ts
                                /\ y \notin {x} => T.ev[y] = L.ev[y]
  BY <1>1, <1>2, LaterGives
<1>6. /\ U \in Raw /\ U.ev = T.ev /\ U.size = T.size - 1
      /\ Len(U.seq) = Len(T.seq) - 1 /\ Listed(U) = Listed(T) \ {x}
      /\ IsInjective(U.seq)
      /\ \A y, z : Before(U.seq, y, z) => Before(T.seq, y, z)
  <2>1. x \in Listed(T) /\ IsInjective(T.seq)
    BY <1>1, <1>5
  <2> QED BY <2>1, <1>3, <1>5, UnlinkTakes
<1>7. Ordered(U)
  <2> SUFFICES ASSUME NEW y \in Listed(U), NEW z \in Listed(U), Before(U.seq, y, z)
               PROVE  U.ev[y].ts <= U.ev[z].ts
    BY DEF Ordered
  <2>1. y \in Listed(L) /\ z \in Listed(L) /\ y # x /\ z # x /\ Before(L.seq, y, z)
    BY <1>5, <1>6
  <2>2. L.ev[y].ts <= L.ev[z].ts
    BY <2>1 DEF Ordered
  <2> QED BY <2>1, <2>2, <1>1, <1>5, <1>6
<1>8. /\ N \in Raw /\ N.ev = U.ev /\ N.size = U.size + 1
      /\ Len(N.seq) = Len(U.seq) + 1 /\ Listed(N) = Listed(U) \cup {x}
      /\ IsInjective(N.seq) /\ Ordered(N)
  <2>1. x \in DOMAIN U.ev /\ Listed(U) \subseteq DOMAIN U.ev /\ x \notin Listed(U)
    BY <1>1, <1>5, <1>6
  <2> QED BY <2>1, <1>4, <1>6, <1>7, InsertPuts
<1>9. Listed(N) = Listed(L)
  BY <1>5, <1>6, <1>8
<1>10. Listable(N)
  BY <1>1, <1>5, <1>6, <1>8, <1>9 DEF Listable
<1>11. Excess(N) = Excess(L)
  <2>1. N.size = T.size - 1 + 1 /\ Len(N.seq) = Len(T.seq) - 1 + 1 /\ T.size = L.size /\ Len(T.seq) = Len(L.seq)
    BY <1>5, <1>6, <1>8
  <2> QED BY <2>1, <1>1 DEF Excess
<1> QED BY <1>5, <1>6, <1>8, <1>9, <1>10, <1>11

-----------------------------------------------------------------------------
(* Removing                                                                    *)

(* One event after the other is unlinked. *)
LEMMA RemoveAllEnds ==
  ASSUME NEW L, Listable(L), NEW X, X \subseteq Listed(L), NEW N, N = RemoveAll(L, X)
  PROVE  /\ N \in Raw /\ N.ev = Release(L, X).ev /\ IsInjective(N.seq) /\ Listed(N) = Listed(L) \ X
         /\ Excess(N) = Excess(L) /\ \A y, z : Before(N.seq, y, z) => Before(L.seq, y, z)
<1> DEFINE B == Release(L, X)
           n == Len(L.seq)
           Step(M, x) == IF x \in X THEN Unlink(M, x) ELSE M
           H == [p \in Raw \X (1..n) |-> Step(p[1], L.seq[p[2]])]
           W == [k \in 0..n |-> {M \in Raw : IsInjective(M.seq) /\ \A j \in k + 1..n : L.seq[j] \in Listed(M)}]
           Folds(f) == f = [t \in SUBSET DOMAIN L.seq |->
                              IF t = {} THEN B ELSE Step(f[t \ {Max(t)}], L.seq[Max(t)])]
<1>1. N = (CHOOSE f : Folds(f))[DOMAIN L.seq]
  BY Zenon DEF RemoveAll, FoldLeft, MapThenFoldSet
<1>2. /\ L \in Raw /\ IsInjective(L.seq) /\ L.size \in Int
      /\ DOMAIN L.seq = 1..n /\ n \in Nat /\ \A k \in 1..n : L.seq[k] \in Listed(L)
      /\ \A j, k \in 1..n : L.seq[j] = L.seq[k] => j = k
  BY ListableIs
<1>3. B \in Raw /\ B.seq = L.seq /\ B.size = L.size /\ Listed(B) = Listed(L)
  BY <1>2, ReleaseFrees
<1> HIDE DEF B
<1>4. \A k \in 0..n : \A M : M \in W[k] <=>
        M \in Raw /\ IsInjective(M.seq) /\ \A j \in k + 1..n : L.seq[j] \in Listed(M)
  OBVIOUS
<1>5. \A k \in 1..n : \A m \in Raw : H[<<m, k>>] = Step(m, L.seq[k])
  <2> HIDE DEF Step
  <2> QED OBVIOUS
<1> HIDE DEF H, W
<1>7. ASSUME NEW k \in 1..n, NEW M \in W[k - 1]
      PROVE  /\ M \in W[k] /\ H[<<M, k>>] = Step(M, L.seq[k]) /\ H[<<M, k>>] \in W[k]
             /\ M \in Raw /\ IsInjective(M.seq) /\ L.seq[k] \in Listed(M)
  <2>1. k - 1 \in 0..n /\ k \in 0..n /\ \A j \in k + 1..n : j \in k - 1 + 1..n /\ j \in 1..n /\ j # k
    BY <1>2
  <2>2. /\ M \in Raw /\ IsInjective(M.seq) /\ \A j \in k + 1..n : L.seq[j] \in Listed(M)
        /\ L.seq[k] \in Listed(M)
    <3>1. k \in k - 1 + 1..n
      BY <1>2
    <3> QED BY <2>1, <3>1, <1>4
  <2>3. M \in W[k]
    BY <2>1, <2>2, <1>4
  <2>4. Step(M, L.seq[k]) \in W[k]
    <3>1. CASE L.seq[k] \in X
      <4>1. PICK U : U = Unlink(M, L.seq[k])
        OBVIOUS
      <4>2. U \in Raw /\ Listed(U) = Listed(M) \ {L.seq[k]} /\ IsInjective(U.seq)
        BY <2>2, <4>1, UnlinkTakes
      <4>3. \A j \in k + 1..n : L.seq[j] # L.seq[k]
        BY <2>1, <1>2
      <4>4. U \in W[k]
        BY <4>2, <4>3, <2>1, <2>2, <1>4
      <4> QED BY <3>1, <4>1, <4>4
    <3>2. CASE L.seq[k] \notin X
      BY <3>2, <2>3
    <3> QED BY <3>1, <3>2
  <2> QED BY <2>2, <2>3, <2>4, <1>5
<1>8. B \in W[0]
  <2>1. 0 \in 0..n /\ \A j \in 0 + 1..n : j \in 1..n
    BY <1>2
  <2> QED BY <2>1, <1>2, <1>3, <1>4
<1> HIDE DEF Step
<1>9. Staged(n, W, H, B)
  <2>1. ASSUME NEW k \in 1..n
        PROVE  W[k - 1] \subseteq W[k] /\ \A m \in W[k - 1] : H[<<m, k>>] \in W[k]
    BY <1>7
  <2> QED BY <2>1, <1>8 DEF Staged
<1>10. PICK g : g = (CHOOSE f : Folds(f))
  OBVIOUS
<1>11. Leads(g, n, B, W, H)
  <2> SUFFICES ASSUME NEW f, Makes(f, n, B, W, H)
               PROVE  Follows(g, n, B, W, H)
    BY DEF Leads
  <2>1. ASSUME NEW t \in SUBSET (1..n)
        PROVE  f[t] = IF t = {} THEN B ELSE Step(f[t \ {Max(t)}], L.seq[Max(t)])
    <3>1. CASE t = {}
      BY <3>1 DEF Makes
    <3>2. CASE t # {}
      <4>1. /\ Max(t) \in 1..n /\ f[t \ {Max(t)}] \in W[Max(t) - 1]
            /\ f[t] = H[<<f[t \ {Max(t)}], Max(t)>>]
        BY <3>2 DEF Makes
      <4> QED BY <3>2, <4>1, <1>7
    <3> QED BY <3>1, <3>2
  <2>2. Folds(f)
    BY <2>1, <1>2 DEF Makes
  <2>3. Folds(g)
    <3> HIDE DEF Folds
    <3> QED BY <2>2, <1>10
  <2>4. g = [t \in SUBSET (1..n) |-> IF t = {} THEN B ELSE Step(g[t \ {Max(t)}], L.seq[Max(t)])]
    BY <2>3, <1>2
  <2>5. g[{}] = B /\ \A t \in SUBSET (1..n) : t # {} => g[t] = Step(g[t \ {Max(t)}], L.seq[Max(t)])
    BY <2>4
  <2>6. ASSUME NEW t \in SUBSET (1..n), t # {}, NEW k \in 1..n, k = Max(t), g[t \ {k}] \in W[k - 1]
        PROVE  g[t] = H[<<g[t \ {k}], k>>]
    BY <2>5, <2>6, <1>7
  <2> QED BY <2>5, <2>6 DEF Follows
<1> HIDE DEF Folds
<1>12. PICK M : /\ M[0] = B /\ g[1..n] = M[n]
                /\ \A k \in 0..n : M[k] \in W[k]
                /\ \A k \in 1..n : M[k] = H[<<M[k - 1], k>>]
  BY <1>2, <1>9, <1>11, FoldGives
<1>13. N = M[n]
  BY <1>1, <1>2, <1>10, <1>12
<1> DEFINE Gone(k) == {L.seq[j] : j \in 1..k}
           Done(k) == /\ M[k].ev = B.ev /\ Listed(M[k]) = Listed(L) \ (X \cap Gone(k))
                      /\ Excess(M[k]) = Excess(L) /\ \A y, z : Before(M[k].seq, y, z) => Before(L.seq, y, z)
           S == {k \in 0..n : Done(k)}
<1>14. 0 \in S
  <2>1. Gone(0) = {} /\ 0 \in 0..n
    BY <1>2
  <2> HIDE DEF Gone
  <2>2. Done(0)
    BY <2>1, <1>3, <1>12 DEF Excess
  <2> QED BY <2>1, <2>2
<1>15. ASSUME NEW k \in 1..n, k - 1 \in S
       PROVE  k \in S
  <2>1. k - 1 \in 0..n /\ k \in 0..n /\ Gone(k) = Gone(k - 1) \cup {L.seq[k]}
    <3>1. k - 1 \in 0..n /\ k \in 0..n /\ 1..k = (1..k - 1) \cup {k}
      BY <1>2
    <3> QED BY <3>1
  <2> HIDE DEF Gone
  <2>2. Done(k - 1) /\ M[k - 1] \in W[k - 1] /\ M[k] = Step(M[k - 1], L.seq[k])
    BY <2>1, <1>7, <1>12, <1>15
  <2>3. CASE L.seq[k] \in X
    <3>1. PICK P : P = M[k - 1]
      OBVIOUS
    <3>2. PICK U : U = Unlink(P, L.seq[k])
      OBVIOUS
    <3>3. P \in Raw /\ IsInjective(P.seq) /\ L.seq[k] \in Listed(P) /\ M[k] = U
      BY <2>2, <2>3, <3>1, <3>2, <1>7 DEF Step
    <3>4. /\ U \in Raw /\ U.ev = P.ev /\ U.size = P.size - 1
          /\ Len(U.seq) = Len(P.seq) - 1 /\ Listed(U) = Listed(P) \ {L.seq[k]}
          /\ \A y, z : Before(U.seq, y, z) => Before(P.seq, y, z)
      BY <3>2, <3>3, UnlinkTakes
    <3>5. Excess(U) = Excess(P)
      <4>1. P.size \in Int /\ Len(P.seq) \in Nat
        BY <3>3, RawIs
      <4> QED BY <4>1, <3>4 DEF Excess
    <3>6. Done(k)
      BY <2>1, <2>2, <2>3, <3>1, <3>3, <3>4, <3>5
    <3> QED BY <3>6, <2>1
  <2>4. CASE L.seq[k] \notin X
    <3>1. M[k] = M[k - 1]
      BY <2>2, <2>4 DEF Step
    <3>2. Done(k)
      BY <2>1, <2>2, <2>4, <3>1
    <3> QED BY <3>2, <2>1
  <2> QED BY <2>3, <2>4
<1>16. Done(n)
  <2> HIDE DEF S
  <2>1. \A k \in 0..n : k \in S
    BY <1>2, <1>14, <1>15, Climb
  <2>2. n \in 0..n
    BY <1>2
  <2>3. n \in S
    BY <2>1, <2>2
  <2> QED BY <2>3 DEF S
<1>17. Listed(N) = Listed(L) \ X
  <2>1. Gone(n) = Listed(L)
    BY <1>2 DEF Listed
  <2> QED BY <2>1, <1>13, <1>16
<1>18. N \in Raw /\ IsInjective(N.seq)
  <2>1. n \in 0..n
    BY <1>2
  <2> QED BY <2>1, <1>4, <1>12, <1>13
<1> QED BY <1>13, <1>16, <1>17, <1>18 DEF B

(* remove() of notes and other events: what is left is in use as before *)
LEMMA RemoveAllGives ==
  ASSUME NEW L, Good(L), NEW X, X \subseteq Listed(L), NEW N, N = RemoveAll(L, X),
         \A x, y \in Listed(L) : Halves(L, x, y) => (x \in X <=> y \in X)
  PROVE  /\ Edited(L, N) /\ Listed(N) = Listed(L) \ X /\ (Whole(L) => Whole(N))
         /\ \A x \in Listed(N) : N.ev[x] = L.ev[x]
<1>1. /\ L \in Raw /\ Listable(L) /\ Ordered(L) /\ Listed(L) \subseteq DOMAIN L.ev
      /\ \A x \in Listed(L) : L.ev[x] \in Event
      /\ \A x \in Listed(L) : L.ev[x].link # None => Halves(L, x, L.ev[x].link)
      /\ \A x \in Ons(L) : L.ev[x].link # None
  BY GoodIs DEF Paired
<1>2. PICK e : e = Release(L, X).ev
  OBVIOUS
<1>3. DOMAIN e = DOMAIN L.ev \ X /\ \A y \in DOMAIN L.ev : y \notin X => e[y] = L.ev[y]
  BY <1>1, <1>2, ReleaseFrees
<1>4. /\ N \in Raw /\ N.ev = e /\ IsInjective(N.seq) /\ Listed(N) = Listed(L) \ X
      /\ Excess(N) = Excess(L) /\ \A y, z : Before(N.seq, y, z) => Before(L.seq, y, z)
  BY <1>1, <1>2, RemoveAllEnds
<1>5. \A x \in Listed(N) : x \in Listed(L) /\ x \notin X /\ N.ev[x] = L.ev[x]
  BY <1>1, <1>3, <1>4
<1>6. Listable(N) /\ Ordered(N)
  BY <1>1, <1>3, <1>4, <1>5 DEF Listable, Ordered
<1>7. ASSUME NEW x \in Listed(N), N.ev[x].link # None
      PROVE  Halves(N, x, N.ev[x].link) /\ N.ev[x].link \in Listed(N)
  <2>1. PICK y : y = L.ev[x].link
    OBVIOUS
  <2>2. Halves(L, x, y)
    BY <2>1, <1>1, <1>5, <1>7
  <2>3. y \in Listed(L) /\ y \notin X
    BY <2>2, <1>5 DEF Halves
  <2>4. y \in Listed(N)
    BY <2>3, <1>4
  <2>5. N.ev[y] = L.ev[y] /\ N.ev[x] = L.ev[x]
    BY <2>4, <1>5
  <2>6. Halves(N, x, y)
    BY <2>2, <2>4, <2>5 DEF Halves
  <2> QED BY <2>1, <2>4, <2>5, <2>6
<1>8. Paired(N)
  <2>1. \A x \in Ons(N) : N.ev[x].link # None
    BY <1>1, <1>5 DEF Ons
  <2> QED BY <2>1, <1>7 DEF Paired, Linked
<1>9. Aside(L, N)
  BY <1>3, <1>4 DEF Aside
<1>10. Whole(L) => Whole(N)
  BY <1>5, <1>7 DEF Whole
<1>11. Good(N)
  BY <1>1, <1>5, <1>6, <1>8 DEF Good
<1> QED BY <1>4, <1>5, <1>9, <1>10, <1>11 DEF Edited

-----------------------------------------------------------------------------
(* Moving                                                                      *)

(* M is L with the events of T moved by o *)
Moved(L, o, T, M) ==
  /\ Listable(M) /\ Ordered(M) /\ Listed(M) = Listed(L) /\ DOMAIN M.ev = DOMAIN L.ev /\ Excess(M) = Excess(L)
  /\ \A y \in DOMAIN L.ev : /\ M.ev[y].op = L.ev[y].op /\ M.ev[y].note = L.ev[y].note
                            /\ M.ev[y].sel = L.ev[y].sel /\ M.ev[y].link = L.ev[y].link
                            /\ M.ev[y].ts = IF y \in T THEN L.ev[y].ts + o ELSE L.ev[y].ts
                            /\ y \notin T => M.ev[y] = L.ev[y]

(* one event more is moved *)
LEMMA MovedOn ==
  ASSUME NEW L, Listable(L), NEW o \in Int, NEW T, NEW M, Moved(L, o, T, M),
         NEW x \in Listed(L), x \notin T, NEW N, N = Move(M, x, o)
  PROVE  Moved(L, o, T \cup {x}, N)
<1>1. Listed(L) \subseteq DOMAIN L.ev
  BY ListableIs
<1>2. /\ Listable(M) /\ Ordered(M) /\ Listed(M) = Listed(L) /\ DOMAIN M.ev = DOMAIN L.ev /\ Excess(M) = Excess(L)
      /\ \A y \in DOMAIN L.ev : /\ M.ev[y].op = L.ev[y].op /\ M.ev[y].note = L.ev[y].note
                                /\ M.ev[y].sel = L.ev[y].sel /\ M.ev[y].link = L.ev[y].link
                                /\ M.ev[y].ts = IF y \in T THEN L.ev[y].ts + o ELSE L.ev[y].ts
                                /\ y \notin T => M.ev[y] = L.ev[y]
  BY DEF Moved
<1>3. /\ Listable(N) /\ Ordered(N) /\ Listed(N) = Listed(M) /\ DOMAIN N.ev = DOMAIN M.ev
      /\ Excess(N) = Excess(M)
      /\ \A y \in DOMAIN M.ev : /\ N.ev[y].op = M.ev[y].op /\ N.ev[y].note = M.ev[y].note
                                /\ N.ev[y].sel = M.ev[y].sel /\ N.ev[y].link = M.ev[y].link
                                /\ N.ev[y].ts = IF y = x THEN M.ev[y].ts + o ELSE M.ev[y].ts
                                /\ y # x => N.ev[y] = M.ev[y]
  <2>1. x \in Listed(M)
    BY <1>2
  <2> QED BY <1>2, <2>1, MoveGives
<1>4. ASSUME NEW y \in DOMAIN L.ev
      PROVE  /\ N.ev[y].op = L.ev[y].op /\ N.ev[y].note = L.ev[y].note
             /\ N.ev[y].sel = L.ev[y].sel /\ N.ev[y].link = L.ev[y].link
             /\ N.ev[y].ts = IF y \in T \cup {x} THEN L.ev[y].ts + o ELSE L.ev[y].ts
             /\ y \notin T \cup {x} => N.ev[y] = L.ev[y]
  <2>1. y \in DOMAIN M.ev
    BY <1>2
  <2>2. CASE y = x
    BY <2>1, <2>2, <1>2, <1>3
  <2>3. CASE y # x
    BY <2>1, <2>3, <1>2, <1>3
  <2> QED BY <2>2, <2>3
<1> QED BY <1>2, <1>3, <1>4 DEF Moved

(* what is moved is still in use, unless it came before 0 *)
LEMMA MovedGives ==
  ASSUME NEW L, Good(L), NEW o, NEW T, T \subseteq Listed(L), NEW N, Moved(L, o, T, N),
         \A x \in Listed(L) : N.ev[x].ts \in Nat
  PROVE  Edited(L, N) /\ Listed(N) = Listed(L) /\ (Whole(L) => Whole(N))
<1>1. /\ Paired(L) /\ Listed(L) \subseteq DOMAIN L.ev
      /\ \A x \in Listed(L) : L.ev[x].sel \in Nat
      /\ \A x \in Listed(L) : L.ev[x].link # None => Halves(L, x, L.ev[x].link)
  BY GoodIs
<1>2. /\ Listable(N) /\ Ordered(N) /\ Listed(N) = Listed(L) /\ DOMAIN N.ev = DOMAIN L.ev /\ Excess(N) = Excess(L)
      /\ \A x \in DOMAIN L.ev : x \notin T => N.ev[x] = L.ev[x]
  BY DEF Moved
<1>3. \A x \in Listed(L) : /\ N.ev[x].op = L.ev[x].op /\ N.ev[x].link = L.ev[x].link
                           /\ N.ev[x].note = L.ev[x].note /\ N.ev[x].sel = L.ev[x].sel
  BY <1>1 DEF Moved
<1>4. Paired(N)
  <2>1. \A x, y \in Listed(L) : Halves(L, x, y) => N.ev[y].note = N.ev[x].note
    BY <1>3 DEF Halves
  <2> QED BY <2>1, <1>1, <1>2, <1>3, PairedStays
<1>5. \A x \in Listed(N) : N.ev[x] \in Event
  <2>1. \A x \in Listed(N) : N.ev[x] \in Loose
    BY <1>1, <1>2, ListableIs
  <2>2. \A x \in Listed(N) : N.ev[x].ts \in Nat /\ N.ev[x].sel \in Nat
    BY <1>1, <1>2, <1>3
  <2> QED BY <2>1, <2>2, LooseIsEvent
<1>6. Aside(L, N)
  BY <1>2 DEF Aside
<1>7. Whole(L) => Whole(N)
  <2> SUFFICES ASSUME Whole(L), NEW x \in Listed(L), NEW y, y = L.ev[x].link, y # None
               PROVE  N.ev[y].sel = N.ev[x].sel
    BY <1>2, <1>3 DEF Whole
  <2>1. y \in Listed(L)
    BY <1>1 DEF Halves
  <2>2. L.ev[y].sel = L.ev[x].sel
    BY DEF Whole
  <2> QED BY <2>1, <2>2, <1>3
<1> QED BY <1>2, <1>4, <1>5, <1>6, <1>7 DEF Edited, Good

(* s goes through events of L, meeting each of them once *)
Walks(s, n, L) ==
  /\ DOMAIN s = 1..n /\ \A k \in 1..n : s[k] \in Listed(L)
  /\ \A j, k \in 1..n : s[j] = s[k] => j = k

(* The selected ones of the events of s are moved, in that order. *)
LEMMA MoveChosenEnds ==
  ASSUME NEW L, Listable(L), Ordered(L), NEW o \in Int, NEW n \in Nat, NEW s, Walks(s, n, L),
         NEW N, N = MoveChosen(L, o, s)
  PROVE  Moved(L, o, Selected(L) \cap {s[k] : k \in 1..n}, N)
<1> DEFINE Step(M, x) == IF x \in Selected(L) THEN Move(M, x, o) ELSE M
           V == {M \in Raw : Listable(M) /\ Ordered(M) /\ Listed(M) = Listed(L)}
           H == [p \in V \X (1..n) |-> Step(p[1], s[p[2]])]
           W == [k \in 0..n |-> V]
           Folds(f) == f = [t \in SUBSET DOMAIN s |->
                              IF t = {} THEN L ELSE Step(f[t \ {Max(t)}], s[Max(t)])]
<1>1. N = (CHOOSE f : Folds(f))[DOMAIN s]
  BY Zenon DEF MoveChosen, FoldLeft, MapThenFoldSet
<1>0. /\ DOMAIN s = 1..n /\ \A k \in 1..n : s[k] \in Listed(L)
      /\ \A j, k \in 1..n : s[j] = s[k] => j = k
  BY DEF Walks
<1>2. \A k \in 0..n : W[k] = V
  OBVIOUS
<1>3. \A k \in 1..n : \A m \in V : H[<<m, k>>] = Step(m, s[k])
  <2> HIDE DEF Step, V
  <2> QED OBVIOUS
<1>4. ASSUME NEW M \in V, NEW k \in 1..n
      PROVE  Step(M, s[k]) \in V
  <2>1. CASE s[k] \in Selected(L)
    <3>1. Listable(M) /\ Ordered(M) /\ s[k] \in Listed(M)
      BY <1>0
    <3>2. PICK U : U = Move(M, s[k], o)
      OBVIOUS
    <3>3. Listable(U) /\ Ordered(U) /\ Listed(U) = Listed(M)
      BY <3>1, <3>2, MoveGives
    <3>4. U \in V
      BY <3>3 DEF Listable
    <3> QED BY <2>1, <3>2, <3>4
  <2>2. CASE s[k] \notin Selected(L)
    BY <2>2
  <2> QED BY <2>1, <2>2
<1>5. L \in V
  BY DEF Listable
<1>6. \A k \in 1..n : k - 1 \in 0..n /\ k \in 0..n
  OBVIOUS
<1> HIDE DEF H, W, V, Step
<1>7. \A k \in 1..n : \A m \in W[k - 1] : H[<<m, k>>] = Step(m, s[k])
  BY <1>2, <1>3, <1>6
<1>8. Staged(n, W, H, L)
  <2>1. ASSUME NEW k \in 1..n
        PROVE  W[k - 1] \subseteq W[k] /\ \A m \in W[k - 1] : H[<<m, k>>] \in W[k]
    BY <1>2, <1>3, <1>4, <1>6
  <2>2. 0 \in 0..n
    OBVIOUS
  <2> QED BY <2>1, <2>2, <1>2, <1>5 DEF Staged
<1>10. PICK g : g = (CHOOSE f : Folds(f))
  OBVIOUS
<1>11. Leads(g, n, L, W, H)
  <2> SUFFICES ASSUME NEW f, Makes(f, n, L, W, H)
               PROVE  Follows(g, n, L, W, H)
    BY DEF Leads
  <2>1. ASSUME NEW t \in SUBSET (1..n)
        PROVE  f[t] = IF t = {} THEN L ELSE Step(f[t \ {Max(t)}], s[Max(t)])
    <3>1. CASE t = {}
      BY <3>1 DEF Makes
    <3>2. CASE t # {}
      <4>1. /\ Max(t) \in 1..n /\ f[t \ {Max(t)}] \in W[Max(t) - 1]
            /\ f[t] = H[<<f[t \ {Max(t)}], Max(t)>>]
        BY <3>2 DEF Makes
      <4> QED BY <3>2, <4>1, <1>7
    <3> QED BY <3>1, <3>2
  <2>2. Folds(f)
    BY <2>1, <1>0 DEF Makes
  <2>3. Folds(g)
    <3> HIDE DEF Folds
    <3> QED BY <2>2, <1>10
  <2>4. g = [t \in SUBSET (1..n) |-> IF t = {} THEN L ELSE Step(g[t \ {Max(t)}], s[Max(t)])]
    BY <2>3, <1>0
  <2>5. g[{}] = L /\ \A t \in SUBSET (1..n) : t # {} => g[t] = Step(g[t \ {Max(t)}], s[Max(t)])
    BY <2>4
  <2>6. ASSUME NEW t \in SUBSET (1..n), t # {}, NEW k \in 1..n, k = Max(t), g[t \ {k}] \in W[k - 1]
        PROVE  g[t] = H[<<g[t \ {k}], k>>]
    BY <2>5, <2>6, <1>7
  <2> QED BY <2>5, <2>6 DEF Follows
<1> HIDE DEF Folds
<1>12. PICK M : /\ M[0] = L /\ g[1..n] = M[n]
                /\ \A k \in 0..n : M[k] \in W[k]
                /\ \A k \in 1..n : M[k] = H[<<M[k - 1], k>>]
  BY <1>8, <1>11, FoldGives
<1>13. N = M[n]
  BY <1>0, <1>1, <1>10, <1>12
<1> DEFINE Past(k) == Selected(L) \cap {s[j] : j \in 1..k}
           S == {k \in 0..n : Moved(L, o, Past(k), M[k])}
<1>14. 0 \in S
  <2>1. Past(0) = {} /\ 0 \in 0..n
    OBVIOUS
  <2> HIDE DEF Past
  <2>2. Moved(L, o, Past(0), L)
    BY <2>1 DEF Moved
  <2> QED BY <2>1, <2>2, <1>12
<1>15. ASSUME NEW k \in 1..n, k - 1 \in S
       PROVE  k \in S
  <2>1. k - 1 \in 0..n /\ k \in 0..n /\ 1..k = (1..k - 1) \cup {k} /\ \A j \in 1..k - 1 : j \in 1..n /\ j # k
    OBVIOUS
  <2>2. Moved(L, o, Past(k - 1), M[k - 1]) /\ M[k] = Step(M[k - 1], s[k])
    BY <2>1, <1>7, <1>12, <1>15
  <2>3. CASE s[k] \in Selected(L)
    <3>1. Past(k) = Past(k - 1) \cup {s[k]}
      BY <2>1, <2>3
    <3>2. s[k] \notin Past(k - 1) /\ s[k] \in Listed(L)
      BY <2>1, <1>0
    <3>3. M[k] = Move(M[k - 1], s[k], o)
      BY <2>2, <2>3 DEF Step
    <3> HIDE DEF Past
    <3>5. PICK T, P : T = Past(k - 1) /\ P = M[k - 1]
      OBVIOUS
    <3>6. Moved(L, o, T \cup {s[k]}, Move(P, s[k], o))
      BY <3>2, <3>5, <2>2, MovedOn
    <3>4. Moved(L, o, Past(k), M[k])
      BY <3>1, <3>3, <3>5, <3>6
    <3> QED BY <3>4, <2>1
  <2>4. CASE s[k] \notin Selected(L)
    <3>1. Past(k) = Past(k - 1)
      BY <2>1, <2>4
    <3>2. M[k] = M[k - 1]
      BY <2>2, <2>4 DEF Step
    <3> QED BY <3>1, <3>2, <2>1, <2>2
  <2> QED BY <2>3, <2>4
<1>16. Moved(L, o, Past(n), M[n])
  <2> HIDE DEF S, Past
  <2>1. \A k \in 0..n : k \in S
    BY <1>14, <1>15, Climb
  <2>2. n \in 0..n
    OBVIOUS
  <2>3. n \in S
    BY <2>1, <2>2
  <2> QED BY <2>3 DEF S
<1> QED BY <1>13, <1>16

(* selection_min(): the list is in order, so its first selected event is the earliest *)
LEMMA SelectionMinIs ==
  ASSUME NEW L, Good(L)
  PROVE  /\ SelectionMin(L) \in Nat /\ \A x \in Selected(L) : SelectionMin(L) <= L.ev[x].ts
<1>1. CASE Selected(L) = {}
  BY <1>1 DEF SelectionMin
<1>2. CASE Selected(L) # {}
  <2> DEFINE T == {k \in DOMAIN L.seq : L.seq[k] \in Selected(L)}
  <2>1. /\ DOMAIN L.seq = 1..Len(L.seq) /\ Len(L.seq) \in Nat /\ Ordered(L)
        /\ \A k \in 1..Len(L.seq) : L.seq[k] \in Listed(L)
        /\ \A x \in Listed(L) : L.ev[x].ts \in Nat
    BY GoodIs
  <2>2. \A x \in Selected(L) : x \in Listed(L) /\ \E k \in T : L.seq[k] = x
    BY DEF Selected, Listed
  <2>3. PICK k \in T : k = Min(T) /\ \A m \in T : k <= m
    <3>1. T \subseteq Nat /\ T # {}
      BY <2>1, <2>2, <1>2
    <3> HIDE DEF T
    <3> QED BY <3>1, MinReached
  <2>4. SelectionMin(L) = L.ev[L.seq[k]].ts
    BY <2>3, <1>2 DEF SelectionMin
  <2>5. L.seq[k] \in Listed(L)
    BY <2>1
  <2>6. ASSUME NEW x \in Selected(L)
        PROVE  L.ev[L.seq[k]].ts <= L.ev[x].ts
    <3>1. PICK m \in T : L.seq[m] = x
      BY <2>2
    <3>2. k <= m /\ m \in 1..Len(L.seq) /\ k \in 1..Len(L.seq)
      BY <2>1, <2>3
    <3>3. CASE m = k
      BY <3>1, <3>3, <2>1, <2>5
    <3>4. CASE k < m
      <4>1. Before(L.seq, L.seq[k], x)
        BY <3>1, <3>2, <3>4, <2>1 DEF Before
      <4> QED BY <4>1, <2>1, <2>2, <2>5 DEF Ordered
    <3> QED BY <3>2, <3>3, <3>4
  <2> QED BY <2>1, <2>4, <2>5, <2>6
<1> QED BY <1>1, <1>2

(* what nudge_selected() adds to the time of an event *)
NudgeOf(L, o, x) ==
  IF x \in Selected(L) /\ ~(o < 0 /\ SelectionMin(L) < 0 - o) THEN o ELSE 0

(* nudge_selected(): the selected events, and only they, are moved, all by the same time or not at all. *)
LEMMA NudgeGives ==
  ASSUME NEW L, Good(L), NEW o \in Int, NEW N, N = Nudge(L, o)
  PROVE  /\ Edited(L, N) /\ Listed(N) = Listed(L) /\ (Whole(L) => Whole(N))
         /\ \A x \in Listed(L) : N.ev[x].ts = L.ev[x].ts + NudgeOf(L, o, x)
<1>1. /\ Listable(L) /\ Ordered(L) /\ Paired(L) /\ Listed(L) \subseteq DOMAIN L.ev
      /\ DOMAIN L.seq = 1..Len(L.seq) /\ Len(L.seq) \in Nat
      /\ \A k \in 1..Len(L.seq) : L.seq[k] \in Listed(L)
      /\ \A x \in Listed(L) : L.ev[x].ts \in Nat /\ L.ev[x].sel \in Nat
      /\ \A x \in Listed(L) : L.ev[x].link # None => Halves(L, x, L.ev[x].link)
  BY GoodIs
<1>2. CASE o < 0 /\ SelectionMin(L) < 0 - o
  <2>1. N = L
    BY <1>2 DEF Nudge
  <2>2. Edited(L, L)
    BY DEF Edited, Aside
  <2>3. \A x \in Listed(L) : NudgeOf(L, o, x) = 0 /\ L.ev[x].ts = L.ev[x].ts + 0
    BY <1>1, <1>2 DEF NudgeOf
  <2> QED BY <2>1, <2>2, <2>3
<1>3. CASE ~(o < 0 /\ SelectionMin(L) < 0 - o)
  <2> DEFINE n == Len(L.seq)
  <2>1. PICK s : s = IF o < 0 THEN L.seq ELSE Reverse(L.seq)
    OBVIOUS
  <2>2. N = MoveChosen(L, o, s)
    BY <2>1, <1>3 DEF Nudge
  <2>3. \A j, k \in 1..n : L.seq[j] = L.seq[k] => j = k
    BY <1>1, ListableIs
  <2>4. \A x \in Listed(L) : \E k \in 1..n : L.seq[k] = x
    BY <1>1 DEF Listed
  <2>5. /\ DOMAIN s = 1..n /\ \A k \in 1..n : s[k] \in Listed(L)
        /\ \A j, k \in 1..n : s[j] = s[k] => j = k
        /\ \A x \in Listed(L) : \E k \in 1..n : s[k] = x
    <3>1. CASE o < 0
      BY <3>1, <2>1, <2>3, <2>4, <1>1
    <3>2. CASE ~(o < 0)
      <4>1. DOMAIN s = 1..n /\ \A k \in 1..n : s[k] = L.seq[n - k + 1]
        BY <3>2, <2>1, <1>1 DEF Reverse
      <4>2. \A k \in 1..n : n - k + 1 \in 1..n /\ n - (n - k + 1) + 1 = k
        BY <1>1
      <4>3. \A j, k \in 1..n : s[j] = s[k] => j = k
        <5> SUFFICES ASSUME NEW j \in 1..n, NEW k \in 1..n, s[j] = s[k]
                     PROVE  j = k
          OBVIOUS
        <5>1. L.seq[n - j + 1] = L.seq[n - k + 1] /\ n - j + 1 \in 1..n /\ n - k + 1 \in 1..n
          BY <4>1, <4>2
        <5>2. n - j + 1 = n - k + 1
          BY <5>1, <2>3
        <5> QED BY <5>2, <1>1
      <4>4. \A x \in Listed(L) : \E k \in 1..n : s[k] = x
        <5> SUFFICES ASSUME NEW k \in 1..n
                     PROVE  \E j \in 1..n : s[j] = L.seq[k]
          BY <2>4
        <5>1. n - k + 1 \in 1..n /\ s[n - k + 1] = L.seq[k]
          BY <4>1, <4>2
        <5> QED BY <5>1
      <4> QED BY <4>1, <4>2, <4>3, <4>4, <1>1
    <3> QED BY <3>1, <3>2
  <2>6. {s[k] : k \in 1..n} = Listed(L)
    BY <2>5
  <2>7. Moved(L, o, Selected(L) \cap {s[k] : k \in 1..n}, N)
    <3>1. Walks(s, n, L)
      BY <2>5 DEF Walks
    <3> QED BY <2>2, <3>1, <1>1, MoveChosenEnds
  <2>8. Selected(L) \cap {s[k] : k \in 1..n} = Selected(L)
    BY <2>6 DEF Selected
  <2>9. \A x \in Listed(L) : N.ev[x].ts = IF x \in Selected(L) THEN L.ev[x].ts + o ELSE L.ev[x].ts
    BY <2>7, <2>8, <1>1 DEF Moved
  <2>10. \A x \in Listed(L) : N.ev[x].ts = L.ev[x].ts + NudgeOf(L, o, x)
    BY <2>9, <1>1, <1>3 DEF NudgeOf
  <2>11. \A x \in Listed(L) : L.ev[x].ts + NudgeOf(L, o, x) \in Nat
    <3>1. SelectionMin(L) \in Nat /\ \A x \in Selected(L) : SelectionMin(L) <= L.ev[x].ts
      BY SelectionMinIs
    <3> QED BY <3>1, <1>1, <1>3 DEF NudgeOf
  <2>12. Edited(L, N) /\ Listed(N) = Listed(L) /\ (Whole(L) => Whole(N))
    <3>1. \A x \in Listed(L) : N.ev[x].ts \in Nat
      BY <2>10, <2>11
    <3>2. Selected(L) \subseteq Listed(L) /\ Moved(L, o, Selected(L), N)
      BY <2>7, <2>8 DEF Selected
    <3> QED BY <3>1, <3>2, MovedGives
  <2> QED BY <2>10, <2>12
<1> QED BY <1>2, <1>3

-----------------------------------------------------------------------------
(* Entering                                                                    *)

(* the same list, with more events in memory *)
LEMMA Wider ==
  ASSUME NEW L, Good(L), NEW N \in Raw, N.seq = L.seq, N.size = L.size, DOMAIN L.ev \subseteq DOMAIN N.ev,
         \A x \in DOMAIN L.ev : N.ev[x] = L.ev[x]
  PROVE  /\ Edited(L, N) /\ Listed(N) = Listed(L)
         /\ (Whole(L) => Whole(N)) /\ (Strict(L) => Strict(N))
<1>1. /\ Listable(L) /\ Ordered(L) /\ Paired(L) /\ Listed(L) \subseteq DOMAIN L.ev
      /\ \A x \in Listed(L) : L.ev[x] \in Event
      /\ \A x \in Listed(L) : L.ev[x].link # None => Halves(L, x, L.ev[x].link)
      /\ \A x \in Ons(L) : L.ev[x].link # None
  BY GoodIs DEF Paired
<1>2. Listed(N) = Listed(L)
  BY DEF Listed
<1>3. \A x \in Listed(L) : N.ev[x] = L.ev[x]
  BY <1>1
<1>4. Listable(N) /\ Ordered(N)
  BY <1>1, <1>2, <1>3 DEF Listable, Ordered
<1>5. Paired(N)
  <2>1. \A x, y \in Listed(L) : Halves(L, x, y) => N.ev[y].note = N.ev[x].note
    BY <1>3 DEF Halves
  <2> QED BY <2>1, <1>1, <1>2, <1>3, PairedStays
<1>6. Edited(L, N)
  BY <1>1, <1>2, <1>3, <1>4, <1>5 DEF Edited, Good, Excess, Aside
<1>7. Whole(L) => Whole(N)
  BY <1>1, <1>2, <1>3 DEF Whole, Halves
<1>8. Strict(L) => Strict(N)
  BY <1>1, <1>2, <1>3 DEF Strict, Ons, Halves
<1> QED BY <1>2, <1>6, <1>7, <1>8

(* an event of its own goes in *)
LEMMA InsertLone ==
  ASSUME NEW L, Good(L), NEW a \in DOMAIN L.ev, a \notin Listed(L), L.ev[a].link = None, L.ev[a].op # "on",
         L.ev[a].ts \in Nat, L.ev[a].sel \in Nat, NEW N, N = Insert(L, a)
  PROVE  /\ Good(N) /\ Excess(N) = Excess(L) /\ N.ev = L.ev /\ Listed(N) = Listed(L) \cup {a}
         /\ (Whole(L) => Whole(N)) /\ (Strict(L) /\ L.ev[a].op # "off" => Strict(N))
<1>1. /\ L \in Raw /\ Listable(L) /\ Ordered(L) /\ IsInjective(L.seq) /\ Listed(L) \subseteq DOMAIN L.ev
      /\ L.size \in Int /\ Len(L.seq) \in Nat
      /\ \A x \in Listed(L) : L.ev[x] \in Event
      /\ \A x \in Listed(L) : L.ev[x].link # None => Halves(L, x, L.ev[x].link)
      /\ \A x \in Ons(L) : L.ev[x].link # None
      /\ L.ev[a] \in Loose
  BY GoodIs, ListableIs DEF Paired
<1>2. /\ N \in Raw /\ N.ev = L.ev /\ N.size = L.size + 1
      /\ Len(N.seq) = Len(L.seq) + 1 /\ Listed(N) = Listed(L) \cup {a}
      /\ IsInjective(N.seq) /\ Ordered(N)
  BY <1>1, InsertPuts
<1>3. Listable(N) /\ Excess(N) = Excess(L)
  BY <1>1, <1>2 DEF Listable, Excess
<1>4. \A x \in Listed(N) : N.ev[x].link # None => x \in Listed(L)
  BY <1>2
<1>5. \A x \in Listed(N) : N.ev[x].link # None => Halves(N, x, N.ev[x].link)
  BY <1>1, <1>2, <1>4 DEF Halves
<1>6. Ons(N) = Ons(L)
  BY <1>2 DEF Ons
<1>7. Paired(N)
  BY <1>1, <1>2, <1>5, <1>6 DEF Paired, Linked
<1>8. Good(N)
  BY <1>1, <1>2, <1>3, <1>7, LooseIsEvent DEF Good
<1>9. Whole(L) => Whole(N)
  BY <1>2, <1>4 DEF Whole
<1>10. Strict(L) /\ L.ev[a].op # "off" => Strict(N)
  BY <1>2, <1>6 DEF Strict
<1> QED BY <1>2, <1>3, <1>8, <1>9, <1>10

(* a note goes in, either half first *)
LEMMA InsertBoth ==
  ASSUME NEW L, Good(L), NEW a \in DOMAIN L.ev, NEW b \in DOMAIN L.ev, a # b,
         a \notin Listed(L), b \notin Listed(L), L.ev[a].link = b, L.ev[b].link = a,
         L.ev[a].note = L.ev[b].note,
         \/ L.ev[a].op = "on" /\ L.ev[b].op = "off"
         \/ L.ev[a].op = "off" /\ L.ev[b].op = "on",
         L.ev[a].ts \in Nat, L.ev[a].sel \in Nat, L.ev[b].ts \in Nat, L.ev[b].sel \in Nat,
         NEW N, N = Insert(Insert(L, a), b)
  PROVE  /\ Good(N) /\ Excess(N) = Excess(L) /\ N.ev = L.ev /\ Listed(N) = Listed(L) \cup {a, b}
         /\ (Whole(L) /\ L.ev[a].sel = L.ev[b].sel => Whole(N))
         /\ (Strict(L) /\ (L.ev[a].op = "on" => L.ev[a].ts < L.ev[b].ts)
                       /\ (L.ev[b].op = "on" => L.ev[b].ts < L.ev[a].ts) => Strict(N))
<1>1. /\ L \in Raw /\ Listable(L) /\ Ordered(L) /\ IsInjective(L.seq) /\ Listed(L) \subseteq DOMAIN L.ev
      /\ L.size \in Int /\ Len(L.seq) \in Nat
      /\ \A x \in Listed(L) : L.ev[x] \in Event
      /\ \A x \in Listed(L) : L.ev[x].link # None => Halves(L, x, L.ev[x].link)
      /\ \A x \in Ons(L) : L.ev[x].link # None
      /\ \A x \in DOMAIN L.ev : L.ev[x] \in Loose /\ x # None
  BY GoodIs, ListableIs DEF Paired
<1>2. PICK K : K = Insert(L, a)
  OBVIOUS
<1>3. /\ K \in Raw /\ K.ev = L.ev /\ K.size = L.size + 1
      /\ Len(K.seq) = Len(L.seq) + 1 /\ Listed(K) = Listed(L) \cup {a}
      /\ IsInjective(K.seq) /\ Ordered(K)
  BY <1>1, <1>2, InsertPuts
<1>4. /\ N \in Raw /\ N.ev = K.ev /\ N.size = K.size + 1
      /\ Len(N.seq) = Len(K.seq) + 1 /\ Listed(N) = Listed(K) \cup {b}
      /\ IsInjective(N.seq) /\ Ordered(N)
  <2>1. b \in DOMAIN K.ev /\ Listed(K) \subseteq DOMAIN K.ev /\ b \notin Listed(K)
    BY <1>1, <1>3
  <2> QED BY <2>1, <1>2, <1>3, InsertPuts
<1>5. N.ev = L.ev /\ Listed(N) = Listed(L) \cup {a, b}
  BY <1>3, <1>4
<1>6. Listable(N)
  BY <1>1, <1>4, <1>5 DEF Listable
<1>7. Excess(N) = Excess(L)
  <2>1. N.size = L.size + 1 + 1 /\ Len(N.seq) = Len(L.seq) + 1 + 1
    BY <1>3, <1>4
  <2> QED BY <2>1, <1>1 DEF Excess
<1>8. Halves(N, a, b) /\ Halves(N, b, a)
  BY <1>5 DEF Halves
<1>9. ASSUME NEW x \in Listed(N), N.ev[x].link # None
      PROVE  Halves(N, x, N.ev[x].link)
  <2>1. CASE x \in Listed(L)
    BY <2>1, <1>1, <1>5, <1>9 DEF Halves
  <2>2. CASE x \in {a, b}
    BY <2>2, <1>5, <1>8
  <2> QED BY <2>1, <2>2, <1>5
<1>10. Paired(N)
  <2>1. \A x \in Ons(N) : N.ev[x].link # None
    BY <1>1, <1>5 DEF Ons
  <2> QED BY <2>1, <1>9 DEF Paired, Linked
<1>11. Good(N)
  <2>1. \A x \in Listed(N) : N.ev[x] \in Event
    BY <1>1, <1>5, LooseIsEvent
  <2> QED BY <2>1, <1>4, <1>6, <1>10 DEF Good
<1>12. ASSUME Whole(L), L.ev[a].sel = L.ev[b].sel
       PROVE  Whole(N)
  BY <1>5, <1>12 DEF Whole
<1>13. ASSUME Strict(L), L.ev[a].op = "on" => L.ev[a].ts < L.ev[b].ts,
              L.ev[b].op = "on" => L.ev[b].ts < L.ev[a].ts
       PROVE  Strict(N)
  <2>0. b # None /\ a # None
    BY <1>1
  <2>3. \A x \in Listed(N) : L.ev[x].op = "off" => L.ev[x].link # None
    BY <2>0, <1>5, <1>13 DEF Strict
  <2> SUFFICES ASSUME NEW x \in Ons(N)
               PROVE  L.ev[x].ts < L.ev[L.ev[x].link].ts
    BY <2>3, <1>5 DEF Strict
  <2>1. CASE x \in Listed(L)
    <3>1. x \in Ons(L)
      BY <2>1, <1>5 DEF Ons
    <3> QED BY <3>1, <1>13 DEF Strict
  <2>2. CASE x \in {a, b}
    BY <2>2, <1>5, <1>13 DEF Ons
  <2> QED BY <2>1, <2>2, <1>5 DEF Ons
<1> QED BY <1>5, <1>7, <1>11, <1>12, <1>13

(* mix() of a new event *)
LEMMA MixLone ==
  ASSUME NEW L, Good(L), NEW a, a \notin DOMAIN L.ev, NEW M \in Raw, M.seq = L.seq, M.size = L.size,
         DOMAIN M.ev = DOMAIN L.ev \cup {a}, \A x \in DOMAIN L.ev : M.ev[x] = L.ev[x],
         M.ev[a].link = None, M.ev[a].op # "on", M.ev[a].ts \in Nat, M.ev[a].sel \in Nat,
         NEW N, N = Mix(M, a)
  PROVE  /\ Edited(L, N) /\ DOMAIN L.ev \subseteq DOMAIN N.ev /\ \A x \in DOMAIN L.ev : N.ev[x] = L.ev[x]
         /\ (Whole(L) => Whole(N)) /\ (Strict(L) /\ M.ev[a].op # "off" => Strict(N))
<1>0. None \notin DOMAIN L.ev /\ Listed(L) \subseteq DOMAIN L.ev
  BY GoodIs, ListableIs
<1>1. CASE \E z \in Listed(M) : SameEvent(M.ev[z], M.ev[a])
  <2>1. N = Release(M, {a, None})
    BY <1>1 DEF Mix
  <2>2. /\ N \in Raw /\ N.seq = M.seq /\ N.size = M.size /\ DOMAIN N.ev = DOMAIN M.ev \ {a, None}
        /\ \A y \in DOMAIN M.ev : y \notin {a, None} => N.ev[y] = M.ev[y]
    BY <2>1, ReleaseFrees
  <2>3. DOMAIN L.ev \subseteq DOMAIN N.ev /\ \A x \in DOMAIN L.ev : N.ev[x] = L.ev[x]
    BY <2>2, <1>0
  <2> QED BY <2>2, <2>3, Wider
<1>2. CASE ~\E z \in Listed(M) : SameEvent(M.ev[z], M.ev[a])
  <2>1. N = Insert(M, a)
    BY <1>2 DEF Mix
  <2>2. /\ Edited(L, M) /\ Listed(M) = Listed(L)
        /\ (Whole(L) => Whole(M)) /\ (Strict(L) => Strict(M))
    BY Wider
  <2>3. a \in DOMAIN M.ev /\ a \notin Listed(M) /\ Good(M)
    BY <2>2, <1>0 DEF Edited
  <2>4. /\ Good(N) /\ Excess(N) = Excess(M) /\ N.ev = M.ev /\ Listed(N) = Listed(M) \cup {a}
        /\ (Whole(M) => Whole(N)) /\ (Strict(M) /\ M.ev[a].op # "off" => Strict(N))
    BY <2>1, <2>3, InsertLone
  <2>5. Aside(L, N)
    BY <2>2, <2>4 DEF Aside
  <2>6. Edited(L, N)
    BY <2>2, <2>4, <2>5 DEF Edited
  <2> QED BY <2>2, <2>4, <2>6
<1> QED BY <1>1, <1>2

(* M is L with a new note in memory, a and b its halves *)
NewNote(L, M, a, b) ==
  /\ a # b /\ a \notin DOMAIN L.ev /\ b \notin DOMAIN L.ev
  /\ M \in Raw /\ M.seq = L.seq /\ M.size = L.size
  /\ DOMAIN M.ev = DOMAIN L.ev \cup {a, b} /\ \A x \in DOMAIN L.ev : M.ev[x] = L.ev[x]
  /\ M.ev[a].link = b /\ M.ev[b].link = a /\ M.ev[a].note = M.ev[b].note
  /\ \/ M.ev[a].op = "on" /\ M.ev[b].op = "off"
     \/ M.ev[a].op = "off" /\ M.ev[b].op = "on"
  /\ M.ev[a].ts \in Nat /\ M.ev[a].sel \in Nat /\ M.ev[b].ts \in Nat /\ M.ev[b].sel \in Nat

(* it ends after it begins *)
NoteStrict(M, a, b) ==
  /\ M.ev[a].op = "on" => M.ev[a].ts < M.ev[b].ts
  /\ M.ev[b].op = "on" => M.ev[b].ts < M.ev[a].ts

(* mix() of a new note *)
LEMMA MixNote ==
  ASSUME NEW L, Good(L), NEW M, NEW a, NEW b, NewNote(L, M, a, b), NEW N, N = Mix(M, a)
  PROVE  /\ Edited(L, N) /\ DOMAIN L.ev \subseteq DOMAIN N.ev /\ \A x \in DOMAIN L.ev : N.ev[x] = L.ev[x]
         /\ (Whole(L) /\ M.ev[a].sel = M.ev[b].sel => Whole(N))
         /\ (Strict(L) /\ NoteStrict(M, a, b) => Strict(N))
<1> USE DEF NewNote, NoteStrict
<1>0. b # None /\ Listed(L) \subseteq DOMAIN L.ev
  <2>1. b \in Addr
    BY RawIs
  <2> QED BY <2>1, GoodIs DEF Addr
<1>1. CASE \E z \in Listed(M) : SameEvent(M.ev[z], M.ev[a])
  <2>1. N = Release(M, {a, b})
    BY <1>1 DEF Mix
  <2>2. /\ N \in Raw /\ N.seq = M.seq /\ N.size = M.size /\ DOMAIN N.ev = DOMAIN M.ev \ {a, b}
        /\ \A y \in DOMAIN M.ev : y \notin {a, b} => N.ev[y] = M.ev[y]
    BY <2>1, ReleaseFrees
  <2>3. DOMAIN L.ev \subseteq DOMAIN N.ev /\ \A x \in DOMAIN L.ev : N.ev[x] = L.ev[x]
    BY <2>2
  <2> QED BY <2>2, <2>3, Wider
<1>2. CASE ~\E z \in Listed(M) : SameEvent(M.ev[z], M.ev[a])
  <2>1. N = Insert(Insert(M, a), b)
    BY <1>0, <1>2 DEF Mix
  <2>2. /\ Edited(L, M) /\ Listed(M) = Listed(L)
        /\ (Whole(L) => Whole(M)) /\ (Strict(L) => Strict(M))
    BY Wider
  <2>3. a \in DOMAIN M.ev /\ b \in DOMAIN M.ev /\ a \notin Listed(M) /\ b \notin Listed(M) /\ Good(M)
    BY <2>2, <1>0 DEF Edited
  <2>4. /\ Good(N) /\ Excess(N) = Excess(M) /\ N.ev = M.ev /\ Listed(N) = Listed(M) \cup {a, b}
        /\ (Whole(M) /\ M.ev[a].sel = M.ev[b].sel => Whole(N))
        /\ (Strict(M) /\ (M.ev[a].op = "on" => M.ev[a].ts < M.ev[b].ts)
                      /\ (M.ev[b].op = "on" => M.ev[b].ts < M.ev[a].ts) => Strict(N))
    BY <2>1, <2>3, InsertBoth
  <2>5. Aside(L, N)
    BY <2>2, <2>4 DEF Aside
  <2>6. Edited(L, N)
    BY <2>2, <2>4, <2>5 DEF Edited
  <2> QED BY <2>2, <2>4, <2>6
<1> QED BY <1>1, <1>2

-----------------------------------------------------------------------------
(* Copying                                                                     *)

(* an edit after an edit *)
LEMMA EditedOn ==
  ASSUME NEW L, NEW M, NEW N, Edited(L, M), Edited(M, N)
  PROVE  Edited(L, N)
BY DEF Edited, Aside

(* the copy of the half x of a note, and of the other half *)
HalfCopied(r, offset) == [r EXCEPT !.ts = @ - offset, !.link = None]

(* one event of L is copied into M, with its other half *)
CopiedInto(M, x, L, offset) ==
  LET a == FreshEvent(M)
      M1 == Allocate(M, a, HalfCopied(L.ev[x], offset))
      b == FreshEvent(M1)
      M2 == Allocate(M1, b, HalfCopied(L.ev[L.ev[x].link], offset))
  IN IF x \notin Selected(L) THEN M
     ELSE IF L.ev[x].link = None THEN Mix(M1, a) ELSE Mix(Couple(M2, a, b), a)

(* it has the time from the first event of the list on *)
LEMMA HalfCopiedIs ==
  ASSUME NEW r \in Event, NEW offset \in Nat, offset <= r.ts, NEW q, q = HalfCopied(r, offset)
  PROVE  /\ q \in Loose /\ q.op = r.op /\ q.note = r.note /\ q.ts = r.ts - offset /\ q.ts \in Nat
         /\ q.sel = r.sel /\ q.sel \in Nat /\ q.link = None
<1>1. q = [r EXCEPT !.ts = r.ts - offset, !.link = None]
  BY DEF HalfCopied
<1>2. PICK m : m = r.ts - offset
  OBVIOUS
<1>3. m \in Nat
  BY <1>2 DEF Event
<1>4. q = [r EXCEPT !.ts = m, !.link = None]
  BY <1>1, <1>2
<1>5. q = [op |-> r.op, note |-> r.note, ts |-> m, sel |-> r.sel, link |-> None]
  BY <1>4 DEF Event
<1>6. r.op \in Op /\ r.note \in Note /\ r.sel \in Nat
  BY DEF Event
<1>7. q \in Loose
  <2>1. m \in Int /\ r.sel \in Int /\ None \in Nat
    BY <1>3, <1>6 DEF None
  <2> QED BY <2>1, <1>5, <1>6 DEF Loose
<1> QED BY <1>2, <1>3, <1>5, <1>6, <1>7

(* a copied note goes into the clipboard whole or, if it is there, not at all *)
LEMMA CopiedIntoGives ==
  ASSUME NEW L, Good(L), NEW M, Good(M), NEW x \in Listed(L), NEW offset \in Nat,
         \A y \in Listed(L) : offset <= L.ev[y].ts, NEW N, N = CopiedInto(M, x, L, offset)
  PROVE  /\ Edited(M, N) /\ DOMAIN M.ev \subseteq DOMAIN N.ev /\ \A y \in DOMAIN M.ev : N.ev[y] = M.ev[y]
         /\ (Whole(L) /\ Whole(M) => Whole(N)) /\ (Strict(L) /\ Strict(M) => Strict(N))
<1> DEFINE a == FreshEvent(M)
           ra == HalfCopied(L.ev[x], offset)
           M1 == Allocate(M, a, ra)
           b == FreshEvent(M1)
           rb == HalfCopied(L.ev[L.ev[x].link], offset)
           M2 == Allocate(M1, b, rb)
           M3 == Couple(M2, a, b)
<1>1. CASE x \notin Selected(L)
  <2>1. N = M
    BY <1>1 DEF CopiedInto
  <2> QED BY <2>1 DEF Edited, Aside
<1>2. CASE x \in Selected(L) /\ L.ev[x].link = None
  <2>1. N = Mix(M1, a)
    BY <1>2 DEF CopiedInto
  <2>2. L.ev[x].op # "on" /\ L.ev[x] \in Event
    BY <1>2, GoodIs DEF Paired, Ons
  <2>3. ra \in Loose /\ ra.op # "on" /\ ra.op = L.ev[x].op /\ ra.ts \in Nat /\ ra.sel \in Nat /\ ra.link = None
    BY <2>2, HalfCopiedIs
  <2>4. a \in Addr /\ a \notin DOMAIN M.ev /\ M \in Raw
    BY FreshIs, GoodIs
  <2> HIDE DEF a, ra
  <2>5. /\ M1 \in Raw /\ M1.seq = M.seq /\ M1.size = M.size
        /\ DOMAIN M1.ev = DOMAIN M.ev \cup {a} /\ M1.ev[a] = ra
        /\ \A y \in DOMAIN M.ev : y # a => M1.ev[y] = M.ev[y]
    BY <2>3, <2>4, AllocateMakes
  <2> HIDE DEF M1
  <2>6. \A y \in DOMAIN M.ev : M1.ev[y] = M.ev[y]
    BY <2>4, <2>5
  <2>7. /\ Edited(M, N) /\ DOMAIN M.ev \subseteq DOMAIN N.ev /\ \A y \in DOMAIN M.ev : N.ev[y] = M.ev[y]
        /\ (Whole(M) => Whole(N)) /\ (Strict(M) /\ M1.ev[a].op # "off" => Strict(N))
    BY <2>1, <2>3, <2>4, <2>5, <2>6, MixLone
  <2>8. Strict(L) => M1.ev[a].op # "off"
    BY <2>3, <2>5, <1>2 DEF Strict
  <2> QED BY <2>7, <2>8
<1>3. CASE x \in Selected(L) /\ L.ev[x].link # None
  <2>1. N = Mix(M3, a)
    BY <1>3 DEF CopiedInto
  <2>2. PICK y : y = L.ev[x].link
    OBVIOUS
  <2>3. Halves(L, x, y) /\ y \in Listed(L)
    BY <2>2, <1>3, GoodIs DEF Halves
  <2>4. L.ev[x] \in Event /\ L.ev[y] \in Event
    BY <2>3, GoodIs
  <2>5. /\ ra \in Loose /\ ra.op = L.ev[x].op /\ ra.note = L.ev[x].note /\ ra.ts = L.ev[x].ts - offset /\ ra.ts \in Nat
        /\ ra.sel = L.ev[x].sel /\ ra.sel \in Nat
    BY <2>4, HalfCopiedIs
  <2>6. /\ rb \in Loose /\ rb.op = L.ev[y].op /\ rb.note = L.ev[y].note /\ rb.ts = L.ev[y].ts - offset /\ rb.ts \in Nat
        /\ rb.sel = L.ev[y].sel /\ rb.sel \in Nat
    BY <2>2, <2>3, <2>4, HalfCopiedIs
  <2>7. a \in Addr /\ a \notin DOMAIN M.ev /\ M \in Raw
    BY FreshIs, GoodIs
  <2> HIDE DEF a, ra, rb
  <2>8. /\ M1 \in Raw /\ M1.seq = M.seq /\ M1.size = M.size
        /\ DOMAIN M1.ev = DOMAIN M.ev \cup {a} /\ M1.ev[a] = ra
        /\ \A z \in DOMAIN M.ev : z # a => M1.ev[z] = M.ev[z]
    BY <2>5, <2>7, AllocateMakes
  <2> HIDE DEF M1
  <2>9. b \in Addr /\ b \notin DOMAIN M1.ev
    BY <2>8, FreshIs
  <2> HIDE DEF b
  <2>10. /\ M2 \in Raw /\ M2.seq = M1.seq /\ M2.size = M1.size
         /\ DOMAIN M2.ev = DOMAIN M1.ev \cup {b} /\ M2.ev[b] = rb
         /\ \A z \in DOMAIN M1.ev : z # b => M2.ev[z] = M1.ev[z]
    BY <2>6, <2>8, <2>9, AllocateMakes
  <2> HIDE DEF M2
  <2>11. a \in DOMAIN M2.ev /\ b \in DOMAIN M2.ev /\ a # b /\ b \notin DOMAIN M.ev
    BY <2>8, <2>9, <2>10
  <2>12. /\ M3 \in Raw /\ M3.seq = M2.seq /\ M3.size = M2.size
         /\ DOMAIN M3.ev = DOMAIN M2.ev
         /\ \A z \in DOMAIN M2.ev : Alike(M3.ev[z], M2.ev[z])
         /\ M3.ev[a].link = b /\ M3.ev[b].link = a
         /\ \A z \in DOMAIN M2.ev : z \notin {a, b} => M3.ev[z] = M2.ev[z]
    BY <2>10, <2>11, CoupleLinks
  <2> HIDE DEF M3
  <2>13. /\ M3.seq = M.seq /\ M3.size = M.size /\ DOMAIN M3.ev = DOMAIN M.ev \cup {a, b}
         /\ \A z \in DOMAIN M.ev : M3.ev[z] = M.ev[z]
    BY <2>7, <2>8, <2>9, <2>10, <2>11, <2>12
  <2>14. Alike(M3.ev[a], ra) /\ Alike(M3.ev[b], rb)
    BY <2>8, <2>9, <2>10, <2>11, <2>12
  <2>15. /\ M3.ev[a].note = M3.ev[b].note
         /\ \/ M3.ev[a].op = "on" /\ M3.ev[b].op = "off"
            \/ M3.ev[a].op = "off" /\ M3.ev[b].op = "on"
         /\ M3.ev[a].ts \in Nat /\ M3.ev[a].sel \in Nat /\ M3.ev[b].ts \in Nat /\ M3.ev[b].sel \in Nat
    BY <2>3, <2>5, <2>6, <2>14 DEF Alike, Halves
  <2>16. /\ Edited(M, N) /\ DOMAIN M.ev \subseteq DOMAIN N.ev /\ \A z \in DOMAIN M.ev : N.ev[z] = M.ev[z]
         /\ (Whole(M) /\ M3.ev[a].sel = M3.ev[b].sel => Whole(N))
         /\ (Strict(M) /\ (M3.ev[a].op = "on" => M3.ev[a].ts < M3.ev[b].ts)
                       /\ (M3.ev[b].op = "on" => M3.ev[b].ts < M3.ev[a].ts) => Strict(N))
    <3>1. /\ a # b /\ a \notin DOMAIN M.ev /\ b \notin DOMAIN M.ev /\ M3 \in Raw
          /\ M3.ev[a].link = b /\ M3.ev[b].link = a
      BY <2>7, <2>11, <2>12
    <3>2. PICK Q : Q = M3
      OBVIOUS
    <3>3. /\ Q \in Raw /\ Q.seq = M.seq /\ Q.size = M.size /\ DOMAIN Q.ev = DOMAIN M.ev \cup {a, b}
          /\ \A z \in DOMAIN M.ev : Q.ev[z] = M.ev[z]
      BY <3>1, <3>2, <2>13
    <3>4. /\ Q.ev[a].link = b /\ Q.ev[b].link = a /\ Q.ev[a].note = Q.ev[b].note
          /\ \/ Q.ev[a].op = "on" /\ Q.ev[b].op = "off"
             \/ Q.ev[a].op = "off" /\ Q.ev[b].op = "on"
          /\ Q.ev[a].ts \in Nat /\ Q.ev[a].sel \in Nat /\ Q.ev[b].ts \in Nat /\ Q.ev[b].sel \in Nat
      BY <3>1, <3>2, <2>15
    <3>5. N = Mix(Q, a)
      BY <3>2, <2>1
    <3>6. NewNote(M, Q, a, b)
      BY <3>1, <3>3, <3>4 DEF NewNote
    <3>7. /\ Edited(M, N) /\ DOMAIN M.ev \subseteq DOMAIN N.ev /\ \A z \in DOMAIN M.ev : N.ev[z] = M.ev[z]
          /\ (Whole(M) /\ Q.ev[a].sel = Q.ev[b].sel => Whole(N))
          /\ (Strict(M) /\ NoteStrict(Q, a, b) => Strict(N))
      BY <3>5, <3>6, MixNote
    <3> QED BY <3>2, <3>7 DEF NoteStrict
  <2>17. Whole(L) => M3.ev[a].sel = M3.ev[b].sel
    BY <2>2, <2>5, <2>6, <2>14, <1>3 DEF Whole, Alike
  <2>18. ASSUME Strict(L)
         PROVE  /\ M3.ev[a].op = "on" => M3.ev[a].ts < M3.ev[b].ts
                /\ M3.ev[b].op = "on" => M3.ev[b].ts < M3.ev[a].ts
    <3>1. L.ev[x].ts \in Nat /\ L.ev[y].ts \in Nat
      BY <2>4 DEF Event
    <3>2. L.ev[x].op = "on" => L.ev[x].ts < L.ev[y].ts
      BY <2>2, <2>18 DEF Strict, Ons
    <3>3. L.ev[y].op = "on" => L.ev[y].ts < L.ev[x].ts
      BY <2>3, <2>18 DEF Strict, Ons, Halves
    <3> QED BY <3>1, <3>2, <3>3, <2>5, <2>6, <2>14 DEF Alike
  <2> QED BY <2>16, <2>17, <2>18
<1> QED BY <1>1, <1>2, <1>3

(* copy_selected() *)
LEMMA CopyIntoGives ==
  ASSUME NEW L, Good(L), NEW C, Good(C), L.seq # <<>>, NEW N, N = CopyInto(C, L)
  PROVE  /\ Edited(C, N) /\ \A y \in DOMAIN C.ev : y \in DOMAIN N.ev /\ N.ev[y] = C.ev[y]
         /\ (Whole(L) /\ Whole(C) => Whole(N)) /\ (Strict(L) /\ Strict(C) => Strict(N))
<1> DEFINE n == Len(L.seq)
           s == L.seq
           offset == L.ev[L.seq[1]].ts
           Step(M, x) == CopiedInto(M, x, L, offset)
           V == {M \in Raw : /\ Edited(C, M) /\ \A y \in DOMAIN C.ev : y \in DOMAIN M.ev /\ M.ev[y] = C.ev[y]
                             /\ (Whole(L) /\ Whole(C) => Whole(M)) /\ (Strict(L) /\ Strict(C) => Strict(M))}
           H == [p \in V \X (1..n) |-> Step(p[1], s[p[2]])]
           W == [k \in 0..n |-> V]
           Folds(f) == f = [t \in SUBSET DOMAIN s |->
                              IF t = {} THEN C ELSE Step(f[t \ {Max(t)}], s[Max(t)])]
<1>1. N = (CHOOSE f : Folds(f))[DOMAIN s]
  BY Zenon DEF CopyInto, FoldLeft, MapThenFoldSet, CopiedInto, HalfCopied
<1>2. /\ DOMAIN s = 1..n /\ n \in Nat /\ \A k \in 1..n : s[k] \in Listed(L)
      /\ Ordered(L) /\ \A x \in Listed(L) : L.ev[x].ts \in Nat
  BY GoodIs
<1>3. offset \in Nat /\ \A y \in Listed(L) : offset <= L.ev[y].ts
  <2>1. 1 \in 1..n
    <3>1. n # 0
      BY GoodIs, RawIs
    <3> QED BY <3>1, <1>2
  <2>2. L.seq[1] \in Listed(L)
    BY <2>1, <1>2
  <2>3. ASSUME NEW y \in Listed(L)
        PROVE  offset <= L.ev[y].ts
    <3>1. PICK k \in 1..n : L.seq[k] = y
      BY <1>2 DEF Listed
    <3>2. CASE k = 1
      BY <3>1, <3>2, <1>2
    <3>3. CASE k # 1
      <4>1. Before(L.seq, L.seq[1], y)
        BY <3>1, <3>3, <2>1, <1>2 DEF Before
      <4> QED BY <4>1, <2>2, <1>2 DEF Ordered
    <3> QED BY <3>2, <3>3
  <2> QED BY <2>2, <2>3, <1>2
<1>4. \A k \in 0..n : W[k] = V
  OBVIOUS
<1>5. \A k \in 1..n : \A m \in V : H[<<m, k>>] = Step(m, s[k])
  <2> HIDE DEF Step, V
  <2> QED OBVIOUS
<1> HIDE DEF offset, s
<1>6. ASSUME NEW M \in V, NEW k \in 1..n
      PROVE  Step(M, s[k]) \in V
  <2>1. PICK U : U = Step(M, s[k])
    OBVIOUS
  <2>2. Good(M) /\ Edited(C, M) /\ s[k] \in Listed(L)
    BY <1>2 DEF Edited
  <2>3. /\ Edited(M, U) /\ DOMAIN M.ev \subseteq DOMAIN U.ev /\ \A y \in DOMAIN M.ev : U.ev[y] = M.ev[y]
        /\ (Whole(L) /\ Whole(M) => Whole(U)) /\ (Strict(L) /\ Strict(M) => Strict(U))
    BY <2>1, <2>2, <1>3, CopiedIntoGives
  <2>4. Edited(C, U) /\ U \in Raw
    BY <2>2, <2>3, EditedOn, GoodIs DEF Edited
  <2>5. U \in V
    BY <2>3, <2>4
  <2> QED BY <2>1, <2>5
<1>7. C \in V
  BY GoodIs DEF Edited, Aside
<1>8. \A k \in 1..n : k - 1 \in 0..n /\ k \in 0..n
  BY <1>2
<1> HIDE DEF H, W, V, Step
<1>9. \A k \in 1..n : \A m \in W[k - 1] : H[<<m, k>>] = Step(m, s[k])
  BY <1>4, <1>5, <1>8
<1>10. Staged(n, W, H, C)
  <2>1. ASSUME NEW k \in 1..n
        PROVE  W[k - 1] \subseteq W[k] /\ \A m \in W[k - 1] : H[<<m, k>>] \in W[k]
    BY <1>4, <1>5, <1>6, <1>8
  <2>2. 0 \in 0..n
    BY <1>2
  <2> QED BY <2>1, <2>2, <1>4, <1>7 DEF Staged
<1>11. PICK g : g = (CHOOSE f : Folds(f))
  OBVIOUS
<1>12. Leads(g, n, C, W, H)
  <2> SUFFICES ASSUME NEW f, Makes(f, n, C, W, H)
               PROVE  Follows(g, n, C, W, H)
    BY DEF Leads
  <2>1. ASSUME NEW t \in SUBSET (1..n)
        PROVE  f[t] = IF t = {} THEN C ELSE Step(f[t \ {Max(t)}], s[Max(t)])
    <3>1. CASE t = {}
      BY <3>1 DEF Makes
    <3>2. CASE t # {}
      <4>1. /\ Max(t) \in 1..n /\ f[t \ {Max(t)}] \in W[Max(t) - 1]
            /\ f[t] = H[<<f[t \ {Max(t)}], Max(t)>>]
        BY <3>2 DEF Makes
      <4> QED BY <3>2, <4>1, <1>9
    <3> QED BY <3>1, <3>2
  <2>2. Folds(f)
    BY <2>1, <1>2 DEF Makes
  <2>3. Folds(g)
    <3> HIDE DEF Folds
    <3> QED BY <2>2, <1>11
  <2>4. g = [t \in SUBSET (1..n) |-> IF t = {} THEN C ELSE Step(g[t \ {Max(t)}], s[Max(t)])]
    BY <2>3, <1>2
  <2>5. g[{}] = C /\ \A t \in SUBSET (1..n) : t # {} => g[t] = Step(g[t \ {Max(t)}], s[Max(t)])
    BY <2>4
  <2>6. ASSUME NEW t \in SUBSET (1..n), t # {}, NEW k \in 1..n, k = Max(t), g[t \ {k}] \in W[k - 1]
        PROVE  g[t] = H[<<g[t \ {k}], k>>]
    BY <2>5, <2>6, <1>9
  <2> QED BY <2>5, <2>6 DEF Follows
<1> HIDE DEF Folds
<1>13. PICK M : /\ M[0] = C /\ g[1..n] = M[n]
                /\ \A k \in 0..n : M[k] \in W[k]
                /\ \A k \in 1..n : M[k] = H[<<M[k - 1], k>>]
  BY <1>2, <1>10, <1>12, FoldGives
<1>14. N \in V
  <2>1. N = M[n] /\ n \in 0..n
    BY <1>1, <1>2, <1>11, <1>13
  <2> QED BY <2>1, <1>4, <1>13
<1> QED BY <1>14 DEF V

-----------------------------------------------------------------------------
(* Appending                                                                   *)

(* a new event r at the end *)
AppendOne(M, r, d) ==
  LET a == FreshEvent(M)
  IN [Allocate(M, a, r) EXCEPT !.seq = Append(@, a), !.size = @ + d]

(* the others stay, the new one is the last *)
LEMMA AppendOneGives ==
  ASSUME NEW M \in Raw, NEW r \in Loose, NEW d \in Int, NEW U, U = AppendOne(M, r, d)
  PROVE  /\ U \in Raw /\ Len(U.seq) = Len(M.seq) + 1 /\ \A j \in 1..Len(M.seq) : U.seq[j] = M.seq[j]
         /\ U.size = M.size + d
         /\ \E a \in Addr : /\ a \notin DOMAIN M.ev /\ U.seq[Len(M.seq) + 1] = a
                            /\ DOMAIN U.ev = DOMAIN M.ev \cup {a} /\ U.ev[a] = r
                            /\ \A y \in DOMAIN M.ev : U.ev[y] = M.ev[y]
<1>1. PICK a : a = FreshEvent(M)
  OBVIOUS
<1>2. a \in Addr /\ a \notin DOMAIN M.ev
  BY <1>1, FreshIs
<1>3. PICK A : A = Allocate(M, a, r)
  OBVIOUS
<1>4. /\ A \in Raw /\ A.seq = M.seq /\ A.size = M.size
      /\ DOMAIN A.ev = DOMAIN M.ev \cup {a} /\ A.ev[a] = r
      /\ \A y \in DOMAIN M.ev : y # a => A.ev[y] = M.ev[y]
  BY <1>2, <1>3, AllocateMakes
<1>5. A.ev \in Memory /\ A.seq \in Seq(Addr) /\ A.size \in Int /\ Len(A.seq) \in Nat
  BY <1>4, RawIs
<1>6. U = [A EXCEPT !.seq = Append(A.seq, a), !.size = A.size + d]
  BY <1>1, <1>3 DEF AppendOne
<1>7. U = [ev |-> A.ev, seq |-> Append(A.seq, a), size |-> A.size + d]
  BY <1>4, <1>6 DEF Raw
<1>8. PICK t : t = Append(A.seq, a)
  OBVIOUS
<1>9. /\ t \in Seq(Addr) /\ Len(t) = Len(A.seq) + 1 /\ \A j \in 1..Len(A.seq) : t[j] = A.seq[j]
      /\ t[Len(A.seq) + 1] = a
  BY <1>2, <1>5, <1>8
<1>10. U.ev = A.ev /\ U.seq = t /\ U.size = A.size + d
  BY <1>7, <1>8
<1>11. U \in Raw
  BY <1>5, <1>7, <1>8, <1>9 DEF Raw
<1> QED BY <1>2, <1>4, <1>9, <1>10, <1>11

(* appending the events r[1], ..., r[n] as a fold *)
AppendTo(L) == {M \in Raw : \A x \in DOMAIN L.ev : x \in DOMAIN M.ev /\ M.ev[x] = L.ev[x]}

(* the lists it goes through and its step *)
AppendStages(L, n) == [k \in 0..n |-> AppendTo(L)]
AppendStep(L, n, r, d) == [p \in AppendTo(L) \X (1..n) |-> AppendOne(p[1], r[p[2]], d)]

(* they are the results and the step of a fold *)
LEMMA AppendStepIs ==
  ASSUME NEW L \in Raw, NEW n \in Nat, NEW r, \A k \in 1..n : r[k] \in Loose, NEW d \in Int
  PROVE  /\ Staged(n, AppendStages(L, n), AppendStep(L, n, r, d), L)
         /\ \A k \in 0..n : AppendStages(L, n)[k] = AppendTo(L)
         /\ \A k \in 1..n : k - 1 \in 0..n /\ AppendStages(L, n)[k - 1] = AppendTo(L)
         /\ \A k \in 1..n : \A M \in AppendTo(L) : AppendStep(L, n, r, d)[<<M, k>>] = AppendOne(M, r[k], d)
<1>1. \A k \in 0..n : AppendStages(L, n)[k] = AppendTo(L)
  BY DEF AppendStages
<1>2. \A k \in 1..n : k - 1 \in 0..n /\ k \in 0..n
  OBVIOUS
<1>3. \A k \in 1..n : \A M \in AppendTo(L) : AppendStep(L, n, r, d)[<<M, k>>] = AppendOne(M, r[k], d)
  BY DEF AppendStep
<1>4. L \in AppendTo(L)
  BY DEF AppendTo
<1>5. ASSUME NEW k \in 1..n, NEW M \in AppendTo(L)
      PROVE  AppendOne(M, r[k], d) \in AppendTo(L)
  <2>1. PICK U : U = AppendOne(M, r[k], d)
    OBVIOUS
  <2>2. M \in Raw /\ \A x \in DOMAIN L.ev : x \in DOMAIN M.ev /\ M.ev[x] = L.ev[x]
    BY DEF AppendTo
  <2>3. r[k] \in Loose
    OBVIOUS
  <2>4. /\ U \in Raw
        /\ \E a \in Addr : /\ DOMAIN U.ev = DOMAIN M.ev \cup {a}
                           /\ \A y \in DOMAIN M.ev : U.ev[y] = M.ev[y]
    BY <2>1, <2>2, <2>3, AppendOneGives
  <2>5. U \in AppendTo(L)
    BY <2>2, <2>4 DEF AppendTo
  <2> QED BY <2>1, <2>5
<1>6. 0 \in 0..n
  OBVIOUS
<1>7. Staged(n, AppendStages(L, n), AppendStep(L, n, r, d), L)
  BY <1>1, <1>2, <1>3, <1>4, <1>5, <1>6 DEF Staged
<1> QED BY <1>1, <1>2, <1>3, <1>7

(* M is L with the first k events of r appended *)
Appends(L, r, k, M) ==
  /\ M \in Raw /\ Len(M.seq) = k
  /\ \A x \in DOMAIN L.ev : x \in DOMAIN M.ev /\ M.ev[x] = L.ev[x]
  /\ \A j \in 1..k : M.seq[j] \in DOMAIN M.ev /\ M.seq[j] \notin DOMAIN L.ev /\ M.ev[M.seq[j]] = r[j]
  /\ \A i, j \in 1..k : M.seq[i] = M.seq[j] => i = j

(* The fold appends all events. *)
LEMMA AppendEnds ==
  ASSUME NEW L \in Raw, L.seq = <<>>, NEW n \in Nat, NEW r, \A k \in 1..n : r[k] \in Loose, NEW d \in Int,
         NEW g, Leads(g, n, L, AppendStages(L, n), AppendStep(L, n, r, d))
  PROVE  /\ Appends(L, r, n, g[1..n])
         /\ d = 1 => g[1..n].size = L.size + n
<1> DEFINE W == AppendStages(L, n)
           H == AppendStep(L, n, r, d)
<1>1. /\ Staged(n, W, H, L) /\ \A k \in 0..n : W[k] = AppendTo(L)
      /\ \A k \in 1..n : k - 1 \in 0..n
      /\ \A k \in 1..n : \A M \in AppendTo(L) : H[<<M, k>>] = AppendOne(M, r[k], d)
  BY AppendStepIs
<1> HIDE DEF W, H
<1>2. PICK M : /\ M[0] = L /\ g[1..n] = M[n]
               /\ \A k \in 0..n : M[k] \in W[k]
               /\ \A k \in 1..n : M[k] = H[<<M[k - 1], k>>]
  BY <1>1, FoldGives DEF W, H
<1> DEFINE Done(k) == Appends(L, r, k, M[k]) /\ (d = 1 => M[k].size = L.size + k)
           S == {k \in 0..n : Done(k)}
<1>3. 0 \in S
  <2>1. L.size \in Int /\ Len(L.seq) = 0 /\ 1..0 = {} /\ 0 \in 0..n
    BY RawIs
  <2>2. L.size = L.size + 0
    BY <2>1
  <2>3. Appends(L, r, 0, L)
    BY <2>1 DEF Appends
  <2> QED BY <2>1, <2>2, <2>3, <1>2
<1>4. ASSUME NEW k \in 1..n, k - 1 \in S
      PROVE  k \in S
  <2>1. PICK P : P = M[k - 1]
    OBVIOUS
  <2>2. PICK U : U = M[k]
    OBVIOUS
  <2>3. /\ P \in Raw /\ Len(P.seq) = k - 1
        /\ \A x \in DOMAIN L.ev : x \in DOMAIN P.ev /\ P.ev[x] = L.ev[x]
        /\ \A j \in 1..k - 1 : P.seq[j] \in DOMAIN P.ev /\ P.seq[j] \notin DOMAIN L.ev /\ P.ev[P.seq[j]] = r[j]
        /\ \A i, j \in 1..k - 1 : P.seq[i] = P.seq[j] => i = j
    BY <2>1, <1>4 DEF Appends
  <2>4. U = AppendOne(P, r[k], d) /\ r[k] \in Loose
    <3>1. k - 1 \in 0..n /\ M[k - 1] \in AppendTo(L)
      BY <1>1, <1>2
    <3> QED BY <3>1, <2>1, <2>2, <1>1, <1>2
  <2>5. /\ U \in Raw /\ Len(U.seq) = Len(P.seq) + 1 /\ \A j \in 1..Len(P.seq) : U.seq[j] = P.seq[j]
        /\ U.size = P.size + d
        /\ \E a \in Addr : /\ a \notin DOMAIN P.ev /\ U.seq[Len(P.seq) + 1] = a
                           /\ DOMAIN U.ev = DOMAIN P.ev \cup {a} /\ U.ev[a] = r[k]
                           /\ \A y \in DOMAIN P.ev : U.ev[y] = P.ev[y]
    BY <2>3, <2>4, AppendOneGives
  <2>6. PICK a \in Addr : /\ a \notin DOMAIN P.ev /\ U.seq[Len(P.seq) + 1] = a
                          /\ DOMAIN U.ev = DOMAIN P.ev \cup {a} /\ U.ev[a] = r[k]
                          /\ \A y \in DOMAIN P.ev : U.ev[y] = P.ev[y]
    BY <2>5
  <2>7. Len(U.seq) = k /\ U.seq[k] = a /\ \A j \in 1..k - 1 : U.seq[j] = P.seq[j]
    <3>1. k \in Int /\ (k - 1) + 1 = k
      OBVIOUS
    <3> QED BY <3>1, <2>3, <2>5, <2>6
  <2>8. \A x \in DOMAIN L.ev : x \in DOMAIN U.ev /\ U.ev[x] = L.ev[x]
    BY <2>3, <2>6
  <2>9. ASSUME NEW j \in 1..k
        PROVE  U.seq[j] \in DOMAIN U.ev /\ U.seq[j] \notin DOMAIN L.ev /\ U.ev[U.seq[j]] = r[j]
    <3>1. CASE j = k
      BY <3>1, <2>3, <2>6, <2>7
    <3>2. CASE j # k
      <4>1. j \in 1..k - 1
        BY <3>2
      <4> QED BY <4>1, <2>3, <2>6, <2>7
    <3> QED BY <3>1, <3>2
  <2>10. ASSUME NEW i \in 1..k, NEW j \in 1..k, U.seq[i] = U.seq[j]
         PROVE  i = j
    <3>1. \A m \in 1..k : m # k => m \in 1..k - 1 /\ U.seq[m] \in DOMAIN P.ev
      <4>1. \A m \in 1..k : m # k => m \in 1..k - 1
        OBVIOUS
      <4> QED BY <4>1, <2>3, <2>7
    <3>2. CASE i = k \/ j = k
      BY <3>1, <3>2, <2>6, <2>7, <2>10
    <3>3. CASE i # k /\ j # k
      BY <3>1, <3>3, <2>3, <2>7, <2>10
    <3> QED BY <3>2, <3>3
  <2>11. Appends(L, r, k, U)
    BY <2>5, <2>7, <2>8, <2>9, <2>10 DEF Appends
  <2>12. d = 1 => U.size = L.size + k
    <3>1. L.size \in Int
      BY RawIs
    <3>2. d = 1 => P.size = L.size + (k - 1)
      BY <2>1, <1>4
    <3> QED BY <3>1, <3>2, <2>5
  <2>13. k \in 0..n
    OBVIOUS
  <2> QED BY <2>2, <2>11, <2>12, <2>13
<1>5. Done(n)
  <2>1. n \in S
    <3> HIDE DEF S
    <3>1. \A k \in 0..n : k \in S
      BY <1>3, <1>4, Climb
    <3> QED BY <3>1
  <2> QED BY <2>1
<1> QED BY <1>2, <1>5

(* the list of new events is one that can be linked *)
LEMMA AppendsListable ==
  ASSUME NEW L \in Raw, NEW n \in Nat, NEW r, \A k \in 1..n : r[k] \in Loose,
         \A j, k \in 1..n : j < k => r[j].ts <= r[k].ts, NEW M, Appends(L, r, n, M)
  PROVE  /\ Listable(M) /\ Ordered(M) /\ Listed(M) = {M.seq[j] : j \in 1..n}
         /\ \A x \in DOMAIN L.ev : x \notin Listed(M)
<1>1. /\ M \in Raw /\ Len(M.seq) = n /\ DOMAIN M.seq = 1..n
      /\ \A j \in 1..n : M.seq[j] \in DOMAIN M.ev /\ M.seq[j] \notin DOMAIN L.ev /\ M.ev[M.seq[j]] = r[j]
      /\ \A i, j \in 1..n : M.seq[i] = M.seq[j] => i = j
  BY RawIs DEF Appends
<1>2. Listable(M)
  BY <1>1 DEF Listable, Listed, IsInjective
<1>3. Ordered(M)
  BY <1>1 DEF Ordered, Before, Listed
<1>4. Listed(M) = {M.seq[j] : j \in 1..n}
  BY <1>1 DEF Listed
<1> QED BY <1>1, <1>2, <1>3, <1>4

(* what operator= does with a take before it links *)
AppendTake(L, take) ==
  LET Appended(M, r) ==
        LET a == FreshEvent(M)
        IN [Allocate(M, a, r) EXCEPT !.seq = Append(@, a), !.size = @ + 1]
  IN FoldLeft(Appended, L, take)

(* it appends the events of the take *)
LEMMA AppendTakeEnds ==
  ASSUME NEW L \in Raw, L.seq = <<>>, NEW take \in Seq(Loose), NEW N, N = AppendTake(L, take)
  PROVE  Appends(L, take, Len(take), N) /\ N.size = L.size + Len(take)
<1> DEFINE n == Len(take)
           Step(M, x) == AppendOne(M, x, 1)
           W == AppendStages(L, n)
           H == AppendStep(L, n, take, 1)
           Folds(f) == f = [t \in SUBSET DOMAIN take |->
                              IF t = {} THEN L ELSE Step(f[t \ {Max(t)}], take[Max(t)])]
<1>1. N = (CHOOSE f : Folds(f))[DOMAIN take]
  BY Zenon DEF AppendTake, FoldLeft, MapThenFoldSet, AppendOne
<1>2. DOMAIN take = 1..n /\ n \in Nat /\ \A k \in 1..n : take[k] \in Loose
  OBVIOUS
<1>3. /\ \A k \in 1..n : k - 1 \in 0..n /\ W[k - 1] = AppendTo(L)
      /\ \A k \in 1..n : \A M \in AppendTo(L) : H[<<M, k>>] = Step(M, take[k])
  BY <1>2, AppendStepIs
<1> HIDE DEF n, Step, W, H
<1>4. PICK g : g = (CHOOSE f : Folds(f))
  OBVIOUS
<1>5. Leads(g, n, L, W, H)
  <2> SUFFICES ASSUME NEW f, Makes(f, n, L, W, H)
               PROVE  Follows(g, n, L, W, H)
    BY DEF Leads
  <2>1. ASSUME NEW t \in SUBSET (1..n)
        PROVE  f[t] = IF t = {} THEN L ELSE Step(f[t \ {Max(t)}], take[Max(t)])
    <3>1. CASE t = {}
      BY <3>1 DEF Makes
    <3>2. CASE t # {}
      <4>1. /\ Max(t) \in 1..n /\ f[t \ {Max(t)}] \in W[Max(t) - 1]
            /\ f[t] = H[<<f[t \ {Max(t)}], Max(t)>>]
        BY <3>2 DEF Makes
      <4> QED BY <3>2, <4>1, <1>3
    <3> QED BY <3>1, <3>2
  <2>2. Folds(f)
    BY <2>1, <1>2 DEF Makes
  <2>3. Folds(g)
    <3> HIDE DEF Folds
    <3> QED BY <2>2, <1>4
  <2>4. g = [t \in SUBSET (1..n) |-> IF t = {} THEN L ELSE Step(g[t \ {Max(t)}], take[Max(t)])]
    BY <2>3, <1>2
  <2>5. g[{}] = L /\ \A t \in SUBSET (1..n) : t # {} => g[t] = Step(g[t \ {Max(t)}], take[Max(t)])
    BY <2>4
  <2>6. ASSUME NEW t \in SUBSET (1..n), t # {}, NEW k \in 1..n, k = Max(t), g[t \ {k}] \in W[k - 1]
        PROVE  g[t] = H[<<g[t \ {k}], k>>]
    BY <2>5, <2>6, <1>3
  <2> QED BY <2>5, <2>6 DEF Follows
<1>6. N = g[1..n]
  BY <1>1, <1>2, <1>4
<1> QED BY <1>2, <1>5, <1>6, AppendEnds DEF n, W, H

(* operator= from a take *)
LEMMA LoadGives ==
  ASSUME NEW L \in Raw, L.seq = <<>>, L.size = 0, NEW take \in Takes, NEW N, N = Relink(AppendTake(L, take))
  PROVE  /\ Good(N) /\ Excess(N) = 0 /\ Whole(N)
         /\ \A x \in DOMAIN L.ev : x \in DOMAIN N.ev /\ x \notin Listed(N) /\ N.ev[x] = L.ev[x]
<1> DEFINE n == Len(take)
<1>1. /\ take \in Seq(Event) /\ \A k \in DOMAIN take : take[k].sel = 0
      /\ \A j, k \in DOMAIN take : j < k => take[j].ts <= take[k].ts
  BY EventListAssumption
<1>2. n \in Nat /\ DOMAIN take = 1..n /\ \A k \in 1..n : take[k] \in Event
  BY <1>1
<1>3. \A e \in Event : e \in Loose
  BY DEF Event, Loose
<1>4. take \in Seq(Loose) /\ \A k \in 1..n : take[k] \in Loose
  BY <1>1, <1>2, <1>3
<1>5. PICK M : M = AppendTake(L, take)
  OBVIOUS
<1>6. Appends(L, take, n, M) /\ M.size = n
  <2>1. M.size = L.size + n
    BY <1>4, <1>5, AppendTakeEnds
  <2> QED BY <2>1, <1>2, <1>4, <1>5, AppendTakeEnds
<1>7. /\ Listable(M) /\ Ordered(M) /\ Listed(M) = {M.seq[j] : j \in 1..n}
      /\ \A x \in DOMAIN L.ev : x \notin Listed(M)
  <2>1. \A j, k \in 1..n : j < k => take[j].ts <= take[k].ts
    BY <1>1, <1>2
  <2> QED BY <2>1, <1>2, <1>4, <1>6, AppendsListable
<1>8. \A x \in Listed(M) : M.ev[x].ts \in Nat /\ M.ev[x].sel = 0
  <2> SUFFICES ASSUME NEW j \in 1..n
               PROVE  M.ev[M.seq[j]].ts \in Nat /\ M.ev[M.seq[j]].sel = 0
    BY <1>7
  <2>1. M.ev[M.seq[j]] = take[j]
    BY <1>6 DEF Appends
  <2> QED BY <2>1, <1>1, <1>2 DEF Event
<1>9. Excess(M) = 0
  BY <1>2, <1>6 DEF Excess, Appends
<1>10. Good(N)
  BY <1>5, <1>7, <1>8, RelinkGood
<1>11. /\ Excess(N) = 0 /\ Aside(M, N)
       /\ \A x \in Listed(M) : Alike(N.ev[x], M.ev[x])
       /\ \A x \in Listed(N) : x \notin Listed(M) => \E a \in Ons(M) : N.ev[x].sel = M.ev[a].sel
  BY <1>5, <1>7, <1>9, Relinked
<1>12. \A x \in Listed(N) : N.ev[x].sel = 0
  BY <1>8, <1>11 DEF Alike, Ons
<1>13. Whole(N)
  <2>1. \A x \in Listed(N) : N.ev[x].link # None => N.ev[x].link \in Listed(N)
    BY <1>10, GoodIs DEF Halves
  <2> QED BY <2>1, <1>12 DEF Whole
<1>14. ASSUME NEW x \in DOMAIN L.ev
       PROVE  x \in DOMAIN N.ev /\ x \notin Listed(N) /\ N.ev[x] = L.ev[x]
  <2>1. x \in DOMAIN M.ev /\ M.ev[x] = L.ev[x] /\ x \notin Listed(M)
    BY <1>6, <1>7 DEF Appends
  <2> QED BY <2>1, <1>11 DEF Aside
<1> QED BY <1>10, <1>11, <1>13, <1>14

-----------------------------------------------------------------------------
(* The order of linking                                                        *)

(* what goes one-to-one into a finite set is no larger *)
LEMMA NotLarger ==
  ASSUME NEW S, NEW T, IsFiniteSet(T), NEW f, \A x \in S : f[x] \in T,
         \A x, y \in S : f[x] = f[y] => x = y
  PROVE  IsFiniteSet(S) /\ Cardinality(S) <= Cardinality(T) /\ Cardinality(S) \in Nat /\ Cardinality(T) \in Nat
<1> DEFINE g == [x \in S |-> f[x]]
<1>1. g \in Injection(S, T)
  BY DEF Injection, IsInjective
<1> HIDE DEF g
<1>2. IsFiniteSet(S) /\ Cardinality(S) <= Cardinality(T)
  BY <1>1, FS_Injection
<1> QED BY <1>2, FS_CardinalityType

(* the events of a list are finitely many, and in line *)
LEMMA InLine ==
  ASSUME NEW L, Listable(L)
  PROVE  /\ \A X : X \subseteq Listed(L) => IsFiniteSet(X) /\ Cardinality(X) \in Nat
         /\ \A x, y, z : Before(L.seq, x, y) /\ Before(L.seq, y, z) => Before(L.seq, x, z)
         /\ \A x, y : Before(L.seq, x, y) => x \in Listed(L) /\ y \in Listed(L) /\ ~Before(L.seq, y, x) /\ x # y
         /\ \A x, y \in Listed(L) : x = y \/ Before(L.seq, x, y) \/ Before(L.seq, y, x)
<1>1. /\ L \in Raw /\ IsInjective(L.seq) /\ DOMAIN L.seq = 1..Len(L.seq) /\ Len(L.seq) \in Nat
      /\ \A j \in DOMAIN L.seq : L.seq[j] \in Listed(L)
      /\ \A j, k \in DOMAIN L.seq : L.seq[j] = L.seq[k] => j = k
  BY ListableIs
<1>2. IsFiniteSet(Listed(L))
  <2>1. L.ev \in Memory /\ IsFiniteSet(DOMAIN L.ev) /\ Listed(L) \subseteq DOMAIN L.ev
    BY RawIs DEF Listable
  <2> QED BY <2>1, FS_Subset
<1>3. ASSUME NEW X, X \subseteq Listed(L)
      PROVE  IsFiniteSet(X) /\ Cardinality(X) \in Nat
  <2>1. IsFiniteSet(X)
    BY <1>2, <1>3, FS_Subset
  <2> QED BY <2>1, FS_CardinalityType
<1>4. ASSUME NEW x, NEW y, NEW z, Before(L.seq, x, y), Before(L.seq, y, z)
      PROVE  Before(L.seq, x, z)
  <2>1. PICK i \in DOMAIN L.seq, j \in DOMAIN L.seq : i < j /\ L.seq[i] = x /\ L.seq[j] = y
    BY <1>4 DEF Before
  <2>2. PICK k \in DOMAIN L.seq, l \in DOMAIN L.seq : k < l /\ L.seq[k] = y /\ L.seq[l] = z
    BY <1>4 DEF Before
  <2>3. j = k
    BY <2>1, <2>2, <1>1
  <2>4. i < l
    BY <2>1, <2>2, <2>3, <1>1
  <2> QED BY <2>1, <2>2, <2>4 DEF Before
<1>5. \A x, y : Before(L.seq, x, y) => x \in Listed(L) /\ y \in Listed(L)
  BY <1>1 DEF Before
<1>6. \A x, y : Before(L.seq, x, y) => ~Before(L.seq, y, x) /\ x # y
  BY <1>1, <1>5, StandsBefore
<1>7. \A x, y \in Listed(L) : x = y \/ Before(L.seq, x, y) \/ Before(L.seq, y, x)
  BY <1>1, StandsBefore
<1> QED BY <1>3, <1>4, <1>5, <1>6, <1>7

(* p takes the note ons to all the note offs *)
Matches(L, p) ==
  /\ Pairs(L, p)
  /\ \A y \in Listed(L) : L.ev[y].op = "off" => \E a \in Ons(L) : p[a] = y

(* the note ons and the note offs of note m; those of X in front of z *)
OnsOf(L, m) == {x \in Ons(L) : L.ev[x].note = m}
OffsOf(L, m) == {x \in Listed(L) : L.ev[x].op = "off" /\ L.ev[x].note = m}
Ahead(L, X, z) == {x \in X : Before(L.seq, x, z)}

(* a note off and its note on have as many of theirs in front of them *)
Level(L, m, a, y) == Cardinality(Ahead(L, OnsOf(L, m), a)) = Cardinality(Ahead(L, OffsOf(L, m), y))

(* a note off stands behind its note on *)
LEMMA EndsBehind ==
  ASSUME NEW L, Listable(L), Ordered(L), NEW p, Pairs(L, p), NEW a \in Ons(L)
  PROVE  Before(L.seq, a, p[a])
<1>1. /\ a \in Listed(L) /\ p[a] \in Listed(L) /\ L.ev[a].ts < L.ev[p[a]].ts
      /\ L.ev[a].ts \in Int /\ L.ev[p[a]].ts \in Int /\ L.ev[a].op = "on" /\ L.ev[p[a]].op = "off"
  BY ListableIs DEF Pairs, Ons
<1>2. CASE Before(L.seq, p[a], a)
  <2>1. L.ev[p[a]].ts <= L.ev[a].ts
    BY <1>1, <1>2 DEF Ordered
  <2> QED BY <2>1, <1>1
<1>3. a # p[a]
  BY <1>1
<1> QED BY <1>1, <1>2, <1>3, InLine

(* Of the note offs of a note there are no fewer than note ons, and in front of any  *)
(* event no more.                                                                     *)
LEMMA OffsCounted ==
  ASSUME NEW L, Listable(L), Ordered(L), NEW p, Matches(L, p), NEW m
  PROVE  /\ Cardinality(OnsOf(L, m)) <= Cardinality(OffsOf(L, m))
         /\ \A z : Cardinality(Ahead(L, OffsOf(L, m), z)) <= Cardinality(Ahead(L, OnsOf(L, m), z))
<1>1. OnsOf(L, m) \subseteq Listed(L) /\ OffsOf(L, m) \subseteq Listed(L)
  BY DEF OnsOf, OffsOf, Ons
<1>2. \A z : Ahead(L, OnsOf(L, m), z) \subseteq Listed(L) /\ Ahead(L, OffsOf(L, m), z) \subseteq Listed(L)
  BY <1>1 DEF Ahead
<1>3. \A X : X \subseteq Listed(L) => IsFiniteSet(X)
  BY InLine
<1>4. Pairs(L, p)
  BY DEF Matches
<1>5. Cardinality(OnsOf(L, m)) <= Cardinality(OffsOf(L, m))
  <2>1. IsFiniteSet(OffsOf(L, m))
    BY <1>1, <1>3
  <2>2. \A a \in OnsOf(L, m) : p[a] \in OffsOf(L, m)
    BY <1>4 DEF OnsOf, OffsOf, Pairs
  <2>3. \A a, b \in OnsOf(L, m) : p[a] = p[b] => a = b
    BY <1>4 DEF OnsOf, Pairs
  <2> QED BY <2>1, <2>2, <2>3, NotLarger
<1>6. ASSUME NEW z
      PROVE  Cardinality(Ahead(L, OffsOf(L, m), z)) <= Cardinality(Ahead(L, OnsOf(L, m), z))
  <2> DEFINE s == [y \in OffsOf(L, m) |-> CHOOSE a \in Ons(L) : p[a] = y]
  <2>1. ASSUME NEW y \in OffsOf(L, m)
        PROVE  s[y] \in Ons(L) /\ p[s[y]] = y
    <3>1. \E a \in Ons(L) : p[a] = y
      BY DEF OffsOf, Matches
    <3> QED BY <3>1
  <2> HIDE DEF s
  <2>2. ASSUME NEW y \in Ahead(L, OffsOf(L, m), z)
        PROVE  s[y] \in Ahead(L, OnsOf(L, m), z)
    <3>1. y \in OffsOf(L, m) /\ Before(L.seq, y, z)
      BY DEF Ahead
    <3>2. s[y] \in Ons(L) /\ p[s[y]] = y
      BY <2>1, <3>1
    <3>3. Before(L.seq, s[y], y)
      BY <3>2, <1>4, EndsBehind
    <3>4. Before(L.seq, s[y], z)
      BY <3>1, <3>3, InLine
    <3>5. L.ev[s[y]].note = m
      BY <3>1, <3>2, <1>4 DEF Pairs, OffsOf
    <3> QED BY <3>2, <3>4, <3>5 DEF Ahead, OnsOf
  <2>3. \A x, y \in Ahead(L, OffsOf(L, m), z) : s[x] = s[y] => x = y
    BY <2>1 DEF Ahead
  <2>4. IsFiniteSet(Ahead(L, OnsOf(L, m), z))
    BY <1>2, <1>3
  <2> QED BY <2>2, <2>3, <2>4, NotLarger
<1> QED BY <1>5, <1>6

(* A note whose neighbours of that pitch end before it or begin after it has as many  *)
(* note ons in front of it as note offs in front of its end.                           *)
AloneIn(L, p, a) ==
  \A c \in Ons(L) \ {a} : L.ev[c].note = L.ev[a].note =>
    L.ev[p[c]].ts <= L.ev[a].ts \/ L.ev[p[a]].ts <= L.ev[c].ts

LEMMA AloneIsLevel ==
  ASSUME NEW L, Listable(L), Ordered(L), NEW p, Matches(L, p), NEW a \in Ons(L), AloneIn(L, p, a),
         NEW m, m = L.ev[a].note
  PROVE  Level(L, m, a, p[a])
<1> DEFINE X == Ahead(L, OnsOf(L, m), a)
           Y == Ahead(L, OffsOf(L, m), p[a])
<1>1. Pairs(L, p)
  BY DEF Matches
<1>2. \A c \in Ons(L) : /\ c \in Listed(L) /\ p[c] \in Listed(L) /\ L.ev[c].ts < L.ev[p[c]].ts
                        /\ L.ev[c].ts \in Int /\ L.ev[p[c]].ts \in Int
                        /\ L.ev[p[c]].op = "off" /\ L.ev[p[c]].note = L.ev[c].note
  BY <1>1, ListableIs DEF Pairs, Ons
<1>3. \A x, y \in Listed(L) : Before(L.seq, x, y) => L.ev[x].ts <= L.ev[y].ts
  BY DEF Ordered
<1>4. ASSUME NEW c \in X
      PROVE  p[c] \in Y
  <2>1. c \in Ons(L) /\ L.ev[c].note = m /\ Before(L.seq, c, a)
    BY DEF Ahead, OnsOf
  <2>2. c # a
    BY <2>1, InLine
  <2>3. L.ev[c].ts <= L.ev[a].ts
    BY <2>1, <1>2, <1>3
  <2>4. L.ev[p[c]].ts <= L.ev[a].ts
    BY <2>1, <2>2, <2>3, <1>2 DEF AloneIn
  <2>5. L.ev[p[c]].ts < L.ev[p[a]].ts
    BY <2>1, <2>4, <1>2
  <2>6. ~(L.ev[p[a]].ts <= L.ev[p[c]].ts)
    BY <2>1, <2>5, <1>2
  <2>7. p[c] # p[a] /\ ~Before(L.seq, p[a], p[c])
    BY <2>1, <2>5, <2>6, <1>2, <1>3
  <2>8. Before(L.seq, p[c], p[a])
    BY <2>1, <2>7, <1>2, InLine
  <2> QED BY <2>1, <2>8, <1>2 DEF Ahead, OffsOf
<1>5. ASSUME NEW y \in Y
      PROVE  \E c \in X : p[c] = y
  <2>1. y \in Listed(L) /\ L.ev[y].op = "off" /\ L.ev[y].note = m /\ Before(L.seq, y, p[a])
    BY DEF Ahead, OffsOf
  <2>2. PICK c \in Ons(L) : p[c] = y
    BY <2>1 DEF Matches
  <2>3. c # a
    BY <2>1, <2>2, InLine
  <2>4. L.ev[p[c]].ts <= L.ev[p[a]].ts
    BY <2>1, <2>2, <1>2, <1>3
  <2>5. L.ev[c].note = m
    BY <2>1, <2>2, <1>2
  <2>6. L.ev[p[c]].ts <= L.ev[a].ts
    BY <2>3, <2>4, <2>5, <1>2 DEF AloneIn
  <2>7. L.ev[c].ts < L.ev[a].ts
    BY <2>6, <1>2
  <2>8. ~(L.ev[a].ts <= L.ev[c].ts)
    BY <2>7, <1>2
  <2>9. Before(L.seq, c, a)
    BY <2>3, <2>8, <1>2, <1>3, InLine
  <2> QED BY <2>2, <2>5, <2>9 DEF Ahead, OnsOf
<1>6. X \subseteq Ons(L) /\ X \subseteq Listed(L)
  BY DEF Ahead, OnsOf, Ons
<1>7. IsFiniteSet(X)
  <2> HIDE DEF X
  <2> QED BY <1>6, InLine
<1>8. \A c, d \in X : p[c] = p[d] => c = d
  BY <1>1, <1>6 DEF Pairs
<1> HIDE DEF X, Y
<1> DEFINE g == [c \in X |-> p[c]]
<1>9. g \in Injection(X, Y) /\ g \in Surjection(X, Y)
  BY <1>4, <1>5, <1>8 DEF Injection, IsInjective, Surjection
<1> HIDE DEF g
<1>10. Cardinality(Y) = Cardinality(X)
  BY <1>7, <1>9, FS_Surjection
<1> QED BY <1>10 DEF Level, X, Y

(* the note ons of note m among the first k events, and its note offs that are taken *)
Served(F, m, k) == {x \in OnsOf(F, m) : \E j \in 1..k : F.seq[j] = x}
Taken(F, m, M) == {y \in OffsOf(F, m) : M.ev[y].link # None}

(* the note offs of m are taken from the first on, by the note ons in their order *)
InTurn(F, k, m, M) ==
  /\ Cardinality(Taken(F, m, M)) = Cardinality(Served(F, m, k))
  /\ \A y \in Taken(F, m, M), z \in OffsOf(F, m) : Before(F.seq, z, y) => z \in Taken(F, m, M)
  /\ \A x \in Served(F, m, k) : M.ev[x].link \in OffsOf(F, m) /\ Level(F, m, x, M.ev[x].link)

(* and no note off is made *)
Serving(F, k, M) == M.seq = F.seq /\ \A m \in Note : InTurn(F, k, m, M)

(* none is taken at first *)
LEMMA ServingStarts ==
  ASSUME NEW F, Listable(F), \A x \in Listed(F) : F.ev[x].link = None
  PROVE  Serving(F, 0, F)
<1> SUFFICES ASSUME NEW m \in Note
             PROVE  InTurn(F, 0, m, F)
  BY DEF Serving
<1>1. Served(F, m, 0) = {} /\ Taken(F, m, F) = {}
  BY DEF Served, Taken, OffsOf
<1> QED BY <1>1 DEF InTurn

(* The note on at k finds the first note off that is not taken. *)
LEMMA FindsItsTurn ==
  ASSUME NEW F, Listable(F), Ordered(F), NEW p, Matches(F, p), NEW k \in DOMAIN F.seq, NEW x, x = F.seq[k],
         x \in Ons(F), NEW m, m = F.ev[x].note, NEW M, InTurn(F, k - 1, m, M)
  PROVE  /\ \E y \in OffsOf(F, m) : y \notin Taken(F, m, M) /\ Before(F.seq, x, y)
         /\ \A y \in OffsOf(F, m) :
              /\ y \notin Taken(F, m, M) /\ Before(F.seq, x, y)
              /\ \A z \in OffsOf(F, m) : z \notin Taken(F, m, M) /\ Before(F.seq, x, z) => ~Before(F.seq, z, y)
              => Ahead(F, OffsOf(F, m), y) = Taken(F, m, M) /\ Level(F, m, x, y)
<1> DEFINE T == Taken(F, m, M)
           D == Served(F, m, k - 1)
           offs == OffsOf(F, m)
           ons == OnsOf(F, m)
<1>1. /\ Cardinality(T) = Cardinality(D)
      /\ \A y \in T, z \in offs : Before(F.seq, z, y) => z \in T
  BY DEF InTurn
<1>2. /\ DOMAIN F.seq = 1..Len(F.seq) /\ Len(F.seq) \in Nat /\ k \in 1..Len(F.seq)
      /\ \A i, j \in DOMAIN F.seq : F.seq[i] = F.seq[j] => i = j
  BY ListableIs
<1>3. T \subseteq offs /\ offs \subseteq Listed(F) /\ ons \subseteq Listed(F) /\ D \subseteq ons /\ x \in ons
  BY DEF Taken, Served, OffsOf, OnsOf, Ons
<1>4. D = Ahead(F, ons, x)
  <2>1. ASSUME NEW w \in D
        PROVE  w \in Ahead(F, ons, x)
    <3>1. PICK j \in 1..k - 1 : F.seq[j] = w
      BY DEF Served
    <3>2. j \in DOMAIN F.seq /\ j < k
      BY <1>2
    <3>3. Before(F.seq, w, x)
      BY <3>1, <3>2 DEF Before
    <3> QED BY <3>3, <1>3 DEF Ahead
  <2>2. ASSUME NEW w \in Ahead(F, ons, x)
        PROVE  w \in D
    <3>1. w \in ons /\ Before(F.seq, w, x)
      BY DEF Ahead
    <3>2. PICK i \in DOMAIN F.seq, j \in DOMAIN F.seq : i < j /\ F.seq[i] = w /\ F.seq[j] = x
      BY <3>1 DEF Before
    <3>3. j = k
      BY <3>2, <1>2
    <3>4. i \in 1..k - 1
      BY <3>2, <3>3, <1>2
    <3> QED BY <3>1, <3>2, <3>4 DEF Served
  <2> QED BY <2>1, <2>2
<1>5. /\ Cardinality(ons) <= Cardinality(offs)
      /\ Cardinality(Ahead(F, offs, x)) <= Cardinality(D)
  BY <1>4, OffsCounted
<1>6. Before(F.seq, x, p[x]) /\ p[x] \in offs
  <2>1. Pairs(F, p)
    BY DEF Matches
  <2> QED BY <2>1, EndsBehind DEF Pairs, OffsOf
<1> HIDE DEF T, D, offs, ons
<1>7. /\ IsFiniteSet(T) /\ IsFiniteSet(D) /\ IsFiniteSet(offs) /\ IsFiniteSet(ons) /\ IsFiniteSet(Ahead(F, offs, x))
      /\ Cardinality(T) \in Nat /\ Cardinality(D) \in Nat /\ Cardinality(offs) \in Nat /\ Cardinality(ons) \in Nat
      /\ Cardinality(Ahead(F, offs, x)) \in Nat
  <2>1. T \subseteq Listed(F) /\ D \subseteq Listed(F) /\ Ahead(F, offs, x) \subseteq Listed(F)
    BY <1>3 DEF Ahead
  <2> QED BY <2>1, <1>3, InLine
<1>8. Cardinality(D) < Cardinality(ons)
  <2>1. x \notin D
    BY <1>4, InLine DEF Ahead
  <2>2. Cardinality(D \cup {x}) = Cardinality(D) + 1
    BY <2>1, <1>7, FS_AddElement
  <2>3. D \cup {x} \in SUBSET ons
    BY <1>3
  <2>4. Cardinality(D \cup {x}) <= Cardinality(ons)
    BY <2>3, <1>7, FS_Subset
  <2> QED BY <2>2, <2>4, <1>7
<1>9. \E y \in offs : y \notin T /\ Before(F.seq, x, y)
  <2> SUFFICES ASSUME \A y \in offs : Before(F.seq, x, y) => y \in T
               PROVE  FALSE
    OBVIOUS
  <2>1. p[x] \in T
    BY <1>6
  <2>2. ASSUME NEW y \in offs
        PROVE  y \in T
    <3>1. y = p[x] \/ Before(F.seq, y, p[x]) \/ Before(F.seq, p[x], y)
      BY <1>3, <1>6, InLine
    <3>2. Before(F.seq, p[x], y) => Before(F.seq, x, y)
      BY <1>6, InLine
    <3> QED BY <2>1, <3>1, <3>2, <1>1
  <2>3. T = offs
    BY <2>2, <1>3
  <2> QED BY <2>3, <1>1, <1>5, <1>7, <1>8
<1>10. ASSUME NEW y \in offs, y \notin T, Before(F.seq, x, y),
              \A z \in offs : z \notin T /\ Before(F.seq, x, z) => ~Before(F.seq, z, y)
       PROVE  Ahead(F, offs, y) = T
  <2>1. ASSUME NEW z \in Ahead(F, offs, y)
        PROVE  z \in T
    <3> SUFFICES ASSUME z \notin T
                 PROVE  FALSE
      OBVIOUS
    <3>1. z \in offs /\ Before(F.seq, z, y)
      BY DEF Ahead
    <3>2. ~Before(F.seq, x, z)
      BY <3>1, <1>10
    <3>3. x # z
      BY <3>1, <1>3 DEF offs, ons, OffsOf, OnsOf, Ons
    <3>4. Before(F.seq, z, x)
      BY <3>1, <3>2, <3>3, <1>3, InLine
    <3>5. ASSUME NEW t \in T
          PROVE  t \in Ahead(F, offs, x)
      <4>1. ~Before(F.seq, z, t) /\ t # z
        BY <3>1, <1>1
      <4>2. Before(F.seq, t, z)
        BY <4>1, <3>1, <1>3, InLine
      <4> QED BY <4>2, <3>4, <1>3, InLine DEF Ahead
    <3>6. T \cup {z} \in SUBSET Ahead(F, offs, x)
      BY <3>1, <3>4, <3>5 DEF Ahead
    <3>7. Cardinality(T \cup {z}) <= Cardinality(Ahead(F, offs, x))
      BY <3>6, <1>7, FS_Subset
    <3>8. Cardinality(T \cup {z}) = Cardinality(T) + 1
      BY <1>7, FS_AddElement
    <3> QED BY <3>7, <3>8, <1>1, <1>5, <1>7
  <2>2. ASSUME NEW t \in T
        PROVE  t \in Ahead(F, offs, y)
    <3>1. ~Before(F.seq, y, t) /\ t # y /\ t \in offs
      BY <1>1, <1>3, <1>10
    <3>2. Before(F.seq, t, y)
      BY <3>1, <1>3, InLine
    <3> QED BY <3>1, <3>2 DEF Ahead
  <2> QED BY <2>1, <2>2
<1>11. \A y \in offs : Ahead(F, offs, y) = T => Level(F, m, x, y)
  BY <1>1, <1>4 DEF Level, offs, ons
<1> QED BY <1>9, <1>10, <1>11 DEF T, offs

(* Another event is served. *)
LEMMA ServingGoesOn ==
  ASSUME NEW F, Listable(F), Ordered(F), NEW p, Matches(F, p), NEW k \in DOMAIN F.seq, NEW M,
         Linking(F, k - 1, M), Serving(F, k - 1, M), NEW x, x = F.seq[k],
         NEW N, N = IF M.ev[x].op = "on" THEN LinkOn(M, x) ELSE M
  PROVE  Serving(F, k, N)
<1>1. /\ DOMAIN F.seq = 1..Len(F.seq) /\ Len(F.seq) \in Nat /\ k \in 1..Len(F.seq) /\ x \in Listed(F)
      /\ \A j \in 1..Len(F.seq) : F.seq[j] \in Listed(F)
      /\ \A i, j \in DOMAIN F.seq : F.seq[i] = F.seq[j] => i = j
  BY ListableIs
<1>2. /\ Listable(M) /\ \A y \in Listed(F) : Alike(M.ev[y], F.ev[y])
      /\ M.seq = F.seq /\ \A m \in Note : InTurn(F, k - 1, m, M)
  BY DEF Linking, Serving
<1>3. Listed(M) = Listed(F)
  BY <1>2 DEF Listed
<1>4. \A y \in Listed(F) : M.ev[y].op = F.ev[y].op /\ M.ev[y].note = F.ev[y].note
  BY <1>2 DEF Alike
<1>5. \A m : Served(F, m, k) = Served(F, m, k - 1) \cup (IF x \in OnsOf(F, m) THEN {x} ELSE {})
  <2> SUFFICES ASSUME NEW m
               PROVE  Served(F, m, k) = Served(F, m, k - 1) \cup (IF x \in OnsOf(F, m) THEN {x} ELSE {})
    OBVIOUS
  <2>1. \A j : j \in 1..k <=> j \in 1..k - 1 \/ j = k
    BY <1>1
  <2> QED BY <2>1 DEF Served
<1>6. CASE F.ev[x].op # "on"
  <2>1. N = M
    BY <1>1, <1>4, <1>6
  <2>2. \A m : Served(F, m, k) = Served(F, m, k - 1)
    BY <1>5, <1>6 DEF OnsOf, Ons
  <2> QED BY <2>1, <2>2, <1>2 DEF Serving, InTurn
<1>7. CASE F.ev[x].op = "on"
  <2>1. PICK n : n = F.ev[x].note
    OBVIOUS
  <2>2. x \in Ons(F) /\ x \in OnsOf(F, n) /\ n \in Note /\ x \in Listed(M) /\ M.ev[x].op = "on" /\ M.ev[x].note = n
    <3>1. F.ev[x] \in Loose
      BY <1>1, ListableIs
    <3> QED BY <3>1, <2>1, <1>1, <1>3, <1>4, <1>7 DEF Ons, OnsOf, Loose
  <2>3. N = LinkOn(M, x)
    BY <2>2
  <2>4. \A b : Free(M, x, b) <=> b \in OffsOf(F, n) /\ b \notin Taken(F, n, M) /\ Before(F.seq, x, b)
    BY <2>2, <1>2, <1>3, <1>4 DEF Free, OffsOf, Taken
  <2>5. /\ \E y \in OffsOf(F, n) : y \notin Taken(F, n, M) /\ Before(F.seq, x, y)
        /\ \A y \in OffsOf(F, n) :
             /\ y \notin Taken(F, n, M) /\ Before(F.seq, x, y)
             /\ \A z \in OffsOf(F, n) : z \notin Taken(F, n, M) /\ Before(F.seq, x, z) => ~Before(F.seq, z, y)
             => Ahead(F, OffsOf(F, n), y) = Taken(F, n, M) /\ Level(F, n, x, y)
    BY <2>1, <2>2, <1>2, FindsItsTurn
  <2>6. PICK off : /\ Free(M, x, off) /\ \A b : Free(M, x, b) => ~Before(M.seq, b, off)
                   /\ off # x /\ N = Couple(M, x, off)
    <3>1. \/ \E off : /\ Free(M, x, off) /\ \A b : Free(M, x, b) => ~Before(M.seq, b, off)
                      /\ off # x /\ N = Couple(M, x, off)
          \/ \E off : /\ \A b : ~Free(M, x, b)
                      /\ off = FreshEvent(M) /\ N = Repaired(M, x, off)
      BY <2>2, <2>3, <1>2, LinkOnTakes
    <3> QED BY <3>1, <2>4, <2>5
  <2>7. off \in OffsOf(F, n) /\ off \notin Taken(F, n, M)
        /\ Ahead(F, OffsOf(F, n), off) = Taken(F, n, M) /\ Level(F, n, x, off)
    BY <2>4, <2>5, <2>6, <1>2
  <2>8. /\ N.seq = M.seq /\ N.ev[x].link = off /\ N.ev[off].link = x
        /\ \A y \in Listed(F) : y \notin {x, off} => N.ev[y] = M.ev[y]
    <3>1. Listed(M) \subseteq DOMAIN M.ev /\ M \in Raw
      BY <1>2, ListableIs
    <3>2. x \in DOMAIN M.ev /\ off \in DOMAIN M.ev
      BY <3>1, <2>2, <2>6 DEF Free
    <3>3. /\ N.seq = M.seq /\ N.ev[x].link = off /\ N.ev[off].link = x
          /\ \A y \in DOMAIN M.ev : y \notin {x, off} => N.ev[y] = M.ev[y]
      BY <3>1, <3>2, <2>6, CoupleLinks
    <3> QED BY <3>1, <3>3, <1>3
  <2>9. x # None /\ off # None
    <3>1. off \in Listed(F)
      BY <2>7 DEF OffsOf
    <3> QED BY <3>1, <1>1, ListableIs
  <2> SUFFICES ASSUME NEW m \in Note
               PROVE  InTurn(F, k, m, N)
    BY <2>8, <1>2 DEF Serving
  <2>10. /\ Cardinality(Taken(F, m, M)) = Cardinality(Served(F, m, k - 1))
         /\ \A y \in Taken(F, m, M), z \in OffsOf(F, m) : Before(F.seq, z, y) => z \in Taken(F, m, M)
         /\ \A y \in Served(F, m, k - 1) : M.ev[y].link \in OffsOf(F, m) /\ Level(F, m, y, M.ev[y].link)
    BY <1>2 DEF InTurn
  <2>11. \A y \in Served(F, m, k - 1) : y \in Listed(F) /\ y # x /\ y # off /\ N.ev[y] = M.ev[y]
    <3> SUFFICES ASSUME NEW y \in Served(F, m, k - 1)
                 PROVE  y \in Listed(F) /\ y # x /\ y # off /\ N.ev[y] = M.ev[y]
      OBVIOUS
    <3>1. y \in Listed(F) /\ F.ev[y].op = "on"
      BY DEF Served, OnsOf, Ons
    <3>2. y # off
      BY <3>1, <2>7 DEF OffsOf
    <3>3. PICK j \in 1..k - 1 : F.seq[j] = y
      BY DEF Served
    <3>4. j \in DOMAIN F.seq /\ j # k
      BY <1>1
    <3>5. y # x
      BY <3>3, <3>4, <1>1
    <3> QED BY <3>1, <3>2, <3>5, <2>8
  <2>12. CASE m # n
    <3>1. Taken(F, m, N) = Taken(F, m, M)
      <4>1. \A y \in OffsOf(F, m) : y # x /\ y # off /\ y \in Listed(F)
        BY <2>2, <2>7, <2>12 DEF OffsOf, OnsOf, Ons
      <4> QED BY <4>1, <2>8 DEF Taken
    <3>2. Served(F, m, k) = Served(F, m, k - 1)
      BY <2>1, <2>12, <1>5 DEF OnsOf
    <3> QED BY <3>1, <3>2, <2>10, <2>11 DEF InTurn
  <2>13. CASE m = n
    <3>1. Taken(F, m, N) = Taken(F, m, M) \cup {off}
      <4>1. \A y \in OffsOf(F, m) : y # x /\ y \in Listed(F)
        BY <2>2 DEF OffsOf, OnsOf, Ons
      <4> QED BY <4>1, <2>7, <2>8, <2>9, <2>13 DEF Taken
    <3>2. Served(F, m, k) = Served(F, m, k - 1) \cup {x} /\ x \notin Served(F, m, k - 1)
      BY <2>2, <2>11, <2>13, <1>5
    <3>3. Cardinality(Taken(F, m, N)) = Cardinality(Served(F, m, k))
      <4>1. Taken(F, m, M) \subseteq Listed(F) /\ Served(F, m, k - 1) \subseteq Listed(F)
        BY DEF Taken, OffsOf, Served, OnsOf, Ons
      <4>2. IsFiniteSet(Taken(F, m, M)) /\ IsFiniteSet(Served(F, m, k - 1))
        BY <4>1, InLine
      <4>3. /\ Cardinality(Taken(F, m, M) \cup {off}) = Cardinality(Taken(F, m, M)) + 1
            /\ Cardinality(Served(F, m, k - 1) \cup {x}) = Cardinality(Served(F, m, k - 1)) + 1
        BY <4>2, <3>2, <2>7, <2>13, FS_AddElement
      <4> QED BY <4>3, <3>1, <3>2, <2>10
    <3>4. \A y \in Taken(F, m, N), z \in OffsOf(F, m) : Before(F.seq, z, y) => z \in Taken(F, m, N)
      BY <3>1, <2>7, <2>10, <2>13 DEF Ahead
    <3>5. \A y \in Served(F, m, k) : N.ev[y].link \in OffsOf(F, m) /\ Level(F, m, y, N.ev[y].link)
      BY <3>2, <2>7, <2>8, <2>10, <2>11, <2>13
    <3> QED BY <3>3, <3>4, <3>5 DEF InTurn
  <2> QED BY <2>12, <2>13
<1> QED BY <1>6, <1>7

(* Two note offs of a note do not stand level with one note on. *)
LEMMA LevelIsOne ==
  ASSUME NEW L, Listable(L), NEW m, NEW x, NEW y \in OffsOf(L, m), NEW z \in OffsOf(L, m),
         Level(L, m, x, y), Level(L, m, x, z)
  PROVE  y = z
<1>1. OffsOf(L, m) \subseteq Listed(L)
  BY DEF OffsOf
<1>2. ASSUME NEW u \in OffsOf(L, m), NEW v \in OffsOf(L, m), Before(L.seq, u, v)
      PROVE  Cardinality(Ahead(L, OffsOf(L, m), u)) # Cardinality(Ahead(L, OffsOf(L, m), v))
  <2> DEFINE U == Ahead(L, OffsOf(L, m), u)
             V == Ahead(L, OffsOf(L, m), v)
  <2>1. U \subseteq V /\ u \in V /\ u \notin U /\ V \subseteq Listed(L)
    BY <1>1, <1>2, InLine DEF Ahead
  <2> HIDE DEF U, V
  <2>2. IsFiniteSet(V)
    BY <2>1, InLine
  <2>3. U \in SUBSET V /\ U # V
    BY <2>1
  <2>4. Cardinality(U) # Cardinality(V)
    BY <2>2, <2>3, FS_Subset
  <2> QED BY <2>4 DEF U, V
<1>3. Cardinality(Ahead(L, OffsOf(L, m), y)) = Cardinality(Ahead(L, OffsOf(L, m), z))
  BY DEF Level
<1> QED BY <1>1, <1>2, <1>3, InLine

(* relink() makes no note off where each note on can have one of its own, and one that *)
(* stands level with it is the one it gets.                                             *)
LEMMA RelinkServes ==
  ASSUME NEW L, Listable(L), Ordered(L), NEW p, Matches(L, p), NEW N, N = Relink(L)
  PROVE  /\ N.seq = L.seq
         /\ \A a \in Ons(L) : AloneIn(L, p, a) => N.ev[a].link = p[a]
<1>1. PICK F : F = Unlinked(L)
  OBVIOUS
<1>2. PICK n : n = Len(L.seq)
  OBVIOUS
<1>3. /\ F.seq = L.seq /\ Listed(F) = Listed(L) /\ F \in Raw /\ DOMAIN F.ev = DOMAIN L.ev
      /\ \A x \in Listed(L) : F.ev[x].link = None /\ Alike(F.ev[x], L.ev[x])
  BY <1>1, UnlinkedFrees DEF Listable
<1>4. \A x \in Listed(L) : F.ev[x].op = L.ev[x].op /\ F.ev[x].note = L.ev[x].note /\ F.ev[x].ts = L.ev[x].ts
  BY <1>3 DEF Alike
<1>5. Listable(F) /\ Ordered(F)
  BY <1>3, <1>4 DEF Listable, Ordered
<1>6. Ons(F) = Ons(L) /\ Ons(L) \subseteq Listed(L)
  BY <1>3, <1>4 DEF Ons
<1>7. Matches(F, p)
  BY <1>3, <1>4, <1>6 DEF Matches, Pairs
<1>8. PICK M : /\ M[0] = F /\ N = M[n]
               /\ \A k \in 0..n : Linking(F, k, M[k])
               /\ \A k \in 1..n :
                    M[k] = IF M[k - 1].ev[F.seq[k]].op = "on" THEN LinkOn(M[k - 1], F.seq[k]) ELSE M[k - 1]
  BY <1>1, <1>2, RelinkSteps
<1>9. n \in Nat /\ DOMAIN F.seq = 1..n
  BY <1>2, <1>3, <1>5, ListableIs
<1> DEFINE S == {k \in 0..n : Serving(F, k, M[k])}
<1>10. 0 \in S
  BY <1>3, <1>5, <1>8, <1>9, ServingStarts
<1>11. \A k \in 1..n : k - 1 \in S => k \in S
  <2> SUFFICES ASSUME NEW k \in 1..n, Serving(F, k - 1, M[k - 1])
               PROVE  Serving(F, k, M[k])
    BY <1>9
  <2>1. PICK K, U, x : K = M[k - 1] /\ U = M[k] /\ x = F.seq[k]
    OBVIOUS
  <2>2. Linking(F, k - 1, K) /\ Serving(F, k - 1, K) /\ U = IF K.ev[x].op = "on" THEN LinkOn(K, x) ELSE K
    BY <2>1, <1>8, <1>9
  <2>3. Serving(F, k, U)
    BY <2>1, <2>2, <1>5, <1>7, <1>9, ServingGoesOn
  <2> QED BY <2>1, <2>3
<1>12. Serving(F, n, N)
  <2> HIDE DEF S
  <2>1. \A k \in 0..n : k \in S
    BY <1>9, <1>10, <1>11, Climb
  <2>2. n \in S
    BY <2>1, <1>9
  <2> QED BY <2>2, <1>8 DEF S
<1>13. ASSUME NEW a \in Ons(L), AloneIn(L, p, a)
       PROVE  N.ev[a].link = p[a]
  <2>1. PICK m : m = F.ev[a].note
    OBVIOUS
  <2>2. a \in Ons(F) /\ a \in OnsOf(F, m) /\ m \in Note
    <3>1. a \in Listed(F) /\ a \in Ons(F)
      BY <1>3, <1>6
    <3>2. F.ev[a] \in Loose
      BY <3>1, <1>5, ListableIs
    <3> QED BY <3>1, <3>2, <2>1 DEF OnsOf, Loose
  <2>3. AloneIn(F, p, a)
    <3>1. \A c \in Ons(L) : p[c] \in Listed(L) /\ c \in Listed(L)
      BY <1>6 DEF Matches, Pairs
    <3> QED BY <3>1, <1>4, <1>6, <1>13 DEF AloneIn
  <2>4. Level(F, m, a, p[a])
    BY <2>1, <2>2, <2>3, <1>5, <1>7, AloneIsLevel
  <2>5. p[a] \in OffsOf(F, m)
    BY <2>1, <2>2, <1>7 DEF Matches, Pairs, OffsOf
  <2>6. a \in Served(F, m, n)
    <3>1. PICK j \in 1..n : F.seq[j] = a
      BY <2>2, <1>9 DEF Ons, Listed
    <3> QED BY <3>1, <2>2 DEF Served
  <2>7. N.ev[a].link \in OffsOf(F, m) /\ Level(F, m, a, N.ev[a].link)
    BY <2>2, <2>6, <1>12 DEF Serving, InTurn
  <2> QED BY <2>4, <2>5, <2>7, <1>5, LevelIsOne
<1> QED BY <1>3, <1>12, <1>13 DEF Serving

-----------------------------------------------------------------------------
(* Duplicates of the events of another list                                     *)

(* q is r, o later *)
DuplicateOf(q, r, o) == q.op = r.op /\ q.note = r.note /\ q.ts = r.ts + o /\ q.sel = r.sel

(* M is L with duplicates h[1], ..., h[n] of the first n events of C *)
Duplicates(L, C, o, n, M, h) ==
  /\ Listable(M) /\ Ordered(M)
  /\ \A x \in DOMAIN L.ev : x \in DOMAIN M.ev /\ M.ev[x] = L.ev[x]
  /\ Listed(M) = Listed(L) \cup {h[j] : j \in 1..n}
  /\ \A j \in 1..n : h[j] \notin DOMAIN L.ev /\ DuplicateOf(M.ev[h[j]], C.ev[C.seq[j]], o)
  /\ \A i, j \in 1..n : h[i] = h[j] => i = j

(* both halves are marked alike *)
PairsAlike(M, p) == Pairs(M, p) /\ \A a \in Ons(M) : M.ev[p[a]].sel = M.ev[a].sel

(* p leads from the note ons of L and of the duplicates as their links do *)
TakesAlong(L, C, h, p) ==
  /\ \A a \in Ons(L) : p[a] = L.ev[a].link
  /\ \A j, k \in DOMAIN C.seq : C.ev[C.seq[j]].op = "on" /\ C.ev[C.seq[j]].link = C.seq[k] => p[h[j]] = h[k]

(* which note off would be that of the duplicate of a note on *)
LEMMA DuplicatesPair ==
  ASSUME NEW L, Good(L), NEW C, Good(C), NEW o \in Nat, NEW M, NEW h,
         Duplicates(L, C, o, Len(C.seq), M, h), Strict(L), Strict(C), Whole(L), Whole(C)
  PROVE  \E p : PairsAlike(M, p) /\ Matches(M, p) /\ TakesAlong(L, C, h, p)
<1> DEFINE n == Len(C.seq)
<1>1. /\ \A x \in DOMAIN L.ev : x \in DOMAIN M.ev /\ M.ev[x] = L.ev[x]
      /\ Listed(M) = Listed(L) \cup {h[j] : j \in 1..n}
      /\ \A j \in 1..n : h[j] \notin DOMAIN L.ev /\ DuplicateOf(M.ev[h[j]], C.ev[C.seq[j]], o)
      /\ \A i, j \in 1..n : h[i] = h[j] => i = j
  BY DEF Duplicates
<1>2. /\ Listed(L) \subseteq DOMAIN L.ev /\ \A x \in Listed(L) : L.ev[x].link # None => Halves(L, x, L.ev[x].link)
      /\ \A x \in Ons(L) : L.ev[x].link # None
  BY GoodIs DEF Paired
<1>3. /\ DOMAIN C.seq = 1..n /\ n \in Nat /\ \A k \in 1..n : C.seq[k] \in Listed(C)
      /\ \A x \in Listed(C) : C.ev[x].ts \in Nat
      /\ \A x \in Listed(C) : C.ev[x].link # None => Halves(C, x, C.ev[x].link)
      /\ \A x \in Ons(C) : C.ev[x].link # None
      /\ \A j, k \in 1..n : C.seq[j] = C.seq[k] => j = k
  BY GoodIs, ListableIs DEF Paired
<1> HIDE DEF n
<1> DEFINE v == [j \in 1..n |-> CHOOSE m \in 1..n : C.seq[m] = C.ev[C.seq[j]].link]
           u == [a \in {h[j] : j \in 1..n} |-> CHOOSE j \in 1..n : h[j] = a]
           p == [a \in Ons(M) |-> IF a \in Listed(L) THEN L.ev[a].link ELSE h[v[u[a]]]]
<1>4. ASSUME NEW j \in 1..n, C.ev[C.seq[j]].op = "on"
      PROVE  v[j] \in 1..n /\ Halves(C, C.seq[j], C.seq[v[j]])
  <2>1. C.seq[j] \in Ons(C)
    BY <1>3, <1>4 DEF Ons
  <2>2. Halves(C, C.seq[j], C.ev[C.seq[j]].link)
    BY <2>1, <1>3
  <2>3. C.ev[C.seq[j]].link \in Listed(C)
    BY <2>2 DEF Halves
  <2>4. \E m \in 1..n : C.seq[m] = C.ev[C.seq[j]].link
    BY <2>3, <1>3 DEF Listed
  <2>5. v[j] = CHOOSE m \in 1..n : C.seq[m] = C.ev[C.seq[j]].link
    OBVIOUS
  <2>6. v[j] \in 1..n /\ C.seq[v[j]] = C.ev[C.seq[j]].link
    BY <2>4, <2>5
  <2> QED BY <2>2, <2>6
<1>5. \A j \in 1..n : u[h[j]] = j
  BY <1>1
<1>6. ASSUME NEW a \in Ons(M)
      PROVE  \/ a \in Listed(L) /\ a \in Ons(L) /\ p[a] = L.ev[a].link /\ Halves(L, a, p[a])
             \/ \E j \in 1..n : /\ a = h[j] /\ C.ev[C.seq[j]].op = "on"
                                /\ v[j] \in 1..n /\ Halves(C, C.seq[j], C.seq[v[j]]) /\ p[a] = h[v[j]]
  <2>1. CASE a \in Listed(L)
    <3>1. a \in Ons(L)
      BY <2>1, <1>1, <1>2 DEF Ons
    <3>2. p[a] = L.ev[a].link
      BY <2>1
    <3> QED BY <2>1, <3>1, <3>2, <1>2
  <2>2. CASE a \notin Listed(L)
    <3>1. PICK j \in 1..n : a = h[j]
      BY <2>2, <1>1 DEF Ons
    <3>2. C.ev[C.seq[j]].op = "on"
      BY <3>1, <1>1 DEF Ons, DuplicateOf
    <3>3. p[a] = h[v[u[a]]]
      BY <2>2
    <3>4. p[a] = h[v[j]]
      <4>1. u[a] = j
        BY <3>1, <1>5
      <4> HIDE DEF u, v, p
      <4> QED BY <3>3, <4>1
    <3> QED BY <3>1, <3>2, <3>4, <1>4
  <2> QED BY <2>1, <2>2
<1> HIDE DEF u, v, p
<1>7. ASSUME NEW a \in Ons(M)
      PROVE  /\ p[a] \in Listed(M) /\ M.ev[p[a]].op = "off"
             /\ M.ev[p[a]].note = M.ev[a].note /\ M.ev[a].ts < M.ev[p[a]].ts
             /\ M.ev[p[a]].sel = M.ev[a].sel
  <2>1. CASE a \in Listed(L) /\ a \in Ons(L) /\ p[a] = L.ev[a].link /\ Halves(L, a, p[a])
    <3>1. p[a] \in Listed(L) /\ L.ev[p[a]].op = "off" /\ L.ev[p[a]].note = L.ev[a].note
      BY <2>1 DEF Halves, Ons
    <3>2. L.ev[a].ts < L.ev[p[a]].ts /\ L.ev[p[a]].sel = L.ev[a].sel
      BY <2>1, <1>2 DEF Strict, Whole
    <3> QED BY <2>1, <3>1, <3>2, <1>1, <1>2
  <2>2. CASE \E j \in 1..n : /\ a = h[j] /\ C.ev[C.seq[j]].op = "on"
                             /\ v[j] \in 1..n /\ Halves(C, C.seq[j], C.seq[v[j]]) /\ p[a] = h[v[j]]
    <3>1. PICK j \in 1..n : /\ a = h[j] /\ C.ev[C.seq[j]].op = "on"
                            /\ v[j] \in 1..n /\ Halves(C, C.seq[j], C.seq[v[j]]) /\ p[a] = h[v[j]]
      BY <2>2
    <3>2. PICK x, y : x = C.seq[j] /\ y = C.seq[v[j]]
      OBVIOUS
    <3>3. x \in Listed(C) /\ y \in Listed(C) /\ C.ev[x].op = "on" /\ C.ev[x].link = y
          /\ C.ev[y].op = "off" /\ C.ev[y].note = C.ev[x].note
      BY <3>1, <3>2, <1>3 DEF Halves
    <3>4. C.ev[x].ts < C.ev[y].ts /\ C.ev[y].sel = C.ev[x].sel
      <4>1. x \in Ons(C) /\ C.ev[x].link # None
        BY <3>3, <1>3 DEF Ons
      <4> QED BY <3>3, <4>1 DEF Strict, Whole
    <3>5. DuplicateOf(M.ev[a], C.ev[x], o) /\ DuplicateOf(M.ev[p[a]], C.ev[y], o) /\ p[a] \in Listed(M)
      BY <3>1, <3>2, <1>1
    <3>6. C.ev[x].ts \in Nat /\ C.ev[y].ts \in Nat
      BY <3>3, <1>3
    <3> QED BY <3>3, <3>4, <3>5, <3>6 DEF DuplicateOf
  <2> QED BY <2>1, <2>2, <1>6
<1>8. ASSUME NEW a \in Ons(M), NEW b \in Ons(M), p[a] = p[b]
      PROVE  a = b
  <2>1. CASE a \in Listed(L) /\ p[a] = L.ev[a].link /\ Halves(L, a, p[a])
    <3>1. p[a] \in DOMAIN L.ev
      BY <2>1, <1>2 DEF Halves
    <3>2. b \in Listed(L) /\ Halves(L, b, p[b])
      BY <3>1, <1>1, <1>6, <1>8
    <3> QED BY <2>1, <3>2, <1>8 DEF Halves
  <2>2. CASE \E j \in 1..n : /\ a = h[j] /\ v[j] \in 1..n /\ Halves(C, C.seq[j], C.seq[v[j]]) /\ p[a] = h[v[j]]
    <3>1. PICK j \in 1..n : /\ a = h[j] /\ v[j] \in 1..n /\ Halves(C, C.seq[j], C.seq[v[j]]) /\ p[a] = h[v[j]]
      BY <2>2
    <3>2. p[b] \notin DOMAIN L.ev
      BY <3>1, <1>1, <1>8
    <3>3. ~(b \in Listed(L) /\ Halves(L, b, p[b]))
      BY <3>2, <1>2 DEF Halves
    <3>4. PICK i \in 1..n : /\ b = h[i] /\ v[i] \in 1..n /\ Halves(C, C.seq[i], C.seq[v[i]]) /\ p[b] = h[v[i]]
      BY <3>3, <1>6
    <3>5. v[i] = v[j]
      BY <3>1, <3>4, <1>1, <1>8
    <3>6. C.seq[i] = C.seq[j]
      BY <3>1, <3>4, <3>5 DEF Halves
    <3> QED BY <3>1, <3>4, <3>6, <1>3
  <2> QED BY <2>1, <2>2, <1>6
<1>9. Pairs(M, p)
  BY <1>7, <1>8 DEF Pairs
<1>10. ASSUME NEW a \in Ons(L)
       PROVE  a \in Ons(M) /\ p[a] = L.ev[a].link
  <2>1. a \in Listed(L) /\ a \in DOMAIN L.ev /\ a \in Ons(M)
    BY <1>1, <1>2 DEF Ons
  <2> QED BY <2>1, <1>1, <1>6
<1>11. ASSUME NEW j \in 1..n, NEW k \in 1..n, C.ev[C.seq[j]].op = "on", C.ev[C.seq[j]].link = C.seq[k]
       PROVE  h[j] \in Ons(M) /\ p[h[j]] = h[k]
  <2>1. h[j] \in Listed(M) /\ h[j] \notin DOMAIN L.ev /\ M.ev[h[j]].op = "on"
    BY <1>1, <1>11 DEF DuplicateOf
  <2>2. h[j] \in Ons(M)
    BY <2>1 DEF Ons
  <2>3. PICK i \in 1..n : h[j] = h[i] /\ v[i] \in 1..n /\ Halves(C, C.seq[i], C.seq[v[i]]) /\ p[h[j]] = h[v[i]]
    BY <2>1, <2>2, <1>2, <1>6
  <2>4. i = j
    BY <2>3, <1>1
  <2>5. C.seq[v[j]] = C.seq[k]
    BY <2>3, <2>4, <1>11 DEF Halves
  <2>6. v[j] = k
    BY <2>3, <2>4, <2>5, <1>3
  <2> QED BY <2>2, <2>3, <2>4, <2>6
<1>12. ASSUME NEW y \in Listed(M), M.ev[y].op = "off"
       PROVE  \E a \in Ons(M) : p[a] = y
  <2>1. CASE y \in Listed(L)
    <3>1. L.ev[y].op = "off" /\ L.ev[y].link # None
      BY <2>1, <1>1, <1>2, <1>12 DEF Strict
    <3>2. Halves(L, y, L.ev[y].link)
      BY <2>1, <3>1, <1>2
    <3>3. L.ev[y].link \in Ons(L) /\ L.ev[L.ev[y].link].link = y
      BY <3>1, <3>2 DEF Halves, Ons
    <3> QED BY <3>3, <1>10
  <2>2. CASE y \notin Listed(L)
    <3>1. PICK k \in 1..n : y = h[k]
      BY <2>2, <1>1
    <3>2. PICK z : z = C.seq[k]
      OBVIOUS
    <3>3. z \in Listed(C) /\ C.ev[z].op = "off"
      BY <3>1, <3>2, <1>1, <1>3, <1>12 DEF DuplicateOf
    <3>4. Halves(C, z, C.ev[z].link)
      BY <3>3, <1>3 DEF Strict
    <3>5. PICK j \in 1..n : C.seq[j] = C.ev[z].link
      BY <3>4, <1>3 DEF Halves, Listed
    <3>6. C.ev[C.seq[j]].op = "on" /\ C.ev[C.seq[j]].link = C.seq[k]
      BY <3>2, <3>3, <3>4, <3>5 DEF Halves
    <3> QED BY <3>1, <3>6, <1>11
  <2> QED BY <2>1, <2>2
<1>13. Matches(M, p)
  BY <1>9, <1>12 DEF Matches
<1>14. TakesAlong(L, C, h, p)
  BY <1>3, <1>10, <1>11 DEF TakesAlong
<1> QED BY <1>7, <1>9, <1>13, <1>14 DEF PairsAlike

(* and which one it is, where no note of that pitch is in the way *)
ServedBy(L, C, h, p, M, N) ==
  /\ TakesAlong(L, C, h, p) /\ N.seq = M.seq
  /\ \A a \in Ons(M) : AloneIn(M, p, a) => N.ev[a].link = p[a]

LEMMA DuplicatesServed ==
  ASSUME NEW L, Good(L), NEW C, Good(C), NEW o \in Nat, NEW M, NEW h,
         Duplicates(L, C, o, Len(C.seq), M, h), Strict(L), Strict(C), Whole(L), Whole(C), NEW N, N = Relink(M)
  PROVE  \E p : ServedBy(L, C, h, p, M, N)
<1>1. PICK p : Matches(M, p) /\ TakesAlong(L, C, h, p)
  BY DuplicatesPair
<1>2. Listable(M) /\ Ordered(M)
  BY DEF Duplicates
<1>3. N.seq = M.seq /\ \A a \in Ons(M) : AloneIn(M, p, a) => N.ev[a].link = p[a]
  BY <1>1, <1>2, RelinkServes
<1> QED BY <1>1, <1>3 DEF ServedBy

(* what relinking makes of them *)
LEMMA DuplicatesGive ==
  ASSUME NEW L, Good(L), NEW C, Good(C), NEW o \in Nat, NEW M, NEW h,
         Duplicates(L, C, o, Len(C.seq), M, h), NEW N, N = Relink(M)
  PROVE  /\ Good(N) /\ Excess(N) = Excess(M) /\ Aside(L, N)
         /\ Clean(N) /\ Whole(L) /\ Whole(C) /\ Strict(L) /\ Strict(C) => Whole(N)
<1>1. /\ Listable(M) /\ Ordered(M)
      /\ \A x \in DOMAIN L.ev : x \in DOMAIN M.ev /\ M.ev[x] = L.ev[x]
      /\ Listed(M) = Listed(L) \cup {h[j] : j \in 1..Len(C.seq)}
      /\ \A j \in 1..Len(C.seq) : h[j] \notin DOMAIN L.ev /\ DuplicateOf(M.ev[h[j]], C.ev[C.seq[j]], o)
  BY DEF Duplicates
<1>2. /\ Listed(L) \subseteq DOMAIN L.ev /\ \A x \in Listed(L) : L.ev[x].ts \in Nat /\ L.ev[x].sel \in Nat
      /\ \A k \in 1..Len(C.seq) : C.seq[k] \in Listed(C)
      /\ \A x \in Listed(C) : C.ev[x].ts \in Nat /\ C.ev[x].sel \in Nat
  BY GoodIs
<1>3. \A x \in Listed(M) : M.ev[x].ts \in Nat /\ M.ev[x].sel \in Nat
  <2> SUFFICES ASSUME NEW x \in Listed(M)
               PROVE  M.ev[x].ts \in Nat /\ M.ev[x].sel \in Nat
    OBVIOUS
  <2>1. CASE x \in Listed(L)
    BY <2>1, <1>1, <1>2
  <2>2. CASE x \notin Listed(L)
    <3>1. PICK j \in 1..Len(C.seq) : x = h[j]
      BY <2>2, <1>1
    <3>2. PICK y : y = C.seq[j]
      OBVIOUS
    <3>3. DuplicateOf(M.ev[x], C.ev[y], o) /\ C.ev[y].ts \in Nat /\ C.ev[y].sel \in Nat
      BY <3>1, <3>2, <1>1, <1>2
    <3> QED BY <3>3 DEF DuplicateOf
  <2> QED BY <2>1, <2>2
<1>4. Good(N) /\ Excess(N) = Excess(M) /\ Aside(M, N)
  BY <1>1, <1>3, RelinkGood, Relinked
<1>5. Aside(L, N)
  BY <1>1, <1>4 DEF Aside
<1>6. ASSUME Clean(N), Whole(L), Whole(C), Strict(L), Strict(C)
      PROVE  Whole(N)
  <2>1. PICK p : PairsAlike(M, p)
    BY <1>6, DuplicatesPair
  <2> QED BY <2>1, <1>1, <1>6, RelinkWhole DEF PairsAlike
<1> QED BY <1>4, <1>5, <1>6

(* what _copy() does before it links *)
AppendCopies(L, s) ==
  LET Copied(M, x) ==
        LET a == FreshEvent(M)
        IN [Allocate(M, a, [M.ev[x] EXCEPT !.link = None]) EXCEPT !.seq = Append(@, a)]
  IN FoldLeft(Copied, L, s)

(* one of its steps *)
LEMMA AppendOnly ==
  ASSUME NEW M \in Raw, NEW r \in Loose
  PROVE  AppendOne(M, r, 0) = [Allocate(M, FreshEvent(M), r) EXCEPT !.seq = Append(@, FreshEvent(M))]
<1>1. PICK a : a = FreshEvent(M)
  OBVIOUS
<1>2. PICK A : A = Allocate(M, a, r)
  OBVIOUS
<1>3. A \in Raw
  BY <1>1, <1>2, FreshIs, AllocateMakes
<1>4. A.size + 0 = A.size
  BY <1>3, RawIs
<1>5. A = [ev |-> A.ev, seq |-> A.seq, size |-> A.size]
  BY <1>3, RawIs
<1>6. AppendOne(M, r, 0) = [A EXCEPT !.seq = Append(A.seq, a), !.size = A.size + 0]
  BY <1>1, <1>2 DEF AppendOne
<1>7. [A EXCEPT !.seq = Append(A.seq, a), !.size = A.size + 0] = [A EXCEPT !.seq = Append(A.seq, a)]
  BY <1>4, <1>5
<1> QED BY <1>1, <1>2, <1>6, <1>7

(* it appends the events without their links *)
LEMMA AppendCopiesEnds ==
  ASSUME NEW L \in Raw, L.seq = <<>>, NEW n \in Nat, NEW s, DOMAIN s = 1..n, \A k \in 1..n : s[k] \in DOMAIN L.ev,
         NEW r, \A k \in 1..n : r[k] = [L.ev[s[k]] EXCEPT !.link = None], NEW N, N = AppendCopies(L, s)
  PROVE  Appends(L, r, n, N) /\ \A k \in 1..n : r[k] \in Loose
<1> DEFINE Step(M, x) ==
             [Allocate(M, FreshEvent(M), [M.ev[x] EXCEPT !.link = None]) EXCEPT !.seq = Append(@, FreshEvent(M))]
           W == AppendStages(L, n)
           H == AppendStep(L, n, r, 0)
           Folds(f) == f = [t \in SUBSET DOMAIN s |->
                              IF t = {} THEN L ELSE Step(f[t \ {Max(t)}], s[Max(t)])]
<1>1. N = (CHOOSE f : Folds(f))[DOMAIN s]
  BY Zenon DEF AppendCopies, FoldLeft, MapThenFoldSet
<1>2. \A k \in 1..n : r[k] \in Loose
  <2> SUFFICES ASSUME NEW k \in 1..n
               PROVE  r[k] \in Loose
    OBVIOUS
  <2>1. PICK q : q = L.ev[s[k]]
    OBVIOUS
  <2>2. q \in Loose
    BY <2>1, RawIs
  <2>3. None \in Nat /\ r[k] = [q EXCEPT !.link = None]
    BY <2>1 DEF None
  <2> QED BY <2>2, <2>3, LinkChanges
<1>3. /\ \A k \in 1..n : k - 1 \in 0..n /\ W[k - 1] = AppendTo(L)
      /\ \A k \in 1..n : \A M \in AppendTo(L) : H[<<M, k>>] = AppendOne(M, r[k], 0)
  BY <1>2, AppendStepIs
<1>4. ASSUME NEW k \in 1..n, NEW M \in AppendTo(L)
      PROVE  H[<<M, k>>] = Step(M, s[k])
  <2>1. M \in Raw /\ M.ev[s[k]] = L.ev[s[k]]
    BY DEF AppendTo
  <2>2. PICK q : q = r[k]
    OBVIOUS
  <2>3. q \in Loose /\ q = [M.ev[s[k]] EXCEPT !.link = None]
    BY <1>2, <2>1, <2>2
  <2>4. H[<<M, k>>] = AppendOne(M, q, 0)
    BY <1>3, <2>2
  <2>5. AppendOne(M, q, 0) = [Allocate(M, FreshEvent(M), q) EXCEPT !.seq = Append(@, FreshEvent(M))]
    BY <2>1, <2>3, AppendOnly
  <2> QED BY <2>3, <2>4, <2>5
<1> HIDE DEF Step, W, H
<1>4a. \A k \in 1..n : \A M \in W[k - 1] : H[<<M, k>>] = Step(M, s[k])
  BY <1>3, <1>4
<1>5. PICK g : g = (CHOOSE f : Folds(f))
  OBVIOUS
<1>6. Leads(g, n, L, W, H)
  <2> SUFFICES ASSUME NEW f, Makes(f, n, L, W, H)
               PROVE  Follows(g, n, L, W, H)
    BY DEF Leads
  <2>1. ASSUME NEW t \in SUBSET (1..n)
        PROVE  f[t] = IF t = {} THEN L ELSE Step(f[t \ {Max(t)}], s[Max(t)])
    <3>1. CASE t = {}
      BY <3>1 DEF Makes
    <3>2. CASE t # {}
      <4>1. /\ Max(t) \in 1..n /\ f[t \ {Max(t)}] \in W[Max(t) - 1]
            /\ f[t] = H[<<f[t \ {Max(t)}], Max(t)>>]
        BY <3>2 DEF Makes
      <4> QED BY <3>2, <4>1, <1>4a
    <3> QED BY <3>1, <3>2
  <2>2. Folds(f)
    BY <2>1 DEF Makes
  <2>3. Folds(g)
    <3> HIDE DEF Folds
    <3> QED BY <2>2, <1>5
  <2>4. g = [t \in SUBSET (1..n) |-> IF t = {} THEN L ELSE Step(g[t \ {Max(t)}], s[Max(t)])]
    BY <2>3
  <2>5. g[{}] = L /\ \A t \in SUBSET (1..n) : t # {} => g[t] = Step(g[t \ {Max(t)}], s[Max(t)])
    BY <2>4
  <2>6. ASSUME NEW t \in SUBSET (1..n), t # {}, NEW k \in 1..n, k = Max(t), g[t \ {k}] \in W[k - 1]
        PROVE  g[t] = H[<<g[t \ {k}], k>>]
    BY <2>5, <2>6, <1>4a
  <2> QED BY <2>5, <2>6 DEF Follows
<1>7. N = g[1..n]
  BY <1>1, <1>5
<1>8. Appends(L, r, n, g[1..n])
  BY <1>2, <1>6, AppendEnds DEF W, H
<1> QED BY <1>2, <1>7, <1>8

(* _copy() before it links: duplicates in the same order *)
Copies(L, C, M) ==
  /\ Duplicates(L, C, 0, Len(C.seq), M, M.seq)
  /\ DOMAIN M.seq = 1..Len(C.seq) /\ Len(M.seq) = Len(C.seq) /\ M.size = C.size

LEMMA CopyOfIs ==
  ASSUME NEW L \in Raw, L.seq = <<>>, NEW C, Good(C), \A x \in Listed(C) : x \in DOMAIN L.ev /\ L.ev[x] = C.ev[x],
         NEW D, D.seq = C.seq, D.size = C.size, NEW N, N = CopyOf(L, D)
  PROVE  /\ Listed(L) = {} /\ Good(L) /\ Whole(L) /\ Strict(L)
         /\ \E M : Copies(L, C, M) /\ N = Relink(M)
<1> DEFINE n == Len(C.seq)
           r == [k \in 1..n |-> [L.ev[C.seq[k]] EXCEPT !.link = None]]
<1>1. /\ DOMAIN C.seq = 1..n /\ n \in Nat /\ \A k \in 1..n : C.seq[k] \in Listed(C)
      /\ \A x \in Listed(C) : C.ev[x] \in Event /\ C.ev[x].ts \in Nat
      /\ C.size \in Int /\ Ordered(C) /\ \A j, k \in 1..n : C.seq[j] = C.seq[k] => j = k
  BY GoodIs, ListableIs
<1>2. PICK A : A = AppendCopies(L, C.seq)
  OBVIOUS
<1>3. PICK M : M = [A EXCEPT !.size = C.size]
  OBVIOUS
<1>4. N = Relink(M)
  BY <1>2, <1>3 DEF CopyOf, AppendCopies
<1>5. \A k \in 1..n : r[k] = [L.ev[C.seq[k]] EXCEPT !.link = None]
  OBVIOUS
<1> HIDE DEF n, r
<1>6. Appends(L, r, n, A) /\ \A k \in 1..n : r[k] \in Loose
  <2>1. \A k \in 1..n : C.seq[k] \in DOMAIN L.ev
    BY <1>1
  <2> QED BY <2>1, <1>1, <1>2, <1>5, AppendCopiesEnds
<1>7. \A k \in 1..n : DuplicateOf(r[k], C.ev[C.seq[k]], 0)
  <2> SUFFICES ASSUME NEW k \in 1..n
               PROVE  DuplicateOf(r[k], C.ev[C.seq[k]], 0)
    OBVIOUS
  <2>1. PICK q : q = C.ev[C.seq[k]]
    OBVIOUS
  <2>2. q \in Event /\ q.ts \in Nat /\ r[k] = [q EXCEPT !.link = None]
    BY <2>1, <1>1, <1>5
  <2>3. r[k].op = q.op /\ r[k].note = q.note /\ r[k].ts = q.ts /\ r[k].sel = q.sel
    BY <2>2 DEF Event
  <2>4. q.ts = q.ts + 0
    BY <2>2
  <2> QED BY <2>1, <2>3, <2>4 DEF DuplicateOf
<1>8. \A j, k \in 1..n : j < k => r[j].ts <= r[k].ts
  <2> SUFFICES ASSUME NEW j \in 1..n, NEW k \in 1..n, j < k
               PROVE  r[j].ts <= r[k].ts
    OBVIOUS
  <2>1. PICK x, y : x = C.seq[j] /\ y = C.seq[k]
    OBVIOUS
  <2>2. x \in Listed(C) /\ y \in Listed(C) /\ Before(C.seq, x, y)
    BY <2>1, <1>1 DEF Before
  <2>3. C.ev[x].ts <= C.ev[y].ts
    BY <2>2, <1>1 DEF Ordered
  <2>4. C.ev[x].ts \in Nat /\ C.ev[y].ts \in Nat /\ r[j].ts = C.ev[x].ts + 0 /\ r[k].ts = C.ev[y].ts + 0
    BY <2>1, <2>2, <1>1, <1>7 DEF DuplicateOf
  <2> QED BY <2>3, <2>4
<1>9. A \in Raw /\ M \in Raw /\ M.ev = A.ev /\ M.seq = A.seq /\ M.size = C.size
  <2>1. A \in Raw
    BY <1>6 DEF Appends
  <2>2. A = [ev |-> A.ev, seq |-> A.seq, size |-> A.size] /\ A.ev \in Memory /\ A.seq \in Seq(Addr)
    BY <2>1, RawIs
  <2>3. M = [ev |-> A.ev, seq |-> A.seq, size |-> C.size]
    BY <2>2, <1>3
  <2> QED BY <2>1, <2>2, <2>3, <1>1 DEF Raw
<1>10. Appends(L, r, n, M)
  BY <1>6, <1>9 DEF Appends
<1>11. /\ Listable(M) /\ Ordered(M) /\ Listed(M) = {M.seq[j] : j \in 1..n}
       /\ \A x \in DOMAIN L.ev : x \notin Listed(M)
  BY <1>1, <1>6, <1>8, <1>10, AppendsListable
<1>12. Listed(L) = {} /\ Good(L) /\ Whole(L) /\ Strict(L)
  <2>1. Listed(L) = {} /\ DOMAIN L.seq = {}
    BY DEF Listed
  <2> QED BY <2>1 DEF Good, Listable, IsInjective, Ordered, Paired, Linked, Ons, Whole, Strict
<1>13. Duplicates(L, C, 0, n, M, M.seq)
  <2>1. \A j \in 1..n : M.seq[j] \notin DOMAIN L.ev /\ DuplicateOf(M.ev[M.seq[j]], C.ev[C.seq[j]], 0)
    BY <1>7, <1>10 DEF Appends
  <2> QED BY <2>1, <1>10, <1>11, <1>12 DEF Duplicates, Appends
<1>14. Copies(L, C, M)
  <2>1. M.seq \in Seq(Addr) /\ Len(M.seq) = n
    BY <1>9, <1>10, RawIs DEF Appends
  <2> QED BY <2>1, <1>9, <1>13 DEF Copies, n
<1> QED BY <1>4, <1>12, <1>14

(* _copy() *)
LEMMA CopyOfGives ==
  ASSUME NEW L \in Raw, L.seq = <<>>, NEW C, Good(C), \A x \in Listed(C) : x \in DOMAIN L.ev /\ L.ev[x] = C.ev[x],
         NEW D, D.seq = C.seq, D.size = C.size, NEW N, N = CopyOf(L, D)
  PROVE  /\ Good(N) /\ Excess(N) = Excess(C)
         /\ \A x \in DOMAIN L.ev : x \in DOMAIN N.ev /\ x \notin Listed(N) /\ N.ev[x] = L.ev[x]
         /\ Clean(N) /\ Whole(C) /\ Strict(C) => Whole(N)
<1>1. Listed(L) = {} /\ Good(L) /\ Whole(L) /\ Strict(L)
  BY CopyOfIs
<1>2. PICK M : Copies(L, C, M) /\ N = Relink(M)
  BY CopyOfIs
<1>3. Duplicates(L, C, 0, Len(C.seq), M, M.seq) /\ Excess(M) = Excess(C)
  BY <1>2 DEF Copies, Excess
<1>4. /\ Good(N) /\ Excess(N) = Excess(M) /\ Aside(L, N)
      /\ Clean(N) /\ Whole(L) /\ Whole(C) /\ Strict(L) /\ Strict(C) => Whole(N)
  <2>1. 0 \in Nat
    OBVIOUS
  <2> QED BY <2>1, <1>1, <1>2, <1>3, DuplicatesGive
<1> QED BY <1>1, <1>3, <1>4 DEF Aside

(* no note is shorter than a tick, and no note off is left over *)
LEMMA CleanIsStrict ==
  ASSUME NEW N, Good(N), Clean(N)
  PROVE  Strict(N)
<1>1. \A x \in Listed(N) : N.ev[x].op = "off" => N.ev[x].link # None
  BY DEF Clean
<1> SUFFICES ASSUME NEW a \in Ons(N)
             PROVE  N.ev[a].ts < N.ev[N.ev[a].link].ts
  BY <1>1 DEF Strict
<1>2. N.ev[a].link \in Listed(N) /\ N.ev[N.ev[a].link].ts > N.ev[a].ts
  BY DEF Clean
<1>3. a \in Listed(N) /\ N.ev[a].ts \in Nat /\ N.ev[N.ev[a].link].ts \in Nat
  BY <1>2, GoodIs DEF Ons
<1> QED BY <1>2, <1>3

(* The copy of a note is a note: the links of the copies are those of the originals. *)
LEMMA CopyServes ==
  ASSUME NEW L \in Raw, L.seq = <<>>, NEW C, Good(C), \A x \in Listed(C) : x \in DOMAIN L.ev /\ L.ev[x] = C.ev[x],
         NEW D, D.seq = C.seq, D.size = C.size, NEW N, N = CopyOf(L, D), Clean(C), Whole(C)
  PROVE  /\ Len(N.seq) = Len(C.seq)
         /\ \A k, m \in DOMAIN C.seq : N.ev[N.seq[k]].link = N.seq[m] <=> C.ev[C.seq[k]].link = C.seq[m]
<1> DEFINE n == Len(C.seq)
<1>1. Good(L) /\ Whole(L) /\ Strict(L) /\ Strict(C) /\ Listed(L) = {}
  BY CopyOfIs, CleanIsStrict
<1>2. PICK M : Copies(L, C, M) /\ N = Relink(M)
  BY CopyOfIs
<1>3. Duplicates(L, C, 0, n, M, M.seq) /\ DOMAIN M.seq = 1..n /\ Len(M.seq) = n
  BY <1>2 DEF Copies
<1>4. PICK h : h = M.seq
  OBVIOUS
<1>5. PICK p : /\ TakesAlong(L, C, h, p) /\ N.seq = h
               /\ \A a \in Ons(M) : AloneIn(M, p, a) => N.ev[a].link = p[a]
  <2>1. 0 \in Nat
    OBVIOUS
  <2>2. Duplicates(L, C, 0, Len(C.seq), M, h)
    BY <1>2, <1>4 DEF Copies
  <2>3. PICK p : ServedBy(L, C, h, p, M, N)
    BY <2>1, <2>2, <1>1, <1>2, DuplicatesServed
  <2> QED BY <2>3, <1>4 DEF ServedBy
<1>6. /\ DOMAIN C.seq = 1..n /\ n \in Nat /\ \A k \in 1..n : C.seq[k] \in Listed(C)
      /\ \A x \in Listed(C) : C.ev[x].ts \in Nat /\ x # None
      /\ \A x \in Listed(C) : C.ev[x].link # None => Halves(C, x, C.ev[x].link)
      /\ \A x \in Ons(C) : C.ev[x].link # None
      /\ \A j, k \in 1..n : C.seq[j] = C.seq[k] => j = k
      /\ \A x \in Listed(C) : \E k \in 1..n : C.seq[k] = x
  BY GoodIs, ListableIs DEF Paired, Listed
<1>7. /\ Listable(M) /\ Ordered(M) /\ Listed(M) = {h[j] : j \in 1..n}
      /\ \A j \in 1..n : DuplicateOf(M.ev[h[j]], C.ev[C.seq[j]], 0)
      /\ \A i, j \in 1..n : h[i] = h[j] => i = j
  BY <1>1, <1>3, <1>4 DEF Duplicates
<1>8. \A j \in 1..n : /\ M.ev[h[j]].op = C.ev[C.seq[j]].op /\ M.ev[h[j]].note = C.ev[C.seq[j]].note
                       /\ M.ev[h[j]].ts = C.ev[C.seq[j]].ts
  <2> SUFFICES ASSUME NEW j \in 1..n
               PROVE  /\ M.ev[h[j]].op = C.ev[C.seq[j]].op /\ M.ev[h[j]].note = C.ev[C.seq[j]].note
                      /\ M.ev[h[j]].ts = C.ev[C.seq[j]].ts
    OBVIOUS
  <2>1. DuplicateOf(M.ev[h[j]], C.ev[C.seq[j]], 0) /\ C.ev[C.seq[j]].ts \in Nat
    BY <1>6, <1>7
  <2> QED BY <2>1 DEF DuplicateOf
<1> HIDE DEF n
<1>9. ASSUME NEW j \in 1..n, C.ev[C.seq[j]].op = "on"
      PROVE  \E k \in 1..n : /\ C.seq[j] \in Ons(C) /\ C.ev[C.seq[j]].link = C.seq[k] /\ p[h[j]] = h[k]
  <2>1. C.seq[j] \in Ons(C)
    BY <1>6, <1>9 DEF Ons
  <2>2. Halves(C, C.seq[j], C.ev[C.seq[j]].link)
    BY <2>1, <1>6
  <2>3. PICK k \in 1..n : C.seq[k] = C.ev[C.seq[j]].link
    BY <2>2, <1>6 DEF Halves
  <2> QED BY <2>1, <2>3, <1>5, <1>6, <1>9 DEF TakesAlong
<1>10. ASSUME NEW j \in 1..n, C.ev[C.seq[j]].op = "on"
       PROVE  N.ev[h[j]].link = p[h[j]]
  <2>1. h[j] \in Ons(M)
    BY <1>7, <1>8, <1>10 DEF Ons
  <2>2. ASSUME NEW c \in Ons(M) \ {h[j]}, M.ev[c].note = M.ev[h[j]].note
        PROVE  M.ev[p[c]].ts <= M.ev[h[j]].ts \/ M.ev[p[h[j]]].ts <= M.ev[c].ts
    <3>1. PICK i \in 1..n : c = h[i]
      BY <2>2, <1>7 DEF Ons
    <3>2. C.ev[C.seq[i]].op = "on" /\ C.ev[C.seq[i]].note = C.ev[C.seq[j]].note
      BY <2>2, <3>1, <1>8 DEF Ons
    <3>3. PICK k \in 1..n : C.seq[j] \in Ons(C) /\ C.ev[C.seq[j]].link = C.seq[k] /\ p[h[j]] = h[k]
      BY <1>9, <1>10
    <3>4. PICK m \in 1..n : C.seq[i] \in Ons(C) /\ C.ev[C.seq[i]].link = C.seq[m] /\ p[h[i]] = h[m]
      BY <3>2, <1>9
    <3>5. C.seq[i] # C.seq[j]
      BY <2>2, <3>1, <1>6
    <3>6. C.ev[C.seq[m]].ts <= C.ev[C.seq[j]].ts \/ C.ev[C.seq[k]].ts <= C.ev[C.seq[i]].ts
      BY <3>2, <3>3, <3>4, <3>5 DEF Clean
    <3> QED BY <3>1, <3>3, <3>4, <3>6, <1>8
  <2>3. AloneIn(M, p, h[j])
    BY <2>2 DEF AloneIn
  <2> QED BY <2>1, <2>3, <1>5
<1>11. Good(N) /\ \A j \in 1..n : N.ev[h[j]].op = C.ev[C.seq[j]].op
  <2>1. \A x \in Listed(M) : Alike(N.ev[x], M.ev[x])
    BY <1>2, <1>7, Relinked
  <2>2. \A j \in 1..n : N.ev[h[j]].op = M.ev[h[j]].op
    BY <2>1, <1>7 DEF Alike
  <2>3. Good(N)
    BY <1>1, <1>2, CopyOfGives
  <2> QED BY <2>2, <2>3, <1>8
<1>12. /\ Linked(N) /\ \A j \in 1..n : h[j] \in Listed(N) /\ h[j] # None
  <2>1. Linked(N) /\ \A x \in Listed(N) : x # None
    BY <1>11, GoodIs, ListableIs
  <2>2. DOMAIN N.seq = 1..n
    BY <1>3, <1>4, <1>5 DEF n
  <2>3. \A j \in 1..n : h[j] \in Listed(N)
    BY <2>2, <1>5 DEF Listed
  <2> QED BY <2>1, <2>3
<1>13. ASSUME NEW j \in 1..n
       PROVE  \/ \E i \in 1..n : N.ev[h[j]].link = h[i] /\ C.ev[C.seq[j]].link = C.seq[i]
              \/ N.ev[h[j]].link = None /\ C.ev[C.seq[j]].link = None
  <2>1. CASE C.ev[C.seq[j]].op = "on"
    BY <2>1, <1>9, <1>10
  <2>2. CASE C.ev[C.seq[j]].op = "off"
    <3>1. Halves(C, C.seq[j], C.ev[C.seq[j]].link)
      BY <2>2, <1>1, <1>6 DEF Strict
    <3>2. PICK i \in 1..n : C.seq[i] = C.ev[C.seq[j]].link
      BY <3>1, <1>6 DEF Halves
    <3>3. C.ev[C.seq[i]].op = "on" /\ C.ev[C.seq[i]].link = C.seq[j]
      BY <2>2, <3>1, <3>2 DEF Halves
    <3>4. PICK k \in 1..n : C.ev[C.seq[i]].link = C.seq[k] /\ p[h[i]] = h[k]
      BY <3>3, <1>9
    <3>5. k = j
      BY <3>3, <3>4, <1>6
    <3>6. N.ev[h[i]].link = h[j]
      BY <3>3, <3>4, <3>5, <1>10
    <3>7. Halves(N, h[i], h[j])
      BY <3>6, <1>12 DEF Linked
    <3> QED BY <3>2, <3>7 DEF Halves
  <2>3. CASE C.ev[C.seq[j]].op \notin {"on", "off"}
    <3>1. C.ev[C.seq[j]].link = None
      BY <2>3, <1>6 DEF Halves
    <3>2. N.ev[h[j]].link = None
      BY <2>3, <1>11, <1>12 DEF Linked, Halves
    <3> QED BY <3>1, <3>2
  <2> QED BY <2>1, <2>2, <2>3
<1>14. ASSUME NEW k \in 1..n, NEW m \in 1..n
       PROVE  N.ev[h[k]].link = h[m] <=> C.ev[C.seq[k]].link = C.seq[m]
  BY <1>6, <1>7, <1>12, <1>13
<1> QED BY <1>3, <1>4, <1>5, <1>6, <1>14 DEF n

(* one event is pasted; all of C are *)
PasteOne(M, r, o) ==
  LET a == FreshEvent(M)
  IN Insert(Allocate(M, a, [r EXCEPT !.ts = @ + o, !.link = None]), a)

PasteInto(L, C, offset) ==
  LET Pasted(M, x) ==
        LET a == FreshEvent(M)
        IN Insert(Allocate(M, a, [M.ev[x] EXCEPT !.ts = @ + offset, !.link = None]), a)
  IN FoldLeft(Pasted, L, C.seq)

(* the event that is pasted *)
LEMMA ShiftedIs ==
  ASSUME NEW r \in Loose, NEW o \in Int, NEW q, q = [r EXCEPT !.ts = @ + o, !.link = None]
  PROVE  q \in Loose /\ DuplicateOf(q, r, o)
<1>1. q = [r EXCEPT !.ts = r.ts + o, !.link = None]
  OBVIOUS
<1>2. PICK m : m = r.ts + o
  OBVIOUS
<1>3. r.op \in Op /\ r.note \in Note /\ r.sel \in Int /\ r.ts \in Int
  BY DEF Loose
<1>4. m \in Int /\ None \in Nat
  BY <1>2, <1>3 DEF None
<1>5. q = [op |-> r.op, note |-> r.note, ts |-> m, sel |-> r.sel, link |-> None]
  BY <1>1, <1>2 DEF Loose
<1>6. q \in Loose
  BY <1>3, <1>4, <1>5 DEF Loose
<1> QED BY <1>2, <1>5, <1>6 DEF DuplicateOf

(* U is M with a duplicate of r *)
PastedIn(M, r, o, U) ==
  \E a : /\ a \notin DOMAIN M.ev /\ Listed(U) = Listed(M) \cup {a} /\ DOMAIN U.ev = DOMAIN M.ev \cup {a}
         /\ DuplicateOf(U.ev[a], r, o) /\ \A y \in DOMAIN M.ev : U.ev[y] = M.ev[y]

(* it goes to its place in time *)
LEMMA PasteOneGives ==
  ASSUME NEW M, Listable(M), Ordered(M), NEW r \in Loose, NEW o \in Int, NEW U, U = PasteOne(M, r, o)
  PROVE  Listable(U) /\ Ordered(U) /\ Excess(U) = Excess(M) /\ PastedIn(M, r, o, U)
<1>1. PICK a : a = FreshEvent(M)
  OBVIOUS
<1>2. M \in Raw /\ Listed(M) \subseteq DOMAIN M.ev /\ IsInjective(M.seq)
  BY ListableIs
<1>3. a \in Addr /\ a \notin DOMAIN M.ev
  BY <1>1, <1>2, FreshIs
<1>4. PICK q : q = [r EXCEPT !.ts = @ + o, !.link = None]
  OBVIOUS
<1>5. q \in Loose /\ DuplicateOf(q, r, o)
  BY <1>4, ShiftedIs
<1>6. PICK A : A = Allocate(M, a, q)
  OBVIOUS
<1>7. /\ A \in Raw /\ A.seq = M.seq /\ A.size = M.size /\ Listed(A) = Listed(M)
      /\ DOMAIN A.ev = DOMAIN M.ev \cup {a} /\ A.ev[a] = q
      /\ \A y \in DOMAIN M.ev : y # a => A.ev[y] = M.ev[y]
  BY <1>2, <1>3, <1>5, <1>6, AllocateMakes
<1>8. U = Insert(A, a)
  BY <1>1, <1>4, <1>6 DEF PasteOne
<1>9. a \in DOMAIN A.ev /\ Listed(A) \subseteq DOMAIN A.ev /\ a \notin Listed(A) /\ IsInjective(A.seq)
  BY <1>2, <1>3, <1>7
<1>10. /\ U \in Raw /\ U.ev = A.ev /\ U.size = A.size + 1
       /\ Len(U.seq) = Len(A.seq) + 1 /\ Listed(U) = Listed(A) \cup {a}
       /\ IsInjective(A.seq) /\ a \notin Listed(A) => IsInjective(U.seq)
       /\ IsInjective(A.seq) /\ Ordered(A) => Ordered(U)
  BY <1>7, <1>8, <1>9, InsertPuts
<1>11. Ordered(A)
  BY <1>2, <1>3, <1>7 DEF Ordered
<1>12. Listable(U)
  BY <1>7, <1>9, <1>10 DEF Listable
<1>13. Excess(U) = Excess(M)
  <2>1. Len(M.seq) \in Nat /\ M.size \in Int
    BY <1>2, RawIs
  <2> QED BY <2>1, <1>7, <1>10 DEF Excess
<1> QED BY <1>3, <1>5, <1>7, <1>9, <1>10, <1>11, <1>12, <1>13 DEF PastedIn

(* The events of the clipboard are inserted one by one. *)
LEMMA PasteIntoEnds ==
  ASSUME NEW L, Good(L), NEW C, Good(C), C.ev = L.ev, NEW o \in Nat, NEW N, N = PasteInto(L, C, o)
  PROVE  \E h : Duplicates(L, C, o, Len(C.seq), N, h) /\ Excess(N) = Excess(L)
<1> DEFINE n == Len(C.seq)
           s == C.seq
           r == [k \in 1..n |-> L.ev[s[k]]]
           Step(M, x) == PasteOne(M, M.ev[x], o)
           V == {M \in Raw : /\ Listable(M) /\ Ordered(M)
                             /\ \A x \in DOMAIN L.ev : x \in DOMAIN M.ev /\ M.ev[x] = L.ev[x]}
           H == [p \in V \X (1..n) |-> PasteOne(p[1], r[p[2]], o)]
           W == [k \in 0..n |-> V]
           Folds(f) == f = [t \in SUBSET DOMAIN s |->
                              IF t = {} THEN L ELSE Step(f[t \ {Max(t)}], s[Max(t)])]
<1>1. N = (CHOOSE f : Folds(f))[DOMAIN s]
  BY Zenon DEF PasteInto, FoldLeft, MapThenFoldSet, PasteOne
<1>2. /\ DOMAIN s = 1..n /\ n \in Nat /\ \A k \in 1..n : s[k] \in DOMAIN L.ev /\ r[k] = L.ev[s[k]] /\ r[k] \in Loose
      /\ Listed(L) \subseteq DOMAIN L.ev /\ Listable(L) /\ Ordered(L) /\ L \in Raw
  <2>1. DOMAIN s = 1..n /\ n \in Nat /\ \A k \in 1..n : s[k] \in Listed(C)
    BY GoodIs
  <2>2. \A x \in Listed(C) : x \in DOMAIN L.ev /\ L.ev[x] \in Loose
    BY GoodIs
  <2> QED BY <2>1, <2>2, GoodIs
<1> HIDE DEF n, r, s
<1>3. \A k \in 1..n : k - 1 \in 0..n /\ k \in 0..n
  BY <1>2
<1>4. \A k \in 0..n : W[k] = V
  OBVIOUS
<1>5. \A k \in 1..n : \A M \in V : H[<<M, k>>] = PasteOne(M, r[k], o)
  <2> HIDE DEF V
  <2> QED OBVIOUS
<1>6. ASSUME NEW k \in 1..n, NEW M \in V
      PROVE  H[<<M, k>>] = Step(M, s[k]) /\ H[<<M, k>>] \in V
  <2>1. M.ev[s[k]] = r[k]
    BY <1>2
  <2>2. PICK U : U = PasteOne(M, r[k], o)
    OBVIOUS
  <2>3. r[k] \in Loose /\ Listable(M) /\ Ordered(M)
    BY <1>2
  <2>4. /\ Listable(U) /\ Ordered(U)
        /\ \E a : DOMAIN U.ev = DOMAIN M.ev \cup {a} /\ \A y \in DOMAIN M.ev : U.ev[y] = M.ev[y]
    <3>1. PICK q : q = r[k]
      OBVIOUS
    <3>2. q \in Loose /\ U = PasteOne(M, q, o) /\ o \in Int
      BY <3>1, <2>2, <2>3
    <3>3. Listable(U) /\ Ordered(U) /\ PastedIn(M, q, o, U)
      <4> HIDE DEF V
      <4> QED BY <3>2, <2>3, PasteOneGives
    <3> QED BY <3>3 DEF PastedIn
  <2>5. U \in Raw
    BY <2>4, ListableIs
  <2>6. U \in V
    BY <2>4, <2>5
  <2> HIDE DEF V, H
  <2> QED BY <2>1, <2>2, <2>6, <1>5
<1>7. L \in V
  BY <1>2
<1> HIDE DEF H, W, V, Step
<1>8. Staged(n, W, H, L)
  <2>1. ASSUME NEW k \in 1..n
        PROVE  W[k - 1] \subseteq W[k] /\ \A m \in W[k - 1] : H[<<m, k>>] \in W[k]
    BY <1>3, <1>4, <1>6
  <2>2. 0 \in 0..n
    BY <1>2
  <2> QED BY <2>1, <2>2, <1>4, <1>7 DEF Staged
<1>9. \A k \in 1..n : \A M \in W[k - 1] : H[<<M, k>>] = Step(M, s[k])
  BY <1>3, <1>4, <1>6
<1>10. PICK g : g = (CHOOSE f : Folds(f))
  OBVIOUS
<1>11. Leads(g, n, L, W, H)
  <2> SUFFICES ASSUME NEW f, Makes(f, n, L, W, H)
               PROVE  Follows(g, n, L, W, H)
    BY DEF Leads
  <2>1. ASSUME NEW t \in SUBSET (1..n)
        PROVE  f[t] = IF t = {} THEN L ELSE Step(f[t \ {Max(t)}], s[Max(t)])
    <3>1. CASE t = {}
      BY <3>1 DEF Makes
    <3>2. CASE t # {}
      <4>1. /\ Max(t) \in 1..n /\ f[t \ {Max(t)}] \in W[Max(t) - 1]
            /\ f[t] = H[<<f[t \ {Max(t)}], Max(t)>>]
        BY <3>2 DEF Makes
      <4> QED BY <3>2, <4>1, <1>9
    <3> QED BY <3>1, <3>2
  <2>2. Folds(f)
    BY <2>1, <1>2 DEF Makes
  <2>3. Folds(g)
    <3> HIDE DEF Folds
    <3> QED BY <2>2, <1>10
  <2>4. g = [t \in SUBSET (1..n) |-> IF t = {} THEN L ELSE Step(g[t \ {Max(t)}], s[Max(t)])]
    BY <2>3, <1>2
  <2>5. g[{}] = L /\ \A t \in SUBSET (1..n) : t # {} => g[t] = Step(g[t \ {Max(t)}], s[Max(t)])
    BY <2>4
  <2>6. ASSUME NEW t \in SUBSET (1..n), t # {}, NEW k \in 1..n, k = Max(t), g[t \ {k}] \in W[k - 1]
        PROVE  g[t] = H[<<g[t \ {k}], k>>]
    BY <2>5, <2>6, <1>9
  <2> QED BY <2>5, <2>6 DEF Follows
<1> HIDE DEF Folds
<1>12. PICK M : /\ M[0] = L /\ g[1..n] = M[n]
                /\ \A k \in 0..n : M[k] \in W[k]
                /\ \A k \in 1..n : M[k] = H[<<M[k - 1], k>>]
  BY <1>2, <1>8, <1>11, FoldGives
<1> DEFINE Done(k) == \E h : Duplicates(L, C, o, k, M[k], h) /\ Excess(M[k]) = Excess(L)
           S == {k \in 0..n : Done(k)}
<1>13. 0 \in S
  <2>1. 0 \in 0..n /\ 1..0 = {}
    BY <1>2
  <2>2. Duplicates(L, C, o, 0, L, <<>>)
    <3>1. {<<>>[j] : j \in 1..0} = {}
      BY <2>1
    <3> QED BY <2>1, <3>1, <1>2 DEF Duplicates
  <2> QED BY <2>1, <2>2, <1>12
<1>14. ASSUME NEW k \in 1..n, k - 1 \in S
       PROVE  k \in S
  <2>1. PICK P : P = M[k - 1]
    OBVIOUS
  <2>2. PICK U : U = M[k]
    OBVIOUS
  <2>3. PICK h : Duplicates(L, C, o, k - 1, P, h) /\ Excess(P) = Excess(L)
    BY <2>1, <1>14
  <2>4. /\ Listable(P) /\ Ordered(P)
        /\ \A x \in DOMAIN L.ev : x \in DOMAIN P.ev /\ P.ev[x] = L.ev[x]
        /\ Listed(P) = Listed(L) \cup {h[j] : j \in 1..k - 1}
        /\ \A j \in 1..k - 1 : h[j] \notin DOMAIN L.ev /\ DuplicateOf(P.ev[h[j]], C.ev[C.seq[j]], o)
        /\ \A i, j \in 1..k - 1 : h[i] = h[j] => i = j
    BY <2>3 DEF Duplicates
  <2>5. U = PasteOne(P, r[k], o) /\ r[k] \in Loose /\ r[k] = C.ev[C.seq[k]]
    <3>1. P \in V
      BY <2>1, <1>3, <1>4, <1>12
    <3>2. U = H[<<P, k>>]
      BY <2>1, <2>2, <1>12
    <3>3. r[k] \in Loose /\ r[k] = C.ev[C.seq[k]]
      BY <1>2 DEF s
    <3> QED BY <3>1, <3>2, <3>3, <1>5
  <2>6. /\ Listable(U) /\ Ordered(U) /\ Excess(U) = Excess(P)
        /\ \E a : /\ a \notin DOMAIN P.ev /\ Listed(U) = Listed(P) \cup {a} /\ DOMAIN U.ev = DOMAIN P.ev \cup {a}
                  /\ DuplicateOf(U.ev[a], r[k], o) /\ \A y \in DOMAIN P.ev : U.ev[y] = P.ev[y]
    BY <2>4, <2>5, PasteOneGives DEF PastedIn
  <2>7. PICK a : /\ a \notin DOMAIN P.ev /\ Listed(U) = Listed(P) \cup {a} /\ DOMAIN U.ev = DOMAIN P.ev \cup {a}
                 /\ DuplicateOf(U.ev[a], r[k], o) /\ \A y \in DOMAIN P.ev : U.ev[y] = P.ev[y]
    BY <2>6
  <2>8. PICK i : i = [j \in 1..k |-> IF j = k THEN a ELSE h[j]]
    OBVIOUS
  <2>9. /\ k \in 1..k /\ i[k] = a /\ 1..k = (1..k - 1) \cup {k}
        /\ \A j \in 1..k - 1 : j # k /\ i[j] = h[j] /\ h[j] \in Listed(P) /\ h[j] \in DOMAIN P.ev /\ h[j] # a
    <3>1. k \in 1..k /\ 1..k = (1..k - 1) \cup {k} /\ \A j \in 1..k - 1 : j # k /\ j \in 1..k
      OBVIOUS
    <3>2. Listed(P) \subseteq DOMAIN P.ev
      BY <2>4, ListableIs
    <3>3. \A j \in 1..k - 1 : h[j] \in Listed(P)
      BY <2>4
    <3> QED BY <3>1, <3>2, <3>3, <2>7, <2>8
  <2>10. Listed(U) = Listed(L) \cup {i[j] : j \in 1..k}
    <3>1. {i[j] : j \in 1..k} = {h[j] : j \in 1..k - 1} \cup {a}
      BY <2>9
    <3> QED BY <3>1, <2>4, <2>7
  <2>11. ASSUME NEW j \in 1..k
         PROVE  i[j] \notin DOMAIN L.ev /\ DuplicateOf(U.ev[i[j]], C.ev[C.seq[j]], o)
    <3>1. CASE j = k
      BY <3>1, <2>4, <2>5, <2>7, <2>9
    <3>2. CASE j # k
      <4>1. j \in 1..k - 1
        BY <3>2
      <4> QED BY <4>1, <2>4, <2>7, <2>9
    <3> QED BY <3>1, <3>2
  <2>12. \A j, m \in 1..k : i[j] = i[m] => j = m
    BY <2>4, <2>9
  <2>13. \A x \in DOMAIN L.ev : x \in DOMAIN U.ev /\ U.ev[x] = L.ev[x]
    BY <2>4, <2>7
  <2>14. Duplicates(L, C, o, k, U, i)
    BY <2>6, <2>10, <2>11, <2>12, <2>13 DEF Duplicates
  <2>15. Done(k)
    BY <2>2, <2>3, <2>6, <2>14
  <2> HIDE DEF Done
  <2> QED BY <2>15, <1>3
<1>15. Done(n)
  <2> HIDE DEF Done
  <2>1. n \in S
    <3> HIDE DEF S
    <3>1. \A k \in 0..n : k \in S
      BY <1>2, <1>13, <1>14, Climb
    <3>2. n \in 0..n
      BY <1>2
    <3> QED BY <3>1, <3>2
  <2> QED BY <2>1
<1>16. N = M[n]
  BY <1>1, <1>2, <1>10, <1>12
<1> QED BY <1>15, <1>16 DEF n

(* paste() *)
LEMMA PasteGives ==
  ASSUME NEW L, Good(L), NEW C, Good(C), C.ev = L.ev, NEW o \in Nat, NEW N, N = PasteFrom(L, C, o)
  PROVE  /\ Edited(L, N)
         /\ Clean(N) /\ Whole(L) /\ Whole(C) /\ Strict(L) /\ Strict(C) => Whole(N)
<1>1. PICK M : M = PasteInto(L, C, o)
  OBVIOUS
<1>2. N = Relink(M)
  BY <1>1 DEF PasteFrom, PasteInto
<1>3. PICK h : Duplicates(L, C, o, Len(C.seq), M, h) /\ Excess(M) = Excess(L)
  BY <1>1, PasteIntoEnds
<1>4. /\ Good(N) /\ Excess(N) = Excess(M) /\ Aside(L, N)
      /\ Clean(N) /\ Whole(L) /\ Whole(C) /\ Strict(L) /\ Strict(C) => Whole(N)
  BY <1>2, <1>3, DuplicatesGive
<1> QED BY <1>3, <1>4 DEF Edited

(* A note of the list keeps its note off, if no pasted one overlaps it. *)
LEMMA PasteServes ==
  ASSUME NEW L, Good(L), NEW C, Good(C), C.ev = L.ev, NEW o \in Nat, NEW N, N = PasteFrom(L, C, o),
         Clean(L), Whole(L), Strict(C), Whole(C),
         \A x \in Ons(L), y \in Ons(C) : L.ev[x].note = C.ev[y].note =>
           L.ev[L.ev[x].link].ts <= C.ev[y].ts + o \/ C.ev[C.ev[y].link].ts + o <= L.ev[x].ts
  PROVE  \A a \in Ons(L) : N.ev[a].link = L.ev[a].link
<1>1. PICK M : M = PasteInto(L, C, o)
  OBVIOUS
<1>2. N = Relink(M)
  BY <1>1 DEF PasteFrom, PasteInto
<1>3. PICK h : Duplicates(L, C, o, Len(C.seq), M, h)
  BY <1>1, PasteIntoEnds
<1>4. PICK p : /\ TakesAlong(L, C, h, p)
               /\ \A a \in Ons(M) : AloneIn(M, p, a) => N.ev[a].link = p[a]
  <2>1. Strict(L)
    BY CleanIsStrict
  <2>2. PICK p : ServedBy(L, C, h, p, M, N)
    BY <2>1, <1>2, <1>3, DuplicatesServed
  <2> QED BY <2>2 DEF ServedBy
<1> DEFINE n == Len(C.seq)
<1>5. /\ \A x \in DOMAIN L.ev : x \in DOMAIN M.ev /\ M.ev[x] = L.ev[x]
      /\ Listed(M) = Listed(L) \cup {h[j] : j \in 1..n}
      /\ \A j \in 1..n : DuplicateOf(M.ev[h[j]], C.ev[C.seq[j]], o)
  BY <1>3 DEF Duplicates
<1>6. /\ Listed(L) \subseteq DOMAIN L.ev
      /\ \A x \in Ons(L) : L.ev[x].link \in Listed(L)
      /\ \A x \in Ons(L) : p[x] = L.ev[x].link
  BY <1>4, GoodIs DEF TakesAlong, Clean
<1>7. /\ DOMAIN C.seq = 1..n /\ \A k \in 1..n : C.seq[k] \in Listed(C)
      /\ \A x \in Listed(C) : \E k \in 1..n : C.seq[k] = x
      /\ \A x \in Listed(C) : C.ev[x].link # None => Halves(C, x, C.ev[x].link)
      /\ \A x \in Ons(C) : C.ev[x].link # None
  BY GoodIs DEF Paired, Listed
<1> HIDE DEF n
<1>8. ASSUME NEW a \in Ons(L)
      PROVE  N.ev[a].link = L.ev[a].link
  <2>1. /\ a \in Listed(L) /\ a \in Ons(M) /\ p[a] = L.ev[a].link /\ M.ev[a] = L.ev[a] /\ M.ev[p[a]] = L.ev[p[a]]
    BY <1>5, <1>6 DEF Ons
  <2>2. ASSUME NEW c \in Ons(M) \ {a}, M.ev[c].note = M.ev[a].note
        PROVE  M.ev[p[c]].ts <= M.ev[a].ts \/ M.ev[p[a]].ts <= M.ev[c].ts
    <3>1. CASE c \in Listed(L)
      <4>1. c \in Ons(L) \ {a} /\ M.ev[c] = L.ev[c]
        BY <3>1, <2>2, <1>5, <1>6 DEF Ons
      <4>2. p[c] = L.ev[c].link /\ M.ev[p[c]] = L.ev[p[c]]
        BY <4>1, <1>5, <1>6
      <4>3. L.ev[L.ev[c].link].ts <= L.ev[a].ts \/ L.ev[L.ev[a].link].ts <= L.ev[c].ts
        BY <2>1, <2>2, <4>1 DEF Clean
      <4> QED BY <2>1, <4>1, <4>2, <4>3
    <3>2. CASE c \notin Listed(L)
      <4>1. PICK j \in 1..n : c = h[j]
        BY <3>2, <1>5 DEF Ons
      <4>2. PICK y : y = C.seq[j]
        OBVIOUS
      <4>3. DuplicateOf(M.ev[c], C.ev[y], o) /\ y \in Ons(C)
        BY <2>2, <4>1, <4>2, <1>5, <1>7 DEF DuplicateOf, Ons
      <4>4. C.ev[y].note = L.ev[a].note /\ M.ev[c].ts = C.ev[y].ts + o /\ C.ev[y].op = "on"
        BY <2>1, <2>2, <4>3 DEF DuplicateOf, Ons
      <4>5. PICK k \in 1..n : C.seq[k] = C.ev[y].link
        <5>1. y \in Listed(C) /\ Halves(C, y, C.ev[y].link)
          BY <4>3, <1>7 DEF Ons
        <5> QED BY <5>1, <1>7 DEF Halves
      <4>6. p[c] = h[k]
        BY <4>1, <4>2, <4>4, <4>5, <1>4, <1>7 DEF TakesAlong
      <4>7. M.ev[p[c]].ts = C.ev[C.ev[y].link].ts + o
        BY <4>5, <4>6, <1>5 DEF DuplicateOf
      <4>8. L.ev[L.ev[a].link].ts <= C.ev[y].ts + o \/ C.ev[C.ev[y].link].ts + o <= L.ev[a].ts
        BY <4>3, <4>4
      <4> QED BY <2>1, <4>4, <4>7, <4>8
    <3> QED BY <3>1, <3>2
  <2>3. AloneIn(M, p, a)
    BY <2>2 DEF AloneIn
  <2> QED BY <2>1, <2>3, <1>4
<1> QED BY <1>8

-----------------------------------------------------------------------------
(* Merging                                                                     *)

(* the events of s are inserted into L *)
MergeInto(L, s) == FoldLeft(Insert, L, s)

(* One after the other goes to its place. *)
LEMMA MergeEnds ==
  ASSUME NEW L, Good(L), NEW n \in Nat, NEW s, DOMAIN s = 1..n,
         \A k \in 1..n : s[k] \in DOMAIN L.ev /\ s[k] \notin Listed(L),
         \A j, k \in 1..n : s[j] = s[k] => j = k, NEW N, N = MergeInto(L, s)
  PROVE  /\ Listable(N) /\ Ordered(N) /\ Excess(N) = Excess(L) /\ N.ev = L.ev
         /\ Listed(N) = Listed(L) \cup {s[k] : k \in 1..n}
<1> DEFINE V == {M \in Raw : M.ev = L.ev /\ Listed(M) \subseteq DOMAIN L.ev}
           H == [p \in V \X (1..n) |-> Insert(p[1], s[p[2]])]
           W == [k \in 0..n |-> V]
           Folds(f) == f = [t \in SUBSET DOMAIN s |->
                              IF t = {} THEN L ELSE Insert(f[t \ {Max(t)}], s[Max(t)])]
<1>1. N = (CHOOSE f : Folds(f))[DOMAIN s]
  BY Zenon DEF MergeInto, FoldLeft, MapThenFoldSet
<1>2. Listed(L) \subseteq DOMAIN L.ev /\ Listable(L) /\ Ordered(L) /\ L \in Raw
  BY GoodIs
<1>3. \A k \in 1..n : k - 1 \in 0..n /\ k \in 0..n
  OBVIOUS
<1>4. \A k \in 0..n : W[k] = V
  OBVIOUS
<1>5. \A k \in 1..n : \A M \in V : H[<<M, k>>] = Insert(M, s[k])
  <2> HIDE DEF V
  <2> QED OBVIOUS
<1>6. ASSUME NEW k \in 1..n, NEW M \in V
      PROVE  H[<<M, k>>] \in V
  <2>1. PICK U : U = Insert(M, s[k])
    OBVIOUS
  <2>2. PICK x : x = s[k]
    OBVIOUS
  <2>3. U = Insert(M, x) /\ x \in DOMAIN M.ev /\ M \in Raw /\ Listed(M) \subseteq DOMAIN M.ev
    BY <2>1, <2>2
  <2>4. U \in Raw /\ U.ev = M.ev /\ Listed(U) = Listed(M) \cup {x}
    <3> HIDE DEF V
    <3> QED BY <2>3, InsertPuts
  <2>5. U \in V
    BY <2>3, <2>4
  <2> HIDE DEF V, H
  <2> QED BY <2>1, <2>5, <1>5
<1>7. L \in V
  BY <1>2
<1> HIDE DEF H, W, V
<1>8. Staged(n, W, H, L)
  <2>1. ASSUME NEW k \in 1..n
        PROVE  W[k - 1] \subseteq W[k] /\ \A m \in W[k - 1] : H[<<m, k>>] \in W[k]
    BY <1>3, <1>4, <1>6
  <2>2. 0 \in 0..n
    OBVIOUS
  <2> QED BY <2>1, <2>2, <1>4, <1>7 DEF Staged
<1>9. \A k \in 1..n : \A M \in W[k - 1] : H[<<M, k>>] = Insert(M, s[k])
  BY <1>3, <1>4, <1>5
<1>10. PICK g : g = (CHOOSE f : Folds(f))
  OBVIOUS
<1>11. Leads(g, n, L, W, H)
  <2> SUFFICES ASSUME NEW f, Makes(f, n, L, W, H)
               PROVE  Follows(g, n, L, W, H)
    BY DEF Leads
  <2>1. ASSUME NEW t \in SUBSET (1..n)
        PROVE  f[t] = IF t = {} THEN L ELSE Insert(f[t \ {Max(t)}], s[Max(t)])
    <3>1. CASE t = {}
      BY <3>1 DEF Makes
    <3>2. CASE t # {}
      <4>1. /\ Max(t) \in 1..n /\ f[t \ {Max(t)}] \in W[Max(t) - 1]
            /\ f[t] = H[<<f[t \ {Max(t)}], Max(t)>>]
        BY <3>2 DEF Makes
      <4> QED BY <3>2, <4>1, <1>9
    <3> QED BY <3>1, <3>2
  <2>2. Folds(f)
    BY <2>1 DEF Makes
  <2>3. Folds(g)
    <3> HIDE DEF Folds
    <3> QED BY <2>2, <1>10
  <2>4. g = [t \in SUBSET (1..n) |-> IF t = {} THEN L ELSE Insert(g[t \ {Max(t)}], s[Max(t)])]
    BY <2>3
  <2>5. g[{}] = L /\ \A t \in SUBSET (1..n) : t # {} => g[t] = Insert(g[t \ {Max(t)}], s[Max(t)])
    BY <2>4
  <2>6. ASSUME NEW t \in SUBSET (1..n), t # {}, NEW k \in 1..n, k = Max(t), g[t \ {k}] \in W[k - 1]
        PROVE  g[t] = H[<<g[t \ {k}], k>>]
    BY <2>5, <2>6, <1>9
  <2> QED BY <2>5, <2>6 DEF Follows
<1> HIDE DEF Folds
<1>12. PICK M : /\ M[0] = L /\ g[1..n] = M[n]
                /\ \A k \in 0..n : M[k] \in W[k]
                /\ \A k \in 1..n : M[k] = H[<<M[k - 1], k>>]
  BY <1>8, <1>11, FoldGives
<1> DEFINE Done(k) ==
             /\ Listable(M[k]) /\ Ordered(M[k]) /\ Excess(M[k]) = Excess(L) /\ M[k].ev = L.ev
             /\ Listed(M[k]) = Listed(L) \cup {s[j] : j \in 1..k}
           S == {k \in 0..n : Done(k)}
<1>13. 0 \in S
  <2>1. 0 \in 0..n /\ 1..0 = {}
    OBVIOUS
  <2>2. {s[j] : j \in 1..0} = {}
    BY <2>1
  <2> QED BY <2>1, <2>2, <1>2, <1>12
<1>14. ASSUME NEW k \in 1..n, k - 1 \in S
       PROVE  k \in S
  <2>1. PICK P : P = M[k - 1]
    OBVIOUS
  <2>2. PICK U : U = M[k]
    OBVIOUS
  <2>3. /\ Listable(P) /\ Ordered(P) /\ Excess(P) = Excess(L) /\ P.ev = L.ev
        /\ Listed(P) = Listed(L) \cup {s[j] : j \in 1..k - 1}
    BY <2>1, <1>14
  <2>4. PICK x : x = s[k]
    OBVIOUS
  <2>5. U = Insert(P, x)
    <3>1. P \in V
      BY <2>1, <1>3, <1>4, <1>12
    <3>2. U = H[<<P, k>>]
      BY <2>1, <2>2, <1>12
    <3> QED BY <3>1, <3>2, <2>4, <1>5
  <2>6. \A j \in 1..k - 1 : j \in 1..n /\ j # k
    OBVIOUS
  <2>7. x \notin Listed(P) /\ x \in DOMAIN P.ev
    BY <2>3, <2>4, <2>6
  <2>8. P \in Raw /\ Listed(P) \subseteq DOMAIN P.ev /\ IsInjective(P.seq) /\ Len(P.seq) \in Nat /\ P.size \in Int
    BY <2>3, ListableIs
  <2>9. /\ U \in Raw /\ U.ev = P.ev /\ U.size = P.size + 1
        /\ Len(U.seq) = Len(P.seq) + 1 /\ Listed(U) = Listed(P) \cup {x}
        /\ IsInjective(P.seq) /\ x \notin Listed(P) => IsInjective(U.seq)
        /\ IsInjective(P.seq) /\ Ordered(P) => Ordered(U)
    BY <2>5, <2>7, <2>8, InsertPuts
  <2>10. Excess(U) = Excess(P)
    BY <2>8, <2>9 DEF Excess
  <2>11. Listable(U) /\ Ordered(U)
    BY <2>3, <2>7, <2>8, <2>9 DEF Listable
  <2>12. Listed(U) = Listed(L) \cup {s[j] : j \in 1..k}
    <3>1. 1..k = (1..k - 1) \cup {k}
      OBVIOUS
    <3>2. {s[j] : j \in 1..k} = {s[j] : j \in 1..k - 1} \cup {x}
      BY <3>1, <2>4
    <3> QED BY <3>2, <2>3, <2>9
  <2>13. Done(k)
    BY <2>2, <2>3, <2>9, <2>10, <2>11, <2>12
  <2> HIDE DEF Done
  <2> QED BY <2>13, <1>3
<1>15. Done(n)
  <2> HIDE DEF Done
  <2>1. n \in S
    <3> HIDE DEF S
    <3>1. \A k \in 0..n : k \in S
      BY <1>13, <1>14, Climb
    <3>2. n \in 0..n
      OBVIOUS
    <3> QED BY <3>1, <3>2
  <2> QED BY <2>1
<1>16. N = M[n]
  BY <1>1, <1>10, <1>12
<1> QED BY <1>15, <1>16

(* merge() *)
LEMMA MergeGives ==
  ASSUME NEW L, Good(L), NEW C, Good(C), C.ev = L.ev, Listed(L) \cap Listed(C) = {},
         NEW N, N = MergeInto(L, C.seq)
  PROVE  /\ Good(N) /\ Excess(N) = Excess(L) /\ N.ev = L.ev /\ Listed(N) = Listed(L) \cup Listed(C)
         /\ Whole(L) /\ Whole(C) => Whole(N)
<1> DEFINE n == Len(C.seq)
<1>1. /\ DOMAIN C.seq = 1..n /\ n \in Nat /\ \A k \in 1..n : C.seq[k] \in Listed(C)
      /\ Listed(C) \subseteq DOMAIN L.ev /\ \A j, k \in 1..n : C.seq[j] = C.seq[k] => j = k
      /\ \A x \in Listed(C) : L.ev[x] \in Event
      /\ \A x \in Listed(C) : L.ev[x].link # None => Halves(C, x, L.ev[x].link)
      /\ \A x \in Ons(C) : L.ev[x].link # None
  BY GoodIs, ListableIs DEF Paired
<1>2. /\ \A x \in Listed(L) : L.ev[x] \in Event
      /\ \A x \in Listed(L) : L.ev[x].link # None => Halves(L, x, L.ev[x].link)
      /\ \A x \in Ons(L) : L.ev[x].link # None
  BY GoodIs DEF Paired
<1> HIDE DEF n
<1>3. /\ Listable(N) /\ Ordered(N) /\ Excess(N) = Excess(L) /\ N.ev = L.ev
      /\ Listed(N) = Listed(L) \cup {C.seq[k] : k \in 1..n}
  <2>1. \A k \in 1..n : C.seq[k] \in DOMAIN L.ev /\ C.seq[k] \notin Listed(L)
    BY <1>1
  <2> QED BY <2>1, <1>1, MergeEnds
<1>4. Listed(N) = Listed(L) \cup Listed(C)
  <2>1. Listed(C) = {C.seq[k] : k \in 1..n}
    BY <1>1 DEF Listed
  <2> QED BY <2>1, <1>3
<1>5. ASSUME NEW x \in Listed(N), N.ev[x].link # None
      PROVE  Halves(N, x, N.ev[x].link)
  <2>1. CASE x \in Listed(L)
    BY <2>1, <1>2, <1>3, <1>4, <1>5 DEF Halves
  <2>2. CASE x \in Listed(C)
    BY <2>2, <1>1, <1>3, <1>4, <1>5 DEF Halves
  <2> QED BY <2>1, <2>2, <1>4
<1>6. \A x \in Ons(N) : N.ev[x].link # None
  BY <1>1, <1>2, <1>3, <1>4 DEF Ons
<1>7. Good(N)
  BY <1>1, <1>2, <1>3, <1>4, <1>5, <1>6 DEF Good, Paired, Linked
<1>8. Whole(L) /\ Whole(C) => Whole(N)
  BY <1>3, <1>4 DEF Whole
<1> QED BY <1>3, <1>4, <1>7, <1>8

-----------------------------------------------------------------------------
(* The other operations                                                        *)

(* insert_time(): sort() leaves nothing *)
LeavesNothing(L, N) == Good(N) /\ Whole(N) /\ Aside(L, N) /\ N.size = L.size /\ N.seq = <<>>

(* insert_time() leaves a list without events, and touches no other. *)
LEMMA SpreadGives ==
  ASSUME NEW L, Good(L), NEW s \in Nat, NEW d \in Nat, NEW N, N = SpreadTime(L, s, d)
  PROVE  LeavesNothing(L, N)
<1> DEFINE X == {x \in Listed(L) : L.ev[x].op # "off" /\ L.ev[x].ts >= s}
           Y == X \cup {L.ev[x].link : x \in X}
<1>1. PICK M : M = Later(L, Y, d)
  OBVIOUS
<1>2. \A x \in DOMAIN L.ev : x \notin Listed(L) => x \notin Y
  <2>1. X \subseteq Listed(L)
    OBVIOUS
  <2> HIDE DEF X
  <2> QED BY <2>1, PartnersTogether DEF WithPartners
<1>3. L \in Raw /\ Listed(L) \subseteq DOMAIN L.ev
  BY GoodIs
<1> HIDE DEF Y
<1>4. /\ M \in Raw /\ M.seq = L.seq /\ M.size = L.size /\ Listed(M) = Listed(L) /\ DOMAIN M.ev = DOMAIN L.ev
      /\ \A x \in DOMAIN L.ev : x \notin Y => M.ev[x] = L.ev[x]
  BY <1>1, <1>3, LaterGives
<1>5. N = SortAll(M)
  BY <1>1 DEF SpreadTime, Y
<1>6. PICK R : R = Release(M, Listed(M))
  OBVIOUS
<1>7. /\ R \in Raw /\ R.seq = M.seq /\ R.size = M.size /\ DOMAIN R.ev = DOMAIN M.ev \ Listed(M)
      /\ \A y \in DOMAIN M.ev : y \notin Listed(M) => R.ev[y] = M.ev[y]
  BY <1>4, <1>6, ReleaseFrees
<1>8. N = [R EXCEPT !.seq = <<>>]
  <2>1. R = [M EXCEPT !.ev = [y \in DOMAIN M.ev \ Listed(M) |-> M.ev[y]]]
    BY <1>6 DEF Release
  <2>2. N = [M EXCEPT !.ev = [y \in DOMAIN M.ev \ Listed(M) |-> M.ev[y]], !.seq = <<>>]
    BY <1>5 DEF SortAll
  <2>3. PICK e : e = [y \in DOMAIN M.ev \ Listed(M) |-> M.ev[y]]
    OBVIOUS
  <2>4. M = [ev |-> M.ev, seq |-> M.seq, size |-> M.size]
    BY <1>4, RawIs
  <2> QED BY <2>1, <2>2, <2>3, <2>4
<1>9. N \in Raw /\ N.ev = R.ev /\ N.seq = <<>> /\ N.size = R.size
  <2>1. R.ev \in Memory /\ R.size \in Int /\ R = [ev |-> R.ev, seq |-> R.seq, size |-> R.size]
    BY <1>7, RawIs
  <2>2. <<>> \in Seq(Addr) /\ N = [ev |-> R.ev, seq |-> <<>>, size |-> R.size]
    BY <2>1, <1>8
  <2> QED BY <2>1, <2>2 DEF Raw
<1>10. Listed(N) = {} /\ DOMAIN N.seq = {}
  BY <1>9 DEF Listed
<1>11. Good(N) /\ Whole(N)
  BY <1>9, <1>10 DEF Good, Listable, IsInjective, Ordered, Paired, Linked, Ons, Whole
<1>12. Aside(L, N)
  BY <1>2, <1>4, <1>7, <1>9, <1>10 DEF Aside
<1> QED BY <1>4, <1>7, <1>9, <1>11, <1>12 DEF LeavesNothing

(* delete_time() *)
LEMMA CutGives ==
  ASSUME NEW L, Good(L), NEW s \in Nat, NEW t \in Nat, s < t, NEW N, N = CutTime(L, s, t)
  PROVE  /\ Edited(L, N) /\ (Whole(L) => Whole(N))
         /\ Listed(N) = Listed(L) \ WithPartners(L, InRange(L, s, t))
         /\ \A x \in Listed(N) : N.ev[x].sel = L.ev[x].sel
<1> DEFINE Touches == InRange(L, s, t)
           Gone == WithPartners(L, Touches)
<1>1. PICK P : P = Deepen(L, 1)
  OBVIOUS
<1>2. /\ Edited(L, P) /\ P.seq = L.seq /\ Listed(P) = Listed(L) /\ DOMAIN P.ev = DOMAIN L.ev
      /\ \A x \in Listed(L) : /\ P.ev[x].op = L.ev[x].op /\ P.ev[x].note = L.ev[x].note
                              /\ P.ev[x].ts = L.ev[x].ts /\ P.ev[x].link = L.ev[x].link
                              /\ P.ev[x].sel = IF L.ev[x].sel > 0 THEN L.ev[x].sel + 1 ELSE L.ev[x].sel
      /\ Whole(L) => Whole(P)
  <2>1. 1 \in {1, -1}
    OBVIOUS
  <2> QED BY <2>1, <1>1, DeepenGives
<1>3. InRange(P, s, t) = Touches /\ Touches \subseteq Listed(L) /\ WithPartners(P, Touches) = Gone
  <2>1. InRange(P, s, t) = Touches /\ Touches \subseteq Listed(L)
    BY <1>2 DEF InRange
  <2> HIDE DEF Touches
  <2> QED BY <2>1, <1>2 DEF WithPartners
<1>4. \A x \in DOMAIN L.ev : x \notin Listed(L) => x \notin Gone
  BY <1>3, PartnersTogether
<1> HIDE DEF Touches, Gone
<1>5. PICK M : M = Mark(P, Touches, 1)
  OBVIOUS
<1>6. /\ Edited(P, M) /\ M.seq = P.seq /\ Listed(M) = Listed(P)
      /\ \A x \in Listed(P) : /\ M.ev[x].op = P.ev[x].op /\ M.ev[x].note = P.ev[x].note
                              /\ M.ev[x].ts = P.ev[x].ts /\ M.ev[x].link = P.ev[x].link
                              /\ M.ev[x].sel = IF x \in Gone THEN 1 ELSE P.ev[x].sel
      /\ Whole(P) => Whole(M)
  <2>1. Good(P) /\ 1 \in Nat /\ Touches \subseteq Listed(P)
    BY <1>2, <1>3 DEF Edited
  <2> QED BY <2>1, <1>3, <1>5, MarkGives
<1>7. /\ Good(M) /\ Edited(L, M) /\ Listed(M) = Listed(L)
      /\ \A x \in Listed(L) : L.ev[x].sel \in Nat /\ L.ev[x].ts \in Nat /\ L.ev[x].op \in Op
  BY <1>2, <1>6, EditedOn, GoodIs DEF Edited
<1>8. Selected(M) = Gone \cap Listed(L)
  <2> SUFFICES ASSUME NEW x \in Listed(L)
               PROVE  M.ev[x].sel = 1 <=> x \in Gone
    BY <1>7 DEF Selected
  <2>1. P.ev[x].sel # 1
    BY <1>2, <1>7
  <2> QED BY <2>1, <1>2, <1>6
<1>9. \A x, y \in Listed(M) : Halves(M, x, y) => (x \in Selected(M) <=> y \in Selected(M))
  <2> SUFFICES ASSUME NEW x \in Listed(L), NEW y \in Listed(L), Halves(M, x, y)
               PROVE  x \in Gone <=> y \in Gone
    BY <1>7, <1>8
  <2>1. Halves(L, x, y)
    BY <1>2, <1>6 DEF Halves
  <2> QED BY <2>1, <1>3, PartnersTogether DEF Gone
<1>10. PICK R : R = RemoveSelected(M)
  OBVIOUS
<1>11. /\ Edited(M, R) /\ Listed(R) = Listed(M) \ Selected(M) /\ (Whole(M) => Whole(R))
       /\ \A x \in Listed(R) : R.ev[x] = M.ev[x]
  <2>1. PICK X : X = Selected(M)
    OBVIOUS
  <2>2. X \subseteq Listed(M) /\ R = RemoveAll(M, X)
    BY <2>1, <1>10 DEF RemoveSelected, Selected
  <2>3. \A x, y \in Listed(M) : Halves(M, x, y) => (x \in X <=> y \in X)
    BY <2>1, <1>9
  <2>4. /\ Edited(M, R) /\ Listed(R) = Listed(M) \ X /\ (Whole(M) => Whole(R))
        /\ \A x \in Listed(R) : R.ev[x] = M.ev[x]
    BY <2>2, <2>3, <1>7, RemoveAllGives
  <2> QED BY <2>1, <2>4
<1>12. PICK Q : Q = Deepen(R, -1)
  OBVIOUS
<1>13. /\ Edited(R, Q) /\ Q.seq = R.seq /\ Listed(Q) = Listed(R)
       /\ \A x \in Listed(R) : /\ Q.ev[x].op = R.ev[x].op /\ Q.ev[x].note = R.ev[x].note
                               /\ Q.ev[x].ts = R.ev[x].ts /\ Q.ev[x].link = R.ev[x].link
                               /\ Q.ev[x].sel = IF R.ev[x].sel > 0 THEN R.ev[x].sel + (-1) ELSE R.ev[x].sel
       /\ Whole(R) => Whole(Q)
  <2>1. Good(R) /\ -1 \in {1, -1}
    BY <1>11 DEF Edited
  <2> QED BY <2>1, <1>12, DeepenGives
<1>14. /\ Good(Q) /\ Edited(L, Q) /\ Listed(Q) = Listed(L) \ Gone
       /\ \A x \in Listed(Q) : /\ x \in Listed(L) /\ x \notin Touches
                               /\ Q.ev[x].op = L.ev[x].op /\ Q.ev[x].ts = L.ev[x].ts /\ Q.ev[x].sel = L.ev[x].sel
  <2>1. Good(Q) /\ Edited(L, Q)
    BY <1>7, <1>11, <1>13, EditedOn DEF Edited
  <2>2. Listed(Q) = Listed(L) \ Gone
    BY <1>7, <1>8, <1>11, <1>13
  <2>3. ASSUME NEW x \in Listed(Q)
        PROVE  /\ x \in Listed(L) /\ x \notin Touches
               /\ Q.ev[x].op = L.ev[x].op /\ Q.ev[x].ts = L.ev[x].ts /\ Q.ev[x].sel = L.ev[x].sel
    <3>1. x \in Listed(L) /\ x \notin Gone /\ x \notin Touches /\ x \in Listed(R) /\ x \in Listed(P)
      BY <2>2, <1>2, <1>13 DEF Gone, WithPartners
    <3>2. M.ev[x].sel = P.ev[x].sel /\ R.ev[x] = M.ev[x]
      BY <3>1, <1>6, <1>11
    <3>3. Q.ev[x].op = L.ev[x].op /\ Q.ev[x].ts = L.ev[x].ts
      BY <3>1, <3>2, <1>2, <1>6, <1>13
    <3>4. Q.ev[x].sel = L.ev[x].sel
      <4>1. L.ev[x].sel \in Nat /\ R.ev[x].sel = IF L.ev[x].sel > 0 THEN L.ev[x].sel + 1 ELSE L.ev[x].sel
        BY <3>1, <3>2, <1>2, <1>7
      <4>2. Q.ev[x].sel = IF R.ev[x].sel > 0 THEN R.ev[x].sel + (-1) ELSE R.ev[x].sel
        BY <3>1, <1>13
      <4> QED BY <4>1, <4>2
    <3> QED BY <3>1, <3>3, <3>4
  <2> QED BY <2>1, <2>2, <2>3
<1>15. PICK Z : Z = {x \in Listed(Q) : Q.ev[x].ts >= t}
  OBVIOUS
<1>16. N = Later(Q, Z, s - t)
  <2>1. N = Later(Q, {x \in Listed(Q) : Q.ev[x].ts >= t}, s - t)
    BY <1>1, <1>3, <1>5, <1>10, <1>12 DEF CutTime
  <2> QED BY <2>1, <1>15
<1>17. Q \in Raw /\ s - t \in Int /\ Listed(Q) \subseteq DOMAIN Q.ev /\ Ordered(Q)
  BY <1>14, GoodIs
<1>18. /\ N \in Raw /\ N.seq = Q.seq /\ N.size = Q.size /\ Listed(N) = Listed(Q) /\ DOMAIN N.ev = DOMAIN Q.ev
       /\ \A x \in DOMAIN Q.ev : /\ N.ev[x].op = Q.ev[x].op /\ N.ev[x].note = Q.ev[x].note
                                 /\ N.ev[x].sel = Q.ev[x].sel /\ N.ev[x].link = Q.ev[x].link
                                 /\ N.ev[x].ts = IF x \in Z THEN Q.ev[x].ts + (s - t) ELSE Q.ev[x].ts
                                 /\ x \notin Z => N.ev[x] = Q.ev[x]
  BY <1>16, <1>17, LaterGives
<1>19. ASSUME NEW x \in Listed(Q)
       PROVE  /\ Q.ev[x].ts \in Nat
              /\ Q.ev[x].ts >= t => N.ev[x].ts = Q.ev[x].ts + (s - t)
              /\ ~(Q.ev[x].ts >= t) => N.ev[x].ts = Q.ev[x].ts /\ Q.ev[x].ts <= s
  <2>1. x \in Listed(L) /\ x \notin Touches /\ Q.ev[x].op = L.ev[x].op /\ Q.ev[x].ts = L.ev[x].ts /\ L.ev[x].ts \in Nat
    BY <1>7, <1>14
  <2>2. ~(Q.ev[x].ts >= t) => Q.ev[x].ts <= s
    BY <2>1 DEF Touches, InRange
  <2>3. x \in Z <=> Q.ev[x].ts >= t
    BY <1>15
  <2> QED BY <2>1, <2>2, <2>3, <1>17, <1>18
<1>20. Ordered(N)
  <2> SUFFICES ASSUME NEW y \in Listed(Q), NEW z \in Listed(Q), Before(Q.seq, y, z)
               PROVE  N.ev[y].ts <= N.ev[z].ts
    BY <1>18 DEF Ordered
  <2>1. Q.ev[y].ts <= Q.ev[z].ts
    BY <1>17 DEF Ordered
  <2> QED BY <2>1, <1>19
<1>21. Edited(Q, N)
  <2>1. \A x \in Listed(Q) : N.ev[x].ts \in Nat
    BY <1>19
  <2>2. \A x \in Listed(Q) : N.ev[x].op = Q.ev[x].op /\ N.ev[x].link = Q.ev[x].link /\ N.ev[x].sel \in Nat
    BY <1>7, <1>14, <1>17, <1>18
  <2>3. \A x \in DOMAIN Q.ev : x \notin Listed(Q) => N.ev[x] = Q.ev[x]
    BY <1>15, <1>18
  <2>4. \A x, y \in Listed(Q) : Halves(Q, x, y) => N.ev[y].note = N.ev[x].note
    BY <1>17, <1>18 DEF Halves
  <2> QED BY <2>1, <2>2, <2>3, <2>4, <1>14, <1>18, <1>20, Touched
<1>22. Edited(L, N)
  BY <1>14, <1>21, EditedOn
<1>23. Whole(Q) => Whole(N)
  <2>1. \A x \in Listed(Q) : Q.ev[x].link # None => Q.ev[x].link \in Listed(Q)
    BY <1>14, GoodIs DEF Halves
  <2> QED BY <2>1, <1>17, <1>18 DEF Whole
<1>24. \A x \in Listed(N) : N.ev[x].sel = L.ev[x].sel
  BY <1>14, <1>17, <1>18
<1> QED BY <1>2, <1>6, <1>11, <1>13, <1>14, <1>18, <1>22, <1>23, <1>24 DEF Gone, Touches

(* invert_selection() *)
LEMMA MarkedTwice ==
  ASSUME NEW L, Good(L), NEW X, X \subseteq Listed(L), NEW Y, Y \subseteq Listed(L),
         NEW M, M = Mark(L, X, 0), NEW N, N = Mark(M, Y, 1)
  PROVE  Edited(L, N) /\ (Whole(L) => Whole(N))
<1>1. Edited(L, M) /\ Listed(M) = Listed(L) /\ (Whole(L) => Whole(M))
  <2>1. 0 \in Nat
    OBVIOUS
  <2> QED BY <2>1, MarkGives
<1>2. Edited(M, N) /\ (Whole(M) => Whole(N))
  <2>1. Good(M) /\ Y \subseteq Listed(M) /\ 1 \in Nat
    BY <1>1 DEF Edited
  <2> QED BY <2>1, MarkGives
<1> QED BY <1>1, <1>2, EditedOn

(* what was selected is not, and the other way round *)
LEMMA InvertGives ==
  ASSUME NEW L, Good(L), NEW N, N = InvertSelection(L)
  PROVE  Edited(L, N) /\ (Whole(L) => Whole(N))
<1> DEFINE heads == {x \in Listed(L) : L.ev[x].op # "off"}
           on == heads \cap Selected(L)
<1>1. N = Mark(Mark(L, on, 0), heads \ on, 1) /\ on \subseteq Listed(L) /\ heads \ on \subseteq Listed(L)
  BY DEF InvertSelection
<1> HIDE DEF heads, on
<1>2. PICK X, Y, M : X = on /\ Y = heads \ on /\ M = Mark(L, X, 0)
  OBVIOUS
<1>3. X \subseteq Listed(L) /\ Y \subseteq Listed(L) /\ M = Mark(L, X, 0) /\ N = Mark(M, Y, 1)
  BY <1>1, <1>2
<1> QED BY <1>3, MarkedTwice

(* the user enters a note *)
NoteEntered(L, n, s, t) ==
  LET a == FreshEvent(L)
      L1 == Allocate(L, a, [op |-> "on", note |-> n, ts |-> s, sel |-> 0, link |-> None])
      b == FreshEvent(L1)
      L2 == Allocate(L1, b, [op |-> "off", note |-> n, ts |-> t, sel |-> 0, link |-> None])
  IN Mix(Couple(L2, a, b), a)

(* A note of any length may be entered. *)
LEMMA NoteEnteredGives ==
  ASSUME NEW L, Good(L), NEW n \in Note, NEW s \in Nat, NEW t \in Nat, NEW N, N = NoteEntered(L, n, s, t)
  PROVE  Edited(L, N) /\ (Whole(L) => Whole(N))
<1>1. PICK a : a = FreshEvent(L)
  OBVIOUS
<1>2. PICK ra, rb : /\ ra = [op |-> "on", note |-> n, ts |-> s, sel |-> 0, link |-> None]
                    /\ rb = [op |-> "off", note |-> n, ts |-> t, sel |-> 0, link |-> None]
  OBVIOUS
<1>3. ra \in Loose /\ rb \in Loose
  BY <1>2 DEF Loose, Op, None
<1>4. a \in Addr /\ a \notin DOMAIN L.ev /\ L \in Raw
  BY <1>1, FreshIs, GoodIs
<1>5. PICK M1 : M1 = Allocate(L, a, ra)
  OBVIOUS
<1>6. /\ M1 \in Raw /\ M1.seq = L.seq /\ M1.size = L.size
      /\ DOMAIN M1.ev = DOMAIN L.ev \cup {a} /\ M1.ev[a] = ra
      /\ \A z \in DOMAIN L.ev : z # a => M1.ev[z] = L.ev[z]
  BY <1>3, <1>4, <1>5, AllocateMakes
<1>7. PICK b : b = FreshEvent(M1)
  OBVIOUS
<1>8. b \in Addr /\ b \notin DOMAIN M1.ev
  BY <1>6, <1>7, FreshIs
<1>9. PICK M2 : M2 = Allocate(M1, b, rb)
  OBVIOUS
<1>10. /\ M2 \in Raw /\ M2.seq = M1.seq /\ M2.size = M1.size
       /\ DOMAIN M2.ev = DOMAIN M1.ev \cup {b} /\ M2.ev[b] = rb
       /\ \A z \in DOMAIN M1.ev : z # b => M2.ev[z] = M1.ev[z]
  BY <1>3, <1>6, <1>8, <1>9, AllocateMakes
<1>11. a \in DOMAIN M2.ev /\ b \in DOMAIN M2.ev /\ a # b /\ b \notin DOMAIN L.ev
  BY <1>6, <1>8, <1>10
<1>12. PICK M3 : M3 = Couple(M2, a, b)
  OBVIOUS
<1>13. /\ M3 \in Raw /\ M3.seq = M2.seq /\ M3.size = M2.size
       /\ DOMAIN M3.ev = DOMAIN M2.ev
       /\ \A z \in DOMAIN M2.ev : Alike(M3.ev[z], M2.ev[z])
       /\ M3.ev[a].link = b /\ M3.ev[b].link = a
       /\ \A z \in DOMAIN M2.ev : z \notin {a, b} => M3.ev[z] = M2.ev[z]
  BY <1>10, <1>11, <1>12, CoupleLinks
<1>14. /\ M3.seq = L.seq /\ M3.size = L.size /\ DOMAIN M3.ev = DOMAIN L.ev \cup {a, b}
       /\ \A z \in DOMAIN L.ev : M3.ev[z] = L.ev[z]
  BY <1>4, <1>6, <1>8, <1>10, <1>11, <1>13
<1>15. Alike(M3.ev[a], ra) /\ Alike(M3.ev[b], rb)
  BY <1>6, <1>8, <1>10, <1>11, <1>13
<1>16. /\ M3.ev[a].op = "on" /\ M3.ev[b].op = "off" /\ M3.ev[a].note = n /\ M3.ev[b].note = n
       /\ M3.ev[a].ts = s /\ M3.ev[b].ts = t /\ M3.ev[a].sel = 0 /\ M3.ev[b].sel = 0
  BY <1>2, <1>15 DEF Alike
<1>17. NewNote(L, M3, a, b)
  BY <1>4, <1>11, <1>13, <1>14, <1>16 DEF NewNote
<1>18. N = Mix(M3, a)
  BY <1>1, <1>2, <1>5, <1>7, <1>9, <1>12 DEF NoteEntered
<1> QED BY <1>16, <1>17, <1>18, MixNote

(* the user enters another event *)
LEMMA ControlEnteredGives ==
  ASSUME NEW L, Good(L), NEW s \in Nat, NEW N,
         N = Mix(Allocate(L, FreshEvent(L), [op |-> "ctl", note |-> 0, ts |-> s, sel |-> 0, link |-> None]), FreshEvent(L))
  PROVE  Edited(L, N) /\ (Whole(L) => Whole(N))
<1>1. PICK a : a = FreshEvent(L)
  OBVIOUS
<1>2. PICK r : r = [op |-> "ctl", note |-> 0, ts |-> s, sel |-> 0, link |-> None]
  OBVIOUS
<1>3. r \in Loose
  <2>1. 0 \in Note
    BY EventListAssumption DEF Note
  <2> QED BY <2>1, <1>2 DEF Loose, Op, None
<1>4. a \in Addr /\ a \notin DOMAIN L.ev /\ L \in Raw
  BY <1>1, FreshIs, GoodIs
<1>5. PICK M : M = Allocate(L, a, r)
  OBVIOUS
<1>6. /\ M \in Raw /\ M.seq = L.seq /\ M.size = L.size
      /\ DOMAIN M.ev = DOMAIN L.ev \cup {a} /\ M.ev[a] = r
      /\ \A z \in DOMAIN L.ev : z # a => M.ev[z] = L.ev[z]
  BY <1>3, <1>4, <1>5, AllocateMakes
<1>7. \A z \in DOMAIN L.ev : M.ev[z] = L.ev[z]
  BY <1>4, <1>6
<1>8. M.ev[a].link = None /\ M.ev[a].op # "on" /\ M.ev[a].ts \in Nat /\ M.ev[a].sel \in Nat
  BY <1>2, <1>6
<1>9. N = Mix(M, a)
  BY <1>1, <1>2, <1>5
<1> QED BY <1>4, <1>6, <1>7, <1>8, <1>9, MixLone

(* one half of a note comes to another place *)
LEMMA HalfMoved ==
  ASSUME NEW L, Good(L), NEW off \in Listed(L), NEW o \in Int, NEW N, N = Move(L, off, o)
  PROVE  Moved(L, o, {off}, N)
<1>1. Listable(L) /\ Ordered(L)
  BY GoodIs
<1>2. Moved(L, o, {}, L)
  BY <1>1 DEF Moved
<1>3. Moved(L, o, {} \cup {off}, N)
  BY <1>1, <1>2, MovedOn
<1>4. {} \cup {off} = {off}
  OBVIOUS
<1> QED BY <1>3, <1>4

(* That is an edit if it does not come before 0. *)
LEMMA HalfMovedGives ==
  ASSUME NEW L, Good(L), NEW off \in Listed(L), NEW o \in Int, L.ev[off].ts + o \in Nat,
         NEW N, Moved(L, o, {off}, N)
  PROVE  Edited(L, N) /\ (Whole(L) => Whole(N))
<1>1. Listed(L) \subseteq DOMAIN L.ev /\ \A x \in Listed(L) : L.ev[x].ts \in Nat
  BY GoodIs
<1>2. \A x \in Listed(L) : N.ev[x].ts \in Nat
  BY <1>1 DEF Moved
<1>3. {off} \subseteq Listed(L)
  OBVIOUS
<1> QED BY <1>2, <1>3, MovedGives

(* note_duration(): the note off comes to another place *)
LEMMA ResizeGives ==
  ASSUME NEW L, Good(L), NEW on \in Ons(L), NEW d \in Nat, NEW off, off = L.ev[on].link,
         NEW N, N = Move(L, off, L.ev[on].ts + d - L.ev[off].ts)
  PROVE  Edited(L, N) /\ (Whole(L) => Whole(N))
<1>1. /\ Paired(L) /\ \A x \in Listed(L) : L.ev[x].ts \in Nat
      /\ \A x \in Listed(L) : L.ev[x].link # None => Halves(L, x, L.ev[x].link)
  BY GoodIs
<1>2. off \in Listed(L) /\ on \in Listed(L)
  <2>1. on \in Listed(L) /\ L.ev[on].link # None
    BY <1>1 DEF Paired, Ons
  <2> QED BY <2>1, <1>1 DEF Halves
<1>3. PICK o : o = L.ev[on].ts + d - L.ev[off].ts
  OBVIOUS
<1>4. o \in Int /\ L.ev[off].ts + o \in Nat
  <2>1. L.ev[on].ts \in Nat /\ L.ev[off].ts \in Nat
    BY <1>1, <1>2
  <2> QED BY <2>1, <1>3
<1>5. N = Move(L, off, o)
  BY <1>3
<1>6. Moved(L, o, {off}, N)
  BY <1>2, <1>4, <1>5, HalfMoved
<1>7. PICK y, U : y = off /\ U = N
  OBVIOUS
<1>8. y \in Listed(L) /\ L.ev[y].ts + o \in Nat /\ Moved(L, o, {y}, U)
  BY <1>2, <1>4, <1>6, <1>7
<1>9. Edited(L, U) /\ (Whole(L) => Whole(U))
  BY <1>4, <1>8, HalfMovedGives
<1> QED BY <1>7, <1>9

(* remove() of a note or another event *)
LEMMA NoteRemovedGives ==
  ASSUME NEW L, Good(L), NEW x \in Listed(L), NEW N, N = RemoveAll(L, {x, L.ev[x].link} \ {None})
  PROVE  Edited(L, N) /\ (Whole(L) => Whole(N))
<1>1. PICK X : X = {x, L.ev[x].link} \ {None}
  OBVIOUS
<1>2. /\ \A z \in Listed(L) : L.ev[z].link # None => Halves(L, z, L.ev[z].link)
      /\ \A z \in Listed(L) : z # None
  BY GoodIs
<1>3. X \subseteq Listed(L)
  BY <1>1, <1>2 DEF Halves
<1>4. \A y, z \in Listed(L) : Halves(L, y, z) => (y \in X <=> z \in X)
  BY <1>1, <1>2 DEF Halves
<1> QED BY <1>1, <1>3, <1>4, RemoveAllGives

(* remove_selected() *)
LEMMA SelectionRemovedGives ==
  ASSUME NEW L, Good(L), Whole(L), NEW N, N = RemoveSelected(L)
  PROVE  Edited(L, N) /\ Whole(N)
<1>1. PICK X : X = Selected(L)
  OBVIOUS
<1>2. X \subseteq Listed(L) /\ N = RemoveAll(L, X)
  BY <1>1 DEF RemoveSelected, Selected
<1>3. \A y, z \in Listed(L) : Halves(L, y, z) => (y \in X <=> z \in X)
  <2> SUFFICES ASSUME NEW y \in Listed(L), NEW z \in Listed(L), Halves(L, y, z)
               PROVE  L.ev[y].sel = L.ev[z].sel
    BY <1>1 DEF Selected
  <2>1. L.ev[y].link = z /\ z # None
    BY GoodIs DEF Halves
  <2> QED BY <2>1 DEF Whole
<1> QED BY <1>2, <1>3, RemoveAllGives

-----------------------------------------------------------------------------
(* Renumbering                                                                 *)

(* N is K with its k-th event at d + k *)
Renamed(K, N, d) ==
  LET m == Len(K.seq)
  IN /\ N \in Raw /\ N.size = K.size /\ Len(N.seq) = m
     /\ \A k \in 1..m : N.seq[k] = d + k /\ d + k \in DOMAIN N.ev /\ Alike(N.ev[d + k], K.ev[K.seq[k]])
     /\ \A k \in 1..m : K.ev[K.seq[k]].link = None => N.ev[d + k].link = None
     /\ \A j, k \in 1..m : K.ev[K.seq[k]].link = K.seq[j] => N.ev[d + k].link = d + j

(* The addresses of events do not matter. *)
LEMMA RenamedGives ==
  ASSUME NEW K, Good(K), NEW d \in Nat, NEW N, Renamed(K, N, d)
  PROVE  /\ Good(N) /\ Excess(N) = Excess(K) /\ Listed(N) = {d + k : k \in 1..Len(K.seq)}
         /\ (Whole(K) => Whole(N)) /\ (Strict(K) => Strict(N)) /\ (Clean(K) => Clean(N))
<1> DEFINE m == Len(K.seq)
<1>1. /\ N \in Raw /\ N.size = K.size /\ Len(N.seq) = m
      /\ \A k \in 1..m : N.seq[k] = d + k /\ d + k \in DOMAIN N.ev /\ Alike(N.ev[d + k], K.ev[K.seq[k]])
      /\ \A k \in 1..m : K.ev[K.seq[k]].link = None => N.ev[d + k].link = None
      /\ \A j, k \in 1..m : K.ev[K.seq[k]].link = K.seq[j] => N.ev[d + k].link = d + j
  BY DEF Renamed
<1>2. /\ Ordered(K) /\ DOMAIN K.seq = 1..m /\ m \in Nat /\ \A k \in 1..m : K.seq[k] \in Listed(K)
      /\ \A x \in Listed(K) : K.ev[x].ts \in Nat /\ K.ev[x].sel \in Nat
      /\ \A x \in Listed(K) : K.ev[x].link # None => Halves(K, x, K.ev[x].link)
      /\ \A x \in Ons(K) : K.ev[x].link # None
      /\ \A x \in Listed(K) : \E k \in 1..m : K.seq[k] = x
  BY GoodIs DEF Paired, Listed
<1> HIDE DEF m
<1>3. DOMAIN N.seq = 1..m
  BY <1>1, RawIs
<1>4. Listed(N) = {d + k : k \in 1..m}
  <2>1. Listed(N) = {N.seq[k] : k \in 1..m}
    BY <1>3 DEF Listed
  <2> QED BY <2>1, <1>1
<1>5. Listable(N)
  <2>1. IsInjective(N.seq)
    <3> SUFFICES ASSUME NEW j \in 1..m, NEW k \in 1..m, N.seq[j] = N.seq[k]
                 PROVE  j = k
      BY <1>3 DEF IsInjective
    <3>1. d + j = d + k
      BY <1>1
    <3> QED BY <3>1, <1>2
  <2>2. Listed(N) \subseteq DOMAIN N.ev
    BY <1>1, <1>4
  <2> QED BY <2>1, <2>2, <1>1 DEF Listable
<1>6. Ordered(N)
  <2> SUFFICES ASSUME NEW j \in 1..m, NEW k \in 1..m, j < k
               PROVE  N.ev[d + j].ts <= N.ev[d + k].ts
    BY <1>1, <1>3 DEF Ordered, Before
  <2>1. Before(K.seq, K.seq[j], K.seq[k])
    BY <1>2 DEF Before
  <2>2. K.ev[K.seq[j]].ts <= K.ev[K.seq[k]].ts
    BY <2>1, <1>2 DEF Ordered
  <2> QED BY <2>2, <1>1 DEF Alike
(* both halves are where their originals say *)
<1>7. ASSUME NEW k \in 1..m, N.ev[d + k].link # None
      PROVE  \E j \in 1..m : /\ N.ev[d + k].link = d + j /\ Halves(K, K.seq[k], K.seq[j])
                             /\ Halves(N, d + k, d + j)
  <2>1. PICK x : x = K.seq[k]
    OBVIOUS
  <2>2. PICK y : y = K.ev[x].link
    OBVIOUS
  <2>3. x \in Listed(K) /\ y # None
    BY <2>1, <2>2, <1>1, <1>2, <1>7
  <2>4. Halves(K, x, y)
    BY <2>2, <2>3, <1>2
  <2>5. /\ y \in Listed(K) /\ K.ev[x].link = y /\ K.ev[y].link = x /\ K.ev[y].note = K.ev[x].note
        /\ \/ K.ev[x].op = "on" /\ K.ev[y].op = "off"
           \/ K.ev[x].op = "off" /\ K.ev[y].op = "on"
    BY <2>4 DEF Halves
  <2>6. PICK j \in 1..m : K.seq[j] = y
    BY <2>5, <1>2
  <2>7. N.ev[d + k].link = d + j /\ N.ev[d + j].link = d + k
    BY <2>1, <2>5, <2>6, <1>1
  <2>8. Alike(N.ev[d + k], K.ev[x]) /\ Alike(N.ev[d + j], K.ev[y]) /\ d + j \in Listed(N)
    BY <2>1, <2>6, <1>1, <1>4
  <2>9. PICK u, v : u = d + k /\ v = d + j
    OBVIOUS
  <2>10. Halves(N, u, v)
    BY <2>5, <2>7, <2>8, <2>9 DEF Halves, Alike
  <2> QED BY <2>1, <2>4, <2>6, <2>7, <2>9, <2>10
<1>8. Paired(N)
  <2>1. ASSUME NEW k \in 1..m, N.ev[d + k].link # None
        PROVE  Halves(N, d + k, N.ev[d + k].link)
    BY <2>1, <1>7
  <2>2. ASSUME NEW k \in 1..m, N.ev[d + k].op = "on"
        PROVE  N.ev[d + k].link # None
    <3>1. PICK x : x = K.seq[k]
      OBVIOUS
    <3>2. x \in Ons(K)
      BY <3>1, <2>2, <1>1, <1>2 DEF Ons, Alike
    <3>3. Halves(K, x, K.ev[x].link)
      BY <3>2, <1>2 DEF Ons
    <3>4. PICK j \in 1..m : K.seq[j] = K.ev[x].link
      BY <3>3, <1>2 DEF Halves
    <3>5. N.ev[d + k].link = d + j
      BY <3>1, <3>4, <1>1
    <3> QED BY <3>5, <1>2 DEF None
  <2> QED BY <2>1, <2>2, <1>4 DEF Paired, Linked, Ons
<1>9. \A x \in Listed(N) : N.ev[x] \in Event
  <2> SUFFICES ASSUME NEW k \in 1..m
               PROVE  N.ev[d + k] \in Event
    BY <1>4
  <2>1. PICK x, r : x = K.seq[k] /\ r = N.ev[d + k]
    OBVIOUS
  <2>2. Alike(r, K.ev[x]) /\ x \in Listed(K)
    BY <2>1, <1>1, <1>2
  <2>3. r \in Loose
    <3>1. d + k \in DOMAIN N.ev
      BY <1>1
    <3> QED BY <3>1, <2>1, <1>1, RawIs
  <2>4. r.ts \in Nat /\ r.sel \in Nat
    BY <2>2, <1>2 DEF Alike
  <2>5. r \in Event
    BY <2>3, <2>4, LooseIsEvent
  <2> QED BY <2>1, <2>5
<1>10. Whole(K) => Whole(N)
  <2> SUFFICES ASSUME Whole(K), NEW k \in 1..m, N.ev[d + k].link # None
               PROVE  N.ev[N.ev[d + k].link].sel = N.ev[d + k].sel
    BY <1>4 DEF Whole
  <2>1. PICK j \in 1..m : N.ev[d + k].link = d + j /\ Halves(K, K.seq[k], K.seq[j])
    BY <1>7
  <2>2. PICK x, y : x = K.seq[k] /\ y = K.seq[j]
    OBVIOUS
  <2>3. K.ev[x].link = y /\ x \in Listed(K) /\ y \in Listed(K) /\ y # None
    <3>1. K.ev[x].link = y /\ y \in Listed(K)
      BY <2>1, <2>2 DEF Halves
    <3>2. x \in Listed(K)
      BY <2>2, <1>2
    <3>3. y # None
      BY <3>1, GoodIs
    <3> QED BY <3>1, <3>2, <3>3
  <2>4. K.ev[y].sel = K.ev[x].sel
    BY <2>3 DEF Whole
  <2> QED BY <2>1, <2>2, <2>4, <1>1 DEF Alike
(* a note off keeps its link *)
<1>13. ASSUME \A x \in Listed(K) : K.ev[x].op = "off" => K.ev[x].link # None, NEW k \in 1..m, N.ev[d + k].op = "off"
       PROVE  N.ev[d + k].link # None
  <2>1. PICK x : x = K.seq[k]
    OBVIOUS
  <2>2. x \in Listed(K) /\ K.ev[x].op = "off"
    BY <2>1, <1>1, <1>2, <1>13 DEF Alike
  <2>3. Halves(K, x, K.ev[x].link)
    BY <2>2, <1>2, <1>13
  <2>4. PICK j \in 1..m : K.seq[j] = K.ev[x].link
    BY <2>3, <1>2 DEF Halves
  <2>5. N.ev[d + k].link = d + j
    BY <2>1, <2>4, <1>1
  <2> QED BY <2>5, <1>2 DEF None
(* a note off is where its note on leads *)
<1>14. ASSUME NEW k \in 1..m, N.ev[d + k].op = "on"
       PROVE  \E j \in 1..m : /\ N.ev[d + k].link = d + j /\ K.ev[K.seq[k]].link = K.seq[j]
                              /\ K.seq[k] \in Ons(K) /\ d + j \in Listed(N)
  <2>1. N.ev[d + k].link # None
    BY <1>4, <1>8, <1>14 DEF Paired, Ons
  <2>2. PICK j \in 1..m : N.ev[d + k].link = d + j /\ Halves(K, K.seq[k], K.seq[j])
    BY <2>1, <1>7
  <2>3. K.ev[K.seq[k]].link = K.seq[j] /\ K.seq[k] \in Ons(K)
    BY <2>2, <1>1, <1>2, <1>14 DEF Halves, Ons, Alike
  <2> QED BY <2>2, <2>3, <1>4
<1>15. ASSUME Clean(K)
       PROVE  Clean(N)
  <2>1. \A x \in Listed(N) : N.ev[x].op = "off" => N.ev[x].link # None
    BY <1>4, <1>13, <1>15 DEF Clean
  <2>2. ASSUME NEW k \in 1..m, N.ev[d + k].op = "on"
        PROVE  N.ev[d + k].link \in Listed(N) /\ N.ev[N.ev[d + k].link].ts > N.ev[d + k].ts
    <3>1. PICK j \in 1..m : /\ N.ev[d + k].link = d + j /\ K.ev[K.seq[k]].link = K.seq[j]
                            /\ K.seq[k] \in Ons(K) /\ d + j \in Listed(N)
      BY <2>2, <1>14
    <3>2. K.ev[K.seq[j]].ts > K.ev[K.seq[k]].ts
      BY <3>1, <1>15 DEF Clean
    <3>3. N.ev[d + j].ts > N.ev[d + k].ts
      BY <3>2, <1>1 DEF Alike
    <3> QED BY <3>1, <3>3
  <2>3. ASSUME NEW k \in 1..m, N.ev[d + k].op = "on", NEW i \in 1..m, N.ev[d + i].op = "on", d + i # d + k,
               N.ev[d + i].note = N.ev[d + k].note
        PROVE  \/ N.ev[N.ev[d + i].link].ts <= N.ev[d + k].ts
               \/ N.ev[N.ev[d + k].link].ts <= N.ev[d + i].ts
    <3>1. PICK j \in 1..m : /\ N.ev[d + k].link = d + j /\ K.ev[K.seq[k]].link = K.seq[j]
                            /\ K.seq[k] \in Ons(K)
      BY <2>3, <1>14
    <3>2. PICK h \in 1..m : /\ N.ev[d + i].link = d + h /\ K.ev[K.seq[i]].link = K.seq[h]
                            /\ K.seq[i] \in Ons(K)
      BY <2>3, <1>14
    <3>3. K.seq[i] # K.seq[k]
      BY <2>3, GoodIs, ListableIs DEF m
    <3>4. K.ev[K.seq[i]].note = K.ev[K.seq[k]].note
      BY <2>3, <1>1 DEF Alike
    <3>5. \/ K.ev[K.seq[h]].ts <= K.ev[K.seq[k]].ts
          \/ K.ev[K.seq[j]].ts <= K.ev[K.seq[i]].ts
      BY <3>1, <3>2, <3>3, <3>4, <1>15 DEF Clean
    <3> QED BY <3>1, <3>2, <3>5, <1>1 DEF Alike
  <2> QED BY <2>1, <2>2, <2>3, <1>4 DEF Clean, Ons
<1>11. Strict(K) => Strict(N)
  <2> SUFFICES ASSUME Strict(K)
               PROVE  \A k \in 1..m : N.ev[d + k].op = "on" => N.ev[d + k].ts < N.ev[N.ev[d + k].link].ts
    BY <1>4, <1>13 DEF Strict, Ons
  <2> SUFFICES ASSUME NEW k \in 1..m, N.ev[d + k].op = "on"
               PROVE  N.ev[d + k].ts < N.ev[N.ev[d + k].link].ts
    OBVIOUS
  <2>1. N.ev[d + k].link # None
    BY <1>4, <1>8 DEF Paired, Ons
  <2>2. PICK j \in 1..m : N.ev[d + k].link = d + j /\ Halves(K, K.seq[k], K.seq[j])
    BY <2>1, <1>7
  <2>3. PICK x, y : x = K.seq[k] /\ y = K.seq[j]
    OBVIOUS
  <2>4. K.ev[x].link = y /\ x \in Ons(K)
    BY <2>2, <2>3, <1>1, <1>2 DEF Halves, Ons, Alike
  <2>5. K.ev[x].ts < K.ev[y].ts
    BY <2>4 DEF Strict
  <2> QED BY <2>2, <2>3, <2>5, <1>1 DEF Alike
<1>12. Excess(N) = Excess(K)
  BY <1>1 DEF Excess, m
<1> QED BY <1>4, <1>5, <1>6, <1>8, <1>9, <1>10, <1>11, <1>12, <1>15 DEF Good, Paired, m
=============================================================================
