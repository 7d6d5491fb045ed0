--------------------------- MODULE EventListProof ---------------------------
(***************************************************************************)
(* What every history of edits keeps to, for every set of takes and all      *)
(* bounds: the inductive invariant, one lemma for each step, the theorems.   *)
(***************************************************************************)
EXTENDS EventListOperations

(* the events of the sequence s of a memory, numbered in that order *)
Renumbered(ev, s) ==
  LET n == Len(s)
      number == [x \in Range(s) |-> CHOOSE k \in 1..n : s[k] = x]
      Number(x) == IF x = None THEN None ELSE IF x \in DOMAIN number THEN number[x] ELSE n + 1
  IN [k \in 1..n |-> [ev[s[k]] EXCEPT !.link = Number(@)]]

(* Only the links change, and they lead to the events they led to. *)
LEMMA RenumberedIs ==
  ASSUME NEW ev \in Memory, NEW s \in Seq(Addr), IsInjective(s), \A k \in 1..Len(s) : s[k] \in DOMAIN ev,
         NEW h, h = Renumbered(ev, s)
  PROVE  /\ h \in Memory /\ DOMAIN h = 1..Len(s)
         /\ \A k \in 1..Len(s) : Alike(h[k], ev[s[k]])
         /\ \A k \in 1..Len(s) : ev[s[k]].link = None => h[k].link = None
         /\ \A j, k \in 1..Len(s) : ev[s[k]].link = s[j] => h[k].link = j
<1> DEFINE n == Len(s)
           number == [x \in Range(s) |-> CHOOSE k \in 1..n : s[k] = x]
           Number(x) == IF x = None THEN None ELSE IF x \in DOMAIN number THEN number[x] ELSE n + 1
<1>1. h = [k \in 1..n |-> [ev[s[k]] EXCEPT !.link = Number(@)]]
  BY DEF Renumbered
<1>2. n \in Nat /\ DOMAIN s = 1..n /\ \A k \in 1..n : s[k] \in Addr
  OBVIOUS
<1>3. ASSUME NEW k \in 1..n
      PROVE  s[k] \in DOMAIN number /\ number[s[k]] = k
  <2>1. s[k] \in Range(s)
    BY <1>2 DEF Range
  <2>2. \A j \in 1..n : s[j] = s[k] => j = k
    BY <1>2 DEF IsInjective
  <2> QED BY <2>1, <2>2
<1>4. \A x \in DOMAIN number : number[x] \in 1..n
  <2>1. \A x \in Range(s) : \E k \in 1..n : s[k] = x
    BY <1>2 DEF Range
  <2> QED BY <2>1
<1>5. /\ \A x : Number(x) \in Nat
      /\ \A k \in 1..n : Number(s[k]) = k
      /\ Number(None) = None
  <2> HIDE DEF number, n
  <2>1. None \in Nat /\ n + 1 \in Nat /\ 1..n \subseteq Nat
    BY <1>2 DEF None
  <2>2. \A k \in 1..n : s[k] # None
    BY <1>2 DEF Addr
  <2>3. \A x : Number(x) \in Nat
    BY <2>1, <1>4
  <2>4. \A k \in 1..n : Number(s[k]) = k
    BY <2>2, <1>3
  <2> QED BY <2>3, <2>4
<1> HIDE DEF Number, number
<1>6. ASSUME NEW k \in 1..n
      PROVE  h[k] \in Loose /\ h[k].link = Number(ev[s[k]].link) /\ Alike(h[k], ev[s[k]])
  <2>1. PICK r : r = ev[s[k]]
    OBVIOUS
  <2>2. r \in Loose
    BY <2>1, MemoryIs
  <2>3. PICK m : m = Number(r.link)
    OBVIOUS
  <2>4. h[k] = [r EXCEPT !.link = m]
    BY <2>1, <2>3, <1>1
  <2>5. m \in Nat
    BY <2>3, <1>5
  <2> QED BY <2>1, <2>2, <2>3, <2>4, <2>5, LinkChanges
<1>7. h \in Memory /\ DOMAIN h = 1..n
  <2>1. DOMAIN h = 1..n /\ IsFiniteSet(1..n)
    BY <1>1, <1>2, FS_Interval
  <2>2. DOMAIN h \subseteq Addr
    BY <2>1, <1>2 DEF Addr, None
  <2>3. h \in [DOMAIN h -> Loose]
    BY <2>1, <1>1, <1>6
  <2> QED BY <2>1, <2>2, <2>3, MemoryIs
<1> QED BY <1>5, <1>6, <1>7

-----------------------------------------------------------------------------
(* What the program keeps between its operations                                *)

(* the list l in the memory h *)
In(h, l) == [ev |-> h, seq |-> l.seq, size |-> l.size]

(* a list without its memory *)
Outcomes == [seq : Seq(Addr), size : Int]

(* two lists may share a memory *)
Apart(h, l, c) ==
  /\ l \in Outcomes /\ c \in Outcomes /\ Good(In(h, l)) /\ Good(In(h, c))
  /\ Listed(In(h, l)) \cap Listed(In(h, c)) = {}

(* what Settle() makes of them *)
Settled(ev, l, c, h, m, d) ==
  /\ h = Renumbered(ev, l.seq \o c.seq)
  /\ m = [l EXCEPT !.seq = [k \in DOMAIN @ |-> k]]
  /\ d = [c EXCEPT !.seq = [k \in DOMAIN @ |-> Len(l.seq) + k]]

(* Settle() does that *)
LEMMA SettledIs ==
  ASSUME NEW ev, NEW l, NEW c, Settle(ev, l, c)
  PROVE  Settled(ev, l, c, heap', list', clip')
BY DEF Settle, Settled, Renumbered

(* one of the two lists, renumbered *)
LEMMA NumberedFrom ==
  ASSUME NEW l \in Outcomes, NEW d \in Nat, NEW m, m = [l EXCEPT !.seq = [k \in DOMAIN @ |-> d + k]]
  PROVE  /\ m \in Outcomes /\ m.size = l.size /\ Len(m.seq) = Len(l.seq)
         /\ \A k \in 1..Len(l.seq) : m.seq[k] = d + k
<1>1. PICK q, n : q = l.seq /\ n = Len(l.seq)
  OBVIOUS
<1>2. q \in Seq(Addr) /\ n \in Nat /\ DOMAIN q = 1..n /\ n = Len(q)
  BY <1>1 DEF Outcomes
<1>3. PICK t : t = [k \in DOMAIN q |-> d + k]
  OBVIOUS
<1>4. t = [k \in 1..n |-> d + k]
  BY <1>2, <1>3
<1>5. \A k \in 1..n : d + k \in Addr
  BY <1>2 DEF Addr, None
<1>6. t \in Seq(Addr) /\ Len(t) = n /\ \A k \in 1..n : t[k] = d + k
  BY <1>2, <1>4, <1>5
<1>7. m = [l EXCEPT !.seq = t]
  BY <1>1, <1>3
<1>8. m \in Outcomes /\ m.size = l.size /\ m.seq = t
  BY <1>6, <1>7 DEF Outcomes
<1> QED BY <1>1, <1>6, <1>8

(* N is as good a list as K *)
Succeeds(K, N) ==
  Good(N) /\ Excess(N) = Excess(K) /\ (Whole(K) => Whole(N)) /\ (Strict(K) => Strict(N))
  /\ (Clean(K) => Clean(N))

(* renumbering is one-to-one with the two lists one behind the other *)
LEMMA ApartIs ==
  ASSUME NEW ev, NEW l, NEW c, Apart(ev, l, c)
  PROVE  /\ ev \in Memory /\ l.seq \in Seq(Addr) /\ c.seq \in Seq(Addr) /\ l.size \in Int /\ c.size \in Int
         /\ \A k \in 1..Len(l.seq) : l.seq[k] \in DOMAIN ev
         /\ \A k \in 1..Len(c.seq) : c.seq[k] \in DOMAIN ev
         /\ IsInjective(l.seq) /\ IsInjective(c.seq)
         /\ \A j \in 1..Len(l.seq), k \in 1..Len(c.seq) : l.seq[j] # c.seq[k]
<1>1. PICK K, C : K = In(ev, l) /\ C = In(ev, c)
  OBVIOUS
<1>2. /\ K.ev = ev /\ K.seq = l.seq /\ C.ev = ev /\ C.seq = c.seq
      /\ Good(K) /\ Good(C) /\ Listed(K) \cap Listed(C) = {} /\ l \in Outcomes /\ c \in Outcomes
  BY <1>1 DEF Apart, In
<1>3. K \in Raw /\ Listable(K) /\ Listable(C)
  BY <1>2, GoodIs
<1>4. ev \in Memory /\ l.seq \in Seq(Addr) /\ c.seq \in Seq(Addr) /\ l.size \in Int /\ c.size \in Int
  BY <1>2, <1>3, RawIs DEF Outcomes
<1>5. DOMAIN l.seq = 1..Len(l.seq) /\ DOMAIN c.seq = 1..Len(c.seq)
  BY <1>4
<1>6. /\ \A k \in 1..Len(l.seq) : l.seq[k] \in Listed(K)
      /\ \A k \in 1..Len(c.seq) : c.seq[k] \in Listed(C)
  BY <1>2, <1>5 DEF Listed
<1>7. Listed(K) \subseteq DOMAIN ev /\ Listed(C) \subseteq DOMAIN ev /\ IsInjective(l.seq) /\ IsInjective(c.seq)
  BY <1>2, <1>3, ListableIs
<1>8. \A j \in 1..Len(l.seq), k \in 1..Len(c.seq) : l.seq[j] # c.seq[k]
  BY <1>2, <1>6
<1> QED BY <1>4, <1>6, <1>7, <1>8

(* u is s and then t *)
Chain(s, t, u) ==
  /\ u \in Seq(Addr) /\ Len(u) = Len(s) + Len(t) /\ IsInjective(u)
  /\ \A k \in 1..Len(s) : u[k] = s[k]
  /\ \A k \in 1..Len(t) : u[Len(s) + k] = t[k]

(* two sequences one behind the other, if they have nothing in common *)
LEMMA ChainIs ==
  ASSUME NEW s \in Seq(Addr), NEW t \in Seq(Addr), IsInjective(s), IsInjective(t),
         \A j \in 1..Len(s) : \A k \in 1..Len(t) : s[j] # t[k], NEW u, u = s \o t
  PROVE  Chain(s, t, u)
<1>1. PICK p, q : p = Len(s) /\ q = Len(t)
  OBVIOUS
<1>2. p \in Nat /\ q \in Nat /\ DOMAIN s = 1..p /\ DOMAIN t = 1..q
  BY <1>1
<1>3. u \in Seq(Addr) /\ Len(u) = p + q /\ DOMAIN u = 1..p + q
  BY <1>1
<1>4. /\ \A k \in 1..p : u[k] = s[k]
      /\ \A k \in 1..q : u[p + k] = t[k]
  BY <1>1, <1>2
<1>5. \A k \in 1..p + q : k \in 1..p \/ (k - p \in 1..q /\ p + (k - p) = k)
  BY <1>2
<1>6. ASSUME NEW j \in 1..p + q, NEW k \in 1..p + q, u[j] = u[k]
      PROVE  j = k
  <2>1. CASE j \in 1..p /\ k \in 1..p
    BY <2>1, <1>4, <1>6, <1>2 DEF IsInjective
  <2>2. CASE j \in 1..p /\ k - p \in 1..q
    <3>1. u[k] = t[k - p] /\ u[j] = s[j]
      BY <2>2, <1>4, <1>5, <1>2
    <3> QED BY <3>1, <2>2, <1>1, <1>6
  <2>3. CASE j - p \in 1..q /\ k \in 1..p
    <3>1. u[j] = t[j - p] /\ u[k] = s[k]
      BY <2>3, <1>4, <1>5, <1>2
    <3> QED BY <3>1, <2>3, <1>1, <1>6
  <2>4. CASE j - p \in 1..q /\ k - p \in 1..q
    <3>1. u[j] = t[j - p] /\ u[k] = t[k - p]
      BY <2>4, <1>4, <1>2
    <3>2. j - p = k - p
      BY <3>1, <2>4, <1>6, <1>2 DEF IsInjective
    <3> QED BY <3>2, <1>2
  <2> QED BY <2>1, <2>2, <2>3, <2>4, <1>5
<1>7. IsInjective(u)
  BY <1>3, <1>6 DEF IsInjective
<1> QED BY <1>1, <1>3, <1>4, <1>7 DEF Chain

(* Between operations: the events of the list, then those of the clipboard. *)
LEMMA SettledGives ==
  ASSUME NEW ev, NEW l, NEW c, Apart(ev, l, c), NEW h, NEW m, NEW d, Settled(ev, l, c, h, m, d)
  PROVE  /\ Apart(h, m, d) /\ DOMAIN h = Listed(In(h, m)) \cup Listed(In(h, d))
         /\ Succeeds(In(ev, l), In(h, m)) /\ Succeeds(In(ev, c), In(h, d))
<1>1. PICK p, q, u : p = Len(l.seq) /\ q = Len(c.seq) /\ u = l.seq \o c.seq
  OBVIOUS
<1>2. /\ ev \in Memory /\ l.seq \in Seq(Addr) /\ c.seq \in Seq(Addr) /\ l \in Outcomes /\ c \in Outcomes
      /\ \A k \in 1..p : l.seq[k] \in DOMAIN ev
      /\ \A k \in 1..q : c.seq[k] \in DOMAIN ev
      /\ p \in Nat /\ q \in Nat
  BY <1>1, ApartIs DEF Apart
<1>3. /\ u \in Seq(Addr) /\ Len(u) = p + q /\ IsInjective(u)
      /\ \A k \in 1..p : u[k] = l.seq[k]
      /\ \A k \in 1..q : u[p + k] = c.seq[k]
  <2>1. PICK s, t : s = l.seq /\ t = c.seq
    OBVIOUS
  <2>2. /\ s \in Seq(Addr) /\ t \in Seq(Addr) /\ IsInjective(s) /\ IsInjective(t)
        /\ \A j \in 1..Len(s) : \A k \in 1..Len(t) : s[j] # t[k]
    BY <2>1, ApartIs
  <2>3. u = s \o t
    BY <2>1, <1>1
  <2>4. Chain(s, t, u)
    BY <2>2, <2>3, ChainIs
  <2> QED BY <2>1, <2>4, <1>1 DEF Chain
<1>4. \A k \in 1..p + q : k \in 1..p \/ (k - p \in 1..q /\ p + (k - p) = k)
  BY <1>2
<1>5. \A k \in 1..Len(u) : u[k] \in DOMAIN ev
  <2> SUFFICES ASSUME NEW k \in 1..p + q
               PROVE  u[k] \in DOMAIN ev
    BY <1>3
  <2>1. CASE k \in 1..p
    BY <2>1, <1>2, <1>3
  <2>2. CASE k - p \in 1..q /\ p + (k - p) = k
    <3>1. u[k] = c.seq[k - p]
      BY <2>2, <1>3
    <3> QED BY <3>1, <2>2, <1>2
  <2> QED BY <2>1, <2>2, <1>4
<1>6. h = Renumbered(ev, u)
  BY <1>1 DEF Settled
<1>7. /\ h \in Memory /\ DOMAIN h = 1..p + q
      /\ \A k \in 1..p + q : Alike(h[k], ev[u[k]])
      /\ \A k \in 1..p + q : ev[u[k]].link = None => h[k].link = None
      /\ \A j, k \in 1..p + q : ev[u[k]].link = u[j] => h[k].link = j
  <2>1. /\ h \in Memory /\ DOMAIN h = 1..Len(u)
        /\ \A k \in 1..Len(u) : Alike(h[k], ev[u[k]])
        /\ \A k \in 1..Len(u) : ev[u[k]].link = None => h[k].link = None
        /\ \A j, k \in 1..Len(u) : ev[u[k]].link = u[j] => h[k].link = j
    BY <1>2, <1>3, <1>5, <1>6, RenumberedIs
  <2> QED BY <2>1, <1>3
<1>8. /\ m \in Outcomes /\ m.size = l.size /\ Len(m.seq) = p
      /\ \A k \in 1..p : m.seq[k] = 0 + k
  <2>1. l.seq \in Seq(Addr) /\ DOMAIN l.seq = 1..p
    BY <1>1, <1>2
  <2>2. PICK z \in Nat : z = 0
    OBVIOUS
  <2>3. [k \in 1..p |-> k] = [k \in 1..p |-> z + k]
    BY <2>2, <1>2
  <2>4. m = [l EXCEPT !.seq = [k \in DOMAIN l.seq |-> k]]
    BY DEF Settled
  <2>5. m = [l EXCEPT !.seq = [k \in DOMAIN @ |-> z + k]]
    BY <2>1, <2>3, <2>4
  <2>6. /\ m \in Outcomes /\ m.size = l.size /\ Len(m.seq) = Len(l.seq)
        /\ \A k \in 1..Len(l.seq) : m.seq[k] = z + k
    BY <2>5, <1>2, NumberedFrom
  <2> QED BY <2>2, <2>6, <1>1
<1>9. /\ d \in Outcomes /\ d.size = c.size /\ Len(d.seq) = q
      /\ \A k \in 1..q : d.seq[k] = p + k
  <2>1. d = [c EXCEPT !.seq = [k \in DOMAIN @ |-> p + k]]
    BY <1>1 DEF Settled
  <2> QED BY <2>1, <1>1, <1>2, NumberedFrom
<1>10. PICK K, C, M, D : K = In(ev, l) /\ C = In(ev, c) /\ M = In(h, m) /\ D = In(h, d)
  OBVIOUS
<1>11. /\ K.ev = ev /\ K.seq = l.seq /\ K.size = l.size /\ C.ev = ev /\ C.seq = c.seq /\ C.size = c.size
       /\ M.ev = h /\ M.seq = m.seq /\ M.size = m.size /\ D.ev = h /\ D.seq = d.seq /\ D.size = d.size
  BY <1>10 DEF In
<1>12. M \in Raw /\ D \in Raw
  BY <1>7, <1>8, <1>9, <1>10 DEF In, Raw, Outcomes
<1>13. Good(K) /\ Good(C)
  BY <1>10 DEF Apart
<1>14. /\ \A k \in 1..p : k \in 1..p + q /\ 0 + k = k
       /\ \A k \in 1..q : p + k \in 1..p + q
  BY <1>2
<1>15. Renamed(K, M, 0)
  <2>1. /\ \A k \in 1..p : M.seq[k] = 0 + k /\ 0 + k \in DOMAIN M.ev /\ Alike(M.ev[0 + k], K.ev[K.seq[k]])
        /\ \A k \in 1..p : K.ev[K.seq[k]].link = None => M.ev[0 + k].link = None
        /\ \A j, k \in 1..p : K.ev[K.seq[k]].link = K.seq[j] => M.ev[0 + k].link = 0 + j
    BY <1>3, <1>7, <1>8, <1>11, <1>14
  <2> QED BY <2>1, <1>1, <1>8, <1>11, <1>12 DEF Renamed
<1>16. Renamed(C, D, p)
  <2>1. /\ \A k \in 1..q : D.seq[k] = p + k /\ p + k \in DOMAIN D.ev /\ Alike(D.ev[p + k], C.ev[C.seq[k]])
        /\ \A k \in 1..q : C.ev[C.seq[k]].link = None => D.ev[p + k].link = None
        /\ \A j, k \in 1..q : C.ev[C.seq[k]].link = C.seq[j] => D.ev[p + k].link = p + j
    BY <1>3, <1>7, <1>9, <1>11, <1>14
  <2> QED BY <2>1, <1>1, <1>9, <1>11, <1>12 DEF Renamed
<1>17. /\ Succeeds(K, M) /\ Listed(M) = {0 + k : k \in 1..p}
       /\ Succeeds(C, D) /\ Listed(D) = {p + k : k \in 1..q}
  BY <1>1, <1>2, <1>11, <1>13, <1>15, <1>16, RenamedGives DEF Succeeds
<1>18. Listed(M) = 1..p /\ Listed(D) = p + 1..p + q
  <2>1. {0 + k : k \in 1..p} = 1..p
    BY <1>2
  <2>2. {p + k : k \in 1..q} = p + 1..p + q
    <3>1. \A x \in p + 1..p + q : x - p \in 1..q /\ p + (x - p) = x
      BY <1>2
    <3>2. \A k \in 1..q : p + k \in p + 1..p + q
      BY <1>2
    <3> QED BY <3>1, <3>2
  <2> QED BY <2>1, <2>2, <1>17
<1>19. Listed(M) \cap Listed(D) = {} /\ DOMAIN h = Listed(M) \cup Listed(D)
  BY <1>2, <1>7, <1>18
<1> QED BY <1>8, <1>9, <1>10, <1>17, <1>19 DEF Apart, Succeeds

(* what holds of the list l and the clipboard c in the memory h *)
Fit(h, l, c) ==
  LET L == In(h, l)
      C == In(h, c)
  IN /\ Apart(h, l, c)
     /\ Excess(L) >= 0 /\ (~InsertsTime => Excess(L) = 0) /\ Excess(C) = 0
     /\ ~Overlaps => Whole(L) /\ Whole(C) /\ Strict(L) /\ Strict(C) /\ Clean(L)

(* and between operations no other event is left *)
Kept(h, l, c) == Fit(h, l, c) /\ DOMAIN h = Listed(In(h, l)) \cup Listed(In(h, c))

(* The inductive invariant. *)
EInv == Kept(heap, list, clip)

(* Settle() makes the invariant of what fits. *)
LEMMA SettleKeeps ==
  ASSUME NEW ev, NEW l, NEW c, Fit(ev, l, c), Settle(ev, l, c)
  PROVE  EInv'
<1>1. Settled(ev, l, c, heap', list', clip')
  BY SettledIs
<1>2. PICK h, m, d : h = heap' /\ m = list' /\ d = clip'
  OBVIOUS
<1>3. Settled(ev, l, c, h, m, d)
  BY <1>1, <1>2
<1>4. PICK K, C : K = In(ev, l) /\ C = In(ev, c)
  OBVIOUS
<1>5. PICK M, D : M = In(h, m) /\ D = In(h, d)
  OBVIOUS
<1>6. /\ Apart(ev, l, c) /\ Excess(K) >= 0 /\ (~InsertsTime => Excess(K) = 0) /\ Excess(C) = 0
      /\ ~Overlaps => Whole(K) /\ Whole(C) /\ Strict(K) /\ Strict(C) /\ Clean(K)
  BY <1>4 DEF Fit
<1>7. /\ Apart(h, m, d) /\ DOMAIN h = Listed(M) \cup Listed(D) /\ Succeeds(K, M) /\ Succeeds(C, D)
  <2>1. Apart(ev, l, c)
    BY <1>6
  <2>2. /\ Apart(h, m, d) /\ DOMAIN h = Listed(In(h, m)) \cup Listed(In(h, d))
        /\ Succeeds(In(ev, l), In(h, m)) /\ Succeeds(In(ev, c), In(h, d))
    BY <2>1, <1>3, SettledGives
  <2> QED BY <2>2, <1>4, <1>5
<1>8. /\ Excess(M) >= 0 /\ (~InsertsTime => Excess(M) = 0) /\ Excess(D) = 0
      /\ ~Overlaps => Whole(M) /\ Whole(D) /\ Strict(M) /\ Strict(D) /\ Clean(M)
  BY <1>6, <1>7 DEF Succeeds
<1>9. Kept(h, m, d)
  BY <1>5, <1>7, <1>8 DEF Kept, Fit
<1> QED BY <1>2, <1>9 DEF EInv

(* A list whose own events are untouched is as it was. *)
LEMMA Untouched ==
  ASSUME NEW C, Good(C), NEW N \in Raw, N.seq = C.seq, N.size = C.size,
         \A x \in Listed(C) : x \in DOMAIN N.ev /\ N.ev[x] = C.ev[x]
  PROVE  Succeeds(C, N) /\ Listed(N) = Listed(C)
<1>1. Listed(N) = Listed(C)
  BY DEF Listed
<1>2. /\ Listable(C) /\ Ordered(C) /\ Paired(C) /\ \A x \in Listed(C) : C.ev[x] \in Event
  BY DEF Good
<1>3. Listable(N)
  BY <1>1, <1>2 DEF Listable
<1>4. Ordered(N)
  BY <1>1, <1>2 DEF Ordered
<1>5. Ons(N) = Ons(C)
  BY <1>1 DEF Ons
<1>6. \A x \in Listed(C) : \A y : Halves(C, x, y) => Halves(N, x, y)
  BY <1>1 DEF Halves
<1>7. Paired(N)
  BY <1>1, <1>2, <1>5, <1>6 DEF Paired, Linked, Ons
<1>8. \A x \in Listed(N) : N.ev[x] \in Event
  BY <1>1, <1>2
<1>9. \A x \in Listed(C) : C.ev[x].link # None => C.ev[x].link \in Listed(C)
  BY <1>2 DEF Paired, Linked, Halves
<1>10. Whole(C) => Whole(N)
  BY <1>1, <1>9 DEF Whole
<1>11. Strict(C) => Strict(N)
  <2>1. \A x \in Ons(C) : x \in Listed(C) /\ C.ev[x].link \in Listed(C)
    BY <1>2, <1>9 DEF Paired, Ons
  <2> QED BY <2>1, <1>1, <1>5 DEF Strict
<1>13. Clean(C) => Clean(N)
  <2>1. \A x \in Ons(C) : x \in Listed(C)
    BY DEF Ons
  <2> QED BY <2>1, <1>1, <1>5 DEF Clean
<1>12. Excess(N) = Excess(C)
  BY DEF Excess
<1> QED BY <1>1, <1>3, <1>4, <1>7, <1>8, <1>10, <1>11, <1>12, <1>13 DEF Succeeds, Good

-----------------------------------------------------------------------------
(* One operation after the other                                                *)

(* the list and the clipboard as they are before a step *)
L0 == With(list)
C0 == With(clip)

(* what the invariant says of them *)
LEMMA Before0 ==
  ASSUME EInv
  PROVE  /\ L0 = In(heap, list) /\ C0 = In(heap, clip) /\ L0.ev = heap /\ C0.ev = heap
         /\ L0.seq = list.seq /\ L0.size = list.size /\ C0.seq = clip.seq /\ C0.size = clip.size
         /\ Good(L0) /\ Good(C0) /\ list \in Outcomes /\ clip \in Outcomes
         /\ Listed(L0) \cap Listed(C0) = {} /\ DOMAIN heap = Listed(L0) \cup Listed(C0)
         /\ Excess(L0) >= 0 /\ (~InsertsTime => Excess(L0) = 0) /\ Excess(C0) = 0
         /\ ~Overlaps => Whole(L0) /\ Whole(C0) /\ Strict(L0) /\ Strict(C0) /\ Clean(L0)
<1>1. L0 = In(heap, list) /\ C0 = In(heap, clip)
  BY DEF L0, C0, With, In
<1>2. /\ L0.ev = heap /\ C0.ev = heap
      /\ L0.seq = list.seq /\ L0.size = list.size /\ C0.seq = clip.seq /\ C0.size = clip.size
  BY DEF L0, C0, With
<1>3. Kept(heap, list, clip)
  BY DEF EInv
<1> QED BY <1>1, <1>2, <1>3 DEF Kept, Fit, Apart

(* the events of the clipboard are in memory still, and not of the list N *)
Spares(N) == \A x \in Listed(C0) : x \in DOMAIN N.ev /\ x \notin Listed(N) /\ N.ev[x] = heap[x]

(* A step of the list that spares the clipboard keeps the invariant. *)
LEMMA ChangeKeeps ==
  ASSUME EInv, NEW N, Good(N), Spares(N), Excess(N) >= 0, ~InsertsTime => Excess(N) = 0,
         ~Overlaps /\ Clean(N) => Whole(N), Change(N)
  PROVE  EInv'
<1>1. (Overlaps \/ Clean(N)) /\ Settle(N.ev, Outcome(N), clip)
  BY DEF Change, Becomes
<1>2. PICK ev, l, c : ev = N.ev /\ l = Outcome(N) /\ c = clip
  OBVIOUS
<1>3. N \in Raw
  BY GoodIs
<1>4. ev \in Memory /\ l \in Outcomes /\ c \in Outcomes
  BY <1>2, <1>3, RawIs, Before0 DEF Outcome, Outcomes
<1>5. In(ev, l) = N
  <2>1. N = [ev |-> N.ev, seq |-> N.seq, size |-> N.size]
    BY <1>3, RawIs
  <2>2. In(ev, l) = [ev |-> N.ev, seq |-> N.seq, size |-> N.size]
    BY <1>2 DEF In, Outcome
  <2> QED BY <2>1, <2>2
<1>6. PICK D : D = In(ev, c)
  OBVIOUS
<1>7. D \in Raw /\ D.ev = ev /\ D.seq = clip.seq /\ D.size = clip.size
  BY <1>2, <1>4, <1>6 DEF In, Raw, Outcomes
<1>8. Succeeds(C0, D) /\ Listed(D) = Listed(C0)
  <2>1. \A x \in Listed(C0) : x \in DOMAIN D.ev /\ D.ev[x] = C0.ev[x]
    BY <1>2, <1>7, Before0 DEF Spares
  <2> QED BY <2>1, <1>7, Before0, Untouched
<1>9. Listed(N) \cap Listed(D) = {}
  BY <1>8 DEF Spares
<1>10. Apart(ev, l, c)
  BY <1>4, <1>5, <1>6, <1>8, <1>9 DEF Apart, Succeeds
<1>11. ~Overlaps => Whole(N) /\ Whole(D) /\ Strict(N) /\ Strict(D) /\ Clean(N)
  BY <1>1, <1>8, Before0, CleanIsStrict DEF Succeeds
<1>12. Excess(D) = 0
  BY <1>8, Before0 DEF Succeeds
<1>13. Fit(ev, l, c)
  BY <1>5, <1>6, <1>10, <1>11, <1>12 DEF Fit
<1> QED BY <1>1, <1>2, <1>13, SettleKeeps

(* an edit of the list spares the clipboard *)
LEMMA EditKeeps ==
  ASSUME EInv, NEW N, Edited(L0, N), ~Overlaps /\ Clean(N) => Whole(N), Change(N)
  PROVE  EInv'
<1>1. Good(N) /\ Excess(N) = Excess(L0) /\ Aside(L0, N)
  BY DEF Edited
<1>2. Spares(N)
  <2> SUFFICES ASSUME NEW x \in Listed(C0)
               PROVE  x \in DOMAIN N.ev /\ x \notin Listed(N) /\ N.ev[x] = heap[x]
    BY DEF Spares
  <2>1. x \in DOMAIN L0.ev /\ x \notin Listed(L0) /\ L0.ev[x] = heap[x]
    BY Before0
  <2> QED BY <2>1, <1>1 DEF Aside
<1>3. Excess(N) >= 0 /\ (~InsertsTime => Excess(N) = 0)
  BY <1>1, Before0
<1> QED BY <1>1, <1>2, <1>3, ChangeKeeps

(* the parameters of the steps *)
LEMMA RangesAre ==
  /\ \A t \in Tick : t \in Nat
  /\ \A o \in -MaxTick..MaxTick : o \in Int
  /\ Notes \in Nat \ {0} /\ 0 \in Note /\ \A n \in Note : n \in Nat
BY EventListAssumption DEF Tick, Note

(* the steps, one by one *)
LEMMA EnterNoteKeeps ==
  ASSUME EInv, NEW n \in Note, NEW s \in Tick, NEW t \in Tick, EnterNote(n, s, t)
  PROVE  EInv'
<1>1. PICK N : N = NoteEntered(L0, n, s, t)
  OBVIOUS
<1>2. Change(N)
  BY <1>1 DEF EnterNote, NoteEntered, L0
<1>3. Edited(L0, N) /\ (Whole(L0) => Whole(N))
  BY <1>1, Before0, RangesAre, NoteEnteredGives
<1> QED BY <1>2, <1>3, Before0, EditKeeps

LEMMA EnterControlKeeps ==
  ASSUME EInv, NEW s \in Tick, EnterControl(s)
  PROVE  EInv'
<1>1. PICK N : N = Mix(Allocate(L0, FreshEvent(L0), [op |-> "ctl", note |-> 0, ts |-> s, sel |-> 0, link |-> None]), FreshEvent(L0))
  OBVIOUS
<1>2. Change(N)
  BY <1>1 DEF EnterControl, L0
<1>3. Edited(L0, N) /\ (Whole(L0) => Whole(N))
  BY <1>1, Before0, RangesAre, ControlEnteredGives
<1> QED BY <1>2, <1>3, Before0, EditKeeps

(* the memory without the events of the list *)
LEMMA Emptied ==
  ASSUME EInv, NEW n \in Int, NEW M, M = Release(L0, Listed(L0)),
         NEW K, K = [ev |-> M.ev, seq |-> <<>>, size |-> n]
  PROVE  /\ K \in Raw /\ K.seq = <<>> /\ K.size = n
         /\ \A x \in Listed(C0) : x \in DOMAIN K.ev /\ K.ev[x] = heap[x]
<1>1. L0 \in Raw
  BY Before0, GoodIs
<1>2. /\ M \in Raw /\ DOMAIN M.ev = DOMAIN heap \ Listed(L0)
      /\ \A y \in DOMAIN heap : y \notin Listed(L0) => M.ev[y] = heap[y]
  BY <1>1, Before0, ReleaseFrees
<1>3. M.ev \in Memory /\ <<>> \in Seq(Addr)
  BY <1>2, RawIs
<1>4. K \in Raw /\ K.seq = <<>> /\ K.size = n /\ K.ev = M.ev
  BY <1>3 DEF Raw
<1> QED BY <1>2, <1>4, Before0

LEMMA LoadKeeps ==
  ASSUME EInv, NEW take \in Takes, Load(take)
  PROVE  EInv'
<1>0. PICK M : M = Release(L0, Listed(L0))
  OBVIOUS
<1>1. PICK K : K = [M EXCEPT !.seq = <<>>, !.size = 0]
  OBVIOUS
<1>2. PICK N : N = Relink(AppendTake(K, take))
  OBVIOUS
<1>3. Change(N)
  BY <1>0, <1>1, <1>2 DEF Load, AppendTake, L0
<1>4. /\ K \in Raw /\ K.seq = <<>> /\ K.size = 0
      /\ \A x \in Listed(C0) : x \in DOMAIN K.ev /\ K.ev[x] = heap[x]
  <2>1. M \in Raw
    BY <1>0, Before0, GoodIs, ReleaseFrees
  <2>2. M = [ev |-> M.ev, seq |-> M.seq, size |-> M.size]
    BY <2>1, RawIs
  <2>3. K = [ev |-> M.ev, seq |-> <<>>, size |-> 0]
    BY <2>2, <1>1
  <2> QED BY <2>3, <1>0, Emptied
<1>5. /\ Good(N) /\ Excess(N) = 0 /\ Whole(N)
      /\ \A x \in DOMAIN K.ev : x \in DOMAIN N.ev /\ x \notin Listed(N) /\ N.ev[x] = K.ev[x]
  BY <1>2, <1>4, LoadGives
<1>6. Spares(N)
  BY <1>4, <1>5 DEF Spares
<1>7. Excess(N) >= 0
  BY <1>5
<1> QED BY <1>3, <1>5, <1>6, <1>7, ChangeKeeps

LEMMA AssignKeeps ==
  ASSUME EInv, Assign
  PROVE  EInv'
<1>1. PICK M : M = Release(L0, Listed(L0))
  OBVIOUS
<1>2. PICK K : K = [M EXCEPT !.seq = <<>>]
  OBVIOUS
<1>3. PICK N : N = CopyOf(K, clip)
  OBVIOUS
<1>4. Listed(list) = Listed(L0)
  BY Before0 DEF Listed
<1>5. Change(N)
  BY <1>1, <1>2, <1>3, <1>4 DEF Assign, L0
<1>6. M \in Raw /\ M.size = L0.size /\ L0.size \in Int
  BY <1>1, Before0, GoodIs, ReleaseFrees
<1>7. K = [ev |-> M.ev, seq |-> <<>>, size |-> L0.size]
  <2>1. M = [ev |-> M.ev, seq |-> M.seq, size |-> M.size]
    BY <1>6, RawIs
  <2> QED BY <2>1, <1>2, <1>6
<1>8. /\ K \in Raw /\ K.seq = <<>>
      /\ \A x \in Listed(C0) : x \in DOMAIN K.ev /\ K.ev[x] = heap[x]
  BY <1>1, <1>6, <1>7, Emptied
<1>9. /\ Good(N) /\ Excess(N) = Excess(C0)
      /\ \A x \in DOMAIN K.ev : x \in DOMAIN N.ev /\ x \notin Listed(N) /\ N.ev[x] = K.ev[x]
      /\ Clean(N) /\ Whole(C0) /\ Strict(C0) => Whole(N)
  <2>1. PICK C, D : C = C0 /\ D = clip
    OBVIOUS
  <2>2. Good(C) /\ (\A x \in Listed(C) : x \in DOMAIN K.ev /\ K.ev[x] = C.ev[x]) /\ D.seq = C.seq /\ D.size = C.size
    BY <2>1, <1>8, Before0
  <2>3. N = CopyOf(K, D)
    BY <2>1, <1>3
  <2> QED BY <2>1, <2>2, <2>3, <1>8, CopyOfGives
<1>10. Spares(N)
  BY <1>8, <1>9 DEF Spares
<1>11. Excess(N) = 0 /\ Excess(N) >= 0 /\ (~Overlaps /\ Clean(N) => Whole(N))
  BY <1>9, Before0
<1> QED BY <1>5, <1>9, <1>10, <1>11, ChangeKeeps

LEMMA RemoveNoteKeeps ==
  ASSUME EInv, NEW x \in Listed(list), RemoveNote(x)
  PROVE  EInv'
<1>1. PICK N : N = RemoveAll(L0, {x, L0.ev[x].link} \ {None})
  OBVIOUS
<1>2. Change(N)
  BY <1>1, Before0 DEF RemoveNote, L0
<1>3. x \in Listed(L0)
  BY Before0 DEF Listed
<1>4. Edited(L0, N) /\ (Whole(L0) => Whole(N))
  BY <1>1, <1>3, Before0, NoteRemovedGives
<1> QED BY <1>2, <1>4, Before0, EditKeeps

LEMMA ResizeKeeps ==
  ASSUME EInv, NEW x \in Ons(With(list)), NEW d \in Tick, Resize(x, d)
  PROVE  EInv'
<1>1. PICK off : off = L0.ev[x].link
  OBVIOUS
<1>2. PICK N : N = Move(L0, off, L0.ev[x].ts + d - L0.ev[off].ts)
  OBVIOUS
<1>3. Change(N)
  BY <1>1, <1>2, Before0 DEF Resize, L0
<1>4. x \in Ons(L0) /\ d \in Nat
  BY RangesAre DEF L0
<1>5. Edited(L0, N) /\ (Whole(L0) => Whole(N))
  BY <1>1, <1>2, <1>4, Before0, ResizeGives
<1> QED BY <1>3, <1>5, Before0, EditKeeps

(* any step that only marks *)
LEMMA MarkKeeps ==
  ASSUME EInv, NEW X, X \subseteq Listed(L0), NEW n \in Nat, Change(Mark(L0, X, n))
  PROVE  EInv'
<1>1. PICK N : N = Mark(L0, X, n)
  OBVIOUS
<1>2. Change(N)
  BY <1>1
<1>3. Edited(L0, N) /\ (Whole(L0) => Whole(N))
  BY <1>1, Before0, MarkGives
<1> QED BY <1>2, <1>3, Before0, EditKeeps

LEMMA SelectKeeps ==
  ASSUME EInv,
         \/ \E s, t \in Tick : SelectRange(s, t)
         \/ \E s, t \in Tick, hi, lo \in Note : SelectNotes(s, t, hi, lo)
         \/ SelectAll
         \/ SelectNone
  PROVE  EInv'
<1>1. 0 \in Nat /\ 1 \in Nat /\ Listed(L0) \subseteq Listed(L0)
  OBVIOUS
<1>2. ASSUME NEW s \in Tick, NEW t \in Tick, SelectRange(s, t)
      PROVE  EInv'
  <2>1. Change(Mark(L0, InRange(L0, s, t), 1))
    BY <1>2 DEF SelectRange, L0
  <2>2. InRange(L0, s, t) \subseteq Listed(L0)
    BY DEF InRange
  <2> QED BY <2>1, <2>2, <1>1, MarkKeeps
<1>3. ASSUME NEW s \in Tick, NEW t \in Tick, NEW hi \in Note, NEW lo \in Note, SelectNotes(s, t, hi, lo)
      PROVE  EInv'
  <2>1. Change(Mark(L0, NotesIn(L0, s, t, hi, lo), 1))
    BY <1>3 DEF SelectNotes, L0
  <2>2. NotesIn(L0, s, t, hi, lo) \subseteq Listed(L0)
    BY DEF NotesIn, Ons
  <2> QED BY <2>1, <2>2, <1>1, MarkKeeps
<1>4. CASE SelectAll
  <2>1. Change(Mark(L0, Listed(L0), 1))
    BY <1>4 DEF SelectAll, L0
  <2> QED BY <2>1, <1>1, MarkKeeps
<1>5. CASE SelectNone
  <2>1. Change(Mark(L0, Listed(L0), 0))
    BY <1>5 DEF SelectNone, L0
  <2> QED BY <2>1, <1>1, MarkKeeps
<1> QED BY <1>2, <1>3, <1>4, <1>5

LEMMA InvertKeeps ==
  ASSUME EInv, Invert
  PROVE  EInv'
<1>1. PICK N : N = InvertSelection(L0)
  OBVIOUS
<1>2. Change(N)
  BY <1>1 DEF Invert, L0
<1>3. Edited(L0, N) /\ (Whole(L0) => Whole(N))
  BY <1>1, Before0, InvertGives
<1> QED BY <1>2, <1>3, Before0, EditKeeps

LEMMA DeepenKeeps ==
  ASSUME EInv, PushSelection \/ PopSelection
  PROVE  EInv'
<1>1. PICK d \in {1, -1} : Change(Deepen(L0, d))
  BY DEF PushSelection, PopSelection, L0
<1>2. PICK N : N = Deepen(L0, d)
  OBVIOUS
<1>3. Change(N)
  BY <1>1, <1>2
<1>4. Edited(L0, N) /\ (Whole(L0) => Whole(N))
  BY <1>2, Before0, DeepenGives
<1> QED BY <1>3, <1>4, Before0, EditKeeps

(* The selection takes whole notes only where no notes overlap. *)
LEMMA RemoveSelectionKeeps ==
  ASSUME EInv, ~(Overlaps /\ Removes), RemoveSelection
  PROVE  EInv'
<1>1. PICK N : N = RemoveSelected(L0)
  OBVIOUS
<1>2. Change(N) /\ Removes
  BY <1>1 DEF RemoveSelection, L0
<1>3. Whole(L0)
  BY <1>2, Before0
<1>4. Edited(L0, N) /\ Whole(N)
  BY <1>1, <1>3, Before0, SelectionRemovedGives
<1> QED BY <1>2, <1>4, EditKeeps

LEMMA PasteKeeps ==
  ASSUME EInv, NEW o \in Tick, Paste(o)
  PROVE  EInv'
<1>1. PICK L, C : L = L0 /\ C = C0
  OBVIOUS
<1>2. PICK N : N = PasteFrom(L, C, o)
  OBVIOUS
<1>3. Change(N)
  BY <1>1, <1>2 DEF Paste, L0, C0
<1>4. Good(L) /\ Good(C) /\ C.ev = L.ev
  BY <1>1, Before0
<1>5. /\ Edited(L, N)
      /\ Clean(N) /\ Whole(L) /\ Whole(C) /\ Strict(L) /\ Strict(C) => Whole(N)
  BY <1>2, <1>4, RangesAre, PasteGives
<1>6. Edited(L0, N) /\ (~Overlaps /\ Clean(N) => Whole(N))
  BY <1>1, <1>5, Before0
<1> QED BY <1>3, <1>6, EditKeeps

(* any step that gives notes new names *)
LEMMA RenameKeeps ==
  ASSUME EInv, NEW X, X \subseteq Listed(L0), NEW n \in [Note -> Note], Change(SetNote(L0, X, n))
  PROVE  EInv'
<1>1. PICK N : N = SetNote(L0, X, n)
  OBVIOUS
<1>2. Change(N)
  BY <1>1
<1>3. Edited(L0, N) /\ (Whole(L0) => Whole(N))
  BY <1>1, Before0, SetNoteGives
<1> QED BY <1>2, <1>3, Before0, EditKeeps

LEMMA TransposeKeeps ==
  ASSUME EInv, NEW n \in Note, Transpose(n)
  PROVE  EInv'
<1>1. Change(SetNote(L0, Selected(L0) \cap Ons(L0), [m \in Note |-> (m + n) % Notes]))
  BY DEF Transpose, L0
<1>2. Selected(L0) \cap Ons(L0) \subseteq Listed(L0)
  BY DEF Ons
<1>3. \A m \in Note : (m + n) % Notes \in Note
  BY RangesAre DEF Note
<1>4. [m \in Note |-> (m + n) % Notes] \in [Note -> Note]
  BY <1>3
<1> QED BY <1>1, <1>2, <1>4, RenameKeeps

LEMMA RewriteKeeps ==
  ASSUME EInv, NEW m \in Note, NEW n \in Note, Rewrite(m, n)
  PROVE  EInv'
<1>1. Change(SetNote(L0, {x \in Selected(L0) \cap Ons(L0) : L0.ev[x].note = m}, [k \in Note |-> n]))
  BY DEF Rewrite, L0
<1>2. {x \in Selected(L0) \cap Ons(L0) : L0.ev[x].note = m} \subseteq Listed(L0)
  BY DEF Ons
<1>3. [k \in Note |-> n] \in [Note -> Note]
  OBVIOUS
<1> QED BY <1>1, <1>2, <1>3, RenameKeeps

(* any step that moves the selection *)
LEMMA NudgeKeeps ==
  ASSUME EInv, NEW o \in Int, Change(Nudge(L0, o))
  PROVE  EInv'
<1>1. PICK N : N = Nudge(L0, o)
  OBVIOUS
<1>2. Change(N)
  BY <1>1
<1>3. Edited(L0, N) /\ (Whole(L0) => Whole(N))
  BY <1>1, Before0, NudgeGives
<1> QED BY <1>2, <1>3, Before0, EditKeeps

LEMMA MovesKeep ==
  ASSUME EInv,
         \/ \E o \in -MaxTick..MaxTick : NudgeSelected(o)
         \/ \E t \in Tick : MoveSelected(t)
  PROVE  EInv'
<1>1. ASSUME NEW o \in -MaxTick..MaxTick, NudgeSelected(o)
      PROVE  EInv'
  BY <1>1, RangesAre, NudgeKeeps DEF NudgeSelected, L0
<1>2. ASSUME NEW t \in Tick, MoveSelected(t)
      PROVE  EInv'
  <2>1. Change(Nudge(L0, t - SelectionMin(L0)))
    BY <1>2 DEF MoveSelected, L0
  <2>2. SelectionMin(L0) \in Nat
    BY Before0, SelectionMinIs
  <2>3. t - SelectionMin(L0) \in Int
    BY <2>2, RangesAre
  <2> QED BY <2>1, <2>3, NudgeKeeps
<1> QED BY <1>1, <1>2

LEMMA DeleteTimeKeeps ==
  ASSUME EInv, NEW s \in Tick, NEW t \in Tick, DeleteTime(s, t)
  PROVE  EInv'
<1>1. PICK N : N = CutTime(L0, s, t)
  OBVIOUS
<1>2. Change(N) /\ s < t
  BY <1>1 DEF DeleteTime, L0
<1>3. Edited(L0, N) /\ (Whole(L0) => Whole(N))
  BY <1>1, <1>2, Before0, RangesAre, CutGives
<1> QED BY <1>2, <1>3, Before0, EditKeeps

LEMMA InsertTimeKeeps ==
  ASSUME EInv, NEW s \in Tick, NEW d \in Tick, InsertTime(s, d)
  PROVE  EInv'
<1>1. PICK N : N = SpreadTime(L0, s, d)
  OBVIOUS
<1>2. Change(N) /\ InsertsTime
  BY <1>1 DEF InsertTime, L0
<1>3. Good(N) /\ Whole(N) /\ Aside(L0, N) /\ N.size = L0.size /\ N.seq = <<>>
  <2>1. PICK L : L = L0
    OBVIOUS
  <2>2. Good(L) /\ s \in Nat /\ d \in Nat /\ N = SpreadTime(L, s, d)
    BY <2>1, <1>1, Before0, RangesAre
  <2>3. LeavesNothing(L, N)
    BY <2>2, SpreadGives
  <2> QED BY <2>1, <2>3 DEF LeavesNothing
<1>4. Spares(N)
  <2> SUFFICES ASSUME NEW x \in Listed(C0)
               PROVE  x \in DOMAIN N.ev /\ x \notin Listed(N) /\ N.ev[x] = heap[x]
    BY DEF Spares
  <2>1. x \in DOMAIN L0.ev /\ x \notin Listed(L0) /\ L0.ev[x] = heap[x]
    BY Before0
  <2> QED BY <2>1, <1>3 DEF Aside
<1>5. Excess(N) >= 0
  <2>1. Len(L0.seq) \in Nat /\ L0.size \in Int
    BY Before0, GoodIs
  <2>2. L0.size - Len(L0.seq) >= 0
    BY Before0 DEF Excess
  <2>3. Len(N.seq) = 0
    BY <1>3
  <2> QED BY <2>1, <2>2, <2>3, <1>3 DEF Excess
<1> QED BY <1>2, <1>3, <1>4, <1>5, ChangeKeeps

(* a list without events *)
LEMMA EmptyIs ==
  ASSUME NEW h \in Memory, NEW n \in Int, NEW C, C = [ev |-> h, seq |-> <<>>, size |-> n]
  PROVE  Good(C) /\ Whole(C) /\ Strict(C) /\ Clean(C) /\ Listed(C) = {} /\ Excess(C) = n
<1>1. C \in Raw /\ C.seq = <<>> /\ C.size = n
  BY DEF Raw
<1>2. DOMAIN C.seq = {} /\ Len(C.seq) = 0
  BY <1>1
<1>3. Listed(C) = {} /\ Ons(C) = {}
  BY <1>2 DEF Listed, Ons
<1>4. IsInjective(C.seq)
  BY <1>2 DEF IsInjective
<1>5. Listable(C)
  BY <1>1, <1>3, <1>4 DEF Listable
<1>6. Good(C)
  BY <1>3, <1>5 DEF Good, Ordered, Paired, Linked
<1>7. Excess(C) = n
  BY <1>1, <1>2 DEF Excess
<1> QED BY <1>3, <1>6, <1>7 DEF Whole, Strict, Clean

(* merge(): the events change from one list to the other *)
LEMMA MergeKeeps ==
  ASSUME EInv, Merge
  PROVE  EInv'
<1>1. PICK L, C : L = L0 /\ C = C0
  OBVIOUS
<1>2. PICK N : N = MergeInto(L, C.seq)
  OBVIOUS
<1>3. PICK ev, l, c : ev = N.ev /\ l = Outcome(N) /\ c = [seq |-> <<>>, size |-> clip.size - Len(clip.seq)]
  OBVIOUS
<1>4. Good(L) /\ Good(C) /\ C.ev = L.ev /\ Listed(L) \cap Listed(C) = {}
  BY <1>1, Before0
<1>5. (Overlaps \/ Clean(N)) /\ Settle(ev, l, c)
  <2>1. N = FoldLeft(Insert, With(list), clip.seq)
    BY <1>1, <1>2, Before0 DEF MergeInto, L0
  <2>2. Becomes(N, c)
    BY <2>1, <1>3 DEF Merge
  <2> QED BY <2>2, <1>3 DEF Becomes
<1>6. /\ Good(N) /\ Excess(N) = Excess(L) /\ (Whole(L) /\ Whole(C) => Whole(N))
  BY <1>2, <1>4, MergeGives
<1>7. N \in Raw
  BY <1>6, GoodIs
<1>8. ev \in Memory /\ l \in Outcomes
  BY <1>3, <1>7, RawIs DEF Outcome, Outcomes
<1>9. clip.size - Len(clip.seq) = 0
  BY Before0 DEF Excess
<1>10. c = [seq |-> <<>>, size |-> 0] /\ c \in Outcomes
  <2>1. <<>> \in Seq(Addr) /\ 0 \in Int
    OBVIOUS
  <2> QED BY <2>1, <1>3, <1>9 DEF Outcomes
<1>11. In(ev, l) = N
  <2>1. N = [ev |-> N.ev, seq |-> N.seq, size |-> N.size]
    BY <1>7, RawIs
  <2>2. In(ev, l) = [ev |-> N.ev, seq |-> N.seq, size |-> N.size]
    BY <1>3 DEF In, Outcome
  <2> QED BY <2>1, <2>2
<1>12. PICK D : D = In(ev, c)
  OBVIOUS
<1>13. Good(D) /\ Whole(D) /\ Strict(D) /\ Listed(D) = {} /\ Excess(D) = 0
  <2>1. D = [ev |-> ev, seq |-> <<>>, size |-> 0]
    BY <1>10, <1>12 DEF In
  <2> QED BY <2>1, <1>8, EmptyIs
<1>14. Apart(ev, l, c)
  BY <1>6, <1>8, <1>10, <1>11, <1>12, <1>13 DEF Apart
<1>15. ~Overlaps => Whole(N) /\ Strict(N) /\ Clean(N)
  BY <1>1, <1>5, <1>6, Before0, CleanIsStrict
<1>16. Excess(N) >= 0 /\ (~InsertsTime => Excess(N) = 0)
  BY <1>1, <1>6, Before0
<1>17. Fit(ev, l, c)
  BY <1>11, <1>12, <1>13, <1>14, <1>15, <1>16 DEF Fit
<1> QED BY <1>5, <1>17, SettleKeeps

(* copy_selected(): the clipboard changes, the list stays *)
LEMMA CopyKeeps ==
  ASSUME EInv, Copy
  PROVE  EInv'
<1>1. PICK L, C : L = L0 /\ C = C0
  OBVIOUS
<1>2. PICK N : N = CopyInto(C, L)
  OBVIOUS
<1>3. PICK ev, l, c : ev = N.ev /\ l = list /\ c = Outcome(N)
  OBVIOUS
<1>4. Good(L) /\ Good(C)
  BY <1>1, Before0
<1>5. L.seq # <<>> /\ Settle(ev, l, c)
  BY <1>1, <1>2, <1>3, Before0 DEF Copy, L0, C0
<1>6. /\ Edited(C, N) /\ \A y \in DOMAIN C.ev : y \in DOMAIN N.ev /\ N.ev[y] = C.ev[y]
      /\ (Whole(L) /\ Whole(C) => Whole(N)) /\ (Strict(L) /\ Strict(C) => Strict(N))
  BY <1>2, <1>4, <1>5, CopyIntoGives
<1>7. Good(N) /\ Excess(N) = Excess(C) /\ Aside(C, N)
  BY <1>6 DEF Edited
<1>8. N \in Raw
  BY <1>7, GoodIs
<1>9. ev \in Memory /\ l \in Outcomes /\ c \in Outcomes
  BY <1>3, <1>8, RawIs, Before0 DEF Outcome, Outcomes
<1>10. In(ev, c) = N
  <2>1. N = [ev |-> N.ev, seq |-> N.seq, size |-> N.size]
    BY <1>8, RawIs
  <2>2. In(ev, c) = [ev |-> N.ev, seq |-> N.seq, size |-> N.size]
    BY <1>3 DEF In, Outcome
  <2> QED BY <2>1, <2>2
<1>11. PICK M : M = In(ev, l)
  OBVIOUS
<1>12. M \in Raw /\ M.ev = ev /\ M.seq = L.seq /\ M.size = L.size
  BY <1>1, <1>3, <1>9, <1>11, Before0 DEF In, Raw, Outcomes
<1>13. /\ \A x \in Listed(L) : x \in DOMAIN C.ev /\ x \notin Listed(C) /\ C.ev[x] = L.ev[x]
  BY <1>1, Before0
<1>14. Succeeds(L, M) /\ Listed(M) = Listed(L)
  <2>1. \A x \in Listed(L) : x \in DOMAIN M.ev /\ M.ev[x] = L.ev[x]
    BY <1>3, <1>6, <1>12, <1>13
  <2> QED BY <2>1, <1>4, <1>12, Untouched
<1>15. Listed(M) \cap Listed(N) = {}
  BY <1>7, <1>13, <1>14 DEF Aside
<1>16. Apart(ev, l, c)
  BY <1>7, <1>9, <1>10, <1>11, <1>14, <1>15 DEF Apart, Succeeds
<1>17. /\ Excess(M) >= 0 /\ (~InsertsTime => Excess(M) = 0) /\ Excess(N) = 0
       /\ ~Overlaps => Whole(M) /\ Whole(N) /\ Strict(M) /\ Strict(N) /\ Clean(M)
  BY <1>1, <1>6, <1>7, <1>14, Before0 DEF Succeeds
<1>18. Fit(ev, l, c)
  BY <1>10, <1>11, <1>16, <1>17 DEF Fit
<1> QED BY <1>5, <1>18, SettleKeeps

(* The invariant holds at first, and every step keeps it. *)
LEMMA EInvStarts ==
  ASSUME Init
  PROVE  EInv
<1>1. heap = <<>> /\ list = [seq |-> <<>>, size |-> 0] /\ clip = [seq |-> <<>>, size |-> 0]
  BY DEF Init, EmptyList
<1>2. heap \in Memory /\ DOMAIN heap = {}
  <2>1. DOMAIN heap = {} /\ heap = [x \in {} |-> 0]
    BY <1>1
  <2>2. IsFiniteSet({})
    BY FS_EmptySet
  <2>3. heap \in [DOMAIN heap -> Loose]
    BY <2>1
  <2> QED BY <2>1, <2>2, <2>3, MemoryIs
<1>3. PICK K : K = In(heap, list)
  OBVIOUS
<1>4. K = [ev |-> heap, seq |-> <<>>, size |-> 0] /\ K = In(heap, clip)
  BY <1>1, <1>3 DEF In
<1>5. Good(K) /\ Whole(K) /\ Strict(K) /\ Clean(K) /\ Listed(K) = {} /\ Excess(K) = 0
  BY <1>2, <1>4, EmptyIs
<1>6. list \in Outcomes /\ clip \in Outcomes
  <2>1. <<>> \in Seq(Addr) /\ 0 \in Int
    OBVIOUS
  <2> QED BY <2>1, <1>1 DEF Outcomes
<1>7. Apart(heap, list, clip)
  BY <1>3, <1>4, <1>5, <1>6 DEF Apart
<1>8. Fit(heap, list, clip)
  BY <1>3, <1>4, <1>5, <1>7 DEF Fit
<1> QED BY <1>2, <1>3, <1>4, <1>5, <1>8 DEF EInv, Kept

LEMMA EInvGoesOn ==
  ASSUME ~(Overlaps /\ Removes), EInv, [Next]_vars
  PROVE  EInv'
<1>1. CASE UNCHANGED vars
  BY <1>1 DEF vars, EInv
<1>2. ASSUME NEW n \in Note, NEW s \in Tick, NEW t \in Tick, EnterNote(n, s, t)
      PROVE  EInv'
  BY <1>2, EnterNoteKeeps
<1>3. ASSUME NEW s \in Tick, EnterControl(s)
      PROVE  EInv'
  BY <1>3, EnterControlKeeps
<1>4. ASSUME NEW take \in Takes, Load(take)
      PROVE  EInv'
  BY <1>4, LoadKeeps
<1>5. CASE Assign
  BY <1>5, AssignKeeps
<1>6. ASSUME NEW x \in Listed(list), RemoveNote(x)
      PROVE  EInv'
  BY <1>6, RemoveNoteKeeps
<1>7. ASSUME NEW x \in Ons(With(list)), NEW d \in Tick, Resize(x, d)
      PROVE  EInv'
  BY <1>7, ResizeKeeps
<1>8. CASE \/ \E s, t \in Tick : SelectRange(s, t)
           \/ \E s, t \in Tick, hi, lo \in Note : SelectNotes(s, t, hi, lo)
           \/ SelectAll
           \/ SelectNone
  BY <1>8, SelectKeeps
<1>9. CASE Invert
  BY <1>9, InvertKeeps
<1>10. CASE PushSelection \/ PopSelection
  BY <1>10, DeepenKeeps
<1>11. CASE RemoveSelection
  BY <1>11, RemoveSelectionKeeps
<1>12. CASE Copy
  BY <1>12, CopyKeeps
<1>13. CASE Merge
  BY <1>13, MergeKeeps
<1>14. ASSUME NEW o \in Tick, Paste(o)
       PROVE  EInv'
  BY <1>14, PasteKeeps
<1>15. ASSUME NEW n \in Note, Transpose(n)
       PROVE  EInv'
  BY <1>15, TransposeKeeps
<1>16. ASSUME NEW m \in Note, NEW n \in Note, Rewrite(m, n)
       PROVE  EInv'
  BY <1>16, RewriteKeeps
<1>17. CASE \/ \E o \in -MaxTick..MaxTick : NudgeSelected(o)
            \/ \E t \in Tick : MoveSelected(t)
  BY <1>17, MovesKeep
<1>18. ASSUME NEW s \in Tick, NEW t \in Tick, DeleteTime(s, t)
       PROVE  EInv'
  BY <1>18, DeleteTimeKeeps
<1>19. ASSUME NEW s \in Tick, NEW d \in Tick, InsertTime(s, d)
       PROVE  EInv'
  BY <1>19, InsertTimeKeeps
<1> QED BY <1>1, <1>2, <1>3, <1>4, <1>5, <1>6, <1>7, <1>8, <1>9, <1>10, <1>11, <1>12, <1>13, <1>14, <1>15,
           <1>16, <1>17, <1>18, <1>19 DEF Next

(* What the invariant says of a list, and of its memory *)
LEMMA ListIs ==
  ASSUME NEW h, NEW l \in Outcomes, NEW L, L = In(h, l), Good(L), Listed(L) \subseteq DOMAIN h, Excess(L) >= 0
  PROVE  /\ L.ev = h /\ L.seq = l.seq /\ l.seq \in Seq(DOMAIN h) /\ l.size \in Nat
         /\ \A k \in 1..Len(l.seq) - 1 : h[l.seq[k]].ts <= h[l.seq[k + 1]].ts
<1>1. L.ev = h /\ L.seq = l.seq /\ L.size = l.size
  BY DEF In
<1>2. /\ Ordered(L) /\ DOMAIN l.seq = 1..Len(l.seq) /\ Len(l.seq) \in Nat /\ l.size \in Int
      /\ \A k \in 1..Len(l.seq) : l.seq[k] \in Listed(L)
  BY <1>1, GoodIs
<1>3. l.seq \in Seq(DOMAIN h)
  <2>1. l.seq \in Seq(Addr)
    BY DEF Outcomes
  <2>2. \A k \in 1..Len(l.seq) : l.seq[k] \in DOMAIN h
    BY <1>2
  <2> QED BY <2>1, <2>2
<1>4. l.size \in Nat
  <2>1. l.size - Len(l.seq) >= 0
    BY <1>1 DEF Excess
  <2> QED BY <2>1, <1>2
<1>5. ASSUME NEW k \in 1..Len(l.seq) - 1
      PROVE  h[l.seq[k]].ts <= h[l.seq[k + 1]].ts
  <2>1. k \in 1..Len(l.seq) /\ k + 1 \in 1..Len(l.seq) /\ k < k + 1
    BY <1>2
  <2>2. PICK j : j = k + 1
    OBVIOUS
  <2>3. Before(L.seq, l.seq[k], l.seq[j])
    BY <1>1, <1>2, <2>1, <2>2 DEF Before
  <2>4. L.ev[l.seq[k]].ts <= L.ev[l.seq[j]].ts
    BY <1>2, <2>1, <2>2, <2>3 DEF Ordered
  <2> QED BY <2>2, <2>4, <1>1
<1> QED BY <1>1, <1>3, <1>4, <1>5

(* the properties *)
LEMMA TypeFollows ==
  ASSUME EInv
  PROVE  TypeOK /\ Sorted
<1>1. PICK L, C : L = L0 /\ C = C0
  OBVIOUS
<1>2. PICK h, l, c : h = heap /\ l = list /\ c = clip
  OBVIOUS
<1>3. /\ L = In(h, l) /\ C = In(h, c) /\ l \in Outcomes /\ c \in Outcomes /\ Good(L) /\ Good(C)
      /\ DOMAIN h = Listed(L) \cup Listed(C) /\ Excess(L) >= 0 /\ Excess(C) >= 0
  BY <1>1, <1>2, Before0
<1>4. /\ L.ev = h /\ L.seq = l.seq /\ l.seq \in Seq(DOMAIN h) /\ l.size \in Nat
      /\ \A k \in 1..Len(l.seq) - 1 : h[l.seq[k]].ts <= h[l.seq[k + 1]].ts
  BY <1>3, ListIs
<1>5. /\ C.ev = h /\ C.seq = c.seq /\ c.seq \in Seq(DOMAIN h) /\ c.size \in Nat
      /\ \A k \in 1..Len(c.seq) - 1 : h[c.seq[k]].ts <= h[c.seq[k + 1]].ts
  BY <1>3, ListIs
<1>6. ASSUME NEW x \in DOMAIN h
      PROVE  x \in Nat \ {None} /\ h[x] \in Event
  BY <1>3, <1>4, <1>5, GoodIs
<1> QED BY <1>2, <1>4, <1>5, <1>6 DEF TypeOK, Sorted

LEMMA PairsFollow ==
  ASSUME EInv
  PROVE  NotesArePaired
<1> SUFFICES ASSUME NEW l \in {list, clip}, NEW k \in DOMAIN l.seq, NEW x, x = l.seq[k], NEW y, y = heap[x].link
             PROVE  /\ heap[x].op = "on" => y # None
                    /\ y # None =>
                         /\ \E m \in DOMAIN l.seq : l.seq[m] = y
                         /\ heap[y].link = x /\ heap[y].note = heap[x].note
                         /\ {heap[x].op, heap[y].op} = {"on", "off"}
  BY DEF NotesArePaired
<1>1. PICK L : Good(L) /\ L.ev = heap /\ L.seq = l.seq
  BY Before0
<1>2. x \in Listed(L) /\ Paired(L) /\ Linked(L)
  BY <1>1, GoodIs DEF Listed
<1>3. heap[x].op = "on" => y # None
  BY <1>1, <1>2 DEF Paired, Ons
<1>4. ASSUME y # None
      PROVE  /\ \E m \in DOMAIN l.seq : l.seq[m] = y
             /\ heap[y].link = x /\ heap[y].note = heap[x].note
             /\ {heap[x].op, heap[y].op} = {"on", "off"}
  <2>1. Halves(L, x, y)
    BY <1>1, <1>2, <1>4 DEF Linked
  <2> QED BY <2>1, <1>1 DEF Halves, Listed
<1> QED BY <1>3, <1>4

LEMMA WholeNotesFollow ==
  ASSUME EInv, ~Overlaps
  PROVE  SelectionTakesWholeNotes
<1> SUFFICES ASSUME NEW x \in DOMAIN heap, heap[x].link \in DOMAIN heap
             PROVE  heap[heap[x].link].sel = heap[x].sel
  BY DEF SelectionTakesWholeNotes
<1>1. PICK L : Good(L) /\ L.ev = heap /\ x \in Listed(L) /\ Whole(L)
  BY Before0
<1>2. TypeOK
  BY TypeFollows
<1>3. heap[x].link # None
  BY <1>2 DEF TypeOK
<1> QED BY <1>1, <1>3 DEF Whole

LEMMA SizesFollow ==
  ASSUME EInv, ~InsertsTime
  PROVE  SizeIsLength
<1>1. Good(L0) /\ Good(C0) /\ L0.seq = list.seq /\ L0.size = list.size /\ C0.seq = clip.seq /\ C0.size = clip.size
  BY Before0
<1>2. list.size - Len(list.seq) = 0 /\ clip.size - Len(clip.seq) = 0
  BY <1>1, Before0 DEF Excess
<1>3. list.size \in Int /\ Len(list.seq) \in Nat /\ clip.size \in Int /\ Len(clip.seq) \in Nat
  BY <1>1, GoodIs
<1> QED BY <1>2, <1>3 DEF SizeIsLength

LEMMA PasteFollows ==
  ASSUME EInv, ~Overlaps
  PROVE  PasteKeepsNotes
<1>1. PICK L, C : L = L0 /\ C = C0
  OBVIOUS
<1>2. /\ Good(L) /\ Good(C) /\ L.ev = heap /\ C.ev = heap /\ L = With(list) /\ C = With(clip)
      /\ Whole(L) /\ Whole(C) /\ Strict(C) /\ Clean(L) /\ L.seq = list.seq /\ L.size = list.size
  BY <1>1, Before0 DEF L0, C0
<1>3. ASSUME NEW o \in Tick, PastesBetween(o), NEW N, N = PasteFrom(L, C, o), NEW x \in Ons(L)
      PROVE  N.ev[x].link = heap[x].link
  <2>1. \A a \in Ons(L), y \in Ons(C) : L.ev[a].note = C.ev[y].note =>
          L.ev[L.ev[a].link].ts <= C.ev[y].ts + o \/ C.ev[C.ev[y].link].ts + o <= L.ev[a].ts
    BY <1>2, <1>3 DEF PastesBetween
  <2>2. \A a \in Ons(L) : N.ev[a].link = L.ev[a].link
    BY <2>1, <1>2, <1>3, RangesAre, PasteServes
  <2> QED BY <2>2, <1>2, <1>3
<1>4. ASSUME NEW N, N = CopyOf(With(EmptyList), list)
      PROVE  /\ Len(N.seq) = Len(list.seq)
             /\ \A k, m \in DOMAIN list.seq :
                  N.ev[N.seq[k]].link = N.seq[m] <=> heap[list.seq[k]].link = list.seq[m]
  <2>1. PICK E : E = With(EmptyList)
    OBVIOUS
  <2>2. E = [ev |-> heap, seq |-> <<>>, size |-> 0]
    BY <2>1 DEF With, EmptyList
  <2>3. E \in Raw /\ E.seq = <<>> /\ E.ev = heap
    <3>1. heap \in Memory
      BY <1>2, GoodIs, RawIs
    <3>2. <<>> \in Seq(Addr) /\ 0 \in Int
      OBVIOUS
    <3> QED BY <2>2, <3>1, <3>2 DEF Raw
  <2>4. \A x \in Listed(L) : x \in DOMAIN E.ev /\ E.ev[x] = L.ev[x]
    BY <2>3, <1>2, GoodIs
  <2>5. PICK D : D = list
    OBVIOUS
  <2>6. D.seq = L.seq /\ D.size = L.size /\ N = CopyOf(E, D)
    BY <2>1, <2>5, <1>2, <1>4
  <2>7. /\ Len(N.seq) = Len(L.seq)
        /\ \A k, m \in DOMAIN L.seq : N.ev[N.seq[k]].link = N.seq[m] <=> L.ev[L.seq[k]].link = L.seq[m]
    BY <2>3, <2>4, <2>6, <1>2, CopyServes
  <2> QED BY <2>7, <1>2
<1> QED BY <1>2, <1>3, <1>4 DEF PasteKeepsNotes

LEMMA BlockFollows ==
  ASSUME EInv
  PROVE  SelectionMovesAsBlock
<1>1. PICK L : L = L0
  OBVIOUS
<1>2. Good(L) /\ L.ev = heap /\ L = With(list)
  BY <1>1, Before0 DEF L0
<1> SUFFICES ASSUME NEW t \in Tick, NEW N, N = Nudge(L, t - SelectionMin(L)), NEW x \in Listed(L)
             PROVE  N.ev[x].ts = heap[x].ts + (IF x \in Selected(L) THEN t - SelectionMin(L) ELSE 0)
  BY <1>2 DEF SelectionMovesAsBlock
<1>3. PICK m, o : m = SelectionMin(L) /\ o = t - m
  OBVIOUS
<1>4. m \in Nat /\ t \in Nat /\ o \in Int /\ ~(o < 0 /\ m < 0 - o)
  <2>1. m \in Nat /\ t \in Nat
    BY <1>2, <1>3, SelectionMinIs, RangesAre
  <2> QED BY <2>1, <1>3
<1>5. N.ev[x].ts = heap[x].ts + NudgeOf(L, o, x)
  BY <1>2, <1>3, <1>4, NudgeGives
<1>6. NudgeOf(L, o, x) = IF x \in Selected(L) THEN o ELSE 0
  BY <1>3, <1>4 DEF NudgeOf
<1> QED BY <1>3, <1>5, <1>6

LEMMA RestFollows ==
  ASSUME EInv
  PROVE  CutKeepsTheRest
<1>1. PICK L : L = L0
  OBVIOUS
<1>2. Good(L) /\ L.ev = heap /\ L = With(list)
  BY <1>1, Before0 DEF L0
<1> SUFFICES ASSUME NEW s \in Tick, NEW t \in Tick, s < t, NEW N, N = CutTime(L, s, t)
             PROVE  /\ \A x \in Listed(L) \ Listed(N) : {x, heap[x].link} \cap InRange(L, s, t) # {}
                    /\ \A x \in Listed(N) : N.ev[x].sel = heap[x].sel
  BY <1>2 DEF CutKeepsTheRest
<1>3. /\ Listed(N) = Listed(L) \ WithPartners(L, InRange(L, s, t))
      /\ \A x \in Listed(N) : N.ev[x].sel = L.ev[x].sel
  BY <1>2, RangesAre, CutGives
<1>4. ASSUME NEW x \in Listed(L) \ Listed(N)
      PROVE  {x, heap[x].link} \cap InRange(L, s, t) # {}
  <2>1. CASE x \in InRange(L, s, t)
    BY <2>1
  <2>2. ASSUME NEW y \in InRange(L, s, t), x = L.ev[y].link
        PROVE  heap[x].link = y
    <3>1. y \in Listed(L) /\ x # None
      BY <1>2, GoodIs DEF InRange
    <3>2. Halves(L, y, x)
      BY <3>1, <2>2, <1>2, GoodIs
    <3> QED BY <3>2, <1>2 DEF Halves
  <2> QED BY <2>1, <2>2, <1>3 DEF WithPartners
<1> QED BY <1>2, <1>3, <1>4

-----------------------------------------------------------------------------
(* The invariant, unless the user both lets notes of one pitch overlap and          *)
(* removes events: there relink() may give a note the note off of another, of which *)
(* only one is selected, and remove_selected() takes one half.                       *)
THEOREM InvariantHolds ==
  ~(Overlaps /\ Removes) => (Spec => []EInv)
<1> SUFFICES ASSUME ~(Overlaps /\ Removes) PROVE Spec => []EInv
  OBVIOUS
<1>1. Init => EInv
  BY EInvStarts
<1>2. EInv /\ [Next]_vars => EInv'
  BY EInvGoesOn
<1> QED BY <1>1, <1>2, PTL DEF Spec

(* Every variable of the event list keeps its type: no time, mark or size below 0,   *)
(* no event listed that is not in memory.                                            *)
THEOREM TypeCorrect ==
  ~(Overlaps /\ Removes) => (Spec => []TypeOK)
<1> SUFFICES ASSUME ~(Overlaps /\ Removes) PROVE Spec => []TypeOK
  OBVIOUS
<1>1. EInv => TypeOK
  BY TypeFollows
<1>2. Spec => []EInv
  BY InvariantHolds
<1> QED BY <1>1, <1>2, PTL

(* The list and the clipboard stay in order of time through every edit.              *)
THEOREM AlwaysInOrder ==
  ~(Overlaps /\ Removes) => (Spec => []Sorted)
<1> SUFFICES ASSUME ~(Overlaps /\ Removes) PROVE Spec => []Sorted
  OBVIOUS
<1>1. EInv => Sorted
  BY TypeFollows
<1>2. Spec => []EInv
  BY InvariantHolds
<1> QED BY <1>1, <1>2, PTL

(* verify() never finds a note on without its note off, or a link to elsewhere.      *)
THEOREM AlwaysPaired ==
  ~(Overlaps /\ Removes) => (Spec => []NotesArePaired)
<1> SUFFICES ASSUME ~(Overlaps /\ Removes) PROVE Spec => []NotesArePaired
  OBVIOUS
<1>1. EInv => NotesArePaired
  BY PairsFollow
<1>2. Spec => []EInv
  BY InvariantHolds
<1> QED BY <1>1, <1>2, PTL

(* Where notes do not overlap, both halves of every note are marked alike.           *)
THEOREM WholeNotesSelected ==
  ~Overlaps => (Spec => []SelectionTakesWholeNotes)
<1> SUFFICES ASSUME ~Overlaps PROVE Spec => []SelectionTakesWholeNotes
  OBVIOUS
<1>1. EInv => SelectionTakesWholeNotes
  BY WholeNotesFollow
<1>2. Spec => []EInv
  BY InvariantHolds
<1> QED BY <1>1, <1>2, PTL

(* Where notes do not overlap, a paste between the notes takes no note off from its  *)
(* note on, and a copy of the list links its events as the list does.                *)
THEOREM PasteKeepsThem ==
  ~Overlaps => (Spec => []PasteKeepsNotes)
<1> SUFFICES ASSUME ~Overlaps PROVE Spec => []PasteKeepsNotes
  OBVIOUS
<1>1. EInv => PasteKeepsNotes
  BY PasteFollows
<1>2. Spec => []EInv
  BY InvariantHolds
<1> QED BY <1>1, <1>2, PTL

(* size() is the number of events, as long as insert_time() is not called.           *)
THEOREM SizeCounts ==
  ~(Overlaps /\ Removes) /\ ~InsertsTime => (Spec => []SizeIsLength)
<1> SUFFICES ASSUME ~(Overlaps /\ Removes), ~InsertsTime PROVE Spec => []SizeIsLength
  OBVIOUS
<1>1. EInv => SizeIsLength
  BY SizesFollow
<1>2. Spec => []EInv
  BY InvariantHolds
<1> QED BY <1>1, <1>2, PTL

(* move_selected() brings the first selected event to the tick and the others as far.  *)
THEOREM BlockMoves ==
  ~(Overlaps /\ Removes) => (Spec => []SelectionMovesAsBlock)
<1> SUFFICES ASSUME ~(Overlaps /\ Removes) PROVE Spec => []SelectionMovesAsBlock
  OBVIOUS
<1>1. EInv => SelectionMovesAsBlock
  BY BlockFollows
<1>2. Spec => []EInv
  BY InvariantHolds
<1> QED BY <1>1, <1>2, PTL

(* delete_time() takes the notes and events of the range and no others, and the      *)
(* selection survives it.                                                            *)
THEOREM CutKeeps ==
  ~(Overlaps /\ Removes) => (Spec => []CutKeepsTheRest)
<1> SUFFICES ASSUME ~(Overlaps /\ Removes) PROVE Spec => []CutKeepsTheRest
  OBVIOUS
<1>1. EInv => CutKeepsTheRest
  BY RestFollows
<1>2. Spec => []EInv
  BY InvariantHolds
<1> QED BY <1>1, <1>2, PTL
=============================================================================
