---------------------------- MODULE LogEntryProof ----------------------------
(***************************************************************************)
(* The text of a journal line leads back to what was written, for strings of *)
(* any length without backslash and separator.                               *)
(*                                                                         *)
(* What the model computes by recursion over a text (Escaped, Parse,         *)
(* FlattenSeq) is a recursive function: the lemmas show first that it        *)
(* exists, by climbing from 0 (Climb), and then unfold it place by place.    *)
(***************************************************************************)
EXTENDS LogEntry, TLAPS, SequenceTheorems, WellFoundedInduction

-----------------------------------------------------------------------------
(* Numbers                                                                     *)

(* a set of natural numbers has a least one *)
LEMMA Least ==
  ASSUME NEW T, T \subseteq Nat, T # {}
  PROVE  \E n \in T : \A m \in T : n <= m
<1>1. PICK x \in T : \A y \in T : ~(<<y, x>> \in OpToRel(<, Nat))
  BY NatLessThanWellFounded, WFMin
<1>2. \A y \in T : ~(y < x)
  BY <1>1 DEF OpToRel
<1> QED BY <1>2

(* so what begins at 0 and goes on reaches every number *)
LEMMA Climb ==
  ASSUME NEW n \in Nat, NEW S, 0 \in S, \A k \in 1..n : k - 1 \in S => k \in S
  PROVE  \A k \in 0..n : k \in S
<1> SUFFICES ASSUME NEW j \in 0..n, j \notin S
             PROVE  FALSE
  OBVIOUS
<1> DEFINE T == {k \in 0..n : k \notin S}
<1>1. PICK k \in T : \A m \in T : k <= m
  <2>1. T \subseteq Nat /\ T # {}
    OBVIOUS
  <2> HIDE DEF T
  <2> QED BY <2>1, Least
<1>2. k \in 1..n /\ k - 1 \in 0..n /\ k - 1 \notin T
  BY <1>1
<1> QED BY <1>1, <1>2

(* the least of some numbers, named *)
LEMMA MinIs ==
  ASSUME NEW T, T \subseteq Nat, NEW n \in T, \A m \in T : n <= m
  PROVE  Min(T) = n
<1>1. Min(T) \in T /\ \A m \in T : Min(T) <= m
  BY DEF Min
<1>2. PICK x : x = Min(T)
  OBVIOUS
<1>3. x \in Nat /\ n \in Nat /\ x <= n /\ n <= x
  BY <1>1, <1>2
<1>4. x = n
  BY <1>3
<1> QED BY <1>2, <1>4

(* the greatest of some numbers, named *)
LEMMA MaxIs ==
  ASSUME NEW T, T \subseteq Nat, NEW n \in T, \A m \in T : m <= n
  PROVE  Max(T) = n
<1>1. Max(T) \in T /\ \A m \in T : m <= Max(T)
  BY DEF Max
<1>2. PICK x : x = Max(T)
  OBVIOUS
<1>3. x \in Nat /\ n \in Nat /\ x <= n /\ n <= x
  BY <1>1, <1>2
<1>4. x = n
  BY <1>3
<1> QED BY <1>2, <1>4

-----------------------------------------------------------------------------
(* FlattenSeq                                                                  *)

(* f has at each place up to n what the sequences up to it make together *)
Flattens(f, seqs, n) == f = [i \in 1..n |-> IF i = 1 THEN seqs[i] ELSE f[i - 1] \o seqs[i]]

(* the sequences s and t are alike up to n *)
Alike(s, t, n) == \A i \in 1..n : t[i] = s[i]

(* such a function exists, whatever the sequences are *)
LEMMA FlattenDefined ==
  ASSUME NEW seqs, NEW n \in Nat
  PROVE  \E f : Flattens(f, seqs, n)
<1> DEFINE T == {k \in 0..n : \E f : Flattens(f, seqs, k)}
<1>1. 0 \in T
  <2> DEFINE f == [i \in 1..0 |-> seqs[i]]
  <2>1. Flattens(f, seqs, 0)
    BY DEF Flattens
  <2> QED BY <2>1
<1>2. ASSUME NEW k \in 1..n, k - 1 \in T
      PROVE  k \in T
  <2>1. PICK f : Flattens(f, seqs, k - 1)
    BY <1>2
  <2> DEFINE g == [i \in 1..k |-> IF i < k THEN f[i] ELSE IF k = 1 THEN seqs[k] ELSE f[k - 1] \o seqs[k]]
  <2>2. \A i \in 1..k : g[i] = IF i = 1 THEN seqs[i] ELSE g[i - 1] \o seqs[i]
    <3> SUFFICES ASSUME NEW i \in 1..k
                 PROVE  g[i] = IF i = 1 THEN seqs[i] ELSE g[i - 1] \o seqs[i]
      OBVIOUS
    <3>1. CASE i = k
      BY <3>1
    <3>2. CASE i < k
      <4>1. i \in 1..k - 1
        BY <3>2
      <4>2. f[i] = IF i = 1 THEN seqs[i] ELSE f[i - 1] \o seqs[i]
        BY <2>1, <4>1 DEF Flattens
      <4>3. i # 1 => i - 1 \in 1..k /\ i - 1 < k
        BY <4>1
      <4>4. g[i] = f[i] /\ (i # 1 => g[i - 1] = f[i - 1])
        BY <3>2, <4>3
      <4> HIDE DEF g
      <4> QED BY <4>2, <4>4
    <3> QED BY <3>1, <3>2
  <2>3. g = [i \in 1..k |-> g[i]]
    OBVIOUS
  <2> HIDE DEF g
  <2>4. Flattens(g, seqs, k)
    BY <2>2, <2>3 DEF Flattens
  <2> QED BY <2>4
<1>3. \A k \in 1..n : k - 1 \in T => k \in T
  BY <1>2
<1> HIDE DEF T
<1>4. n \in T
  BY <1>1, <1>3, Climb
<1> QED BY <1>4 DEF T

(* and holds sequences of what the sequences are made of *)
LEMMA FlattenTyped ==
  ASSUME NEW S, NEW n \in Nat, NEW seqs, \A i \in 1..n : seqs[i] \in Seq(S), NEW f, Flattens(f, seqs, n)
  PROVE  \A k \in 1..n : f[k] \in Seq(S)
<1> DEFINE T == {k \in 0..n : k > 0 => f[k] \in Seq(S)}
<1>1. \A k \in 1..n : f[k] = IF k = 1 THEN seqs[k] ELSE f[k - 1] \o seqs[k]
  BY DEF Flattens
<1>2. ASSUME NEW k \in 1..n, k - 1 \in T
      PROVE  k \in T
  <2>1. k # 1 => f[k - 1] \in Seq(S)
    BY <1>2
  <2>2. seqs[k] \in Seq(S)
    OBVIOUS
  <2>3. CASE k = 1
    BY <1>1, <2>2, <2>3
  <2>4. CASE k # 1
    <3>1. f[k] = f[k - 1] \o seqs[k]
      BY <1>1, <2>4
    <3>2. PICK u, v : u = f[k - 1] /\ v = seqs[k]
      OBVIOUS
    <3>3. u \o v \in Seq(S)
      BY <2>1, <2>2, <2>4, <3>2
    <3>4. f[k] \in Seq(S)
      BY <3>1, <3>2, <3>3
    <3> QED BY <3>4
  <2> QED BY <2>3, <2>4
<1>3. 0 \in T
  OBVIOUS
<1>4. \A k \in 1..n : k - 1 \in T => k \in T
  BY <1>2
<1> HIDE DEF T
<1>5. \A k \in 0..n : k \in T
  BY <1>3, <1>4, Climb
<1> QED BY <1>5 DEF T

(* sequences that agree up to n make the same together *)
LEMMA FlattenUnique ==
  ASSUME NEW n \in Nat, NEW m \in Nat, n <= m, NEW seqs, NEW more,
         Alike(seqs, more, n), NEW f, Flattens(f, seqs, n), NEW g, Flattens(g, more, m)
  PROVE  Alike(f, g, n)
<1> DEFINE T == {k \in 0..n : k > 0 => g[k] = f[k]}
<1>1. \A k \in 1..n : f[k] = IF k = 1 THEN seqs[k] ELSE f[k - 1] \o seqs[k]
  BY DEF Flattens
<1>2. \A k \in 1..n : g[k] = IF k = 1 THEN more[k] ELSE g[k - 1] \o more[k]
  <2>1. \A k \in 1..m : g[k] = IF k = 1 THEN more[k] ELSE g[k - 1] \o more[k]
    BY DEF Flattens
  <2>2. \A k \in 1..n : k \in 1..m
    OBVIOUS
  <2> QED BY <2>1, <2>2
<1>3. ASSUME NEW k \in 1..n, k - 1 \in T
      PROVE  k \in T
  <2>1. k # 1 => g[k - 1] = f[k - 1]
    BY <1>3
  <2>2. g[k] = f[k]
    BY <1>1, <1>2, <2>1 DEF Alike
  <2> QED BY <2>2
<1>4. 0 \in T
  OBVIOUS
<1>5. \A k \in 1..n : k - 1 \in T => k \in T
  BY <1>3
<1> HIDE DEF T
<1>6. \A k \in 0..n : k \in T
  BY <1>4, <1>5, Climb
<1> QED BY <1>6 DEF T, Alike

(* what FlattenSeq chooses *)
LEMMA FlattenGives ==
  ASSUME NEW seqs, NEW n \in Nat, Len(seqs) = n, n > 0
  PROVE  \E f : Flattens(f, seqs, n) /\ FlattenSeq(seqs) = f[n]
<1>1. \E f : Flattens(f, seqs, n)
  BY FlattenDefined
<1> DEFINE c == CHOOSE f : Flattens(f, seqs, n)
<1>2. Flattens(c, seqs, n)
  BY <1>1
<1>3. FlattenSeq(seqs) = c[n]
  BY DEF FlattenSeq, Flattens
<1> QED BY <1>2, <1>3

(* nothing makes nothing *)
LEMMA FlattenEmpty ==
  FlattenSeq(<<>>) = <<>>
BY DEF FlattenSeq

(* one sequence makes itself *)
LEMMA FlattenOne ==
  ASSUME NEW S, NEW x \in Seq(S)
  PROVE  FlattenSeq(<<x>>) = x
<1>1. PICK one : one = <<x>>
  OBVIOUS
<1>2. Len(one) = 1 /\ one[1] = x /\ 1 \in Nat /\ 1 > 0
  BY <1>1
<1>3. PICK f : Flattens(f, one, 1) /\ FlattenSeq(one) = f[1]
  BY <1>2, FlattenGives
<1>4. f[1] = one[1]
  BY <1>3 DEF Flattens
<1> QED BY <1>1, <1>2, <1>3, <1>4

(* two sequences, one behind the other *)
LEMMA FlattenTwo ==
  ASSUME NEW seqs, Len(seqs) = 2
  PROVE  FlattenSeq(seqs) = seqs[1] \o seqs[2]
<1>1. PICK f : Flattens(f, seqs, 2) /\ FlattenSeq(seqs) = f[2]
  <2>1. 2 \in Nat /\ 2 > 0
    OBVIOUS
  <2> QED BY <2>1, FlattenGives
<1>2. f[1] = seqs[1] /\ f[2] = f[1] \o seqs[2]
  <2>1. \A k \in 1..2 : f[k] = IF k = 1 THEN seqs[k] ELSE f[k - 1] \o seqs[k]
    BY <1>1 DEF Flattens
  <2> QED BY <2>1
<1> QED BY <1>1, <1>2

(* one more sequence comes to the end *)
LEMMA FlattenAppend ==
  ASSUME NEW S, NEW seqs \in Seq(Seq(S)), NEW x \in Seq(S)
  PROVE  /\ FlattenSeq(Append(seqs, x)) = FlattenSeq(seqs) \o x
         /\ FlattenSeq(seqs) \in Seq(S)
<1>1. CASE seqs = <<>>
  <2>1. Append(seqs, x) = <<x>> /\ <<>> \o x = x /\ <<>> \in Seq(S)
    BY <1>1
  <2> QED BY <1>1, <2>1, FlattenEmpty, FlattenOne
<1>2. CASE seqs # <<>>
  <2>1. PICK n, m, more : n = Len(seqs) /\ m = n + 1 /\ more = Append(seqs, x)
    OBVIOUS
  <2>2. /\ n \in Nat /\ n > 0 /\ m \in Nat /\ m > 0 /\ n <= m /\ n \in 1..n /\ m - 1 = n /\ m # 1 /\ m \in 1..m
        /\ Len(more) = m /\ Len(seqs) = n /\ more[m] = x
        /\ \A i \in 1..n : more[i] = seqs[i] /\ seqs[i] \in Seq(S)
    BY <1>2, <2>1
  <2>3. PICK f : Flattens(f, seqs, n) /\ FlattenSeq(seqs) = f[n]
    BY <2>2, FlattenGives
  <2>4. PICK g : Flattens(g, more, m) /\ FlattenSeq(more) = g[m]
    BY <2>2, FlattenGives
  <2>5. \A k \in 1..n : g[k] = f[k]
    <3>1. Alike(seqs, more, n)
      BY <2>2 DEF Alike
    <3>2. n \in Nat /\ m \in Nat /\ n <= m /\ Flattens(f, seqs, n) /\ Flattens(g, more, m)
      BY <2>2, <2>3, <2>4
    <3>3. Alike(f, g, n)
      BY <3>1, <3>2, FlattenUnique
    <3> QED BY <3>3 DEF Alike
  <2>6. g[m] = g[n] \o x
    BY <2>2, <2>4 DEF Flattens
  <2>7. \A k \in 1..n : f[k] \in Seq(S)
    BY <2>2, <2>3, FlattenTyped
  <2> QED BY <2>1, <2>2, <2>3, <2>4, <2>5, <2>6, <2>7
<1> QED BY <1>1, <1>2

-----------------------------------------------------------------------------
(* Backslashes                                                                 *)

(* f says of each place from k to n whether a backslash takes it along *)
Escapes(f, s, k, n) == f = [j \in k..n |-> j > k /\ s[j - 1] = "back" /\ ~f[j - 1]]

(* the recursive function of Escaped exists *)
LEMMA EscapesDefined ==
  ASSUME NEW s, NEW k \in Nat, NEW n \in Nat
  PROVE  \E f : Escapes(f, s, k, n)
<1> DEFINE T == {m \in 0..n : \E f : Escapes(f, s, k, m)}
<1>1. 0 \in T
  <2> DEFINE f == [j \in k..0 |-> FALSE]
  <2>1. \A j \in k..0 : ~(j > k)
    OBVIOUS
  <2>2. \A j \in k..0 : f[j] = (j > k /\ s[j - 1] = "back" /\ ~f[j - 1])
    <3>1. \A j \in k..0 : f[j] = FALSE
      OBVIOUS
    <3> HIDE DEF f
    <3> QED BY <2>1, <3>1
  <2>3. f = [j \in k..0 |-> f[j]]
    OBVIOUS
  <2> HIDE DEF f
  <2>4. Escapes(f, s, k, 0)
    BY <2>2, <2>3 DEF Escapes
  <2> QED BY <2>4
<1>2. ASSUME NEW m \in 1..n, m - 1 \in T
      PROVE  m \in T
  <2>1. PICK f : Escapes(f, s, k, m - 1)
    BY <1>2
  <2> DEFINE g == [j \in k..m |-> IF j < m THEN f[j] ELSE j > k /\ s[j - 1] = "back" /\ ~f[j - 1]]
  <2>2. \A j \in k..m : g[j] = (j > k /\ s[j - 1] = "back" /\ ~g[j - 1])
    <3> SUFFICES ASSUME NEW j \in k..m
                 PROVE  g[j] = (j > k /\ s[j - 1] = "back" /\ ~g[j - 1])
      OBVIOUS
    <3>1. j > k => j - 1 \in k..m /\ j - 1 < m
      OBVIOUS
    <3>2. j > k => g[j - 1] = f[j - 1]
      BY <3>1
    <3>3. CASE j = m
      <4>1. g[j] = (j > k /\ s[j - 1] = "back" /\ ~f[j - 1])
        BY <3>3
      <4> HIDE DEF g
      <4> QED BY <3>2, <4>1
    <3>4. CASE j < m
      <4>1. j \in k..m - 1
        BY <3>4
      <4>2. f[j] = (j > k /\ s[j - 1] = "back" /\ ~f[j - 1])
        BY <2>1, <4>1 DEF Escapes
      <4>3. g[j] = f[j]
        BY <3>4
      <4> HIDE DEF g
      <4> QED BY <3>2, <4>2, <4>3
    <3> QED BY <3>3, <3>4
  <2>3. g = [j \in k..m |-> g[j]]
    OBVIOUS
  <2> HIDE DEF g
  <2>4. Escapes(g, s, k, m)
    BY <2>2, <2>3 DEF Escapes
  <2> QED BY <2>4
<1>3. \A m \in 1..n : m - 1 \in T => m \in T
  BY <1>2
<1> HIDE DEF T
<1>4. n \in T
  BY <1>1, <1>3, Climb
<1> QED BY <1>4 DEF T

(* A backslash takes the character behind it along unless it was taken itself. *)
LEMMA EscapedIs ==
  ASSUME NEW s, NEW k \in Nat, NEW n \in Nat, Len(s) = n
  PROVE  /\ Escaped(s, k) \subseteq k..n
         /\ \A j \in k..n : j \in Escaped(s, k) <=>
              j > k /\ s[j - 1] = "back" /\ j - 1 \notin Escaped(s, k)
<1> DEFINE c == CHOOSE f : Escapes(f, s, k, n)
<1>1. Escapes(c, s, k, n)
  BY EscapesDefined
<1>2. Escaped(s, k) = {j \in k..n : c[j]}
  BY DEF Escaped, Escapes
<1> HIDE DEF c
<1>3. \A j \in k..n : c[j] = (j > k /\ s[j - 1] = "back" /\ ~c[j - 1])
  BY <1>1 DEF Escapes
<1>4. \A j \in k..n : j > k => j - 1 \in k..n
  OBVIOUS
<1> QED BY <1>2, <1>3, <1>4

(* what escape() makes: no newline and no separator, a backslash only in front of *)
(* an n or a quote, a quote only behind a backslash                             *)
Neat(e) ==
  /\ e \in Seq(Char)
  /\ \A j \in 1..Len(e) :
       /\ e[j] # "nl" /\ e[j] # "mark"
       /\ e[j] = "back" => j < Len(e) /\ e[j + 1] \in {"n", "quote"}
       /\ e[j] = "quote" => j > 1 /\ e[j - 1] = "back"

(* the text has e at k *)
HasAt(t, k, e) == \A j \in 1..Len(e) : t[k + j - 1] = e[j]

(* such a text is read alike wherever it stands *)
LEMMA NeatEscaped ==
  ASSUME NEW t \in Seq(Char), NEW k \in Nat, k > 0, NEW e, Neat(e), HasAt(t, k, e), k + Len(e) - 1 <= Len(t)
  PROVE  /\ \A j \in 1..Len(e) : k + j - 1 \in Escaped(t, k) <=> j > 1 /\ e[j - 1] = "back"
         /\ k + Len(e) \notin Escaped(t, k)
<1>1. PICK n, m : n = Len(t) /\ m = Len(e)
  OBVIOUS
<1>2. n \in Nat /\ m \in Nat /\ k + m - 1 <= n
  BY <1>1 DEF Neat
<1>3. \A j \in 1..m : t[k + j - 1] = e[j]
  BY <1>1 DEF HasAt
<1>4. /\ Escaped(t, k) \subseteq k..n
      /\ \A j \in k..n : j \in Escaped(t, k) <=>
           j > k /\ t[j - 1] = "back" /\ j - 1 \notin Escaped(t, k)
  BY <1>1, <1>2, EscapedIs
<1>5. \A j \in 1..m : e[j] = "back" => j < m /\ e[j + 1] \in {"n", "quote"}
  BY <1>1 DEF Neat
<1>6. ASSUME NEW j \in 1..m, e[j] = "back"
      PROVE  k + j - 1 \notin Escaped(t, k)
  <2>1. CASE j = 1
    BY <2>1, <1>2, <1>4
  <2>2. CASE j > 1
    <3>1. j - 1 \in 1..m /\ (k + j - 1) - 1 = k + (j - 1) - 1 /\ k + j - 1 \in k..n
      BY <1>2, <2>2
    <3>2. e[j - 1] # "back"
      <4>1. e[j - 1] = "back" => e[(j - 1) + 1] \in {"n", "quote"}
        BY <1>5, <3>1
      <4>2. (j - 1) + 1 = j
        OBVIOUS
      <4> QED BY <4>1, <4>2, <1>6
    <3>3. t[(k + j - 1) - 1] = e[j - 1]
      BY <1>3, <3>1
    <3> QED BY <1>4, <3>1, <3>2, <3>3
  <2> QED BY <2>1, <2>2
<1>7. ASSUME NEW j \in 1..m
      PROVE  k + j - 1 \in Escaped(t, k) <=> j > 1 /\ e[j - 1] = "back"
  <2>1. k + j - 1 \in k..n
    BY <1>2
  <2>2. CASE j = 1
    BY <2>1, <2>2, <1>4
  <2>3. CASE j > 1
    <3>1. j - 1 \in 1..m /\ (k + j - 1) - 1 = k + (j - 1) - 1 /\ k + j - 1 > k
      BY <1>2, <2>3
    <3>2. t[(k + j - 1) - 1] = e[j - 1]
      BY <1>3, <3>1
    <3>3. e[j - 1] = "back" => (k + j - 1) - 1 \notin Escaped(t, k)
      BY <1>6, <3>1
    <3> QED BY <1>4, <2>1, <2>3, <3>1, <3>2, <3>3
  <2> QED BY <2>2, <2>3
<1>8. k + m \notin Escaped(t, k)
  <2> SUFFICES ASSUME k + m \in Escaped(t, k)
               PROVE  FALSE
    OBVIOUS
  <2>1. k + m \in k..n /\ k + m > k /\ t[(k + m) - 1] = "back"
    BY <1>4
  <2>2. m \in 1..m
    BY <1>2, <2>1
  <2>3. (k + m) - 1 = k + m - 1 /\ t[k + m - 1] = e[m]
    BY <1>2, <1>3, <2>2
  <2>4. m < m
    BY <1>5, <2>1, <2>2, <2>3
  <2> QED BY <1>2, <2>4
<1> QED BY <1>1, <1>7, <1>8

(* the quote behind an escaped text is the one that closes it *)
LEMMA ClosingIs ==
  ASSUME NEW t \in Seq(Char), NEW k \in Nat, k > 0, NEW e, Neat(e), HasAt(t, k, e),
         k + Len(e) <= Len(t), t[k + Len(e)] = "quote"
  PROVE  ClosingQuote(t, k) = k + Len(e)
<1>1. PICK n, m : n = Len(t) /\ m = Len(e)
  OBVIOUS
<1>2. n \in Nat /\ m \in Nat /\ k + m <= n
  BY <1>1 DEF Neat
<1>3. /\ \A j \in 1..m : k + j - 1 \in Escaped(t, k) <=> j > 1 /\ e[j - 1] = "back"
      /\ k + m \notin Escaped(t, k)
  <2>1. k + Len(e) - 1 <= Len(t)
    BY <1>1, <1>2
  <2> QED BY <1>1, <2>1, NeatEscaped
<1> DEFINE T == {n + 1} \cup {j \in k..n \ Escaped(t, k) : t[j] = "quote"}
<1>4. ClosingQuote(t, k) = Min(T)
  BY <1>1 DEF ClosingQuote
<1>5. T \subseteq Nat /\ k + m \in T
  BY <1>1, <1>2, <1>3
<1>6. ASSUME NEW i \in T
      PROVE  k + m <= i
  <2> SUFFICES ASSUME i < k + m
               PROVE  FALSE
    BY <1>2
  <2>1. i \in k..n /\ i \notin Escaped(t, k) /\ t[i] = "quote"
    BY <1>2
  <2>2. PICK j \in 1..m : i = k + j - 1
    <3>1. i - k + 1 \in 1..m /\ i = k + (i - k + 1) - 1
      BY <2>1, <1>2
    <3> QED BY <3>1
  <2>3. e[j] = "quote"
    BY <1>1, <2>1, <2>2 DEF HasAt
  <2>4. j > 1 /\ e[j - 1] = "back"
    BY <1>1, <2>3 DEF Neat
  <2> QED BY <1>3, <2>1, <2>2, <2>4
<1> HIDE DEF T
<1>7. Min(T) = k + m
  BY <1>5, <1>6, MinIs
<1> QED BY <1>1, <1>4, <1>7

-----------------------------------------------------------------------------
(* escape() and unescape_in_place()                                             *)

(* what unescape_in_place() makes of each place *)
Pieces(e) == [j \in DOMAIN e |-> UnescapeAt(e, j)]

(* what a place of an escaped text becomes depends on the place before it *)
LEMMA NeatPieces ==
  ASSUME NEW e, Neat(e), NEW j \in 1..Len(e)
  PROVE  UnescapeAt(e, j) =
           IF j > 1 /\ e[j - 1] = "back" THEN <<IF e[j] = "n" THEN "nl" ELSE e[j]>>
           ELSE IF e[j] = "back" THEN <<>> ELSE <<e[j]>>
<1>1. e \in Seq(Char) /\ (e[j] = "back" => j < Len(e))
  BY DEF Neat
<1>2. HasAt(e, 1, e)
  <2>1. \A i \in 1..Len(e) : 1 + i - 1 = i
    BY <1>1
  <2> QED BY <2>1 DEF HasAt
<1>3. 1 \in Nat /\ 1 > 0 /\ 1 + Len(e) - 1 <= Len(e) /\ 1 + j - 1 = j
  BY <1>1
<1>4. \A i \in 1..Len(e) : 1 + i - 1 \in Escaped(e, 1) <=> i > 1 /\ e[i - 1] = "back"
  BY <1>1, <1>2, <1>3, NeatEscaped
<1>5. j \in Escaped(e, 1) <=> j > 1 /\ e[j - 1] = "back"
  BY <1>3, <1>4
<1> QED BY <1>1, <1>5 DEF UnescapeAt

(* the pieces of an escaped text are texts *)
LEMMA PiecesTyped ==
  ASSUME NEW e, Neat(e)
  PROVE  /\ Pieces(e) \in Seq(Seq(Char)) /\ Len(Pieces(e)) = Len(e)
         /\ \A j \in 1..Len(e) : Pieces(e)[j] = UnescapeAt(e, j)
<1>1. e \in Seq(Char) /\ DOMAIN e = 1..Len(e) /\ Len(e) \in Nat
  BY DEF Neat
<1>2. ASSUME NEW j \in 1..Len(e)
      PROVE  UnescapeAt(e, j) \in Seq(Char)
  <2>1. e[j] \in Char /\ "nl" \in Char
    BY <1>1 DEF Char
  <2> QED BY <2>1 DEF UnescapeAt
<1>3. PICK n : n = Len(e)
  OBVIOUS
<1>4. Pieces(e) = [j \in 1..n |-> UnescapeAt(e, j)]
  BY <1>1, <1>3 DEF Pieces
<1>5. n \in Nat /\ \A j \in 1..n : UnescapeAt(e, j) \in Seq(Char)
  BY <1>1, <1>2, <1>3
<1> QED BY <1>3, <1>4, <1>5

(* one more character that needs no backslash *)
LEMMA PlainComes ==
  ASSUME NEW e, Neat(e), NEW c \in Char \ {"back", "quote", "nl", "mark"}
  PROVE  Neat(Append(e, c)) /\ Pieces(Append(e, c)) = Append(Pieces(e), <<c>>)
<1>1. PICK f, n : f = Append(e, c) /\ n = Len(e)
  OBVIOUS
<1>2. /\ n \in Nat /\ f \in Seq(Char) /\ Len(f) = n + 1 /\ f[n + 1] = c
      /\ \A j \in 1..n : f[j] = e[j]
  BY <1>1 DEF Neat
<1>3. \A j \in 1..n : /\ e[j] # "nl" /\ e[j] # "mark"
                      /\ e[j] = "back" => j < n /\ e[j + 1] \in {"n", "quote"}
                      /\ e[j] = "quote" => j > 1 /\ e[j - 1] = "back"
  BY <1>1 DEF Neat
<1>4. Neat(f)
  <2> SUFFICES ASSUME NEW j \in 1..n + 1
               PROVE  /\ f[j] # "nl" /\ f[j] # "mark"
                      /\ f[j] = "back" => j < n + 1 /\ f[j + 1] \in {"n", "quote"}
                      /\ f[j] = "quote" => j > 1 /\ f[j - 1] = "back"
    BY <1>2 DEF Neat
  <2>1. CASE j = n + 1
    BY <1>2, <2>1
  <2>2. CASE j # n + 1
    <3>1. j \in 1..n /\ f[j] = e[j] /\ (j < n => f[j + 1] = e[j + 1]) /\ (j > 1 => f[j - 1] = e[j - 1])
      BY <1>2, <2>2
    <3>2. /\ e[j] # "nl" /\ e[j] # "mark"
          /\ e[j] = "back" => j < n /\ e[j + 1] \in {"n", "quote"}
          /\ e[j] = "quote" => j > 1 /\ e[j - 1] = "back"
      BY <1>3, <3>1
    <3>3. j < n => j < n + 1
      BY <1>2, <3>1
    <3> QED BY <3>1, <3>2, <3>3
  <2> QED BY <2>1, <2>2
<1>5. PICK p, q, r : p = Pieces(e) /\ q = Pieces(f) /\ r = Append(p, <<c>>)
  OBVIOUS
<1>6. /\ p \in Seq(Seq(Char)) /\ Len(p) = n /\ q \in Seq(Seq(Char)) /\ Len(q) = n + 1
      /\ \A j \in 1..n : p[j] = UnescapeAt(e, j)
      /\ \A j \in 1..n + 1 : q[j] = UnescapeAt(f, j)
  BY <1>1, <1>2, <1>4, <1>5, PiecesTyped
<1>7. r \in Seq(Seq(Char)) /\ Len(r) = n + 1 /\ r[n + 1] = <<c>> /\ \A j \in 1..n : r[j] = p[j]
  <2>1. <<c>> \in Seq(Char)
    OBVIOUS
  <2> QED BY <1>2, <1>5, <1>6, <2>1
<1>8. ASSUME NEW j \in 1..n
      PROVE  q[j] = p[j]
  <2>1. j \in 1..n + 1 /\ f[j] = e[j] /\ (j > 1 => f[j - 1] = e[j - 1])
    BY <1>2
  <2>2. UnescapeAt(e, j) = IF j > 1 /\ e[j - 1] = "back" THEN <<IF e[j] = "n" THEN "nl" ELSE e[j]>>
                           ELSE IF e[j] = "back" THEN <<>> ELSE <<e[j]>>
    BY <1>1, NeatPieces
  <2>3. UnescapeAt(f, j) = IF j > 1 /\ f[j - 1] = "back" THEN <<IF f[j] = "n" THEN "nl" ELSE f[j]>>
                           ELSE IF f[j] = "back" THEN <<>> ELSE <<f[j]>>
    BY <1>2, <1>4, <2>1, NeatPieces
  <2>4. UnescapeAt(e, j) = UnescapeAt(f, j)
    BY <2>1, <2>2, <2>3
  <2> QED BY <1>6, <2>1, <2>4
<1>9. q[n + 1] = <<c>>
  <2>1. n + 1 \in 1..n + 1 /\ (n + 1 > 1 => (n + 1) - 1 = n /\ n \in 1..n)
    BY <1>2
  <2>2. UnescapeAt(f, n + 1) =
           IF n + 1 > 1 /\ f[(n + 1) - 1] = "back" THEN <<IF f[n + 1] = "n" THEN "nl" ELSE f[n + 1]>>
           ELSE IF f[n + 1] = "back" THEN <<>> ELSE <<f[n + 1]>>
    BY <1>2, <1>4, <2>1, NeatPieces
  <2>3. ~(n + 1 > 1 /\ f[(n + 1) - 1] = "back")
    BY <1>2, <1>3, <2>1
  <2>4. UnescapeAt(f, n + 1) = <<c>>
    BY <1>2, <2>2, <2>3
  <2> QED BY <1>6, <2>1, <2>4
<1>10. q = r
  <2>1. \A j \in 1..n + 1 : j \in 1..n \/ j = n + 1
    BY <1>2
  <2>2. \A j \in 1..n + 1 : q[j] = r[j]
    BY <1>7, <1>8, <1>9, <2>1
  <2>3. Len(q) = Len(r) /\ \A j \in 1..Len(q) : q[j] = r[j]
    BY <1>6, <1>7, <2>2
  <2> QED BY <1>6, <1>7, <2>3, SeqEqual
<1> QED BY <1>1, <1>4, <1>5, <1>10

(* one more character behind a backslash *)
LEMMA EscapedComes ==
  ASSUME NEW e, Neat(e), NEW c \in {"n", "quote"}, NEW d, d = IF c = "n" THEN "nl" ELSE c
  PROVE  /\ Neat(Append(Append(e, "back"), c))
         /\ Pieces(Append(Append(e, "back"), c)) = Append(Append(Pieces(e), <<>>), <<d>>)
<1>1. PICK b, f, n : b = Append(e, "back") /\ f = Append(b, c) /\ n = Len(e)
  OBVIOUS
<1>2. n \in Nat /\ b \in Seq(Char) /\ Len(b) = n + 1 /\ b[n + 1] = "back" /\ \A j \in 1..n : b[j] = e[j]
  <2>1. "back" \in Char
    BY DEF Char
  <2> QED BY <1>1, <2>1 DEF Neat
<1>3. /\ f \in Seq(Char) /\ Len(f) = n + 2 /\ f[n + 1] = "back" /\ f[n + 2] = c
      /\ \A j \in 1..n : f[j] = e[j]
  <2>1. c \in Char
    BY DEF Char
  <2>2. \A j \in 1..n : j \in 1..n + 1
    BY <1>2
  <2>3. Len(f) = n + 2 /\ f \in Seq(Char) /\ f[n + 2] = c /\ \A j \in 1..n + 1 : f[j] = b[j]
    BY <1>1, <1>2, <2>1
  <2>4. n + 1 \in 1..n + 1
    BY <1>2
  <2> QED BY <1>2, <2>2, <2>3, <2>4
<1>4. \A j \in 1..n : /\ e[j] # "nl" /\ e[j] # "mark"
                      /\ e[j] = "back" => j < n /\ e[j + 1] \in {"n", "quote"}
                      /\ e[j] = "quote" => j > 1 /\ e[j - 1] = "back"
  BY <1>1 DEF Neat
<1>5. Neat(f)
  <2> SUFFICES ASSUME NEW j \in 1..n + 2
               PROVE  /\ f[j] # "nl" /\ f[j] # "mark"
                      /\ f[j] = "back" => j < n + 2 /\ f[j + 1] \in {"n", "quote"}
                      /\ f[j] = "quote" => j > 1 /\ f[j - 1] = "back"
    BY <1>3 DEF Neat
  <2>1. CASE j = n + 2
    <3>1. j > 1 /\ j - 1 = n + 1
      BY <1>2, <2>1
    <3> QED BY <1>3, <2>1, <3>1
  <2>2. CASE j = n + 1
    <3>1. j < n + 2 /\ j + 1 = n + 2
      BY <1>2, <2>2
    <3> QED BY <1>3, <2>2, <3>1
  <2>3. CASE j < n + 1
    <3>1. j \in 1..n /\ f[j] = e[j] /\ (j < n => f[j + 1] = e[j + 1]) /\ (j > 1 => f[j - 1] = e[j - 1])
      BY <1>2, <1>3, <2>3
    <3>2. /\ e[j] # "nl" /\ e[j] # "mark"
          /\ e[j] = "back" => j < n /\ e[j + 1] \in {"n", "quote"}
          /\ e[j] = "quote" => j > 1 /\ e[j - 1] = "back"
      BY <1>4, <3>1
    <3>3. j < n => j < n + 2
      BY <1>2, <3>1
    <3> QED BY <3>1, <3>2, <3>3
  <2> QED BY <1>2, <2>1, <2>2, <2>3
<1>6. PICK p, q, s, r : p = Pieces(e) /\ q = Pieces(f) /\ s = Append(p, <<>>) /\ r = Append(s, <<d>>)
  OBVIOUS
<1>7. /\ p \in Seq(Seq(Char)) /\ Len(p) = n /\ q \in Seq(Seq(Char)) /\ Len(q) = n + 2
      /\ \A j \in 1..n : p[j] = UnescapeAt(e, j)
      /\ \A j \in 1..n + 2 : q[j] = UnescapeAt(f, j)
  <2>1. p \in Seq(Seq(Char)) /\ Len(p) = n /\ \A j \in 1..n : p[j] = UnescapeAt(e, j)
    BY <1>1, <1>6, PiecesTyped
  <2>2. Neat(f) /\ Len(f) = n + 2
    BY <1>3, <1>5
  <2>3. q \in Seq(Seq(Char)) /\ Len(q) = n + 2 /\ \A j \in 1..n + 2 : q[j] = UnescapeAt(f, j)
    BY <1>6, <2>2, PiecesTyped
  <2> QED BY <2>1, <2>3
<1>8. s \in Seq(Seq(Char)) /\ Len(s) = n + 1 /\ s[n + 1] = <<>> /\ \A j \in 1..n : s[j] = p[j]
  <2>1. <<>> \in Seq(Char)
    OBVIOUS
  <2> QED BY <1>2, <1>6, <1>7, <2>1
<1>9. /\ r \in Seq(Seq(Char)) /\ Len(r) = n + 2 /\ r[n + 1] = <<>> /\ r[n + 2] = <<d>>
      /\ \A j \in 1..n : r[j] = p[j]
  <2>1. <<d>> \in Seq(Char)
    BY DEF Char
  <2>2. r \in Seq(Seq(Char)) /\ Len(r) = n + 2 /\ r[n + 2] = <<d>> /\ \A j \in 1..n + 1 : r[j] = s[j]
    BY <1>2, <1>6, <1>8, <2>1
  <2>3. n + 1 \in 1..n + 1 /\ \A j \in 1..n : j \in 1..n + 1
    BY <1>2
  <2> QED BY <1>8, <2>2, <2>3
<1>10. ASSUME NEW j \in 1..n
       PROVE  q[j] = p[j]
  <2>1. j \in 1..n + 2 /\ f[j] = e[j] /\ (j > 1 => f[j - 1] = e[j - 1])
    BY <1>2, <1>3
  <2>2. UnescapeAt(e, j) = IF j > 1 /\ e[j - 1] = "back" THEN <<IF e[j] = "n" THEN "nl" ELSE e[j]>>
                           ELSE IF e[j] = "back" THEN <<>> ELSE <<e[j]>>
    BY <1>1, NeatPieces
  <2>3. UnescapeAt(f, j) = IF j > 1 /\ f[j - 1] = "back" THEN <<IF f[j] = "n" THEN "nl" ELSE f[j]>>
                           ELSE IF f[j] = "back" THEN <<>> ELSE <<f[j]>>
    BY <1>3, <1>5, <2>1, NeatPieces
  <2>4. UnescapeAt(e, j) = UnescapeAt(f, j)
    BY <2>1, <2>2, <2>3
  <2> QED BY <1>7, <2>1, <2>4
<1>11. q[n + 1] = <<>>
  <2>1. n + 1 \in 1..n + 2 /\ (n + 1 > 1 => (n + 1) - 1 = n /\ n \in 1..n)
    BY <1>2
  <2>2. UnescapeAt(f, n + 1) =
           IF n + 1 > 1 /\ f[(n + 1) - 1] = "back" THEN <<IF f[n + 1] = "n" THEN "nl" ELSE f[n + 1]>>
           ELSE IF f[n + 1] = "back" THEN <<>> ELSE <<f[n + 1]>>
    BY <1>3, <1>5, <2>1, NeatPieces
  <2>3. ~(n + 1 > 1 /\ f[(n + 1) - 1] = "back")
    BY <1>3, <1>4, <2>1
  <2>4. UnescapeAt(f, n + 1) = <<>>
    BY <1>3, <2>2, <2>3
  <2> QED BY <1>7, <2>1, <2>4
<1>12. q[n + 2] = <<d>>
  <2>1. n + 2 \in 1..n + 2 /\ n + 2 > 1 /\ (n + 2) - 1 = n + 1
    BY <1>2
  <2>2. UnescapeAt(f, n + 2) =
           IF n + 2 > 1 /\ f[(n + 2) - 1] = "back" THEN <<IF f[n + 2] = "n" THEN "nl" ELSE f[n + 2]>>
           ELSE IF f[n + 2] = "back" THEN <<>> ELSE <<f[n + 2]>>
    BY <1>3, <1>5, <2>1, NeatPieces
  <2>3. UnescapeAt(f, n + 2) = <<d>>
    BY <1>3, <2>1, <2>2
  <2> QED BY <1>7, <2>1, <2>3
<1>13. q = r
  <2>1. \A j \in 1..n + 2 : j \in 1..n \/ j = n + 1 \/ j = n + 2
    BY <1>2
  <2>2. \A j \in 1..n + 2 : q[j] = r[j]
    BY <1>9, <1>10, <1>11, <1>12, <2>1
  <2>3. Len(q) = Len(r) /\ \A j \in 1..Len(q) : q[j] = r[j]
    BY <1>7, <1>9, <2>2
  <2> QED BY <1>7, <1>9, <2>3, SeqEqual
<1> QED BY <1>1, <1>5, <1>6, <1>13

(* the characters escape() is right about: no backslash, and no separator *)
Writable == Char \ {"back", "mark"}

(* what escape() makes of each character *)
EscapePieces(s) == [k \in DOMAIN s |-> EscapeChar(s[k])]

(* the pieces that escape() writes are texts *)
LEMMA EscapePiecesTyped ==
  ASSUME NEW s \in Seq(Char)
  PROVE  /\ EscapePieces(s) \in Seq(Seq(Char)) /\ Len(EscapePieces(s)) = Len(s)
         /\ \A j \in 1..Len(s) : EscapePieces(s)[j] = EscapeChar(s[j])
<1>1. PICK n : n = Len(s)
  OBVIOUS
<1>2. EscapePieces(s) = [j \in 1..n |-> EscapeChar(s[j])]
  BY <1>1 DEF EscapePieces
<1>3. n \in Nat /\ \A j \in 1..n : EscapeChar(s[j]) \in Seq(Char)
  <2>1. \A j \in 1..n : s[j] \in Char
    BY <1>1
  <2>2. \A c \in Char : EscapeChar(c) \in Seq(Char)
    <3>1. "back" \in Char /\ "n" \in Char /\ "quote" \in Char
      BY DEF Char
    <3> QED BY <3>1 DEF EscapeChar
  <2> QED BY <1>1, <2>1, <2>2
<1> QED BY <1>1, <1>2, <1>3

(* escape() goes on with one more character *)
LEMMA EscapeAppend ==
  ASSUME NEW s \in Seq(Char), NEW c \in Char
  PROVE  Escape(s) \in Seq(Char) /\ Escape(Append(s, c)) = Escape(s) \o EscapeChar(c)
<1>1. PICK t, n : t = Append(s, c) /\ n = Len(s)
  OBVIOUS
<1>2. n \in Nat /\ t \in Seq(Char) /\ Len(t) = n + 1 /\ t[n + 1] = c /\ \A j \in 1..n : t[j] = s[j]
  BY <1>1
<1>3. PICK p, q : p = EscapePieces(s) /\ q = EscapePieces(t)
  OBVIOUS
<1>4. /\ p \in Seq(Seq(Char)) /\ Len(p) = n /\ q \in Seq(Seq(Char)) /\ Len(q) = n + 1
      /\ \A j \in 1..n : p[j] = EscapeChar(s[j])
      /\ \A j \in 1..n + 1 : q[j] = EscapeChar(t[j])
  BY <1>1, <1>2, <1>3, EscapePiecesTyped
<1>5. PICK x : x = EscapeChar(c)
  OBVIOUS
<1>6. x \in Seq(Char)
  <2>1. "back" \in Char /\ "n" \in Char /\ "quote" \in Char
    BY DEF Char
  <2> QED BY <1>5, <2>1 DEF EscapeChar
<1>7. PICK r : r = Append(p, x)
  OBVIOUS
<1>8. r \in Seq(Seq(Char)) /\ Len(r) = n + 1 /\ r[n + 1] = x /\ \A j \in 1..n : r[j] = p[j]
  BY <1>2, <1>4, <1>6, <1>7
<1>9. q = r
  <2>1. \A j \in 1..n + 1 : j \in 1..n \/ j = n + 1
    BY <1>2
  <2>2. n + 1 \in 1..n + 1 /\ \A j \in 1..n : j \in 1..n + 1
    BY <1>2
  <2>3. Len(q) = Len(r) /\ \A j \in 1..Len(q) : q[j] = r[j]
    BY <1>2, <1>4, <1>5, <1>8, <2>1, <2>2
  <2> QED BY <1>4, <1>8, <2>3, SeqEqual
<1>10. FlattenSeq(r) = FlattenSeq(p) \o x /\ FlattenSeq(p) \in Seq(Char)
  BY <1>4, <1>6, <1>7, FlattenAppend
<1>11. Escape(s) = FlattenSeq(p) /\ Escape(t) = FlattenSeq(q)
  BY <1>3 DEF Escape, EscapePieces
<1> QED BY <1>1, <1>5, <1>9, <1>10, <1>11

(* unescape_in_place() of an escaped text makes a text *)
LEMMA UnescapeTyped ==
  ASSUME NEW e, Neat(e)
  PROVE  Unescape(e) = FlattenSeq(Pieces(e)) /\ Unescape(e) \in Seq(Char)
<1>1. Unescape(e) = FlattenSeq(Pieces(e))
  BY DEF Unescape, Pieces
<1>2. PICK p : p = Pieces(e)
  OBVIOUS
<1>3. p \in Seq(Seq(Char)) /\ <<>> \in Seq(Char)
  BY <1>2, PiecesTyped
<1>4. FlattenSeq(p) \in Seq(Char)
  BY <1>3, FlattenAppend
<1> QED BY <1>1, <1>2, <1>4

(* one more character of a string, written and read *)
LEMMA CharacterComes ==
  ASSUME NEW s \in Seq(Writable), NEW c \in Writable, Neat(Escape(s)), Unescape(Escape(s)) = s
  PROVE  Neat(Escape(Append(s, c))) /\ Unescape(Escape(Append(s, c))) = Append(s, c)
<1>1. s \in Seq(Char) /\ c \in Char /\ c # "back" /\ c # "mark"
  BY DEF Writable
<1>2. PICK e, f : e = Escape(s) /\ f = Escape(Append(s, c))
  OBVIOUS
<1>3. e \in Seq(Char) /\ f = e \o EscapeChar(c) /\ Neat(e)
  BY <1>1, <1>2, EscapeAppend
<1>4. PICK p : p = Pieces(e)
  OBVIOUS
<1>5. p \in Seq(Seq(Char)) /\ FlattenSeq(p) = s
  BY <1>2, <1>3, <1>4, PiecesTyped, UnescapeTyped
<1>6. CASE c \notin {"nl", "quote"}
  <2>1. f = Append(e, c)
    <3>1. EscapeChar(c) = <<c>>
      BY <1>6 DEF EscapeChar
    <3> QED BY <1>1, <1>3, <3>1, AppendIsConcat
  <2>2. c \in Char \ {"back", "quote", "nl", "mark"}
    BY <1>1, <1>6
  <2>3. Neat(f) /\ Pieces(f) = Append(p, <<c>>)
    BY <1>3, <1>4, <2>1, <2>2, PlainComes
  <2>4. <<c>> \in Seq(Char)
    BY <1>1
  <2>5. FlattenSeq(Append(p, <<c>>)) = s \o <<c>>
    BY <1>5, <2>4, FlattenAppend
  <2>6. Unescape(f) = s \o <<c>>
    BY <2>3, <2>5, UnescapeTyped
  <2>7. Append(s, c) = s \o <<c>>
    BY <1>1, AppendIsConcat
  <2> QED BY <1>2, <2>3, <2>6, <2>7
<1>7. CASE c \in {"nl", "quote"}
  <2>1. PICK x : x = IF c = "nl" THEN "n" ELSE "quote"
    OBVIOUS
  <2>2. x \in {"n", "quote"} /\ c = (IF x = "n" THEN "nl" ELSE x)
    BY <1>7, <2>1
  <2>3. x \in Char /\ "back" \in Char
    BY <2>2 DEF Char
  <2>4. f = Append(Append(e, "back"), x)
    <3>1. EscapeChar(c) = <<"back", x>>
      BY <1>7, <2>1 DEF EscapeChar
    <3> QED BY <1>3, <2>3, <3>1
  <2>5. Neat(f) /\ Pieces(f) = Append(Append(p, <<>>), <<c>>)
    BY <1>3, <1>4, <2>2, <2>4, EscapedComes
  <2>6. <<c>> \in Seq(Char) /\ <<>> \in Seq(Char)
    BY <1>1
  <2>7. PICK q : q = Append(p, <<>>)
    OBVIOUS
  <2>8. q \in Seq(Seq(Char)) /\ FlattenSeq(q) = s
    <3>1. FlattenSeq(q) = s \o <<>>
      BY <1>5, <2>6, <2>7, FlattenAppend
    <3>2. s \o <<>> = s
      BY <1>1
    <3> QED BY <1>5, <2>6, <2>7, <3>1, <3>2
  <2>9. FlattenSeq(Append(q, <<c>>)) = s \o <<c>>
    BY <2>6, <2>8, FlattenAppend
  <2>10. Unescape(f) = s \o <<c>>
    BY <2>5, <2>7, <2>9, UnescapeTyped
  <2>11. Append(s, c) = s \o <<c>>
    BY <1>1, AppendIsConcat
  <2> QED BY <1>2, <2>5, <2>10, <2>11
<1> QED BY <1>6, <1>7

(* Log_Entry escape() and unescape_in_place(): what escape() wrote of a string of  *)
(* any length without backslash and separator, unescape_in_place() reads, and the  *)
(* text is one in which no quote, newline or separator can be mistaken.            *)
THEOREM EscapeIsRead ==
  ASSUME NEW s \in Seq(Writable)
  PROVE  Neat(Escape(s)) /\ Unescape(Escape(s)) = s
<1>1. PICK n : n = Len(s)
  OBVIOUS
<1> DEFINE Read(t) == Neat(Escape(t)) /\ Unescape(Escape(t)) = t
           T == {k \in 0..n : Read(SubSeq(s, 1, k))}
<1>2. n \in Nat /\ SubSeq(s, 1, n) = s
  BY <1>1, SubSeqFull
<1>3. 0 \in T
  <2>1. SubSeq(s, 1, 0) = <<>>
    OBVIOUS
  <2>2. Escape(<<>>) = <<>>
    <3>1. EscapePieces(<<>>) = <<>>
      BY DEF EscapePieces
    <3> QED BY <3>1, FlattenEmpty DEF Escape, EscapePieces
  <2>3. Unescape(<<>>) = <<>>
    <3>1. Pieces(<<>>) = <<>>
      BY DEF Pieces
    <3> QED BY <3>1, FlattenEmpty DEF Unescape, Pieces
  <2>4. Neat(<<>>)
    BY DEF Neat
  <2>5. Read(SubSeq(s, 1, 0))
    BY <2>1, <2>2, <2>3, <2>4
  <2>6. 0 \in 0..n
    BY <1>2
  <2> HIDE DEF Read
  <2> QED BY <2>5, <2>6
<1>4. ASSUME NEW k \in 1..n, k - 1 \in T
      PROVE  k \in T
  <2>1. PICK t : t = SubSeq(s, 1, k - 1)
    OBVIOUS
  <2>2. t \in Seq(Writable) /\ s[k] \in Writable /\ SubSeq(s, 1, k) = Append(t, s[k])
    <3>1. k \in 1..Len(s) /\ s[k] \in Writable
      BY <1>1
    <3>2. t \in Seq(Writable)
      BY <1>1, <2>1
    <3>3. SubSeq(s, 1, k) = Append(t, s[k])
      BY <1>1, <2>1, <3>1, SubSeqRecursiveSecond
    <3> QED BY <3>1, <3>2, <3>3
  <2>3. Neat(Escape(t)) /\ Unescape(Escape(t)) = t
    BY <1>4, <2>1
  <2>4. Read(Append(t, s[k]))
    BY <2>2, <2>3, CharacterComes
  <2>5. k \in 0..n
    BY <1>2
  <2> HIDE DEF Read
  <2>6. Read(SubSeq(s, 1, k))
    BY <2>2, <2>4
  <2> QED BY <2>5, <2>6
<1>5. \A k \in 1..n : k - 1 \in T => k \in T
  BY <1>4
<1> HIDE DEF T
<1>6. n \in T
  BY <1>2, <1>3, <1>5, Climb
<1> QED BY <1>2, <1>6 DEF T

-----------------------------------------------------------------------------
(* Places of a text                                                             *)

(* the end, and the first of some places that are not before k *)
LEMMA FirstPlace ==
  ASSUME NEW n \in Nat, NEW k \in 1..n + 1, NEW T, T \subseteq k..n
  PROVE  /\ Min({n + 1} \cup T) \in k..n + 1
         /\ Min({n + 1} \cup T) # n + 1 => Min({n + 1} \cup T) \in T
<1> DEFINE U == {n + 1} \cup T
<1>1. U \subseteq Nat /\ U # {} /\ U \subseteq k..n + 1
  OBVIOUS
<1>2. \A u \in U : u # n + 1 => u \in T
  OBVIOUS
<1> HIDE DEF U
<1>3. PICK u \in U : \A m \in U : u <= m
  BY <1>1, Least
<1>4. Min(U) = u
  BY <1>1, <1>3, MinIs
<1>5. Min(U) \in k..n + 1 /\ (Min(U) # n + 1 => Min(U) \in T)
  BY <1>1, <1>2, <1>3, <1>4
<1> QED BY <1>5 DEF U

(* strpbrk() and its like: a place from k on, or the end *)
LEMMA FirstOfIn ==
  ASSUME NEW s, NEW n \in Nat, Len(s) = n, NEW k \in 1..n + 1, NEW C
  PROVE  /\ FirstOf(s, k, C) \in k..n + 1
         /\ FirstOf(s, k, C) # n + 1 => s[FirstOf(s, k, C)] \in C
<1> DEFINE T == {j \in k..n : s[j] \in C}
<1>1. FirstOf(s, k, C) = Min({n + 1} \cup T)
  BY DEF FirstOf
<1>2. T \subseteq k..n /\ \A j \in T : s[j] \in C
  OBVIOUS
<1> HIDE DEF T
<1>3. Min({n + 1} \cup T) \in k..n + 1 /\ (Min({n + 1} \cup T) # n + 1 => Min({n + 1} \cup T) \in T)
  BY <1>2, FirstPlace
<1> QED BY <1>1, <1>2, <1>3

(* the place, when the ones before it are other characters *)
LEMMA FirstOfIs ==
  ASSUME NEW s, NEW n \in Nat, Len(s) = n, NEW k \in 1..n + 1, NEW C, NEW i \in k..n + 1,
         \A j \in k..n : j < i => s[j] \notin C, i = n + 1 \/ s[i] \in C
  PROVE  FirstOf(s, k, C) = i
<1> DEFINE T == {n + 1} \cup {j \in k..n : s[j] \in C}
<1>1. FirstOf(s, k, C) = Min(T)
  BY DEF FirstOf
<1>2. T \subseteq Nat /\ i \in T
  <2>1. i # n + 1 => i \in k..n
    OBVIOUS
  <2> QED BY <2>1
<1>3. \A m \in T : i <= m
  <2> SUFFICES ASSUME NEW m \in T, m < i
               PROVE  FALSE
    BY <1>2
  <2>1. m \in k..n /\ s[m] \in C
    OBVIOUS
  <2> QED BY <2>1
<1> HIDE DEF T
<1> QED BY <1>1, <1>2, <1>3, MinIs

(* a value in quotes ends from k on, or at the end *)
LEMMA ClosingQuoteIn ==
  ASSUME NEW s, NEW n \in Nat, Len(s) = n, NEW k \in 1..n + 1
  PROVE  ClosingQuote(s, k) \in k..n + 1
<1> DEFINE T == {j \in k..n \ Escaped(s, k) : s[j] = "quote"}
<1>1. ClosingQuote(s, k) = Min({n + 1} \cup T)
  BY DEF ClosingQuote
<1>2. T \subseteq k..n
  OBVIOUS
<1> HIDE DEF T
<1> QED BY <1>1, <1>2, FirstPlace

(* so does a value without quotes *)
LEMMA BareEndIn ==
  ASSUME NEW s, NEW n \in Nat, Len(s) = n, NEW k \in 1..n + 1
  PROVE  BareEnd(s, k) \in k..n + 1
<1> DEFINE T == {j \in k..n : s[j] = "sp" /\ SkipSpaces(s, j) \in DOMAIN s /\ s[SkipSpaces(s, j)] = "colon"}
<1>1. BareEnd(s, k) = Min({n + 1} \cup T)
  BY DEF BareEnd
<1>2. T \subseteq k..n
  OBVIOUS
<1> HIDE DEF T
<1> QED BY <1>1, <1>2, FirstPlace

(* Reading a pair goes on. *)
LEMMA PairGoesOn ==
  ASSUME NEW s \in Seq(Char), NEW k \in DOMAIN s, s[k] = "colon"
  PROVE  PairAt(s, k).next \in k + 1..Len(s) + 1
<1>1. PICK n : n = Len(s)
  OBVIOUS
<1>2. n \in Nat /\ k \in 1..n /\ k \in 1..n + 1 /\ DOMAIN s = 1..n
  BY <1>1
<1>3. PICK nameEnd : nameEnd = FirstOf(s, k, {"sp"})
  OBVIOUS
<1>4. nameEnd \in k + 1..n + 1 /\ nameEnd \in 1..n + 1
  <2>1. nameEnd \in k..n + 1 /\ (nameEnd # n + 1 => s[nameEnd] \in {"sp"})
    BY <1>1, <1>2, <1>3, FirstOfIn
  <2>2. nameEnd # k
    BY <1>2, <2>1
  <2> QED BY <1>2, <2>1, <2>2
<1>5. PICK value : value = SkipSpaces(s, nameEnd)
  OBVIOUS
<1>6. value \in nameEnd..n + 1
  BY <1>1, <1>2, <1>4, <1>5, FirstOfIn DEF SkipSpaces
<1>7. value \in k + 1..n + 1 /\ value \in 1..n + 1
  BY <1>2, <1>4, <1>6
<1>8. PICK quoted : quoted = (value \in DOMAIN s /\ s[value] = "quote")
  OBVIOUS
<1>9. PICK end : end = IF quoted THEN ClosingQuote(s, value + 1) ELSE BareEnd(s, value)
  OBVIOUS
<1>10. end \in value..n + 1
  <2>1. CASE quoted
    <3>1. value + 1 \in 1..n + 1
      <4>1. value \in DOMAIN s
        BY <1>8, <2>1, Zenon
      <4>2. value \in 1..n
        BY <1>2, <4>1
      <4> QED BY <1>2, <4>2
    <3>2. ClosingQuote(s, value + 1) \in value + 1..n + 1
      BY <1>1, <1>2, <3>1, ClosingQuoteIn
    <3> QED BY <1>7, <1>9, <2>1, <3>2
  <2>2. CASE ~quoted
    <3>1. BareEnd(s, value) \in value..n + 1
      BY <1>1, <1>2, <1>7, BareEndIn
    <3> QED BY <1>9, <2>2, <3>1
  <2> QED BY <2>1, <2>2
<1>11. PairAt(s, k).next = IF quoted /\ end \in DOMAIN s THEN end + 1 ELSE end
  BY <1>3, <1>5, <1>8, <1>9 DEF PairAt
<1>12. end \in DOMAIN s => end \in 1..n
  BY <1>2
<1> QED BY <1>1, <1>2, <1>7, <1>10, <1>11, <1>12

-----------------------------------------------------------------------------
(* parse_alist()                                                                *)

(* A function that goes on at a later place as long as a place is in B exists. *)
Runs(f, from, n, B, h, nx) ==
  f = [p \in from..n |-> IF p \in B THEN <<h[p]>> \o f[nx[p]] ELSE <<>>]

(* by the distance from the end *)
LEMMA RunsDefined ==
  ASSUME NEW n \in Nat, NEW B, NEW h, NEW nx, \A p \in 1..n : p \in B => nx[p] \in p + 1..n
  PROVE  \E f : Runs(f, 1, n, B, h, nx)
<1> DEFINE T == {m \in 0..n : \E f : Runs(f, n + 1 - m, n, B, h, nx)}
<1>1. 0 \in T
  <2> DEFINE f == [p \in n + 1..n |-> <<>>]
  <2>1. n + 1 - 0 = n + 1 /\ \A p \in n + 1..n : FALSE
    OBVIOUS
  <2>2. f = [p \in n + 1..n |-> IF p \in B THEN <<h[p]>> \o f[nx[p]] ELSE <<>>]
    BY <2>1
  <2>3. Runs(f, n + 1 - 0, n, B, h, nx)
    BY <2>1, <2>2 DEF Runs
  <2> HIDE DEF f
  <2> QED BY <2>3
<1>2. ASSUME NEW m \in 1..n, m - 1 \in T
      PROVE  m \in T
  <2>1. PICK f : Runs(f, n + 1 - (m - 1), n, B, h, nx)
    BY <1>2
  <2>2. PICK i : i = n + 1 - m
    OBVIOUS
  <2>3. i \in 1..n /\ n + 1 - (m - 1) = i + 1
    BY <2>2
  <2> DEFINE g == [p \in i..n |-> IF p # i THEN f[p] ELSE IF i \in B THEN <<h[i]>> \o f[nx[i]] ELSE <<>>]
  <2>4. \A p \in i + 1..n : g[p] = f[p]
    BY <2>3
  <2>5. g[i] = IF i \in B THEN <<h[i]>> \o f[nx[i]] ELSE <<>>
    BY <2>3
  <2>6. g = [p \in i..n |-> g[p]]
    OBVIOUS
  <2> HIDE DEF g
  <2>7. \A p \in i..n : g[p] = IF p \in B THEN <<h[p]>> \o g[nx[p]] ELSE <<>>
    <3> SUFFICES ASSUME NEW p \in i..n
                 PROVE  g[p] = IF p \in B THEN <<h[p]>> \o g[nx[p]] ELSE <<>>
      OBVIOUS
    <3>1. p \in 1..n /\ (p # i => p \in i + 1..n)
      BY <2>3
    <3>2. p \in B => nx[p] \in i + 1..n
      <4> SUFFICES ASSUME p \in B
                   PROVE  nx[p] \in i + 1..n
        OBVIOUS
      <4>1. nx[p] \in p + 1..n
        BY <3>1
      <4> QED BY <2>3, <3>1, <4>1
    <3>3. p \in B => g[nx[p]] = f[nx[p]]
      BY <2>4, <3>2
    <3>4. CASE p = i
      BY <2>5, <3>3, <3>4
    <3>5. CASE p # i
      <4>1. f[p] = IF p \in B THEN <<h[p]>> \o f[nx[p]] ELSE <<>>
        BY <2>1, <2>3, <3>1, <3>5 DEF Runs
      <4> QED BY <2>4, <3>1, <3>3, <3>5, <4>1
    <3> QED BY <3>4, <3>5
  <2>8. Runs(g, n + 1 - m, n, B, h, nx)
    BY <2>2, <2>6, <2>7 DEF Runs
  <2> QED BY <2>8
<1>3. \A m \in 1..n : m - 1 \in T => m \in T
  BY <1>2
<1> HIDE DEF T
<1>4. n \in T
  BY <1>1, <1>3, Climb
<1>5. n + 1 - n = 1
  OBVIOUS
<1> QED BY <1>4, <1>5 DEF T

(* Does a pair begin at p, behind spaces if there are any? *)
Begins(s, p) == SkipSpaces(s, p) \in DOMAIN s /\ s[SkipSpaces(s, p)] = "colon"

(* f has the pairs from each place on *)
Parses(f, s) ==
  f = [p \in 1..Len(s) + 1 |->
         IF Begins(s, p)
         THEN <<PairAt(s, SkipSpaces(s, p)).pair>> \o f[PairAt(s, SkipSpaces(s, p)).next]
         ELSE <<>>]

(* the pairs from p on *)
ParseFrom(s, p) == (CHOOSE f : Parses(f, s))[p]

(* so the recursive function of Parse exists *)
LEMMA ParsesDefined ==
  ASSUME NEW s \in Seq(Char)
  PROVE  \E f : Parses(f, s)
<1>1. PICK n : n = Len(s)
  OBVIOUS
<1>2. n \in Nat /\ n + 1 \in Nat /\ DOMAIN s = 1..n
  BY <1>1
<1> DEFINE B == {p \in 1..n + 1 : Begins(s, p)}
           h == [p \in 1..n + 1 |-> PairAt(s, SkipSpaces(s, p)).pair]
           nx == [p \in 1..n + 1 |-> PairAt(s, SkipSpaces(s, p)).next]
<1>3. ASSUME NEW p \in 1..n + 1, p \in B
      PROVE  nx[p] \in p + 1..n + 1
  <2>1. PICK k : k = SkipSpaces(s, p)
    OBVIOUS
  <2>2. k \in DOMAIN s /\ s[k] = "colon"
    BY <1>3, <2>1 DEF Begins
  <2>3. k \in p..n + 1
    BY <1>1, <1>2, <2>1, FirstOfIn DEF SkipSpaces
  <2>4. PairAt(s, k).next \in k + 1..n + 1
    BY <1>1, <2>2, PairGoesOn
  <2>5. nx[p] = PairAt(s, k).next
    BY <2>1
  <2> HIDE DEF nx
  <2> QED BY <2>3, <2>4, <2>5
<1>4. \A p \in 1..n + 1 : (p \in B <=> Begins(s, p)) /\ h[p] = PairAt(s, SkipSpaces(s, p)).pair
                       /\ nx[p] = PairAt(s, SkipSpaces(s, p)).next
  OBVIOUS
<1> HIDE DEF B, h, nx
<1>5. PICK f : Runs(f, 1, n + 1, B, h, nx)
  BY <1>2, <1>3, RunsDefined
<1>6. Parses(f, s)
  BY <1>1, <1>4, <1>5 DEF Runs, Parses
<1> QED BY <1>6

(* and Parse can be unfolded place by place *)
LEMMA ParseUnfolds ==
  ASSUME NEW s \in Seq(Char)
  PROVE  /\ Parse(s) = ParseFrom(s, 1)
         /\ \A p \in 1..Len(s) + 1 : ParseFrom(s, p) =
              IF Begins(s, p)
              THEN <<PairAt(s, SkipSpaces(s, p)).pair>> \o ParseFrom(s, PairAt(s, SkipSpaces(s, p)).next)
              ELSE <<>>
<1> DEFINE c == CHOOSE f : Parses(f, s)
<1>1. Parses(c, s)
  BY ParsesDefined
<1>2. Parse(s) = c[1]
  BY DEF Parse, Parses, Begins
<1>3. \A p : ParseFrom(s, p) = c[p]
  BY DEF ParseFrom
<1> HIDE DEF c
<1> QED BY <1>1, <1>2, <1>3 DEF Parses

(* where spaces end *)
LEMMA SkipSpacesIs ==
  ASSUME NEW s \in Seq(Char), NEW n \in Nat, Len(s) = n, NEW k \in 1..n + 1, NEW i \in k..n + 1,
         \A j \in k..n : j < i => s[j] = "sp", i = n + 1 \/ s[i] # "sp"
  PROVE  SkipSpaces(s, k) = i
<1>1. PICK C : C = Char \ {"sp"}
  OBVIOUS
<1>2. \A j \in k..n : j < i => s[j] \notin C
  BY <1>1
<1>3. i = n + 1 \/ s[i] \in C
  <2>1. i # n + 1 => i \in 1..n
    OBVIOUS
  <2>2. i # n + 1 => s[i] \in Char
    BY <2>1
  <2> QED BY <1>1, <2>2
<1>4. FirstOf(s, k, C) = i
  BY <1>2, <1>3, FirstOfIs
<1> QED BY <1>1, <1>4 DEF SkipSpaces

(* A string in quotes is read to its closing quote. *)
LEMMA StringPairAt ==
  ASSUME NEW t \in Seq(Char), NEW k \in Nat, k > 0, NEW e, Neat(e), NEW m, m = Len(e),
         k + m + 4 <= Len(t), HasAt(t, k, <<"colon", "p", "sp", "quote">>), HasAt(t, k + 4, e),
         t[k + m + 4] = "quote"
  PROVE  PairAt(t, k) = [pair |-> Pair(StrName, Unescape(e)), next |-> k + m + 5]
<1>1. PICK n : n = Len(t)
  OBVIOUS
<1>2. /\ n \in Nat /\ m \in Nat /\ k + m + 4 <= n /\ e \in Seq(Char) /\ DOMAIN t = 1..n
      /\ \A j \in 1..n : t[j] \in Char
  BY <1>1 DEF Neat
<1>3. t[k] = "colon" /\ t[k + 1] = "p" /\ t[k + 2] = "sp" /\ t[k + 3] = "quote"
  <2>1. PICK w : w = <<"colon", "p", "sp", "quote">>
    OBVIOUS
  <2>2. Len(w) = 4 /\ w[1] = "colon" /\ w[2] = "p" /\ w[3] = "sp" /\ w[4] = "quote"
    BY <2>1
  <2>3. \A j \in 1..4 : t[k + j - 1] = w[j]
    BY <2>1, <2>2 DEF HasAt
  <2>4. k + 1 - 1 = k /\ k + 2 - 1 = k + 1 /\ k + 3 - 1 = k + 2 /\ k + 4 - 1 = k + 3
    OBVIOUS
  <2>5. 1 \in 1..4 /\ 2 \in 1..4 /\ 3 \in 1..4 /\ 4 \in 1..4
    OBVIOUS
  <2> QED BY <2>2, <2>3, <2>4, <2>5
<1>4. FirstOf(t, k, {"sp"}) = k + 2
  <2>1. k \in 1..n + 1 /\ k + 2 \in k..n + 1
    BY <1>2
  <2>2. \A j \in k..n : j < k + 2 => t[j] \notin {"sp"}
    <3>1. \A j \in k..n : j < k + 2 => j = k \/ j = k + 1
      OBVIOUS
    <3> QED BY <1>3, <3>1
  <2>3. t[k + 2] \in {"sp"}
    BY <1>3
  <2> QED BY <1>1, <1>2, <2>1, <2>2, <2>3, FirstOfIs
<1>5. SkipSpaces(t, k + 2) = k + 3
  <2>1. k + 2 \in 1..n + 1 /\ k + 3 \in k + 2..n + 1 /\ k + 3 \in 1..n
    BY <1>2
  <2>2. \A j \in k + 2..n : j < k + 3 => t[j] = "sp"
    <3>1. \A j \in k + 2..n : j < k + 3 => j = k + 2
      OBVIOUS
    <3> QED BY <1>3, <3>1
  <2>3. t[k + 3] # "sp"
    BY <1>2, <1>3, <2>1
  <2> QED BY <1>1, <1>2, <2>1, <2>2, <2>3, SkipSpacesIs
<1>6. k + 3 \in DOMAIN t
  BY <1>2
<1>7. ClosingQuote(t, k + 4) = k + m + 4
  <2>1. k + 4 \in Nat /\ k + 4 > 0 /\ k + 4 + Len(e) = k + m + 4 /\ k + m + 4 <= Len(t)
    BY <1>1, <1>2
  <2>2. t[k + 4 + Len(e)] = "quote" /\ k + 4 + Len(e) <= Len(t)
    BY <2>1
  <2> QED BY <2>1, <2>2, ClosingIs
<1>8. SubSeq(t, k, k + 1) = StrName
  <2>1. PICK u : u = SubSeq(t, k, k + 1)
    OBVIOUS
  <2>2. u \in Seq(Char) /\ Len(u) = 2 /\ u[1] = t[k] /\ u[2] = t[k + 1]
    BY <1>1, <1>2, <2>1
  <2>3. PICK w : w = <<"colon", "p">>
    OBVIOUS
  <2>4. w \in Seq(Char) /\ Len(w) = 2 /\ w[1] = "colon" /\ w[2] = "p"
    BY <2>3 DEF Char
  <2>5. Len(u) = Len(w) /\ \A j \in 1..Len(u) : u[j] = w[j]
    BY <1>3, <2>2, <2>4
  <2> QED BY <2>1, <2>2, <2>3, <2>4, <2>5, SeqEqual DEF StrName
<1>9. SubSeq(t, k + 4, k + m + 3) = e
  <2>1. PICK u : u = SubSeq(t, k + 4, k + m + 3)
    OBVIOUS
  <2>2. u \in Seq(Char) /\ Len(u) = m /\ \A j \in 1..m : u[j] = t[k + 4 + j - 1]
    BY <1>1, <1>2, <2>1
  <2>3. \A j \in 1..m : t[k + 4 + j - 1] = e[j]
    BY DEF HasAt
  <2> QED BY <1>2, <2>1, <2>2, <2>3, SeqEqual
<1>10. (k + 2) - 1 = k + 1 /\ (k + 3) + 1 = k + 4 /\ (k + m + 4) - 1 = k + m + 3 /\ (k + m + 4) + 1 = k + m + 5
       /\ k + m + 4 \in DOMAIN t
  BY <1>2
<1> QED BY <1>3, <1>4, <1>5, <1>6, <1>7, <1>8, <1>9, <1>10 DEF PairAt

(* the pair of the string e, m characters long, is at k *)
QuotedAt(t, k, e, m) ==
  /\ m = Len(e) /\ k + m + 4 <= Len(t) /\ HasAt(t, k, <<"colon", "p", "sp", "quote">>) /\ HasAt(t, k + 4, e)
  /\ t[k + m + 4] = "quote"

(* the same, from the predicate *)
LEMMA QuotedRead ==
  ASSUME NEW t \in Seq(Char), NEW k \in Nat, k > 0, NEW e, Neat(e), NEW m, QuotedAt(t, k, e, m)
  PROVE  PairAt(t, k) = [pair |-> Pair(StrName, Unescape(e)), next |-> k + m + 5]
BY StringPairAt DEF QuotedAt

(* A text without backslashes is read as it is. *)
LEMMA BareIsRead ==
  ASSUME NEW s \in Seq(Char), NEW j \in 1..Len(s), \A i \in 1..Len(s) : s[i] # "back"
  PROVE  UnescapeAt(s, j) = <<s[j]>>
<1>1. PICK n : n = Len(s)
  OBVIOUS
<1>2. n \in Nat /\ 1 \in Nat
  BY <1>1
<1>3. \A i \in 1..n : i \in Escaped(s, 1) => i > 1 /\ s[i - 1] = "back"
  BY <1>1, <1>2, EscapedIs
<1>4. j > 1 => j - 1 \in 1..n
  BY <1>1
<1>5. j \notin Escaped(s, 1)
  BY <1>1, <1>3, <1>4
<1> QED BY <1>5 DEF UnescapeAt

(* one and one make two *)
LEMMA TwoCharacters ==
  ASSUME NEW S, NEW c \in S, NEW d \in S
  PROVE  <<c>> \o <<d>> = <<c, d>>
<1>1. PICK x, y, z, w : x = <<c>> /\ y = <<d>> /\ z = x \o y /\ w = <<c, d>>
  OBVIOUS
<1>2. x \in Seq(S) /\ Len(x) = 1 /\ x[1] = c /\ y \in Seq(S) /\ Len(y) = 1 /\ y[1] = d
  BY <1>1
<1>3. w \in Seq(S) /\ Len(w) = 2 /\ w[1] = c /\ w[2] = d
  BY <1>1
<1>4. z \in Seq(S) /\ Len(z) = 2 /\ z[1] = c /\ z[2] = d
  BY <1>1, <1>2
<1>5. \A j \in 1..2 : z[j] = w[j]
  BY <1>3, <1>4
<1>6. z = w
  BY <1>3, <1>4, <1>5, SeqEqual
<1> QED BY <1>1, <1>6

(* a digit is no backslash, and so is left as it is *)
LEMMA DigitIsRead ==
  ASSUME NEW d \in Digit
  PROVE  Unescape(<<d>>) = <<d>> /\ Unescape(<<d, "nl">>) = <<d, "nl">>
<1>1. d \in Char /\ "nl" \in Char /\ d # "back"
  BY LogEntryAssumption DEF Char
<1>2. <<d>> \in Seq(Char) /\ <<"nl">> \in Seq(Char)
  BY <1>1
<1>3. Unescape(<<d>>) = <<d>>
  <2>1. PICK s : s = <<d>>
    OBVIOUS
  <2>2. s \in Seq(Char) /\ Len(s) = 1 /\ s[1] = d /\ \A i \in 1..Len(s) : s[i] # "back"
    BY <1>1, <2>1
  <2>3. UnescapeAt(s, 1) = <<d>>
    BY <2>2, BareIsRead
  <2>4. [j \in DOMAIN s |-> UnescapeAt(s, j)] = << <<d>> >>
    <3>1. DOMAIN s = 1..1
      BY <2>2
    <3> QED BY <2>3, <3>1
  <2>5. FlattenSeq(<< <<d>> >>) = <<d>>
    BY <1>2, FlattenOne
  <2> QED BY <2>1, <2>4, <2>5 DEF Unescape
<1>4. Unescape(<<d, "nl">>) = <<d, "nl">>
  <2>1. PICK s : s = <<d, "nl">>
    OBVIOUS
  <2>2. s \in Seq(Char) /\ Len(s) = 2 /\ s[1] = d /\ s[2] = "nl" /\ \A i \in 1..Len(s) : s[i] # "back"
    BY <1>1, <2>1
  <2>3. UnescapeAt(s, 1) = <<d>> /\ UnescapeAt(s, 2) = <<"nl">>
    BY <2>2, BareIsRead
  <2>4. PICK p : p = [j \in DOMAIN s |-> UnescapeAt(s, j)]
    OBVIOUS
  <2>5. DOMAIN s = 1..2
    BY <2>2
  <2>6. Len(p) = 2 /\ p[1] = <<d>> /\ p[2] = <<"nl">>
    BY <2>3, <2>4, <2>5
  <2>7. FlattenSeq(p) = p[1] \o p[2]
    BY <2>6, FlattenTwo
  <2>8. <<d>> \o <<"nl">> = <<d, "nl">>
    BY <1>1, TwoCharacters
  <2> QED BY <2>1, <2>4, <2>6, <2>7, <2>8 DEF Unescape
<1> QED BY <1>3, <1>4

(* A number at the end of the text is read with the newline, if there is one. *)
LEMMA NumberPairAt ==
  ASSUME NEW t \in Seq(Char), NEW k \in Nat, k > 0, NEW d \in Digit, NEW v, v \in {<<d>>, <<d, "nl">>},
         Len(t) = k + 2 + Len(v), HasAt(t, k, <<"colon", "q", "sp">>), HasAt(t, k + 3, v)
  PROVE  PairAt(t, k) = [pair |-> Pair(NumName, v), next |-> Len(t) + 1]
<1>1. PICK n, m : n = Len(t) /\ m = Len(v)
  OBVIOUS
<1>2. /\ n \in Nat /\ m \in {1, 2} /\ n = k + 2 + m /\ v \in Seq(Char) /\ DOMAIN t = 1..n
      /\ \A j \in 1..n : t[j] \in Char
  <2>1. d \in Char /\ "nl" \in Char
    BY DEF Char
  <2>2. n \in Nat /\ DOMAIN t = 1..n /\ \A j \in 1..n : t[j] \in Char
    BY <1>1
  <2>3. CASE v = <<d>>
    BY <1>1, <2>1, <2>2, <2>3
  <2>4. CASE v = <<d, "nl">>
    BY <1>1, <2>1, <2>2, <2>4
  <2> QED BY <2>3, <2>4
<1>3. t[k] = "colon" /\ t[k + 1] = "q" /\ t[k + 2] = "sp"
  <2>1. PICK w : w = <<"colon", "q", "sp">>
    OBVIOUS
  <2>2. Len(w) = 3 /\ w[1] = "colon" /\ w[2] = "q" /\ w[3] = "sp"
    BY <2>1
  <2>3. \A j \in 1..3 : t[k + j - 1] = w[j]
    BY <2>1, <2>2 DEF HasAt
  <2>4. k + 1 - 1 = k /\ k + 2 - 1 = k + 1 /\ k + 3 - 1 = k + 2
    OBVIOUS
  <2>5. 1 \in 1..3 /\ 2 \in 1..3 /\ 3 \in 1..3
    OBVIOUS
  <2> QED BY <2>2, <2>3, <2>4, <2>5
<1>4. \A j \in 1..m : t[k + 3 + j - 1] = v[j] /\ v[j] # "sp" /\ v[j] # "back" /\ v[j] # "quote"
  <2>1. \A j \in 1..m : v[j] \in {d, "nl"}
    BY <1>1
  <2>2. d # "sp" /\ d # "back" /\ d # "quote"
    BY LogEntryAssumption
  <2> QED BY <1>1, <2>1, <2>2 DEF HasAt
<1>5. \A j \in k + 3..n : t[j] # "sp" /\ t[j] # "quote"
  <2> SUFFICES ASSUME NEW j \in k + 3..n
               PROVE  t[j] # "sp" /\ t[j] # "quote"
    OBVIOUS
  <2>1. j - k - 2 \in 1..m /\ k + 3 + (j - k - 2) - 1 = j
    BY <1>2
  <2> QED BY <1>4, <2>1
<1>6. FirstOf(t, k, {"sp"}) = k + 2
  <2>1. k \in 1..n + 1 /\ k + 2 \in k..n + 1
    BY <1>2
  <2>2. \A j \in k..n : j < k + 2 => t[j] \notin {"sp"}
    <3>1. \A j \in k..n : j < k + 2 => j = k \/ j = k + 1
      OBVIOUS
    <3> QED BY <1>3, <3>1
  <2>3. t[k + 2] \in {"sp"}
    BY <1>3
  <2> QED BY <1>1, <1>2, <2>1, <2>2, <2>3, FirstOfIs
<1>7. SkipSpaces(t, k + 2) = k + 3
  <2>1. k + 2 \in 1..n + 1 /\ k + 3 \in k + 2..n + 1 /\ k + 3 \in 1..n /\ k + 3 \in k + 3..n
    BY <1>2
  <2>2. \A j \in k + 2..n : j < k + 3 => t[j] = "sp"
    <3>1. \A j \in k + 2..n : j < k + 3 => j = k + 2
      OBVIOUS
    <3> QED BY <1>3, <3>1
  <2>3. t[k + 3] # "sp"
    BY <1>2, <1>5, <2>1
  <2> QED BY <1>1, <1>2, <2>1, <2>2, <2>3, SkipSpacesIs
<1>8. ~(k + 3 \in DOMAIN t /\ t[k + 3] = "quote")
  <2>1. k + 3 \in k + 3..n
    BY <1>2
  <2> QED BY <1>5, <2>1
<1>9. BareEnd(t, k + 3) = n + 1
  <2>1. {j \in k + 3..n : t[j] = "sp" /\ SkipSpaces(t, j) \in DOMAIN t /\ t[SkipSpaces(t, j)] = "colon"} = {}
    BY <1>5
  <2>2. BareEnd(t, k + 3) = Min({n + 1} \cup {})
    BY <1>1, <2>1 DEF BareEnd
  <2>3. {n + 1} \subseteq Nat /\ n + 1 \in {n + 1} /\ {n + 1} \cup {} = {n + 1} /\ \A m1 \in {n + 1} : n + 1 <= m1
    BY <1>2
  <2>4. Min({n + 1}) = n + 1
    BY <2>3, MinIs
  <2> QED BY <2>2, <2>3, <2>4
<1>10. SubSeq(t, k, k + 1) = NumName
  <2>1. PICK u : u = SubSeq(t, k, k + 1)
    OBVIOUS
  <2>2. u \in Seq(Char) /\ Len(u) = 2 /\ u[1] = t[k] /\ u[2] = t[k + 1]
    BY <1>1, <1>2, <2>1
  <2>3. PICK w : w = <<"colon", "q">>
    OBVIOUS
  <2>4. w \in Seq(Char) /\ Len(w) = 2 /\ w[1] = "colon" /\ w[2] = "q"
    BY <2>3 DEF Char
  <2>5. Len(u) = Len(w) /\ \A j \in 1..Len(u) : u[j] = w[j]
    BY <1>3, <2>2, <2>4
  <2> QED BY <2>1, <2>2, <2>3, <2>4, <2>5, SeqEqual DEF NumName
<1>11. SubSeq(t, k + 3, n) = v
  <2>1. PICK u : u = SubSeq(t, k + 3, n)
    OBVIOUS
  <2>2. u \in Seq(Char) /\ Len(u) = m /\ \A j \in 1..m : u[j] = t[k + 3 + j - 1]
    BY <1>1, <1>2, <2>1
  <2>3. Len(u) = Len(v) /\ \A j \in 1..Len(u) : u[j] = v[j]
    BY <1>1, <1>4, <2>2
  <2> QED BY <1>2, <2>1, <2>2, <2>3, SeqEqual
<1>12. TrimTrailingSpaces(v) = v
  <2> DEFINE T == {0} \cup {j \in DOMAIN v : v[j] # "sp"}
  <2>1. DOMAIN v = 1..m /\ m \in Nat /\ m \in 1..m
    BY <1>1, <1>2
  <2>2. T \subseteq Nat /\ m \in T /\ \A j \in T : j <= m
    BY <1>4, <2>1
  <2> HIDE DEF T
  <2>3. Max(T) = m
    BY <2>2, MaxIs
  <2>4. SubSeq(v, 1, m) = v
    BY <1>1, <1>2, SubSeqFull
  <2> QED BY <2>3, <2>4 DEF TrimTrailingSpaces, T
<1>13. Unescape(v) = v
  BY DigitIsRead
<1>14. (k + 2) - 1 = k + 1 /\ (n + 1) - 1 = n /\ n + 1 \notin DOMAIN t
  BY <1>2
<1> QED BY <1>1, <1>6, <1>7, <1>8, <1>9, <1>10, <1>11, <1>12, <1>13, <1>14 DEF PairAt

(* the pair of a number, whose value v may have a newline, is at k, the last *)
NumberAt(t, k, v) ==
  /\ Len(t) = k + 2 + Len(v) /\ HasAt(t, k, <<"colon", "q", "sp">>) /\ HasAt(t, k + 3, v)

(* the same, from the predicate *)
LEMMA NumberRead ==
  ASSUME NEW t \in Seq(Char), NEW k \in Nat, k > 0, NEW d \in Digit, NEW v, v \in {<<d>>, <<d, "nl">>},
         NumberAt(t, k, v)
  PROVE  PairAt(t, k) = [pair |-> Pair(NumName, v), next |-> Len(t) + 1]
BY NumberPairAt DEF NumberAt

-----------------------------------------------------------------------------
(* What print() makes                                                           *)

(* t is a, n long, with b, m long, behind it *)
Join(t, a, n, b, m) ==
  /\ t \in Seq(Char) /\ Len(t) = n + m
  /\ \A j \in 1..n : t[j] = a[j]
  /\ \A j \in 1..m : t[n + j] = b[j]

(* what \o makes is a Join *)
LEMMA Joined ==
  ASSUME NEW a \in Seq(Char), NEW b \in Seq(Char), NEW n, Len(a) = n, NEW m, Len(b) = m
  PROVE  Join(a \o b, a, n, b, m)
<1>1. n \in Nat /\ m \in Nat
  OBVIOUS
<1>2. PICK t : t = a \o b
  OBVIOUS
<1>3. t \in Seq(Char) /\ Len(t) = n + m
  BY <1>2, ConcatProperties
<1>4. \A j \in 1..n : t[j] = a[j]
  BY <1>2, ConcatProperties
<1>5. \A j \in 1..m : t[n + j] = b[j]
  <2> SUFFICES ASSUME NEW j \in 1..m
               PROVE  t[n + j] = b[j]
    OBVIOUS
  <2>1. n + j \in 1..Len(a) + Len(b) /\ n + j > n /\ (n + j) - n = j
    BY <1>1
  <2> QED BY <1>1, <1>2, <2>1, ConcatProperties
<1> QED BY <1>2, <1>3, <1>4, <1>5 DEF Join

(* a pair as print() writes it, without the space behind *)
PairText(p) == p.name \o <<"sp">> \o p.value

(* a pair of texts is printed as a text *)
LEMMA PairTextTyped ==
  ASSUME NEW p, p.name \in Seq(Char), p.value \in Seq(Char)
  PROVE  PairText(p) \in Seq(Char)
<1>1. <<"sp">> \in Seq(Char)
  BY DEF Char
<1> QED BY <1>1 DEF PairText

(* an entry of one pair *)
LEMMA PrintedOne ==
  ASSUME NEW p, p.name \in Seq(Char), p.value \in Seq(Char)
  PROVE  Printed(<<p>>) = PairText(p)
<1>1. PICK e, x : e = <<p>> /\ x = PairText(p)
  OBVIOUS
<1>2. Len(e) = 1 /\ DOMAIN e = 1..1 /\ e[1] = p /\ x \in Seq(Char)
  BY <1>1, PairTextTyped
<1>3. PICK f : f = [k \in DOMAIN e |->
        e[k].name \o <<"sp">> \o e[k].value \o (IF k = Len(e) THEN <<>> ELSE <<"sp">>)]
  OBVIOUS
<1>4. f[1] = x \o <<>>
  <2>1. 1 \in DOMAIN e
    BY <1>2
  <2>2. f[1] = e[1].name \o <<"sp">> \o e[1].value \o (IF 1 = Len(e) THEN <<>> ELSE <<"sp">>)
    BY <1>3, <2>1
  <2>3. x = e[1].name \o <<"sp">> \o e[1].value
    BY <1>1, <1>2 DEF PairText
  <2> QED BY <1>2, <2>2, <2>3
<1>5. x \o <<>> = x
  BY <1>2, ConcatEmptySeq
<1>6. f = <<x>>
  <2>1. f = [k \in 1..1 |-> f[k]]
    BY <1>2, <1>3
  <2>2. \A k \in 1..1 : f[k] = x
    BY <1>4, <1>5
  <2> QED BY <2>1, <2>2
<1>7. Printed(e) = FlattenSeq(f)
  BY <1>3 DEF Printed
<1> QED BY <1>1, <1>2, <1>6, <1>7, FlattenOne

(* an entry of two pairs *)
LEMMA PrintedTwo ==
  ASSUME NEW p, p.name \in Seq(Char), p.value \in Seq(Char), NEW q, q.name \in Seq(Char), q.value \in Seq(Char)
  PROVE  Printed(<<p, q>>) = (PairText(p) \o <<"sp">>) \o PairText(q)
<1>1. PICK e, x, y, z : e = <<p, q>> /\ x = PairText(p) /\ y = PairText(q) /\ z = x \o <<"sp">>
  OBVIOUS
<1>2. <<"sp">> \in Seq(Char)
  BY DEF Char
<1>3. Len(e) = 2 /\ DOMAIN e = 1..2 /\ e[1] = p /\ e[2] = q /\ x \in Seq(Char) /\ y \in Seq(Char) /\ z \in Seq(Char)
  BY <1>1, <1>2, PairTextTyped
<1>4. PICK f : f = [k \in DOMAIN e |->
        e[k].name \o <<"sp">> \o e[k].value \o (IF k = Len(e) THEN <<>> ELSE <<"sp">>)]
  OBVIOUS
<1>5. f[1] = z
  <2>1. 1 \in DOMAIN e
    BY <1>3
  <2>2. f[1] = e[1].name \o <<"sp">> \o e[1].value \o (IF 1 = Len(e) THEN <<>> ELSE <<"sp">>)
    BY <1>4, <2>1
  <2>3. x = e[1].name \o <<"sp">> \o e[1].value
    BY <1>1, <1>3 DEF PairText
  <2> QED BY <1>1, <1>3, <2>2, <2>3
<1>6. f[2] = y \o <<>>
  <2>1. 2 \in DOMAIN e
    BY <1>3
  <2>2. f[2] = e[2].name \o <<"sp">> \o e[2].value \o (IF 2 = Len(e) THEN <<>> ELSE <<"sp">>)
    BY <1>4, <2>1
  <2>3. y = e[2].name \o <<"sp">> \o e[2].value
    BY <1>1, <1>3 DEF PairText
  <2> QED BY <1>3, <2>2, <2>3
<1>7. y \o <<>> = y
  BY <1>3, ConcatEmptySeq
<1>8. Len(f) = 2
  <2>1. f = [k \in 1..2 |-> f[k]]
    BY <1>3, <1>4
  <2> QED BY <2>1
<1>9. FlattenSeq(f) = z \o y
  BY <1>5, <1>6, <1>7, <1>8, FlattenTwo
<1>10. Printed(e) = FlattenSeq(f)
  BY <1>4 DEF Printed
<1> QED BY <1>1, <1>9, <1>10

(* neither newline nor separator *)
Free(t) == t \in Seq(Char) /\ \A j \in 1..Len(t) : t[j] # "nl" /\ t[j] # "mark"

(* two such texts make one *)
LEMMA FreeJoined ==
  ASSUME NEW a, Free(a), NEW b, Free(b)
  PROVE  Free(a \o b)
<1>1. PICK t, n, m : t = a \o b /\ n = Len(a) /\ m = Len(b)
  OBVIOUS
<1>2. a \in Seq(Char) /\ b \in Seq(Char) /\ n \in Nat /\ m \in Nat
  BY <1>1 DEF Free
<1>3. /\ t \in Seq(Char) /\ Len(t) = n + m
      /\ \A j \in 1..n : t[j] = a[j]
      /\ \A j \in 1..m : t[n + j] = b[j]
  <2>1. Join(t, a, n, b, m)
    BY <1>1, <1>2, Joined
  <2> QED BY <2>1 DEF Join
<1>4. ASSUME NEW j \in 1..n + m
      PROVE  t[j] # "nl" /\ t[j] # "mark"
  <2>1. CASE j <= n
    BY <1>1, <1>2, <1>3, <2>1 DEF Free
  <2>2. CASE j > n
    <3>1. j - n \in 1..m /\ n + (j - n) = j
      BY <1>2, <2>2
    <3>2. t[j] = b[j - n]
      BY <1>3, <3>1
    <3> QED BY <1>1, <3>1, <3>2 DEF Free
  <2> QED BY <1>2, <2>1, <2>2
<1> QED BY <1>1, <1>3, <1>4 DEF Free

(* the text of the string: its name, a space, and its escaped characters in quotes *)
StringText(t, e) ==
  /\ Len(t) = Len(e) + 5 /\ HasAt(t, 1, <<"colon", "p", "sp", "quote">>) /\ HasAt(t, 5, e)
  /\ t[Len(e) + 5] = "quote"

(* so the string is printed, whatever plain characters it holds *)
LEMMA StringPrinted ==
  ASSUME NEW s \in Seq(Writable)
  PROVE  /\ StringText(PairText(StringPair(StrName, s)), Escape(s))
         /\ Free(PairText(StringPair(StrName, s)))
         /\ StringPair(StrName, s).name \in Seq(Char) /\ StringPair(StrName, s).value \in Seq(Char)
<1>1. PICK e, m, q : e = Escape(s) /\ m = Len(e) /\ q = <<"quote">>
  OBVIOUS
<1>2. Neat(e) /\ e \in Seq(Char) /\ m \in Nat
  BY <1>1, EscapeIsRead DEF Neat
<1>3. q \in Seq(Char) /\ Len(q) = 1 /\ q[1] = "quote"
  BY <1>1 DEF Char
<1>4. PICK a, b, c, t : a = StrName \o <<"sp">> /\ b = q \o e /\ c = b \o q /\ t = a \o c
  OBVIOUS
<1>5. a \in Seq(Char) /\ Len(a) = 3 /\ a[1] = "colon" /\ a[2] = "p" /\ a[3] = "sp"
  <2>1. PICK x, y : x = StrName /\ y = <<"sp">>
    OBVIOUS
  <2>2. x \in Seq(Char) /\ Len(x) = 2 /\ x[1] = "colon" /\ x[2] = "p" /\ y \in Seq(Char) /\ Len(y) = 1 /\ y[1] = "sp"
    BY <2>1 DEF StrName, Char
  <2>3. /\ a \in Seq(Char) /\ Len(a) = 2 + 1
        /\ \A j \in 1..2 : a[j] = x[j]
        /\ \A j \in 1..1 : a[2 + j] = y[j]
    <3>1. Join(a, x, 2, y, 1)
      BY <1>4, <2>1, <2>2, Joined
    <3> QED BY <3>1 DEF Join
  <2> QED BY <2>2, <2>3
<1>6. b \in Seq(Char) /\ Len(b) = 1 + m /\ b[1] = "quote" /\ \A j \in 1..m : b[1 + j] = e[j]
  <2>1. /\ b \in Seq(Char) /\ Len(b) = 1 + m
        /\ \A j \in 1..1 : b[j] = q[j]
        /\ \A j \in 1..m : b[1 + j] = e[j]
    <3>1. Join(b, q, 1, e, m)
      BY <1>1, <1>2, <1>3, <1>4, Joined
    <3> QED BY <3>1 DEF Join
  <2> QED BY <1>3, <2>1
<1>7. /\ c \in Seq(Char) /\ Len(c) = 1 + m + 1 /\ c[1] = "quote" /\ c[1 + m + 1] = "quote"
      /\ \A j \in 1..m : c[1 + j] = e[j]
  <2>1. /\ c \in Seq(Char) /\ Len(c) = 1 + m + 1
        /\ \A j \in 1..1 + m : c[j] = b[j]
        /\ \A j \in 1..1 : c[1 + m + j] = q[j]
    <3>1. Join(c, b, 1 + m, q, 1)
      BY <1>3, <1>4, <1>6, Joined
    <3> QED BY <3>1 DEF Join
  <2>2. 1 \in 1..1 + m /\ \A j \in 1..m : 1 + j \in 1..1 + m
    BY <1>2
  <2> QED BY <1>3, <1>6, <2>1, <2>2
<1>8. /\ t \in Seq(Char) /\ Len(t) = 3 + (1 + m + 1)
      /\ \A j \in 1..3 : t[j] = a[j]
      /\ \A j \in 1..1 + m + 1 : t[3 + j] = c[j]
  <2>1. Join(t, a, 3, c, 1 + m + 1)
    BY <1>4, <1>5, <1>7, Joined
  <2> QED BY <2>1 DEF Join
<1>9. t[1] = "colon" /\ t[2] = "p" /\ t[3] = "sp" /\ t[4] = "quote" /\ t[m + 5] = "quote"
  <2>1. 1 \in 1..3 /\ 2 \in 1..3 /\ 3 \in 1..3 /\ 1 \in 1..1 + m + 1 /\ 1 + m + 1 \in 1..1 + m + 1
        /\ 3 + 1 = 4 /\ 3 + (1 + m + 1) = m + 5
    BY <1>2
  <2>2. t[3 + 1] = c[1] /\ t[3 + (1 + m + 1)] = c[1 + m + 1]
    BY <1>8, <2>1
  <2> QED BY <1>5, <1>7, <1>8, <2>1, <2>2
<1>10. \A j \in 1..m : t[4 + j] = e[j]
  <2> SUFFICES ASSUME NEW j \in 1..m
               PROVE  t[4 + j] = e[j]
    OBVIOUS
  <2>1. 1 + j \in 1..1 + m + 1 /\ 3 + (1 + j) = 4 + j
    BY <1>2
  <2>2. t[3 + (1 + j)] = c[1 + j]
    BY <1>8, <2>1
  <2> QED BY <1>7, <2>1, <2>2
<1>11. StringText(t, e)
  <2>1. HasAt(t, 1, <<"colon", "p", "sp", "quote">>)
    <3>1. PICK w : w = <<"colon", "p", "sp", "quote">>
      OBVIOUS
    <3>2. Len(w) = 4 /\ w[1] = "colon" /\ w[2] = "p" /\ w[3] = "sp" /\ w[4] = "quote"
      BY <3>1
    <3>3. \A j \in 1..4 : 1 + j - 1 = j /\ (j = 1 \/ j = 2 \/ j = 3 \/ j = 4)
      OBVIOUS
    <3>4. \A j \in 1..4 : t[j] = w[j]
      BY <1>9, <3>2, <3>3
    <3>5. \A j \in 1..4 : t[1 + j - 1] = w[j]
      BY <3>3, <3>4
    <3> QED BY <3>1, <3>2, <3>5 DEF HasAt
  <2>2. HasAt(t, 5, e)
    <3>1. \A j \in 1..m : 5 + j - 1 = 4 + j
      OBVIOUS
    <3> QED BY <1>1, <1>10, <3>1 DEF HasAt
  <2>3. Len(t) = m + 5
    BY <1>2, <1>8
  <2> QED BY <1>1, <1>9, <2>1, <2>2, <2>3 DEF StringText
<1>12. Free(t)
  <2> SUFFICES ASSUME NEW j \in 1..m + 5
               PROVE  t[j] # "nl" /\ t[j] # "mark"
    BY <1>2, <1>8 DEF Free
  <2>1. CASE j < 5
    <3>1. j = 1 \/ j = 2 \/ j = 3 \/ j = 4
      BY <2>1
    <3> QED BY <1>9, <3>1
  <2>2. CASE j = m + 5
    BY <1>9, <2>2
  <2>3. CASE j >= 5 /\ j # m + 5
    <3>1. j - 4 \in 1..m /\ 4 + (j - 4) = j
      BY <1>2, <2>3
    <3>2. t[j] = e[j - 4]
      BY <1>10, <3>1
    <3> QED BY <1>1, <1>2, <3>1, <3>2 DEF Neat
  <2> QED BY <2>1, <2>2, <2>3
<1>13. StringPair(StrName, s).name = StrName /\ StringPair(StrName, s).value = c
  BY <1>1, <1>4 DEF StringPair, Pair
<1>14. PairText(StringPair(StrName, s)) = t
  BY <1>4, <1>13 DEF PairText
<1>15. StrName \in Seq(Char)
  BY DEF StrName, Char
<1> QED BY <1>1, <1>7, <1>11, <1>12, <1>13, <1>14, <1>15

(* the text of the number *)
LEMMA NumberPrinted ==
  ASSUME NEW d \in Digit
  PROVE  /\ PairText(Pair(NumName, <<d>>)) = <<"colon", "q", "sp", d>>
         /\ Free(<<"colon", "q", "sp", d>>)
         /\ Pair(NumName, <<d>>).name \in Seq(Char) /\ Pair(NumName, <<d>>).value \in Seq(Char)
<1>1. d \in Char /\ d # "nl" /\ d # "mark" /\ "colon" \in Char /\ "q" \in Char /\ "sp" \in Char
  BY LogEntryAssumption DEF Char
<1>2. PICK w : w = <<"colon", "q", "sp", d>>
  OBVIOUS
<1>3. w \in Seq(Char) /\ Len(w) = 4 /\ w[1] = "colon" /\ w[2] = "q" /\ w[3] = "sp" /\ w[4] = d
  BY <1>1, <1>2
<1>4. PICK x, y, z, a, t : x = NumName /\ y = <<"sp">> /\ z = <<d>> /\ a = x \o y /\ t = a \o z
  OBVIOUS
<1>5. /\ x \in Seq(Char) /\ Len(x) = 2 /\ x[1] = "colon" /\ x[2] = "q"
      /\ y \in Seq(Char) /\ Len(y) = 1 /\ y[1] = "sp"
      /\ z \in Seq(Char) /\ Len(z) = 1 /\ z[1] = d
  BY <1>1, <1>4 DEF NumName
<1>6. /\ a \in Seq(Char) /\ Len(a) = 2 + 1
      /\ \A j \in 1..2 : a[j] = x[j]
      /\ \A j \in 1..1 : a[2 + j] = y[j]
  <2>1. Join(a, x, 2, y, 1)
    BY <1>4, <1>5, Joined
  <2> QED BY <2>1 DEF Join
<1>7. /\ t \in Seq(Char) /\ Len(t) = (2 + 1) + 1
      /\ \A j \in 1..2 + 1 : t[j] = a[j]
      /\ \A j \in 1..1 : t[2 + 1 + j] = z[j]
  <2>1. Join(t, a, 2 + 1, z, 1)
    BY <1>4, <1>5, <1>6, Joined
  <2> QED BY <2>1 DEF Join
<1>8. t[1] = "colon" /\ t[2] = "q" /\ t[3] = "sp" /\ t[4] = d /\ Len(t) = 4
  BY <1>5, <1>6, <1>7
<1>9. \A j \in 1..4 : j = 1 \/ j = 2 \/ j = 3 \/ j = 4
  OBVIOUS
<1>10. t = w
  <2>1. Len(t) = Len(w) /\ \A j \in 1..Len(t) : t[j] = w[j]
    BY <1>3, <1>8, <1>9
  <2> QED BY <1>3, <1>7, <2>1, SeqEqual
<1>11. Free(w)
  <2>1. \A j \in 1..4 : w[j] # "nl" /\ w[j] # "mark"
    BY <1>1, <1>3, <1>9
  <2> QED BY <1>3, <2>1 DEF Free
<1>12. Pair(NumName, <<d>>).name = x /\ Pair(NumName, <<d>>).value = z
  BY <1>4 DEF Pair
<1>13. PairText(Pair(NumName, <<d>>)) = t
  BY <1>4, <1>12 DEF PairText
<1> QED BY <1>2, <1>5, <1>10, <1>11, <1>12, <1>13

-----------------------------------------------------------------------------
(* What parse_alist() makes of it                                               *)

(* no pair begins at the end, nor at another character than a colon *)
LEMMA ParseEnds ==
  ASSUME NEW t \in Seq(Char), NEW n \in Nat, Len(t) = n, NEW p \in 1..n + 1,
         p = n + 1 \/ (t[p] # "sp" /\ t[p] # "colon")
  PROVE  ParseFrom(t, p) = <<>>
<1>1. SkipSpaces(t, p) = p
  <2>1. p \in p..n + 1 /\ \A j \in p..n : j < p => t[j] = "sp"
    OBVIOUS
  <2>2. p = n + 1 \/ t[p] # "sp"
    OBVIOUS
  <2> QED BY <2>1, <2>2, SkipSpacesIs
<1>2. ~Begins(t, p)
  <2>1. DOMAIN t = 1..n /\ n + 1 \notin 1..n
    OBVIOUS
  <2> QED BY <1>1, <2>1 DEF Begins
<1>3. p \in 1..Len(t) + 1
  OBVIOUS
<1> QED BY <1>2, <1>3, ParseUnfolds

(* t has n characters and a colon at k, at p or behind a space there *)
NameNear(t, n, p, k) ==
  /\ Len(t) = n /\ n \in Nat /\ p \in 1..n /\ k \in 1..n /\ k \in {p, p + 1}
  /\ t[k] = "colon" /\ (k = p + 1 => t[p] = "sp")

(* the pair at k, and where the text goes on *)
PairIs(t, k, pair, next) == PairAt(t, k).pair = pair /\ PairAt(t, k).next = next

(* a pair whose name is at k, at p or behind the space there *)
LEMMA ParseBegins ==
  ASSUME NEW t \in Seq(Char), NEW n, NEW p, NEW k, NameNear(t, n, p, k), NEW pair, NEW next, PairIs(t, k, pair, next)
  PROVE  ParseFrom(t, p) = <<pair>> \o ParseFrom(t, next)
<1> USE DEF NameNear, PairIs
<1>1. SkipSpaces(t, p) = k
  <2>1. p \in 1..n + 1 /\ k \in p..n + 1 /\ t[k] # "sp"
    OBVIOUS
  <2>2. \A j \in p..n : j < k => t[j] = "sp"
    <3>1. \A j \in p..n : j < k => j = p /\ k = p + 1
      OBVIOUS
    <3> QED BY <3>1
  <2>3. k = n + 1 \/ t[k] # "sp"
    BY <2>1
  <2> QED BY <2>1, <2>2, <2>3, SkipSpacesIs
<1>2. Begins(t, p)
  BY <1>1 DEF Begins
<1>3. p \in 1..Len(t) + 1
  OBVIOUS
<1> QED BY <1>1, <1>2, <1>3, ParseUnfolds

(* a text that begins with the string *)
LEMMA StringFirst ==
  ASSUME NEW s \in Seq(Writable), NEW a \in Seq(Char), StringText(a, Escape(s)),
         NEW n, Len(a) = n, NEW t \in Seq(Char), n <= Len(t), Alike(a, t, n)
  PROVE  ParseFrom(t, 1) = <<Pair(StrName, s)>> \o ParseFrom(t, n + 1)
<1>1. PICK e, m, l : e = Escape(s) /\ m = Len(e) /\ l = Len(t)
  OBVIOUS
<1>2. Neat(e) /\ Unescape(e) = s /\ m \in Nat /\ n = m + 5 /\ l \in Nat /\ n <= l
  BY <1>1, EscapeIsRead DEF StringText, Neat
<1>3. PICK w : w = <<"colon", "p", "sp", "quote">>
  OBVIOUS
<1>4. Len(w) = 4 /\ w[1] = "colon"
  BY <1>3
<1>5. /\ \A j \in 1..4 : a[1 + j - 1] = w[j]
      /\ \A j \in 1..m : a[5 + j - 1] = e[j]
      /\ a[m + 5] = "quote"
  BY <1>1, <1>3, <1>4 DEF StringText, HasAt
<1>6. HasAt(t, 1, w)
  <2>1. \A j \in 1..4 : 1 + j - 1 \in 1..n
    BY <1>2
  <2>2. \A j \in 1..4 : t[1 + j - 1] = w[j]
    BY <1>5, <2>1 DEF Alike
  <2> QED BY <1>4, <2>2 DEF HasAt
<1>7. HasAt(t, 1 + 4, e)
  <2>1. \A j \in 1..m : 5 + j - 1 \in 1..n /\ 1 + 4 + j - 1 = 5 + j - 1
    BY <1>2
  <2>2. \A j \in 1..m : t[1 + 4 + j - 1] = e[j]
    BY <1>5, <2>1 DEF Alike
  <2> QED BY <1>1, <2>2 DEF HasAt
<1>8. t[1 + m + 4] = "quote" /\ 1 + m + 4 <= Len(t)
  <2>1. m + 5 \in 1..n /\ 1 + m + 4 = m + 5
    BY <1>2
  <2> QED BY <1>1, <1>2, <1>5, <2>1 DEF Alike
<1>9. PairAt(t, 1) = [pair |-> Pair(StrName, Unescape(e)), next |-> 1 + m + 5]
  <2>1. 1 \in Nat /\ 1 > 0
    OBVIOUS
  <2>2. QuotedAt(t, 1, e, m)
    BY <1>1, <1>3, <1>6, <1>7, <1>8 DEF QuotedAt
  <2> QED BY <1>2, <2>1, <2>2, QuotedRead
<1>10. 1 + m + 5 = n + 1 /\ 1 \in 1..l /\ 1 \in {1, 1 + 1} /\ 1 # 1 + 1
  BY <1>2
<1>11. t[1] = "colon"
  <2>1. t[1 + 1 - 1] = w[1]
    BY <1>4, <1>6 DEF HasAt
  <2> QED BY <1>4, <2>1
<1>12. PICK next : next = n + 1
  OBVIOUS
<1>13. PairAt(t, 1).pair = Pair(StrName, s) /\ PairAt(t, 1).next = next
  BY <1>2, <1>9, <1>10, <1>12
<1>14. ParseFrom(t, 1) = <<Pair(StrName, s)>> \o ParseFrom(t, next)
  <2>1. NameNear(t, l, 1, 1)
    BY <1>1, <1>2, <1>10, <1>11 DEF NameNear
  <2>2. PairIs(t, 1, Pair(StrName, s), next)
    BY <1>13 DEF PairIs
  <2> QED BY <2>1, <2>2, ParseBegins
<1> QED BY <1>12, <1>14

(* a text that ends with the number, at k, and may have a newline behind it *)
LEMMA NumberLast ==
  ASSUME NEW d \in Digit, NEW v, v \in {<<d>>, <<d, "nl">>}, NEW t \in Seq(Char), NEW k \in Nat, k > 0,
         NumberAt(t, k, v), NEW p, p > 0, p \in {k, k - 1}, p = k - 1 => t[p] = "sp"
  PROVE  ParseFrom(t, p) = <<Pair(NumName, v)>>
<1>1. PICK n : n = Len(t)
  OBVIOUS
<1>2. n \in Nat /\ Len(v) \in {1, 2} /\ n = k + 2 + Len(v) /\ p \in 1..n /\ k \in 1..n /\ k \in {p, p + 1}
  <2>1. Len(v) \in {1, 2}
    OBVIOUS
  <2>2. n = k + 2 + Len(v)
    BY <1>1 DEF NumberAt
  <2> QED BY <2>1, <2>2
<1>3. PairAt(t, k).pair = Pair(NumName, v) /\ PairAt(t, k).next = n + 1
  BY <1>1, NumberRead
<1>4. t[k] = "colon"
  <2>1. PICK w : w = <<"colon", "q", "sp">>
    OBVIOUS
  <2>2. Len(w) = 3 /\ w[1] = "colon"
    BY <2>1
  <2>3. t[k + 1 - 1] = w[1] /\ k + 1 - 1 = k
    BY <2>1, <2>2 DEF HasAt, NumberAt
  <2> QED BY <2>2, <2>3
<1>5. ParseFrom(t, p) = <<Pair(NumName, v)>> \o ParseFrom(t, n + 1)
  <2>1. k = p + 1 => t[p] = "sp"
    OBVIOUS
  <2>2. PICK pair, next : pair = Pair(NumName, v) /\ next = n + 1
    OBVIOUS
  <2>3. NameNear(t, n, p, k)
    BY <1>1, <1>2, <1>4, <2>1 DEF NameNear
  <2>4. PairIs(t, k, pair, next)
    BY <1>3, <2>2 DEF PairIs
  <2>5. ParseFrom(t, p) = <<pair>> \o ParseFrom(t, next)
    BY <2>3, <2>4, ParseBegins
  <2> QED BY <2>2, <2>5
<1>6. ParseFrom(t, n + 1) = <<>>
  <2>1. n + 1 \in 1..n + 1
    BY <1>2
  <2> QED BY <1>1, <1>2, <2>1, ParseEnds
<1>7. PICK x : x = Pair(NumName, v)
  OBVIOUS
<1>8. <<x>> \o <<>> = <<x>>
  OBVIOUS
<1> QED BY <1>5, <1>6, <1>7, <1>8

(* what may follow the pairs: nothing, or the newline that backwards_afgets() *)
(* leaves                                                                   *)
Tails == {<<>>, <<"nl">>}

(* a tail is no more than a newline *)
LEMMA TailIs ==
  ASSUME NEW w \in Tails
  PROVE  w \in Seq(Char) /\ Len(w) \in {0, 1} /\ (Len(w) = 1 => w[1] = "nl")
<1>1. CASE w = <<>>
  BY <1>1
<1>2. CASE w = <<"nl">>
  <2>1. "nl" \in Char
    BY DEF Char
  <2>2. w \in Seq(Char) /\ Len(w) = 1 /\ w[1] = "nl"
    BY <1>2, <2>1
  <2> QED BY <2>2
<1> QED BY <1>1, <1>2 DEF Tails

(* a line without arguments names no member *)
LEMMA NothingParsed ==
  ASSUME NEW w \in Tails
  PROVE  Parse(w) = <<>>
<1>1. w \in Seq(Char) /\ Len(w) \in {0, 1} /\ (Len(w) = 1 => w[1] = "nl")
  BY TailIs
<1>2. PICK n : n = Len(w)
  OBVIOUS
<1>3. n \in Nat /\ 1 \in 1..n + 1 /\ (1 = n + 1 \/ (w[1] # "sp" /\ w[1] # "colon"))
  BY <1>1, <1>2
<1>4. ParseFrom(w, 1) = <<>>
  BY <1>1, <1>2, <1>3, ParseEnds
<1> QED BY <1>1, <1>4, ParseUnfolds

(* the string alone comes back *)
LEMMA StringParsed ==
  ASSUME NEW s \in Seq(Writable), NEW a \in Seq(Char), StringText(a, Escape(s)), NEW w \in Tails
  PROVE  Parse(a \o w) = <<Pair(StrName, s)>>
<1>1. PICK n, m, t : n = Len(a) /\ m = Len(w) /\ t = a \o w
  OBVIOUS
<1>2. w \in Seq(Char) /\ m \in {0, 1} /\ (m = 1 => w[1] = "nl") /\ n \in Nat
  <2>1. w \in Seq(Char) /\ Len(w) \in {0, 1} /\ (Len(w) = 1 => w[1] = "nl")
    BY TailIs
  <2>2. n \in Nat
    BY <1>1
  <2> QED BY <1>1, <2>1, <2>2
<1>3. /\ t \in Seq(Char) /\ Len(t) = n + m
      /\ \A j \in 1..n : t[j] = a[j]
      /\ \A j \in 1..m : t[n + j] = w[j]
  <2>1. Join(t, a, n, w, m)
    BY <1>1, <1>2, Joined
  <2> QED BY <2>1 DEF Join
<1>4. ParseFrom(t, 1) = <<Pair(StrName, s)>> \o ParseFrom(t, n + 1)
  <2>1. n <= Len(t) /\ Len(a) = n /\ t \in Seq(Char)
    BY <1>1, <1>2, <1>3
  <2>2. Alike(a, t, n)
    BY <1>3 DEF Alike
  <2> QED BY <2>1, <2>2, StringFirst
<1>5. ParseFrom(t, n + 1) = <<>>
  <2>1. PICK l, p : l = n + m /\ p = n + 1
    OBVIOUS
  <2>2. l \in Nat /\ Len(t) = l /\ p \in 1..l + 1 /\ (m = 0 => p = l + 1)
    BY <1>2, <1>3, <2>1
  <2>3. m = 1 => t[p] = "nl"
    BY <1>2, <1>3, <2>1
  <2>4. p = l + 1 \/ (t[p] # "sp" /\ t[p] # "colon")
    BY <1>2, <2>2, <2>3
  <2> QED BY <1>3, <2>1, <2>2, <2>4, ParseEnds
<1>6. PICK x : x = Pair(StrName, s)
  OBVIOUS
<1>7. <<x>> \o <<>> = <<x>>
  OBVIOUS
<1> QED BY <1>1, <1>3, <1>4, <1>5, <1>6, <1>7, ParseUnfolds

(* the number with what follows, behind a text b *)
LEMMA NumberBehind ==
  ASSUME NEW d \in Digit, NEW w \in Tails, NEW b \in Seq(Char), NEW n, Len(b) = n, NEW t,
         t = (b \o <<"colon", "q", "sp", d>>) \o w
  PROVE  /\ t \in Seq(Char) /\ <<d>> \o w \in {<<d>>, <<d, "nl">>}
         /\ NumberAt(t, n + 1, <<d>> \o w) /\ Alike(b, t, n)
<1>1. d \in Char /\ "nl" \in Char /\ "colon" \in Char /\ "q" \in Char /\ "sp" \in Char
  BY DEF Char
<1>2. PICK c, x, u, m : c = <<"colon", "q", "sp", d>> /\ x = b \o c /\ u = <<d>> \o w /\ m = Len(w)
  OBVIOUS
<1>3. c \in Seq(Char) /\ Len(c) = 4 /\ c[1] = "colon" /\ c[2] = "q" /\ c[3] = "sp" /\ c[4] = d
  BY <1>1, <1>2
<1>4. w \in Seq(Char) /\ m \in {0, 1} /\ n \in Nat
  <2>1. w \in Seq(Char) /\ Len(w) \in {0, 1}
    BY TailIs
  <2>2. n \in Nat
    OBVIOUS
  <2> QED BY <1>2, <2>1, <2>2
<1>5. u \in {<<d>>, <<d, "nl">>}
  <2>1. CASE w = <<>>
    <3>1. <<d>> \in Seq(Char)
      BY <1>1
    <3> QED BY <1>2, <2>1, <3>1, ConcatEmptySeq
  <2>2. CASE w = <<"nl">>
    BY <1>1, <1>2, <2>2, TwoCharacters
  <2> QED BY <2>1, <2>2 DEF Tails
<1>6. u \in Seq(Char) /\ Len(u) = 1 + m /\ u[1] = d /\ \A j \in 1..m : u[1 + j] = w[j]
  <2>1. PICK y : y = <<d>>
    OBVIOUS
  <2>2. y \in Seq(Char) /\ Len(y) = 1 /\ y[1] = d
    BY <1>1, <2>1
  <2>3. Join(u, y, 1, w, m)
    BY <1>2, <1>4, <2>1, <2>2, Joined
  <2> QED BY <2>2, <2>3 DEF Join
<1>7. /\ x \in Seq(Char) /\ Len(x) = n + 4
      /\ \A j \in 1..n : x[j] = b[j]
      /\ \A j \in 1..4 : x[n + j] = c[j]
  <2>1. Join(x, b, n, c, 4)
    BY <1>2, <1>3, Joined
  <2> QED BY <2>1 DEF Join
<1>8. /\ t \in Seq(Char) /\ Len(t) = (n + 4) + m
      /\ \A j \in 1..n + 4 : t[j] = x[j]
      /\ \A j \in 1..m : t[(n + 4) + j] = w[j]
  <2>1. Join(t, x, n + 4, w, m)
    BY <1>2, <1>4, <1>7, Joined
  <2> QED BY <2>1 DEF Join
<1>9. \A j \in 1..4 : n + j \in 1..n + 4 /\ t[n + j] = c[j]
  <2>1. \A j \in 1..4 : n + j \in 1..n + 4
    BY <1>4
  <2> QED BY <1>7, <1>8, <2>1
<1>10. HasAt(t, n + 1, <<"colon", "q", "sp">>)
  <2>1. PICK y : y = <<"colon", "q", "sp">>
    OBVIOUS
  <2>2. Len(y) = 3 /\ y[1] = "colon" /\ y[2] = "q" /\ y[3] = "sp"
    BY <2>1
  <2>3. \A j \in 1..3 : (n + 1) + j - 1 = n + j /\ j \in 1..4 /\ (j = 1 \/ j = 2 \/ j = 3)
    BY <1>4
  <2>4. \A j \in 1..3 : y[j] = c[j]
    BY <1>3, <2>2, <2>3
  <2>5. \A j \in 1..3 : t[(n + 1) + j - 1] = y[j]
    BY <1>9, <2>3, <2>4
  <2> QED BY <2>1, <2>2, <2>5 DEF HasAt
<1>11. HasAt(t, (n + 1) + 3, u)
  <2> SUFFICES ASSUME NEW j \in 1..1 + m
               PROVE  t[(n + 1) + 3 + j - 1] = u[j]
    BY <1>6 DEF HasAt
  <2>1. CASE j = 1
    <3>1. (n + 1) + 3 + j - 1 = n + 4 /\ 4 \in 1..4
      BY <1>4, <2>1
    <3> QED BY <1>3, <1>6, <1>9, <2>1, <3>1
  <2>2. CASE j = 2
    <3>1. (n + 1) + 3 + j - 1 = (n + 4) + 1 /\ 1 \in 1..m /\ j = 1 + 1
      BY <1>4, <2>2
    <3>2. t[(n + 4) + 1] = w[1] /\ u[1 + 1] = w[1]
      BY <1>6, <1>8, <3>1
    <3> QED BY <3>1, <3>2
  <2>3. j = 1 \/ j = 2
    BY <1>4
  <2> QED BY <2>1, <2>2, <2>3
<1>12. Len(t) = (n + 1) + 2 + Len(u)
  BY <1>4, <1>6, <1>8
<1>13. \A j \in 1..n : j \in 1..n + 4 /\ t[j] = b[j]
  BY <1>4, <1>7, <1>8
<1>14. NumberAt(t, n + 1, u) /\ Alike(b, t, n)
  BY <1>10, <1>11, <1>12, <1>13 DEF NumberAt, Alike
<1> QED BY <1>2, <1>5, <1>8, <1>14

(* the number alone comes back, with what follows it *)
LEMMA NumberParsed ==
  ASSUME NEW d \in Digit, NEW w \in Tails
  PROVE  Parse(<<"colon", "q", "sp", d>> \o w) = <<Pair(NumName, <<d>> \o w)>>
<1>1. PICK b, c, t : b = <<>> /\ c = <<"colon", "q", "sp", d>> /\ t = (b \o c) \o w
  OBVIOUS
<1>2. b \in Seq(Char) /\ Len(b) = 0 /\ c \in Seq(Char) /\ b \o c = c
  <2>1. d \in Char /\ "colon" \in Char /\ "q" \in Char /\ "sp" \in Char
    BY DEF Char
  <2>2. c \in Seq(Char)
    BY <1>1, <2>1
  <2> QED BY <1>1, <2>2, ConcatEmptySeq
<1>3. PICK v : v = <<d>> \o w
  OBVIOUS
<1>4. t \in Seq(Char) /\ v \in {<<d>>, <<d, "nl">>} /\ NumberAt(t, 0 + 1, v)
  BY <1>1, <1>2, <1>3, NumberBehind
<1>5. 0 + 1 = 1 /\ 1 \in Nat /\ 1 > 0 /\ 1 \in {1, 1 - 1} /\ 1 # 1 - 1
  OBVIOUS
<1>6. NumberAt(t, 1, v)
  BY <1>4, <1>5
<1>7. ParseFrom(t, 1) = <<Pair(NumName, v)>>
  BY <1>4, <1>5, <1>6, NumberLast
<1> QED BY <1>1, <1>2, <1>3, <1>4, <1>7, ParseUnfolds

(* the string and the number come back *)
LEMMA BothParsed ==
  ASSUME NEW s \in Seq(Writable), NEW a \in Seq(Char), StringText(a, Escape(s)), NEW d \in Digit, NEW w \in Tails
  PROVE  Parse(((a \o <<"sp">>) \o <<"colon", "q", "sp", d>>) \o w)
           = <<Pair(StrName, s), Pair(NumName, <<d>> \o w)>>
<1>1. PICK y, b, t, n, v : /\ y = <<"sp">> /\ b = a \o y /\ n = Len(a) /\ v = <<d>> \o w
                           /\ t = (b \o <<"colon", "q", "sp", d>>) \o w
  OBVIOUS
<1>2. y \in Seq(Char) /\ Len(y) = 1 /\ y[1] = "sp" /\ n \in Nat
  BY <1>1 DEF Char
<1>3. b \in Seq(Char) /\ Len(b) = n + 1 /\ b[n + 1] = "sp" /\ \A j \in 1..n : b[j] = a[j]
  <2>1. Join(b, a, n, y, 1)
    BY <1>1, <1>2, Joined
  <2> QED BY <1>2, <2>1 DEF Join
<1>4. PICK k, l : l = n + 1 /\ k = l + 1
  OBVIOUS
<1>5. /\ t \in Seq(Char) /\ v \in {<<d>>, <<d, "nl">>} /\ NumberAt(t, k, v)
      /\ \A j \in 1..l : t[j] = b[j]
  <2>1. Len(b) = l
    BY <1>3, <1>4
  <2>2. t \in Seq(Char) /\ v \in {<<d>>, <<d, "nl">>} /\ NumberAt(t, l + 1, v) /\ Alike(b, t, l)
    BY <1>1, <1>3, <2>1, NumberBehind
  <2> QED BY <1>4, <2>2 DEF Alike
<1>6. \A j \in 1..n : j \in 1..l /\ t[j] = a[j]
  BY <1>2, <1>3, <1>4, <1>5
<1>7. n <= Len(t) /\ Len(v) \in Nat
  <2>1. Len(v) \in {1, 2}
    BY <1>5
  <2>2. Len(t) = k + 2 + Len(v)
    BY <1>5 DEF NumberAt
  <2> QED BY <1>2, <1>4, <2>1, <2>2
<1>8. ParseFrom(t, 1) = <<Pair(StrName, s)>> \o ParseFrom(t, l)
  <2>1. Len(a) = n /\ t \in Seq(Char) /\ n <= Len(t) /\ Alike(a, t, n)
    BY <1>1, <1>5, <1>6, <1>7 DEF Alike
  <2>2. ParseFrom(t, 1) = <<Pair(StrName, s)>> \o ParseFrom(t, n + 1)
    BY <2>1, StringFirst
  <2> QED BY <1>4, <2>2
<1>9. ParseFrom(t, l) = <<Pair(NumName, v)>>
  <2>1. l \in {k, k - 1} /\ l > 0 /\ k \in Nat /\ k > 0 /\ l \in 1..l
    BY <1>2, <1>4
  <2>2. t[l] = "sp"
    BY <1>3, <1>4, <1>5, <2>1
  <2> QED BY <1>5, <2>1, <2>2, NumberLast
<1>10. PICK p, q, S : p = Pair(StrName, s) /\ q = Pair(NumName, v) /\ S = {p, q}
  OBVIOUS
<1>11. <<p>> \o <<q>> = <<p, q>>
  <2>1. p \in S /\ q \in S
    BY <1>10
  <2> QED BY <2>1, TwoCharacters
<1> QED BY <1>1, <1>5, <1>8, <1>9, <1>10, <1>11, ParseUnfolds

-----------------------------------------------------------------------------
(* Cutting a line at its newline and its separator                              *)

(* the character c is not in a *)
Without(a, c) == \A j \in 1..Len(a) : a[j] # c

(* two texts without c make a text without c *)
LEMMA WithoutJoined ==
  ASSUME NEW a \in Seq(Char), NEW b \in Seq(Char), NEW c, Without(a, c), Without(b, c)
  PROVE  Without(a \o b, c)
<1>1. PICK t, n, m : t = a \o b /\ n = Len(a) /\ m = Len(b)
  OBVIOUS
<1>2. n \in Nat /\ m \in Nat
  BY <1>1
<1>3. /\ t \in Seq(Char) /\ Len(t) = n + m
      /\ \A j \in 1..n : t[j] = a[j]
      /\ \A j \in 1..m : t[n + j] = b[j]
  <2>1. Join(t, a, n, b, m)
    BY <1>1, Joined
  <2> QED BY <2>1 DEF Join
<1>4. ASSUME NEW j \in 1..n + m
      PROVE  t[j] # c
  <2>1. CASE j <= n
    BY <1>1, <1>2, <1>3, <2>1 DEF Without
  <2>2. CASE j > n
    <3>1. j - n \in 1..m /\ n + (j - n) = j
      BY <1>2, <2>2
    <3>2. t[j] = b[j - n]
      BY <1>3, <3>1
    <3> QED BY <1>1, <3>1, <3>2 DEF Without
  <2> QED BY <1>2, <2>1, <2>2
<1> QED BY <1>1, <1>3, <1>4 DEF Without

(* what is in front of the first c, and what is behind it *)
Before(t, c) == SubSeq(t, 1, FirstOf(t, 1, {c}) - 1)
Behind(t, c) == SubSeq(t, FirstOf(t, 1, {c}) + 1, Len(t))

(* a text with no c in it is read to its end *)
LEMMA CutNone ==
  ASSUME NEW a \in Seq(Char), NEW c, Without(a, c)
  PROVE  Before(a, c) = a
<1>1. PICK n, C : n = Len(a) /\ C = {c}
  OBVIOUS
<1>2. n \in Nat /\ 1 \in 1..n + 1 /\ n + 1 \in 1..n + 1 /\ (n + 1) - 1 = n
  BY <1>1
<1>3. \A j \in 1..n : a[j] \notin C
  BY <1>1 DEF Without
<1>4. PICK i : i = n + 1
  OBVIOUS
<1>5. FirstOf(a, 1, C) = i
  BY <1>1, <1>2, <1>3, <1>4, FirstOfIs
<1>6. SubSeq(a, 1, n) = a
  <2>1. PICK u : u = SubSeq(a, 1, n)
    OBVIOUS
  <2>2. u \in Seq(Char) /\ Len(u) = n /\ \A j \in 1..n : u[j] = a[j]
    BY <1>1, <1>2, <2>1, SubSeqProperties
  <2>3. Len(u) = Len(a) /\ \A j \in 1..Len(u) : u[j] = a[j]
    BY <1>1, <2>2
  <2> QED BY <2>1, <2>2, <2>3, SeqEqual
<1> QED BY <1>1, <1>2, <1>4, <1>5, <1>6 DEF Before

(* t is a, the character c, which is not in a, and b *)
Parted(t, a, c, b) ==
  a \in Seq(Char) /\ c \in Char /\ Without(a, c) /\ b \in Seq(Char) /\ t = (a \o <<c>>) \o b

(* the first c of a text parts it in what is before and what is behind *)
LEMMA CutAt ==
  ASSUME NEW t, NEW a, NEW c, NEW b, Parted(t, a, c, b)
  PROVE  Before(t, c) = a /\ Behind(t, c) = b
<1>0. a \in Seq(Char) /\ c \in Char /\ Without(a, c) /\ b \in Seq(Char) /\ t = (a \o <<c>>) \o b
  BY DEF Parted
<1>1. PICK n, m, y, x, C : n = Len(a) /\ m = Len(b) /\ y = <<c>> /\ x = a \o y /\ C = {c}
  OBVIOUS
<1>2. n \in Nat /\ m \in Nat /\ y \in Seq(Char) /\ Len(y) = 1 /\ y[1] = c
  BY <1>0, <1>1
<1>3. x \in Seq(Char) /\ Len(x) = n + 1 /\ x[n + 1] = c /\ \A j \in 1..n : x[j] = a[j]
  <2>1. Join(x, a, n, y, 1)
    BY <1>0, <1>1, <1>2, Joined
  <2> QED BY <1>2, <2>1 DEF Join
<1>4. PICK i, l : i = n + 1 /\ l = i + m
  OBVIOUS
<1>5. /\ t \in Seq(Char) /\ Len(t) = l
      /\ \A j \in 1..i : t[j] = x[j]
      /\ \A j \in 1..m : t[i + j] = b[j]
  <2>1. Join(t, x, i, b, m)
    BY <1>0, <1>1, <1>3, <1>4, Joined
  <2> QED BY <1>4, <2>1 DEF Join
<1>6. \A j \in 1..n : j \in 1..i /\ t[j] = a[j]
  BY <1>2, <1>3, <1>4, <1>5
<1>7. t[i] = c
  BY <1>2, <1>3, <1>4, <1>5
<1>8. FirstOf(t, 1, C) = i
  <2>1. l \in Nat /\ 1 \in 1..l + 1 /\ i \in 1..l + 1
    BY <1>2, <1>4
  <2>2. \A j \in 1..l : j < i => t[j] \notin C
    <3>1. \A j \in 1..l : j < i => j \in 1..n
      BY <1>2, <1>4
    <3> QED BY <1>0, <1>1, <1>6, <3>1 DEF Without
  <2>3. i = l + 1 \/ t[i] \in C
    BY <1>1, <1>7
  <2>4. Len(t) = l
    BY <1>5
  <2> QED BY <2>1, <2>2, <2>3, <2>4, FirstOfIs
<1>9. SubSeq(t, 1, i - 1) = a
  <2>1. PICK u : u = SubSeq(t, 1, n)
    OBVIOUS
  <2>2. n <= Len(t) /\ i - 1 = n
    BY <1>2, <1>4, <1>5
  <2>3. u \in Seq(Char) /\ Len(u) = n /\ \A j \in 1..n : u[j] = t[j]
    BY <1>2, <1>5, <2>1, <2>2, SubSeqProperties
  <2>4. Len(u) = Len(a) /\ \A j \in 1..Len(u) : u[j] = a[j]
    BY <1>1, <1>6, <2>3
  <2>5. u = a
    BY <2>3, <2>4, <1>0, SeqEqual
  <2> QED BY <2>1, <2>2, <2>5
<1>10. SubSeq(t, i + 1, Len(t)) = b
  <2>1. PICK u : u = SubSeq(t, i + 1, l)
    OBVIOUS
  <2>2. i \in Nat /\ l \in Nat /\ i + 1 \in 1..l + 1 /\ l - (i + 1) + 1 = m
    BY <1>2, <1>4
  <2>3. u \in Seq(Char) /\ Len(u) = m
    BY <1>2, <1>4, <1>5, <2>1, <2>2, SubSeqProperties
  <2>4. \A j \in 1..m : u[j] = t[i + j]
    <3> SUFFICES ASSUME NEW j \in 1..m
                 PROVE  u[j] = t[i + j]
      OBVIOUS
    <3>1. (i + 1) + j - 1 = i + j /\ j \in 1..(l - (i + 1) + 1) /\ i + 1 <= l
      BY <1>2, <1>4
    <3>2. u[j] = t[(i + 1) + j - 1]
      BY <1>2, <1>4, <1>5, <2>1, <2>2, <3>1, SubSeqProperties
    <3> QED BY <3>1, <3>2
  <2>5. Len(u) = Len(b) /\ \A j \in 1..Len(u) : u[j] = b[j]
    BY <1>1, <1>5, <2>3, <2>4
  <2>6. u = b
    BY <2>3, <2>5, <1>0, SeqEqual
  <2> QED BY <1>5, <2>1, <2>6
<1> QED BY <1>1, <1>8, <1>9, <1>10 DEF Before, Behind

(* the separator and the newline, as texts *)
LEMMA MarkAndNewline ==
  /\ "nl" \in Char /\ "mark" \in Char /\ <<"nl">> \in Seq(Char) /\ <<"mark">> \in Seq(Char) /\ <<>> \in Seq(Char)
  /\ Without(<<"mark">>, "nl") /\ Without(<<"nl">>, "mark")
<1>1. "nl" \in Char /\ "mark" \in Char
  BY DEF Char
<1>2. Without(<<"mark">>, "nl")
  <2>1. PICK y : y = <<"mark">>
    OBVIOUS
  <2>2. Len(y) = 1 /\ y[1] = "mark"
    BY <2>1
  <2> QED BY <2>1, <2>2 DEF Without
<1>3. Without(<<"nl">>, "mark")
  <2>1. PICK y : y = <<"nl">>
    OBVIOUS
  <2>2. Len(y) = 1 /\ y[1] = "nl"
    BY <2>1
  <2> QED BY <2>1, <2>2 DEF Without
<1> QED BY <1>1, <1>2, <1>3

(* Free in terms of Without *)
LEMMA FreeIs ==
  ASSUME NEW a, Free(a)
  PROVE  a \in Seq(Char) /\ Without(a, "nl") /\ Without(a, "mark")
BY DEF Free, Without

(* the arguments of a line with no separator *)
LEMMA ForwardAlone ==
  ASSUME NEW a, Free(a)
  PROVE  ForwardArguments(a \o <<"nl">>) = a
<1>1. a \in Seq(Char) /\ Without(a, "nl") /\ Without(a, "mark")
  BY FreeIs
<1>2. PICK t : t = a \o <<"nl">>
  OBVIOUS
<1>3. t \in Seq(Char) /\ t = (a \o <<"nl">>) \o <<>>
  <2>1. t \in Seq(Char)
    BY <1>1, <1>2, MarkAndNewline, ConcatProperties
  <2>2. t \o <<>> = t
    BY <2>1, ConcatEmptySeq
  <2> QED BY <1>2, <2>1, <2>2
<1>4. Before(t, "nl") = a
  <2>1. PICK o, c : o = <<>> /\ c = "nl"
    OBVIOUS
  <2>2. Parted(t, a, c, o)
    BY <1>1, <1>3, <2>1, MarkAndNewline DEF Parted
  <2>3. Before(t, c) = a
    BY <2>2, CutAt
  <2> QED BY <2>1, <2>3
<1>5. Before(a, "mark") = a
  BY <1>1, CutNone
<1> QED BY <1>2, <1>4, <1>5 DEF ForwardArguments, Before

(* a separator between two texts parts them *)
LEMMA BothSides ==
  ASSUME NEW a, Free(a), NEW b, Free(b)
  PROVE  /\ ForwardArguments(((a \o <<"mark">>) \o b) \o <<"nl">>) = a
         /\ ReverseArguments(((a \o <<"mark">>) \o b) \o <<"nl">>) = b \o <<"nl">>
<1>1. /\ a \in Seq(Char) /\ Without(a, "nl") /\ Without(a, "mark")
      /\ b \in Seq(Char) /\ Without(b, "nl") /\ Without(b, "mark")
  BY FreeIs
<1>2. PICK y, z : y = <<"mark">> /\ z = <<"nl">>
  OBVIOUS
<1>3. y \in Seq(Char) /\ z \in Seq(Char) /\ Without(y, "nl") /\ "nl" \in Char /\ "mark" \in Char /\ <<>> \in Seq(Char)
  BY <1>2, MarkAndNewline
<1>4. PICK x, u, t, v : x = a \o y /\ u = x \o b /\ t = u \o z /\ v = b \o z
  OBVIOUS
<1>5. x \in Seq(Char) /\ u \in Seq(Char) /\ t \in Seq(Char) /\ v \in Seq(Char)
  <2>1. x \in Seq(Char) /\ v \in Seq(Char)
    BY <1>1, <1>3, <1>4, ConcatProperties
  <2>2. u \in Seq(Char)
    BY <1>1, <1>4, <2>1, ConcatProperties
  <2> QED BY <1>3, <1>4, <2>1, <2>2, ConcatProperties
<1>6. Without(u, "nl")
  <2>1. Without(x, "nl")
    BY <1>1, <1>3, <1>4, WithoutJoined
  <2> QED BY <1>1, <1>4, <1>5, <2>1, WithoutJoined
<1>7. t \o <<>> = t
  BY <1>5, ConcatEmptySeq
<1>8. Before(t, "nl") = u
  <2>1. PICK o, c : o = <<>> /\ c = "nl"
    OBVIOUS
  <2>2. t = (u \o <<"nl">>) \o o
    BY <1>2, <1>4, <1>7, <2>1
  <2>3. Parted(t, u, c, o)
    BY <1>3, <1>5, <1>6, <2>1, <2>2 DEF Parted
  <2>4. Before(t, c) = u
    BY <2>3, CutAt
  <2> QED BY <2>1, <2>4
<1>9. Before(u, "mark") = a
  <2>1. u = (a \o <<"mark">>) \o b
    BY <1>2, <1>4
  <2>2. Parted(u, a, "mark", b)
    BY <1>1, <1>3, <2>1 DEF Parted
  <2> QED BY <2>2, CutAt
<1>10. Behind(t, "mark") = v
  <2>1. (x \o b) \o z = x \o (b \o z)
    <3>1. x \in Seq(Char) /\ b \in Seq(Char) /\ z \in Seq(Char)
      BY <1>1, <1>3, <1>5
    <3> QED BY <3>1, ConcatAssociative
  <2>2. t = (a \o <<"mark">>) \o v
    BY <1>2, <1>4, <2>1
  <2>3. Parted(t, a, "mark", v)
    BY <1>1, <1>3, <1>5, <2>2 DEF Parted
  <2> QED BY <2>3, CutAt
<1>11. ForwardArguments(t) = a
  BY <1>8, <1>9 DEF ForwardArguments, Before
<1>12. ReverseArguments(t) = v
  BY <1>10 DEF ReverseArguments, Behind
<1> QED BY <1>2, <1>4, <1>11, <1>12

(* nothing in front of the separator *)
LEMMA ReverseAlone ==
  ASSUME NEW b, Free(b)
  PROVE  ReverseArguments((<<"mark">> \o b) \o <<"nl">>) = b \o <<"nl">>
<1>1. PICK a : a = <<>>
  OBVIOUS
<1>2. Free(a)
  BY <1>1, MarkAndNewline DEF Free
<1>3. a \o <<"mark">> = <<"mark">>
  BY <1>1, MarkAndNewline, ConcatEmptySeq
<1> QED BY <1>2, <1>3, BothSides

-----------------------------------------------------------------------------
(* What a line says of the members                                              *)

(* the two pairs of get() *)
StringOf(s) == StringPair(StrName, s.str)
NumberOf(s) == Pair(NumName, <<s.num>>)

(* the pairs of s whose names are in c *)
Entry(c, s) ==
  IF StrName \in c THEN IF NumName \in c THEN <<StringOf(s), NumberOf(s)>> ELSE <<StringOf(s)>>
  ELSE IF NumName \in c THEN <<NumberOf(s)>> ELSE <<>>

(* a state whose string escape() is right about *)
Written(s) == s.str \in Seq(Writable) /\ s.num \in Digit

(* e names the members of c, and gives them the values they have in s *)
Reads(e, c, s) ==
  /\ Names(e) = c
  /\ StrName \in c => ValueOf(e, StrName) = s.str
  /\ NumName \in c => Number(ValueOf(e, NumName)) = s.num

(* the two members have two names *)
LEMMA NamesDiffer ==
  StrName # NumName
<1>1. PICK x, y : x = StrName /\ y = NumName
  OBVIOUS
<1>2. x[2] = "p" /\ y[2] = "q"
  BY <1>1 DEF StrName, NumName
<1> QED BY <1>1, <1>2

(* set() takes the last pair of a name *)
LEMMA ValueIs ==
  ASSUME NEW e, DOMAIN e \subseteq Nat, NEW n, NEW k \in DOMAIN e, e[k].name = n,
         \A j \in DOMAIN e : e[j].name = n => j <= k
  PROVE  ValueOf(e, n) = e[k].value
<1> DEFINE T == {j \in DOMAIN e : e[j].name = n}
<1>1. T \subseteq Nat /\ k \in T /\ \A j \in T : j <= k
  OBVIOUS
<1>2. ValueOf(e, n) = e[Max(T)].value
  BY DEF ValueOf
<1> HIDE DEF T
<1>3. Max(T) = k
  BY <1>1, MaxIs
<1> QED BY <1>2, <1>3

(* atoi() does not mind the newline behind the digit *)
LEMMA NumberOfDigit ==
  ASSUME NEW d \in Digit, NEW v, v \in {<<d>>, <<d, "nl">>}
  PROVE  Number(v) = d
<1>1. CASE v = <<d>>
  <2>1. v # <<>> /\ Head(v) = d
    BY <1>1
  <2> QED BY <2>1 DEF Number
<1>2. CASE v = <<d, "nl">>
  <2>1. v # <<>> /\ Head(v) = d
    BY <1>2
  <2> QED BY <2>1 DEF Number
<1> QED BY <1>1, <1>2

(* an entry of one pair *)
LEMMA OneName ==
  ASSUME NEW n, NEW v
  PROVE  Names(<<Pair(n, v)>>) = {n} /\ ValueOf(<<Pair(n, v)>>, n) = v
<1>1. PICK p, e : p = Pair(n, v) /\ e = <<p>>
  OBVIOUS
<1>2. DOMAIN e = 1..1 /\ e[1] = p /\ p.name = n /\ p.value = v
  BY <1>1 DEF Pair
<1>3. \A j \in 1..1 : j = 1
  OBVIOUS
<1>4. Names(e) = {n}
  BY <1>2, <1>3 DEF Names
<1>5. ValueOf(e, n) = e[1].value
  <2>1. DOMAIN e \subseteq Nat /\ 1 \in DOMAIN e /\ \A j \in DOMAIN e : e[j].name = n => j <= 1
    BY <1>2
  <2> QED BY <1>2, <2>1, ValueIs
<1> QED BY <1>1, <1>2, <1>4, <1>5

(* an entry of two pairs with two names *)
LEMMA TwoNames ==
  ASSUME NEW n, NEW v, NEW m, NEW u, n # m, NEW e, e = <<Pair(n, v), Pair(m, u)>>
  PROVE  Names(e) = {n, m} /\ ValueOf(e, n) = v /\ ValueOf(e, m) = u
<1>1. PICK p, q : p = Pair(n, v) /\ q = Pair(m, u) /\ e = <<p, q>>
  OBVIOUS
<1>2. DOMAIN e = 1..2 /\ e[1] = p /\ e[2] = q /\ p.name = n /\ p.value = v /\ q.name = m /\ q.value = u
  BY <1>1 DEF Pair
<1>3. (\A j \in 1..2 : j = 1 \/ j = 2) /\ 1 \in 1..2 /\ 2 \in 1..2 /\ 1..2 \subseteq Nat
  OBVIOUS
<1>4. Names(e) = {n, m}
  BY <1>2, <1>3 DEF Names
<1>5. ValueOf(e, n) = e[1].value
  <2>1. \A j \in DOMAIN e : e[j].name = n => j = 1
    BY <1>2, <1>3
  <2>2. DOMAIN e \subseteq Nat /\ 1 \in DOMAIN e /\ \A j \in DOMAIN e : e[j].name = n => j <= 1
    BY <1>2, <1>3, <2>1
  <2> QED BY <1>2, <2>2, ValueIs
<1>6. ValueOf(e, m) = e[2].value
  <2>1. DOMAIN e \subseteq Nat /\ 2 \in DOMAIN e /\ \A j \in DOMAIN e : e[j].name = m => j <= 2
    BY <1>2
  <2> QED BY <1>2, <2>1, ValueIs
<1> QED BY <1>2, <1>4, <1>5, <1>6

(* an entry of the program, printed and read with what may follow *)
LEMMA EntryReads ==
  ASSUME NEW s, Written(s), NEW c \in SUBSET {StrName, NumName}, NEW w \in Tails
  PROVE  /\ Free(Printed(Entry(c, s)))
         /\ Reads(Parse(Printed(Entry(c, s)) \o w), c, s)
<1>1. PICK e, t, d, z : e = Entry(c, s) /\ t = Printed(e) /\ d = s.num /\ z = s.str
  OBVIOUS
<1>2. z \in Seq(Writable) /\ d \in Digit
  BY <1>1 DEF Written
<1>3. PICK p, q : p = StringOf(s) /\ q = NumberOf(s)
  OBVIOUS
<1>4. p = StringPair(StrName, z) /\ q = Pair(NumName, <<d>>)
  BY <1>1, <1>3 DEF StringOf, NumberOf
<1>5. PICK a, b : a = PairText(p) /\ b = <<"colon", "q", "sp", d>>
  OBVIOUS
<1>6. StringText(a, Escape(z)) /\ Free(a) /\ a \in Seq(Char) /\ p.name \in Seq(Char) /\ p.value \in Seq(Char)
  BY <1>2, <1>4, <1>5, StringPrinted DEF Free
<1>7. PairText(q) = b /\ Free(b) /\ q.name \in Seq(Char) /\ q.value \in Seq(Char)
  BY <1>2, <1>4, <1>5, NumberPrinted
<1>8. PICK v : v = <<d>> \o w
  OBVIOUS
<1>9. v \in {<<d>>, <<d, "nl">>}
  <2>1. PICK g, t0 : g = <<>> /\ t0 = (g \o <<"colon", "q", "sp", d>>) \o w
    OBVIOUS
  <2>2. g \in Seq(Char) /\ Len(g) = 0
    BY <2>1
  <2> QED BY <1>2, <1>8, <2>1, <2>2, NumberBehind
<1>10. Number(v) = d
  BY <1>2, <1>9, NumberOfDigit
<1>11. PICK r : r = Parse(t \o w)
  OBVIOUS
<1>12. CASE StrName \notin c /\ NumName \notin c
  <2>1. e = <<>> /\ c = {}
    BY <1>1, <1>12 DEF Entry
  <2>2. t = <<>>
    <3>1. DOMAIN e = {}
      BY <2>1
    <3>2. Printed(e) = FlattenSeq(<<>>)
      BY <2>1 DEF Printed
    <3> QED BY <1>1, <3>2, FlattenEmpty
  <2>3. Free(t)
    BY <2>2 DEF Free
  <2>4. t \o w = w
    <3>1. w \in Seq(Char)
      BY TailIs
    <3> QED BY <2>2, <3>1, ConcatEmptySeq
  <2>5. r = <<>>
    BY <1>11, <2>4, NothingParsed
  <2>6. Names(r) = {}
    BY <2>5 DEF Names
  <2> QED BY <1>1, <1>11, <1>12, <2>1, <2>3, <2>6 DEF Reads
<1>13. CASE StrName \in c /\ NumName \notin c
  <2>1. e = <<p>> /\ c = {StrName}
    BY <1>1, <1>3, <1>13 DEF Entry
  <2>2. t = a
    BY <1>1, <1>5, <1>6, <2>1, PrintedOne
  <2>3. r = <<Pair(StrName, z)>>
    BY <1>2, <1>6, <1>11, <2>2, StringParsed
  <2>4. Names(r) = {StrName} /\ ValueOf(r, StrName) = z
    BY <2>3, OneName
  <2> QED BY <1>1, <1>6, <1>11, <1>13, <2>1, <2>2, <2>4 DEF Reads
<1>14. CASE StrName \notin c /\ NumName \in c
  <2>1. e = <<q>> /\ c = {NumName}
    BY <1>1, <1>3, <1>14 DEF Entry
  <2>2. t = b
    BY <1>1, <1>7, <2>1, PrintedOne
  <2>3. r = <<Pair(NumName, v)>>
    BY <1>2, <1>5, <1>8, <1>11, <2>2, NumberParsed
  <2>4. Names(r) = {NumName} /\ ValueOf(r, NumName) = v
    BY <2>3, OneName
  <2> QED BY <1>1, <1>7, <1>10, <1>11, <1>14, <2>1, <2>2, <2>4 DEF Reads
<1>15. CASE StrName \in c /\ NumName \in c
  <2>1. e = <<p, q>> /\ c = {StrName, NumName}
    BY <1>1, <1>3, <1>15 DEF Entry
  <2>2. t = (a \o <<"sp">>) \o b
    BY <1>1, <1>5, <1>6, <1>7, <2>1, PrintedTwo
  <2>3. r = <<Pair(StrName, z), Pair(NumName, v)>>
    BY <1>2, <1>5, <1>6, <1>8, <1>11, <2>2, BothParsed
  <2>4. Names(r) = {StrName, NumName} /\ ValueOf(r, StrName) = z /\ ValueOf(r, NumName) = v
    BY <2>3, NamesDiffer, TwoNames
  <2>5. Free(t)
    <3>1. PICK y : y = <<"sp">>
      OBVIOUS
    <3>2. Free(y)
      <4>1. y \in Seq(Char) /\ Len(y) = 1 /\ y[1] = "sp"
        BY <3>1 DEF Char
      <4> QED BY <4>1 DEF Free
    <3>3. Free(a \o y)
      BY <1>6, <3>2, FreeJoined
    <3> QED BY <1>7, <2>2, <3>1, <3>3, FreeJoined
  <2> QED BY <1>1, <1>10, <1>11, <2>1, <2>4, <2>5 DEF Reads
<1> QED BY <1>12, <1>13, <1>14, <1>15

-----------------------------------------------------------------------------
(* diff()                                                                       *)

(* two pairs for the string are the same only for the same string *)
LEMMA SameString ==
  ASSUME NEW r, Written(r), NEW s, Written(s)
  PROVE  StringOf(r) = StringOf(s) <=> r.str = s.str
<1>1. r.str = s.str => StringOf(r) = StringOf(s)
  BY DEF StringOf
<1>2. ASSUME StringOf(r) = StringOf(s)
      PROVE  r.str = s.str
  <2>1. PICK y, z, p : y = r.str /\ z = s.str /\ p = StringOf(r)
    OBVIOUS
  <2>2. y \in Seq(Writable) /\ z \in Seq(Writable)
    BY <2>1 DEF Written
  <2>3. p = StringPair(StrName, y) /\ p = StringPair(StrName, z)
    BY <1>2, <2>1 DEF StringOf
  <2>4. PICK e, f, a : e = Escape(y) /\ f = Escape(z) /\ a = PairText(p)
    OBVIOUS
  <2>5. StringText(a, e) /\ StringText(a, f)
    BY <2>2, <2>3, <2>4, StringPrinted
  <2>6. e \in Seq(Char) /\ f \in Seq(Char) /\ Unescape(e) = y /\ Unescape(f) = z
    BY <2>2, <2>4, EscapeIsRead DEF Neat
  <2>7. PICK n, m : n = Len(e) /\ m = Len(f)
    OBVIOUS
  <2>8. n \in Nat /\ m \in Nat /\ n + 5 = m + 5
    BY <2>5, <2>6, <2>7 DEF StringText
  <2>9. n = m
    BY <2>8
  <2>10. \A j \in 1..n : e[j] = a[5 + j - 1] /\ f[j] = a[5 + j - 1]
    BY <2>5, <2>7, <2>9 DEF StringText, HasAt
  <2>11. e = f
    <3>1. Len(e) = Len(f) /\ \A j \in 1..Len(e) : e[j] = f[j]
      BY <2>7, <2>9, <2>10
    <3> QED BY <2>6, <3>1, SeqEqual
  <2> QED BY <2>1, <2>6, <2>11
<1> QED BY <1>1, <1>2

(* nor are two pairs for the number *)
LEMMA SameNumber ==
  ASSUME NEW r, NEW s
  PROVE  NumberOf(r) = NumberOf(s) <=> r.num = s.num
<1>1. r.num = s.num => NumberOf(r) = NumberOf(s)
  BY DEF NumberOf
<1>2. ASSUME NumberOf(r) = NumberOf(s)
      PROVE  r.num = s.num
  <2>1. NumberOf(r).value = <<r.num>> /\ NumberOf(s).value = <<s.num>>
    BY DEF NumberOf, Pair
  <2>2. PICK x, y : x = <<r.num>> /\ y = <<s.num>>
    OBVIOUS
  <2>3. x = y /\ x[1] = r.num /\ y[1] = s.num
    BY <1>2, <2>1, <2>2
  <2> QED BY <2>3
<1> QED BY <1>1, <1>2

(* the elements of an entry at the places where two entries of two pairs differ *)
LEMMA DifferingIs ==
  ASSUME NEW x, NEW y, NEW e, e = <<x, y>>, NEW p, NEW q, NEW e1, e1 = <<p, q>>, NEW u, NEW v, NEW e2, e2 = <<u, v>>
  PROVE  Differing(e, e1, e2) = IF p # u THEN IF q # v THEN <<x, y>> ELSE <<x>>
                                ELSE IF q # v THEN <<y>> ELSE <<>>
<1>1. PICK S, T : S = {x, y} /\ T = Seq(S)
  OBVIOUS
<1>2. PICK a, b : a = (IF p = u THEN <<>> ELSE <<x>>) /\ b = (IF q = v THEN <<>> ELSE <<y>>)
  OBVIOUS
<1>3. a \in T /\ b \in T
  <2>1. <<>> \in T /\ <<x>> \in T /\ <<y>> \in T
    BY <1>1
  <2> QED BY <1>2, <2>1
<1>4. PICK f : f = [k \in DOMAIN e1 |-> IF e1[k] = e2[k] THEN <<>> ELSE <<e[k]>>]
  OBVIOUS
<1>5. DOMAIN e1 = 1..2 /\ e1[1] = p /\ e1[2] = q /\ e2[1] = u /\ e2[2] = v /\ e[1] = x /\ e[2] = y
  OBVIOUS
<1>6. f[1] = a /\ f[2] = b
  <2>1. 1 \in DOMAIN e1 /\ 2 \in DOMAIN e1
    BY <1>5
  <2>2. f[1] = (IF e1[1] = e2[1] THEN <<>> ELSE <<e[1]>>) /\ f[2] = (IF e1[2] = e2[2] THEN <<>> ELSE <<e[2]>>)
    BY <1>4, <2>1
  <2> QED BY <1>2, <1>5, <2>2
<1>7. Len(f) = 2
  <2>1. f = [k \in 1..2 |-> f[k]]
    BY <1>4, <1>5
  <2> QED BY <2>1
<1>8. FlattenSeq(f) = a \o b
  BY <1>6, <1>7, FlattenTwo
<1>9. Differing(e, e1, e2) = a \o b
  BY <1>4, <1>8 DEF Differing
<1>10. a \o <<>> = a /\ <<>> \o b = b
  BY <1>1, <1>3, ConcatEmptySeq
<1>11. <<x>> \o <<y>> = <<x, y>>
  <2>1. x \in S /\ y \in S
    BY <1>1
  <2> QED BY <2>1, TwoCharacters
<1>12. CASE p = u
  BY <1>2, <1>9, <1>10, <1>12
<1>13. CASE p # u /\ q = v
  BY <1>2, <1>9, <1>10, <1>13
<1>14. CASE p # u /\ q # v
  BY <1>2, <1>9, <1>11, <1>14
<1> QED BY <1>12, <1>13, <1>14

(* the names of the members that differ *)
Changed(r, s) == {n \in {StrName, NumName} : IF n = StrName THEN r.str # s.str ELSE r.num # s.num}

(* which members are in it *)
LEMMA ChangedIs ==
  ASSUME NEW r, NEW s
  PROVE  /\ Changed(r, s) \in SUBSET {StrName, NumName}
         /\ StrName \in Changed(r, s) <=> r.str # s.str
         /\ NumName \in Changed(r, s) <=> r.num # s.num
BY NamesDiffer DEF Changed

(* diff() keeps the members that changed, on both sides *)
LEMMA DiffIs ==
  ASSUME NEW r, Written(r), NEW s, Written(s)
  PROVE  Diff(Get(r), Get(s)) = <<Entry(Changed(r, s), r), Entry(Changed(r, s), s)>>
<1>1. PICK p, q, u, v, e1, e2, c :
        /\ p = StringOf(r) /\ q = NumberOf(r) /\ u = StringOf(s) /\ v = NumberOf(s)
        /\ e1 = <<p, q>> /\ e2 = <<u, v>> /\ c = Changed(r, s)
  OBVIOUS
<1>2. Get(r) = e1 /\ Get(s) = e2
  BY <1>1 DEF Get, StringOf, NumberOf
<1>3. StrName \in c <=> p # u
  BY <1>1, SameString, ChangedIs
<1>4. NumName \in c <=> q # v
  BY <1>1, SameNumber, ChangedIs
<1>5. Differing(e1, e1, e2) = IF p # u THEN IF q # v THEN <<p, q>> ELSE <<p>>
                              ELSE IF q # v THEN <<q>> ELSE <<>>
  BY <1>1, DifferingIs
<1>6. Differing(e2, e1, e2) = IF p # u THEN IF q # v THEN <<u, v>> ELSE <<u>>
                              ELSE IF q # v THEN <<v>> ELSE <<>>
  BY <1>1, DifferingIs
<1>7. Entry(c, r) = IF StrName \in c THEN IF NumName \in c THEN <<p, q>> ELSE <<p>>
                    ELSE IF NumName \in c THEN <<q>> ELSE <<>>
  BY <1>1 DEF Entry
<1>8. Entry(c, s) = IF StrName \in c THEN IF NumName \in c THEN <<u, v>> ELSE <<u>>
                    ELSE IF NumName \in c THEN <<v>> ELSE <<>>
  BY <1>1 DEF Entry
<1>9. Differing(e1, e1, e2) = Entry(c, r)
  BY <1>3, <1>4, <1>5, <1>7
<1>10. Differing(e2, e1, e2) = Entry(c, s)
  BY <1>3, <1>4, <1>6, <1>8
<1> QED BY <1>1, <1>2, <1>9, <1>10 DEF Diff

-----------------------------------------------------------------------------
(* The line of a change, and what it does                                       *)

(* what the strings of the program do not hold: backslashes, which escape()   *)
(* leaves alone, and separators                                               *)
Plain == "back" \notin Chars /\ "mark" \notin Chars

(* the strings of the program are such texts *)
LEMMA StateWritten ==
  ASSUME Plain, NEW s \in State
  PROVE  Written(s)
<1>1. s.str \in String /\ s.num \in Digit
  BY DEF State
<1>2. Chars \subseteq Writable
  BY LogEntryAssumption DEF Plain, Writable
<1>3. PICK n \in 0..MaxLen : s.str \in [1..n -> Chars]
  BY <1>1 DEF String
<1>4. PICK z : z = s.str
  OBVIOUS
<1>5. z \in Seq(Writable)
  <2>1. n \in Nat
    BY LogEntryAssumption
  <2>2. z \in [1..n -> Writable]
    BY <1>2, <1>3, <1>4
  <2> QED BY <2>1, <2>2
<1> QED BY <1>1, <1>4, <1>5 DEF Written

(* the entry of all members is that of get() *)
LEMMA WholeEntry ==
  ASSUME NEW s
  PROVE  Entry({StrName, NumName}, s) = Get(s)
BY DEF Entry, Get, StringOf, NumberOf

(* set() with an entry that names every member that is not right yet *)
LEMMA SetReads ==
  ASSUME NEW s \in State, NEW c, NEW e, Reads(e, c, s), NEW r,
         StrName \notin c => r.str = s.str, NumName \notin c => r.num = s.num
  PROVE  SetMembers(r, e) = s
<1>1. PICK x, y : /\ x = (IF StrName \in Names(e) THEN ValueOf(e, StrName) ELSE r.str)
                  /\ y = (IF NumName \in Names(e) THEN Number(ValueOf(e, NumName)) ELSE r.num)
  OBVIOUS
<1>2. SetMembers(r, e) = [str |-> x, num |-> y]
  BY <1>1 DEF SetMembers
<1>3. x = s.str /\ y = s.num
  BY <1>1 DEF Reads
<1>4. s = [str |-> s.str, num |-> s.num]
  BY DEF State
<1> QED BY <1>2, <1>3, <1>4

(* the line that Becomes() writes when the object r becomes s *)
LineOf(r, s) ==
  IF r = Nil THEN CreateLine(s) ELSE IF s = Nil THEN DestroyLine(r) ELSE SetLine(Diff(Get(r), Get(s)))

(* Line l leads from r to s and back, and a change names what changed. *)
Faithful(r, s, l) ==
  /\ DoForward(r, l) = s
  /\ DoReverse(s, l) = r
  /\ l.cmd = "set" => /\ Names(Parse(ForwardArguments(l.text))) = Changed(r, s)
                      /\ Names(Parse(ReverseArguments(l.text))) = Changed(r, s)

(* the line of a creation: create, and back destroy *)
LEMMA CreateFaithful ==
  ASSUME Plain, NEW s \in State
  PROVE  Faithful(Nil, s, CreateLine(s))
<1>1. PICK c, a, l, w : c = {StrName, NumName} /\ a = Printed(Entry(c, s)) /\ l = CreateLine(s) /\ w = <<>>
  OBVIOUS
<1>2. l.cmd = "create" /\ l.text = a \o <<"nl">>
  BY <1>1, WholeEntry DEF CreateLine
<1>3. Free(a) /\ Reads(Parse(a \o w), c, s)
  <2>1. c \in SUBSET {StrName, NumName} /\ w \in Tails
    BY <1>1 DEF Tails
  <2> QED BY <1>1, <2>1, StateWritten, EntryReads
<1>4. a \o w = a
  BY <1>1, <1>3, ConcatEmptySeq DEF Free
<1>5. Reads(Parse(ForwardArguments(l.text)), c, s)
  BY <1>2, <1>3, <1>4, ForwardAlone
<1>6. StrName \in c /\ NumName \in c
  BY <1>1
<1>7. SetMembers(Constructed, Parse(ForwardArguments(l.text))) = s
  BY <1>5, <1>6, SetReads
<1>8. DoForward(Nil, l) = s /\ DoReverse(s, l) = Nil
  BY <1>2, <1>7 DEF DoForward, DoReverse
<1>9. l.cmd # "set"
  BY <1>2
<1> QED BY <1>1, <1>8, <1>9 DEF Faithful

(* the line of a destruction: destroy, and back create *)
LEMMA DestroyFaithful ==
  ASSUME Plain, NEW r \in State
  PROVE  Faithful(r, Nil, DestroyLine(r))
<1>1. PICK c, a, l, w : c = {StrName, NumName} /\ a = Printed(Entry(c, r)) /\ l = DestroyLine(r) /\ w = <<"nl">>
  OBVIOUS
<1>2. l.cmd = "destroy" /\ l.text = (<<"mark">> \o a) \o <<"nl">>
  BY <1>1, WholeEntry DEF DestroyLine
<1>3. Free(a) /\ Reads(Parse(a \o w), c, r)
  <2>1. c \in SUBSET {StrName, NumName} /\ w \in Tails
    BY <1>1 DEF Tails
  <2> QED BY <1>1, <2>1, StateWritten, EntryReads
<1>4. ReverseArguments(l.text) = a \o w
  BY <1>1, <1>2, <1>3, ReverseAlone
<1>5. Reads(Parse(ReverseArguments(l.text)), c, r)
  BY <1>3, <1>4
<1>6. StrName \in c /\ NumName \in c
  BY <1>1
<1>7. SetMembers(Constructed, Parse(ReverseArguments(l.text))) = r
  BY <1>5, <1>6, SetReads
<1>8. DoForward(r, l) = Nil /\ DoReverse(Nil, l) = r
  BY <1>2, <1>7 DEF DoForward, DoReverse
<1>9. l.cmd # "set"
  BY <1>2
<1> QED BY <1>1, <1>8, <1>9 DEF Faithful

(* the line of a change: the new members forward, the old ones back *)
LEMMA SetFaithful ==
  ASSUME Plain, NEW r \in State, NEW s \in State
  PROVE  Faithful(r, s, SetLine(Diff(Get(r), Get(s))))
<1>1. PICK c, d, a, b, l, v, w :
        /\ c = Changed(r, s) /\ d = Diff(Get(r), Get(s))
        /\ a = Printed(Entry(c, s)) /\ b = Printed(Entry(c, r))
        /\ l = SetLine(d) /\ v = <<>> /\ w = <<"nl">>
  OBVIOUS
<1>2. Written(r) /\ Written(s) /\ c \in SUBSET {StrName, NumName} /\ v \in Tails /\ w \in Tails
  BY <1>1, StateWritten, ChangedIs DEF Tails
<1>3. d[1] = Entry(c, r) /\ d[2] = Entry(c, s)
  BY <1>1, <1>2, DiffIs
<1>4. l.cmd = "set" /\ l.text = ((a \o <<"mark">>) \o b) \o <<"nl">>
  BY <1>1, <1>3 DEF SetLine
<1>5. Free(a) /\ Reads(Parse(a \o v), c, s)
  BY <1>1, <1>2, EntryReads
<1>6. Free(b) /\ Reads(Parse(b \o w), c, r)
  BY <1>1, <1>2, EntryReads
<1>7. a \o v = a
  BY <1>1, <1>5, ConcatEmptySeq DEF Free
<1>8. ForwardArguments(l.text) = a /\ ReverseArguments(l.text) = b \o w
  BY <1>1, <1>4, <1>5, <1>6, BothSides
<1>9. Reads(Parse(ForwardArguments(l.text)), c, s) /\ Reads(Parse(ReverseArguments(l.text)), c, r)
  BY <1>5, <1>6, <1>7, <1>8
<1>10. (StrName \notin c => r.str = s.str) /\ (NumName \notin c => r.num = s.num)
  BY <1>1, ChangedIs
<1>11. SetMembers(r, Parse(ForwardArguments(l.text))) = s
  BY <1>9, <1>10, SetReads
<1>12. SetMembers(s, Parse(ReverseArguments(l.text))) = r
  BY <1>9, <1>10, SetReads
<1>13. DoForward(r, l) = s /\ DoReverse(s, l) = r
  BY <1>4, <1>11, <1>12 DEF DoForward, DoReverse
<1>14. Names(Parse(ForwardArguments(l.text))) = c /\ Names(Parse(ReverseArguments(l.text))) = c
  BY <1>9 DEF Reads
<1> QED BY <1>1, <1>13, <1>14 DEF Faithful

(* every line that is written *)
LEMMA LineFaithful ==
  ASSUME Plain, NEW r \in State \cup {Nil}, NEW s \in State \cup {Nil}, r # s
  PROVE  Faithful(r, s, LineOf(r, s))
<1>1. CASE r = Nil
  BY <1>1, CreateFaithful DEF LineOf
<1>2. CASE r # Nil /\ s = Nil
  BY <1>2, DestroyFaithful DEF LineOf
<1>3. CASE r # Nil /\ s # Nil
  BY <1>3, SetFaithful DEF LineOf
<1> QED BY <1>1, <1>2, <1>3

-----------------------------------------------------------------------------
(* The invariant: ForwardRestores and ReverseRestores say nothing of what was      *)
(* written, so that they are not inductive.  The invariant says which line it is, and    *)
(* every line that could be written has been shown to lead forward and back.       *)

(* The last line is the one that Becomes() writes for the states before and     *)
(* after it.                                                                    *)
LineOK == line # Nil => was # obj /\ line = LineOf(was, obj)

IInv == obj \in State \cup {Nil} /\ was \in State \cup {Nil} /\ LineOK

(* no line at first *)
LEMMA InvInit ==
  Init => IInv
BY DEF Init, IInv, LineOK

(* what writes a line keeps the invariant *)
LEMMA BecomesKeeps ==
  ASSUME IInv, NEW s \in State \cup {Nil}, Becomes(s)
  PROVE  IInv'
<1>1. s # obj /\ obj' = s /\ was' = obj
  BY DEF Becomes
<1>2. line' = LineOf(obj, s)
  BY DEF Becomes, LineOf
<1>3. LineOK'
  BY <1>1, <1>2 DEF LineOK
<1> QED BY <1>1, <1>3 DEF IInv

(* in it, the last line leads forward and back *)
LEMMA UndoGoesBack ==
  ASSUME Plain, IInv, line # Nil
  PROVE  Faithful(was, obj, line)
<1>1. was # obj /\ line = LineOf(was, obj)
  BY DEF IInv, LineOK
<1> QED BY <1>1, LineFaithful DEF IInv

(* every step keeps it *)
LEMMA InvStep ==
  ASSUME Plain, IInv, [Next]_vars
  PROVE  IInv'
<1>1. ASSUME NEW s \in State, Create(s)
      PROVE  IInv'
  BY <1>1, BecomesKeeps DEF Create
<1>2. ASSUME NEW s \in State, Change(s)
      PROVE  IInv'
  BY <1>2, BecomesKeeps DEF Change
<1>3. ASSUME Destroy
      PROVE  IInv'
  <2>1. Nil \in State \cup {Nil} /\ Becomes(Nil)
    BY <1>3 DEF Destroy
  <2> QED BY <2>1, BecomesKeeps
<1>4. ASSUME Undo
      PROVE  IInv'
  <2>1. line # Nil /\ Becomes(DoReverse(obj, line))
    BY <1>4 DEF Undo
  <2>2. DoReverse(obj, line) = was
    BY <2>1, UndoGoesBack DEF Faithful
  <2>3. Becomes(was) /\ was \in State \cup {Nil}
    BY <2>1, <2>2 DEF IInv
  <2> QED BY <2>3, BecomesKeeps
<1>5. ASSUME UNCHANGED vars
      PROVE  IInv'
  BY <1>5 DEF vars, IInv, LineOK
<1> QED BY <1>1, <1>2, <1>3, <1>4, <1>5 DEF Next

(* so it always holds *)
LEMMA Invariant ==
  ASSUME Plain
  PROVE  Spec => []IInv
<1>1. Init => IInv
  BY InvInit
<1>2. IInv /\ [Next]_vars => IInv'
  BY InvStep
<1> QED BY <1>1, <1>2, PTL DEF Spec

(* Log_Entry::print(), escape() and Loggable::log_print() against the reading of *)
(* replay(), do_this() and parse_alist(): in a program whose strings hold no      *)
(* backslash and no separator, of any length, the last line makes the object what *)
(* it is from what it was (ForwardRestores).                                      *)
THEOREM ForwardAlwaysRestores ==
  ASSUME Plain
  PROVE  Spec => []ForwardRestores
<1>1. IInv => ForwardRestores
  BY UndoGoesBack DEF ForwardRestores, Faithful
<1> QED BY <1>1, Invariant, PTL

(* Loggable::undo() and do_this( line, true ): in such a program the last line,    *)
(* read backwards with its newline, makes the object what it was, after changes,   *)
(* creations and destructions, and after undo itself (ReverseRestores).            *)
THEOREM ReverseAlwaysRestores ==
  ASSUME Plain
  PROVE  Spec => []ReverseRestores
<1>1. IInv => ReverseRestores
  BY UndoGoesBack DEF ReverseRestores, Faithful
<1> QED BY <1>1, Invariant, PTL

(* Log_Entry::diff(): in such a program the line of a change names the members     *)
(* that changed and no other on either side of its separator                       *)
(* (LineNamesTheChange).                                                           *)
THEOREM LineAlwaysNamesTheChange ==
  ASSUME Plain
  PROVE  Spec => []LineNamesTheChange
<1>1. IInv => LineNamesTheChange
  <2> SUFFICES ASSUME IInv, line # Nil, line.cmd = "set"
               PROVE  /\ Names(Parse(ForwardArguments(line.text))) = Changed(was, obj)
                      /\ Names(Parse(ReverseArguments(line.text))) = Changed(was, obj)
    BY DEF LineNamesTheChange, Changed
  <2> QED BY UndoGoesBack DEF Faithful
<1> QED BY <1>1, Invariant, PTL
==============================================================================
