--------------------------- MODULE Queues_proofs ---------------------------
(***************************************************************************)
(* What taking members out of a queue without duplicates does to it, and   *)
(* what a filter leaves of a sequence.                                     *)
(***************************************************************************)
EXTENDS Queues, FiniteSets, FiniteSetTheorems, SequenceTheorems, WellFoundedInduction, TLAPS

Injective(s) == \A i, j \in DOMAIN s : s[i] = s[j] => i = j

\* Cutting a queue at k splits its members, without overlap.
LEMMA SplitQueue ==
    ASSUME NEW S, NEW s \in Seq(S), Injective(s), NEW k \in 0..Len(s)
    PROVE  LET pre == SubSeq(s, 1, k)
               post == SubSeq(s, k + 1, Len(s))
           IN  /\ post \in Seq(S)
               /\ Injective(post)
               /\ ToSet(pre) \cup ToSet(post) = ToSet(s)
               /\ ToSet(pre) \cap ToSet(post) = {}
               /\ ToSet(pre) \subseteq S
               /\ Len(post) = Len(s) - k
<1> DEFINE pre == SubSeq(s, 1, k)
           post == SubSeq(s, k + 1, Len(s))
<1>1. /\ pre \in Seq(S) /\ Len(pre) = k
      /\ \A i \in 1..k : pre[i] = s[i]
  BY SubSeqProperties, ElementOfSeq
<1>2. /\ post \in Seq(S) /\ Len(post) = Len(s) - k
      /\ \A i \in 1..(Len(s) - k) : post[i] = s[k + i]
  BY SubSeqProperties, ElementOfSeq
<1>3. DOMAIN pre = 1..k /\ DOMAIN post = 1..(Len(s) - k) /\ DOMAIN s = 1..Len(s)
  BY <1>1, <1>2
<1> HIDE DEF pre, post
<1>4. Injective(post)
  <2> SUFFICES ASSUME NEW i \in DOMAIN post, NEW j \in DOMAIN post, post[i] = post[j]
               PROVE  i = j
    BY DEF Injective
  <2>1. i \in Nat /\ j \in Nat /\ k + i \in DOMAIN s /\ k + j \in DOMAIN s
    BY <1>3
  <2>2. s[k + i] = s[k + j]
    BY <1>2, <1>3
  <2> QED BY <2>1, <2>2 DEF Injective
<1>5. ToSet(pre) \cup ToSet(post) = ToSet(s)
  <2>1. ToSet(pre) \subseteq ToSet(s) /\ ToSet(post) \subseteq ToSet(s)
    <3>1. \A i \in DOMAIN pre : i \in DOMAIN s /\ pre[i] = s[i]
      BY <1>1, <1>3
    <3>2. \A i \in DOMAIN post : k + i \in DOMAIN s /\ post[i] = s[k + i]
      BY <1>2, <1>3
    <3> QED BY <3>1, <3>2 DEF ToSet
  <2>2. ASSUME NEW i \in 1..Len(s) PROVE s[i] \in ToSet(pre) \cup ToSet(post)
    <3>1. CASE i <= k
      BY <3>1, <1>1, <1>3 DEF ToSet
    <3>2. CASE i > k
      <4>1. i - k \in DOMAIN post /\ post[i - k] = s[i]
        BY <3>2, <1>2, <1>3
      <4> QED BY <4>1 DEF ToSet
    <3> QED BY <3>1, <3>2
  <2> QED BY <2>1, <2>2, <1>3 DEF ToSet
<1>6. ToSet(pre) \cap ToSet(post) = {}
  <2> SUFFICES ASSUME NEW i \in DOMAIN pre, NEW j \in DOMAIN post
               PROVE  pre[i] # post[j]
    BY DEF ToSet
  <2>1. i \in Nat /\ j \in Nat /\ i \in DOMAIN s /\ k + j \in DOMAIN s /\ i # k + j
    BY <1>3
  <2>2. pre[i] = s[i] /\ post[j] = s[k + j]
    BY <1>1, <1>2, <1>3
  <2> QED BY <2>1, <2>2 DEF Injective
<1>7. ToSet(pre) \subseteq S
  BY <1>1, <1>3, ElementOfSeq DEF ToSet
<1> QED BY <1>2, <1>4, <1>5, <1>6, <1>7 DEF pre, post

\* The first k members of a queue are k members.
LEMMA PrefixCardinality ==
    ASSUME NEW S, NEW s \in Seq(S), Injective(s), NEW k \in 0..Len(s)
    PROVE  /\ IsFiniteSet(ToSet(SubSeq(s, 1, k)))
           /\ Cardinality(ToSet(SubSeq(s, 1, k))) = k
<1> DEFINE pre == SubSeq(s, 1, k)
           f == [i \in 1..k |-> s[i]]
<1>1. /\ pre \in Seq(S) /\ Len(pre) = k
      /\ \A i \in 1..k : pre[i] = s[i]
  BY SubSeqProperties, ElementOfSeq
<1> HIDE DEF pre
<1>2. ToSet(pre) = {s[i] : i \in 1..k}
  BY <1>1 DEF ToSet
<1>3. f \in Bijection(1..k, ToSet(pre))
  <2>1. f \in [1..k -> ToSet(pre)]
    BY <1>2
  <2>2. \A a, b \in 1..k : f[a] = f[b] => a = b
    BY DEF Injective
  <2>3. \A t \in ToSet(pre) : \E a \in 1..k : f[a] = t
    BY <1>2
  <2> QED BY <2>1, <2>2, <2>3 DEF Bijection, Injection, Surjection, IsInjective
<1>4. IsFiniteSet(1..k) /\ Cardinality(1..k) = k
  BY FS_Interval
<1> QED BY <1>3, <1>4, FS_Bijection DEF ExistsBijection, pre

\* Taking one member out of a queue removes that member and no other.
LEMMA RemoveFromQueue ==
    ASSUME NEW S, NEW s \in Seq(S), Injective(s), NEW i \in DOMAIN s
    PROVE  /\ RemoveAt(s, i) \in Seq(S)
           /\ Injective(RemoveAt(s, i))
           /\ ToSet(RemoveAt(s, i)) = ToSet(s) \ {s[i]}
<1> DEFINE a == SubSeq(s, 1, i - 1)
           b == SubSeq(s, i + 1, Len(s))
           t == RemoveAt(s, i)
<1>0. i \in 1..Len(s)
  OBVIOUS
<1>1. a \in Seq(S) /\ Len(a) = i - 1 /\ \A j \in 1..(i - 1) : a[j] = s[j]
  BY <1>0, SubSeqProperties, ElementOfSeq
<1>2. b \in Seq(S) /\ Len(b) = Len(s) - i /\ \A j \in 1..(Len(s) - i) : b[j] = s[i + j]
  BY <1>0, SubSeqProperties, ElementOfSeq
<1>3. /\ t \in Seq(S) /\ Len(t) = Len(s) - 1
      /\ \A j \in 1..(Len(s) - 1) : t[j] = IF j < i THEN s[j] ELSE s[j + 1]
  <2> HIDE DEF a, b
  <2>1. t = a \o b
    BY DEF RemoveAt, a, b
  <2>2. /\ t \in Seq(S) /\ Len(t) = (i - 1) + (Len(s) - i)
        /\ \A j \in 1..((i - 1) + (Len(s) - i)) :
              t[j] = IF j <= i - 1 THEN a[j] ELSE b[j - (i - 1)]
    <3> HIDE DEF t
    <3> QED BY <1>1, <1>2, <2>1, ConcatProperties
  <2>3. (i - 1) + (Len(s) - i) = Len(s) - 1
    BY <1>0
  <2>4. ASSUME NEW j \in 1..(Len(s) - 1)
        PROVE  t[j] = IF j < i THEN s[j] ELSE s[j + 1]
    <3> HIDE DEF t
    <3>1. CASE j < i
      BY <3>1, <1>0, <1>1, <2>2, <2>3
    <3>2. CASE ~(j < i)
      <4>1. t[j] = b[j - (i - 1)] /\ j - (i - 1) \in 1..(Len(s) - i)
        BY <3>2, <1>0, <2>2, <2>3
      <4>2. b[j - (i - 1)] = s[i + (j - (i - 1))]
        BY <4>1, <1>2
      <4>3. i + (j - (i - 1)) = j + 1
        BY <1>0
      <4> QED BY <3>2, <4>1, <4>2, <4>3
    <3> QED BY <3>1, <3>2
  <2> HIDE DEF t
  <2> QED BY <2>2, <2>3, <2>4
<1> HIDE DEF a, b, t
<1>4. Injective(t)
  <2> SUFFICES ASSUME NEW j \in DOMAIN t, NEW l \in DOMAIN t, t[j] = t[l]
               PROVE  j = l
    BY DEF Injective
  <2> DEFINE Src(n) == IF n < i THEN n ELSE n + 1
  <2>1. /\ j \in Nat /\ l \in Nat
        /\ Src(j) \in DOMAIN s /\ Src(l) \in DOMAIN s
        /\ t[j] = s[Src(j)] /\ t[l] = s[Src(l)]
    BY <1>0, <1>3
  <2>2. Src(j) = Src(l)
    <3> HIDE DEF Src
    <3> QED BY <2>1 DEF Injective
  <2> QED BY <1>0, <2>1, <2>2
<1>5. \A j \in 1..Len(s) : j # i => s[j] \in ToSet(t)
  <2> TAKE j \in 1..Len(s)
  <2>1. CASE j < i
    BY <2>1, <1>0, <1>3 DEF ToSet
  <2>2. CASE j > i
    <3>1. j - 1 \in DOMAIN t /\ t[j - 1] = s[j]
      BY <2>2, <1>0, <1>3
    <3> QED BY <3>1 DEF ToSet
  <2> QED BY <2>1, <2>2, <1>0
<1>6. \A j \in DOMAIN t : t[j] \in ToSet(s) \ {s[i]}
  BY <1>0, <1>3 DEF ToSet, Injective
<1>7. ToSet(t) = ToSet(s) \ {s[i]}
  BY <1>0, <1>3, <1>5, <1>6 DEF ToSet
<1> QED BY <1>3, <1>4, <1>7 DEF t

\* Taking q out of a queue it may not be in.
LEMMA DequeueEffect ==
    ASSUME NEW S, NEW s \in Seq(S), Injective(s), NEW q
    PROVE  /\ Dequeue(s, q) \in Seq(S)
           /\ Injective(Dequeue(s, q))
           /\ ToSet(Dequeue(s, q)) = ToSet(s) \ {q}
<1>1. CASE q \in ToSet(s)
  <2> DEFINE i == CHOOSE j \in DOMAIN s : s[j] = q
  <2>1. i \in DOMAIN s /\ s[i] = q
    BY <1>1 DEF ToSet
  <2> HIDE DEF i
  <2>2. Dequeue(s, q) = RemoveAt(s, i)
    BY <1>1 DEF Dequeue, i
  <2> QED BY <2>1, <2>2, RemoveFromQueue
<1>2. CASE q \notin ToSet(s)
  BY <1>2 DEF Dequeue
<1> QED BY <1>1, <1>2

\* A newcomer goes to the end.
LEMMA EnqueueEffect ==
    ASSUME NEW S, NEW s \in Seq(S), Injective(s), NEW q \in S, q \notin ToSet(s)
    PROVE  /\ Append(s, q) \in Seq(S)
           /\ Injective(Append(s, q))
           /\ ToSet(Append(s, q)) = ToSet(s) \cup {q}
<1> DEFINE t == Append(s, q)
<1>1. /\ t \in Seq(S) /\ Len(t) = Len(s) + 1
      /\ \A i \in 1..Len(s) : t[i] = s[i]
      /\ t[Len(s) + 1] = q
  BY AppendProperties
<1>2. DOMAIN t = 1..(Len(s) + 1) /\ DOMAIN s = 1..Len(s) /\ Len(s) \in Nat
  BY <1>1
<1> HIDE DEF t
<1>3. \A i \in 1..Len(s) : t[i] # q
  BY <1>1, <1>2 DEF ToSet
<1>4. \A i \in DOMAIN t : i \in 1..Len(s) \/ i = Len(s) + 1
  BY <1>2
<1>5. Injective(t)
  BY <1>1, <1>2, <1>3, <1>4 DEF Injective
<1>6. ToSet(t) = ToSet(s) \cup {q}
  <2>1. Len(s) + 1 \in DOMAIN t /\ DOMAIN s \subseteq DOMAIN t
    BY <1>2
  <2> QED BY <1>1, <1>2, <1>4, <2>1 DEF ToSet
<1> QED BY <1>1, <1>5, <1>6 DEF t

\* The oldest member leaves.
LEMMA HeadLeaves ==
    ASSUME NEW S, NEW s \in Seq(S), Injective(s), s # <<>>
    PROVE  /\ Head(s) \in ToSet(s)
           /\ Tail(s) \in Seq(S)
           /\ Injective(Tail(s))
           /\ ToSet(Tail(s)) = ToSet(s) \ {Head(s)}
<1>1. 1 \in DOMAIN s /\ Head(s) = s[1]
  OBVIOUS
<1>2. /\ Tail(s) \in Seq(S) /\ Len(Tail(s)) = Len(s) - 1
      /\ \A i \in 1..(Len(s) - 1) : Tail(s)[i] = s[i + 1]
  BY HeadTailProperties
<1> DEFINE t == Tail(s)
<1>3. DOMAIN t = 1..(Len(s) - 1) /\ DOMAIN s = 1..Len(s) /\ Len(s) \in Nat
  BY <1>2
<1> HIDE DEF t
<1>4. \A i \in DOMAIN t : i + 1 \in DOMAIN s /\ i \in Nat /\ t[i] = s[i + 1]
  BY <1>2, <1>3 DEF t
<1>5. \A i \in DOMAIN s : i # 1 => \E j \in DOMAIN t : t[j] = s[i]
  <2> SUFFICES ASSUME NEW i \in DOMAIN s, i # 1
               PROVE  i - 1 \in DOMAIN t /\ t[i - 1] = s[i]
    OBVIOUS
  <2>1. i - 1 \in DOMAIN t
    BY <1>3
  <2> QED BY <1>3, <1>4, <2>1
<1>6. Injective(t)
  <2> SUFFICES ASSUME NEW i \in DOMAIN t, NEW j \in DOMAIN t, t[i] = t[j]
               PROVE  i = j
    BY DEF Injective
  <2>1. i + 1 = j + 1
    BY <1>4 DEF Injective
  <2> QED BY <1>4, <2>1
<1>7. ToSet(t) = ToSet(s) \ {s[1]}
  <2>1. \A i \in DOMAIN t : t[i] # s[1] /\ t[i] \in ToSet(s)
    BY <1>1, <1>4 DEF Injective, ToSet
  <2> QED BY <1>5, <2>1 DEF ToSet
<1> QED BY <1>1, <1>2, <1>6, <1>7 DEF t, ToSet
-----------------------------------------------------------------------------
\* The order of the naturals as a set of pairs.
Below == {p \in Nat \X Nat : p[1] < p[2]}

\* The order of the naturals, in the form WFMin speaks of.
LEMMA BelowIsWellFounded == IsWellFoundedOn(Below, Nat)
  BY NatLessThanWellFounded, Zenon DEF OpToRel, Below

\* A set of naturals has a least element: Min is defined.
LEMMA LeastExists ==
    ASSUME NEW S \in SUBSET Nat, S # {}
    PROVE  \E m \in S : \A x \in S : m <= x
<1>1. \E m \in S : \A y \in S : <<y, m>> \notin Below
  BY BelowIsWellFounded, WFMin, Zenon
<1>2. \A x, y \in Nat : <<x, y>> \notin Below => y <= x
  BY DEF Below
<1> QED BY <1>1, <1>2

\* A bounded set of naturals has a greatest element: Max is defined.
LEMMA GreatestExists ==
    ASSUME NEW n \in Nat, NEW S \in SUBSET (0..n), S # {}
    PROVE  \E m \in S : \A x \in S : x <= m
<1> DEFINE R == {n - x : x \in S}
<1>1. \A x \in S : x \in 0..n
  OBVIOUS
<1>2. R \in SUBSET Nat /\ R # {}
  <2>1. \A x \in S : n - x \in Nat
    BY <1>1
  <2> QED BY <2>1
<1>3. PICK r \in R : \A x \in R : r <= x
  <2> HIDE DEF R
  <2> QED BY <1>2, LeastExists
<1>4. PICK m \in S : r = n - m
  OBVIOUS
<1>5. \A x \in S : n - m <= n - x
  BY <1>3, <1>4
<1> QED BY <1>1, <1>5

-----------------------------------------------------------------------------
\* t is s at the positions of P up to n: e says from where each member of t comes.
Picks(e, t, s, P, n) ==
    /\ e \in [1..Len(t) -> 1..n]
    /\ \A j \in 1..Len(t) : e[j] \in P /\ t[j] = s[e[j]]
    /\ \A j, k \in 1..Len(t) : j < k => e[j] < e[k]
    /\ \A i \in 1..n : i \in P => \E j \in 1..Len(t) : e[j] = i

\* One more member of s: it comes last if P has its position.
LEMMA PicksOne ==
    ASSUME NEW S, NEW s \in Seq(S), NEW P, NEW n \in 1..Len(s), NEW t \in Seq(S), NEW e,
           Picks(e, t, s, P, n - 1)
    PROVE  LET u == IF n \in P THEN Append(t, s[n]) ELSE t
           IN  u \in Seq(S) /\ \E f : Picks(f, u, s, P, n)
<1>0. n \in Nat \ {0} /\ s[n] \in S /\ Len(t) \in Nat
  OBVIOUS
<1>1. /\ e \in [1..Len(t) -> 1..(n - 1)]
      /\ \A j \in 1..Len(t) : e[j] \in P /\ t[j] = s[e[j]]
      /\ \A j, k \in 1..Len(t) : j < k => e[j] < e[k]
      /\ \A i \in 1..(n - 1) : i \in P => \E j \in 1..Len(t) : e[j] = i
  BY DEF Picks
<1>2. CASE n \notin P
  <2>1. Picks(e, t, s, P, n)
    BY <1>0, <1>1, <1>2 DEF Picks
  <2> QED BY <1>2, <2>1
<1>3. CASE n \in P
  <2> DEFINE u == Append(t, s[n])
             f == [j \in 1..(Len(t) + 1) |-> IF j = Len(t) + 1 THEN n ELSE e[j]]
  <2>1. /\ u \in Seq(S) /\ Len(u) = Len(t) + 1 /\ u[Len(t) + 1] = s[n]
        /\ \A j \in 1..Len(t) : u[j] = t[j]
    BY <1>0
  <2>2. /\ f[Len(t) + 1] = n
        /\ \A j \in 1..Len(t) : f[j] = e[j] /\ e[j] \in 1..(n - 1)
        /\ \A j \in 1..(Len(t) + 1) : j \in 1..Len(t) \/ j = Len(t) + 1
    <3>1. Len(t) + 1 \in 1..(Len(t) + 1)
      BY <1>0
    <3>2. \A j \in 1..Len(t) : j \in 1..(Len(t) + 1) /\ j # Len(t) + 1
      BY <1>0
    <3>3. \A j \in 1..Len(t) : e[j] \in 1..(n - 1)
      BY <1>1
    <3>4. \A j \in 1..(Len(t) + 1) : j \in 1..Len(t) \/ j = Len(t) + 1
      BY <1>0
    <3> QED BY <3>1, <3>2, <3>3, <3>4
  <2>3. f \in [1..Len(u) -> 1..n]
    BY <1>0, <1>1, <2>1
  <2> HIDE DEF u, f
  <2>4. \A j \in 1..Len(u) : f[j] \in P /\ u[j] = s[f[j]]
    BY <1>1, <1>3, <2>1, <2>2
  <2>5. \A j, k \in 1..Len(u) : j < k => f[j] < f[k]
    BY <1>0, <1>1, <2>1, <2>2
  <2>6. ASSUME NEW i \in 1..n, i \in P
        PROVE  \E j \in 1..Len(u) : f[j] = i
    <3>1. CASE i = n
      <4>1. Len(t) + 1 \in 1..Len(u)
        BY <1>0, <2>1
      <4> QED BY <2>2, <3>1, <4>1
    <3>2. CASE i # n
      <4>1. i \in 1..(n - 1)
        BY <1>0, <3>2
      <4>2. PICK j \in 1..Len(t) : e[j] = i
        BY <1>1, <2>6, <4>1
      <4>3. j \in 1..Len(u)
        BY <1>0, <2>1
      <4> QED BY <2>2, <4>2, <4>3
    <3> QED BY <3>1, <3>2
  <2>7. Picks(f, u, s, P, n)
    BY <2>3, <2>4, <2>5, <2>6 DEF Picks
  <2> QED BY <1>3, <2>1, <2>7 DEF u
<1> QED BY <1>2, <1>3

\* The function that Sift defines by recursion, on the first n positions.
Sifts(f, s, P, n) ==
    f = [i \in 0..n |-> IF i = 0 THEN <<>>
                        ELSE IF i \in P THEN Append(f[i - 1], s[i]) ELSE f[i - 1]]

\* It exists: a least n without it would extend the one for n - 1.
LEMMA SiftsExists ==
    ASSUME NEW s, NEW P, NEW n \in Nat
    PROVE  \E f : Sifts(f, s, P, n)
<1> DEFINE Bad == {k \in Nat : ~\E f : Sifts(f, s, P, k)}
<1> SUFFICES ASSUME Bad # {} PROVE FALSE
  OBVIOUS
<1>1. PICK m \in Bad : \A k \in Bad : m <= k
  BY LeastExists
<1>2. m \in Nat /\ ~\E f : Sifts(f, s, P, m)
  OBVIOUS
<1>3. CASE m = 0
  <2> DEFINE f == [i \in 0..0 |-> <<>>]
  <2>1. Sifts(f, s, P, 0)
    BY DEF Sifts
  <2> QED BY <1>2, <1>3, <2>1
<1>4. CASE m # 0
  <2>1. m - 1 \in Nat /\ m - 1 \notin Bad
    BY <1>1, <1>2, <1>4
  <2>2. PICK g : Sifts(g, s, P, m - 1)
    BY <2>1
  <2> DEFINE last == IF m \in P THEN Append(g[m - 1], s[m]) ELSE g[m - 1]
             f == [i \in 0..m |-> IF i = m THEN last ELSE g[i]]
  <2>3. \A i \in 0..(m - 1) : g[i] = IF i = 0 THEN <<>> ELSE IF i \in P
                                       THEN Append(g[i - 1], s[i]) ELSE g[i - 1]
    BY <2>2 DEF Sifts
  <2>4. f[m] = last /\ \A i \in 0..(m - 1) : f[i] = g[i]
    BY <1>2
  <2>5. ASSUME NEW i \in 0..m
        PROVE  f[i] = IF i = 0 THEN <<>>
                      ELSE IF i \in P THEN Append(f[i - 1], s[i]) ELSE f[i - 1]
    <3> HIDE DEF f, last
    <3>1. CASE i = m
      <4>1. f[i - 1] = g[i - 1] /\ i # 0
        BY <1>2, <1>4, <2>4, <3>1
      <4> QED BY <2>4, <3>1, <4>1 DEF last
    <3>2. CASE i # m
      <4>1. i \in 0..(m - 1) /\ (i # 0 => i - 1 \in 0..(m - 1))
        BY <1>2, <3>2
      <4> QED BY <2>3, <2>4, <4>1
    <3> QED BY <3>1, <3>2
  <2>6. Sifts(f, s, P, m)
    <3>1. f = [i \in 0..m |-> f[i]]
      OBVIOUS
    <3> HIDE DEF f
    <3>2. [i \in 0..m |-> f[i]]
            = [i \in 0..m |-> IF i = 0 THEN <<>>
                              ELSE IF i \in P THEN Append(f[i - 1], s[i]) ELSE f[i - 1]]
      BY <2>5
    <3> QED BY <3>1, <3>2 DEF Sifts
  <2> QED BY <1>2, <2>6
<1> QED BY <1>3, <1>4

\* What Sift leaves: the members at the positions of P, in their order.
LEMMA SiftIs ==
    ASSUME NEW S, NEW s \in Seq(S), NEW P
    PROVE  Sift(s, P) \in Seq(S) /\ \E e : Picks(e, Sift(s, P), s, P, Len(s))
<1>0. Len(s) \in Nat
  OBVIOUS
<1> DEFINE f == CHOOSE g : Sifts(g, s, P, Len(s))
<1>1. Sift(s, P) = f[Len(s)]
  BY Zenon DEF Sift, Sifts
<1>2. Sifts(f, s, P, Len(s))
  <2>1. \E g : Sifts(g, s, P, Len(s))
    BY <1>0, SiftsExists
  <2> QED BY <2>1, Zenon
<1> HIDE DEF f
<1>3. /\ f[0] = <<>>
      /\ \A i \in 1..Len(s) : f[i] = IF i \in P THEN Append(f[i - 1], s[i]) ELSE f[i - 1]
  <2>1. \A i \in 0..Len(s) : f[i] = IF i = 0 THEN <<>>
                                     ELSE IF i \in P THEN Append(f[i - 1], s[i]) ELSE f[i - 1]
    BY <1>2 DEF Sifts
  <2>2. 0 \in 0..Len(s) /\ \A i \in 1..Len(s) : i \in 0..Len(s) /\ i # 0
    BY <1>0
  <2> QED BY <2>1, <2>2
<1> DEFINE Good(i) == f[i] \in Seq(S) /\ \E e : Picks(e, f[i], s, P, i)
           Bad == {i \in 0..Len(s) : ~Good(i)}
<1>4. Bad = {}
  <2> SUFFICES ASSUME Bad # {} PROVE FALSE
    OBVIOUS
  <2>1. PICK m \in Bad : \A i \in Bad : m <= i
    <3>1. Bad \in SUBSET Nat
      BY <1>0
    <3> HIDE DEF Bad
    <3> QED BY <3>1, LeastExists
  <2>2. m \in 0..Len(s) /\ ~Good(m)
    OBVIOUS
  <2>3. CASE m = 0
    <3>1. Picks([j \in 1..0 |-> j], <<>>, s, P, 0)
      BY DEF Picks
    <3>2. f[0] \in Seq(S) /\ \E e : Picks(e, f[0], s, P, 0)
      BY <1>3, <3>1
    <3> QED BY <2>2, <2>3, <3>2
  <2>4. CASE m # 0
    <3>1. m \in 1..Len(s) /\ m - 1 \in 0..Len(s) /\ m - 1 \notin Bad
      BY <1>0, <2>1, <2>2, <2>4
    <3>2. Good(m - 1)
      BY <3>1
    <3>3. PICK e : Picks(e, f[m - 1], s, P, m - 1)
      BY <3>2
    <3>4. f[m - 1] \in Seq(S) /\ f[m] = IF m \in P THEN Append(f[m - 1], s[m]) ELSE f[m - 1]
      BY <1>3, <3>1, <3>2
    <3>5. f[m] \in Seq(S) /\ \E g : Picks(g, f[m], s, P, m)
      <4> HIDE DEF Good, Bad
      <4> QED BY <3>1, <3>3, <3>4, PicksOne
    <3> QED BY <2>2, <3>5
  <2> QED BY <2>3, <2>4
<1>5. Good(Len(s))
  BY <1>0, <1>4
<1> QED BY <1>1, <1>5

\* A filter that keeps every position keeps the sequence.
LEMMA SiftAll ==
    ASSUME NEW S, NEW s \in Seq(S), NEW P, \A i \in 1..Len(s) : i \in P
    PROVE  Sift(s, P) = s
<1> DEFINE t == Sift(s, P)
<1>1. t \in Seq(S) /\ \E e : Picks(e, t, s, P, Len(s))
  BY SiftIs
<1> HIDE DEF t
<1>2. PICK e : Picks(e, t, s, P, Len(s))
  BY <1>1
<1>3. /\ \A j \in 1..Len(t) : e[j] \in 1..Len(s) /\ t[j] = s[e[j]]
      /\ \A j, k \in 1..Len(t) : j < k => e[j] < e[k]
      /\ \A i \in 1..Len(s) : \E j \in 1..Len(t) : e[j] = i
      /\ Len(t) \in Nat /\ Len(s) \in Nat
  <2>1. Len(t) \in Nat /\ Len(s) \in Nat
    BY <1>1
  <2>2. /\ e \in [1..Len(t) -> 1..Len(s)]
        /\ \A j \in 1..Len(t) : e[j] \in P /\ t[j] = s[e[j]]
        /\ \A j, k \in 1..Len(t) : j < k => e[j] < e[k]
        /\ \A i \in 1..Len(s) : i \in P => \E j \in 1..Len(t) : e[j] = i
    BY <1>2 DEF Picks
  <2>3. \A j \in 1..Len(t) : e[j] \in 1..Len(s) /\ t[j] = s[e[j]]
    BY <2>2
  <2> QED BY <2>1, <2>2, <2>3
<1> DEFINE Moved == {j \in 1..Len(t) : e[j] # j}
<1>4. Moved = {}
  <2> SUFFICES ASSUME Moved # {} PROVE FALSE
    OBVIOUS
  <2>1. PICK j \in Moved : \A k \in Moved : j <= k
    <3>1. Moved \in SUBSET Nat
      BY <1>3
    <3> HIDE DEF Moved
    <3> QED BY <3>1, LeastExists
  <2>2. j \in 1..Len(t) /\ e[j] # j /\ e[j] \in 1..Len(s)
    BY <1>3
  <2>3. \A k \in 1..Len(t) : k < j => e[k] = k
    BY <1>3, <2>1, <2>2
  <2>4. e[j] > j
    <3>1. CASE j = 1
      BY <2>2, <3>1
    <3>2. CASE j # 1
      <4>1. j - 1 \in 1..Len(t) /\ j - 1 < j
        BY <1>3, <2>2, <3>2
      <4>2. e[j - 1] = j - 1 /\ e[j - 1] < e[j]
        BY <1>3, <2>2, <2>3, <4>1
      <4> QED BY <2>2, <4>2
    <3> QED BY <3>1, <3>2
  <2>5. j \in 1..Len(s)
    BY <1>3, <2>2, <2>4
  <2>6. PICK k \in 1..Len(t) : e[k] = j
    BY <1>3, <2>5
  <2>7. CASE k < j
    BY <2>2, <2>3, <2>6, <2>7
  <2>8. CASE j < k
    <3>1. e[j] < e[k]
      BY <1>3, <2>2, <2>8
    <3>2. e[j] \in Nat
      BY <2>2
    <3> QED BY <2>2, <2>4, <2>6, <3>1, <3>2
  <2> QED BY <2>2, <2>6, <2>7, <2>8
<1>5. \A j \in 1..Len(t) : e[j] = j
  BY <1>4
<1>6. Len(t) = Len(s)
  <2>1. Len(t) # 0 => Len(t) <= Len(s)
    <3> SUFFICES ASSUME Len(t) # 0 PROVE Len(t) <= Len(s)
      OBVIOUS
    <3>1. Len(t) \in 1..Len(t)
      BY <1>3
    <3>2. Len(t) \in 1..Len(s)
      BY <1>3, <1>5, <3>1
    <3> QED BY <1>3, <3>2
  <2>2. Len(s) # 0 => Len(s) <= Len(t)
    <3> SUFFICES ASSUME Len(s) # 0 PROVE Len(s) <= Len(t)
      OBVIOUS
    <3>1. Len(s) \in 1..Len(s)
      BY <1>3
    <3>2. PICK j \in 1..Len(t) : e[j] = Len(s)
      BY <1>3, <3>1
    <3> QED BY <1>3, <1>5, <3>2
  <2> QED BY <1>3, <2>1, <2>2
<1>7. t = s
  <2>1. \A j \in 1..Len(t) : t[j] = s[j]
    BY <1>3, <1>5
  <2> QED BY <1>1, <1>6, <2>1, SeqEqual
<1> QED BY <1>7 DEF t
=============================================================================
