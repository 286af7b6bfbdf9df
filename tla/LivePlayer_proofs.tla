------------------------- MODULE LivePlayer_proofs --------------------------
(***************************************************************************)
(* Theorems about LivePlayer: that what the player says is heard is what   *)
(* was on the stream, to the position, that a fade holds the last song,    *)
(* and that only a double start loses an engine, for any tracks, segment   *)
(* length and crossfade, caps, number of starts and of sessions.           *)
(*                                                                         *)
(* The argument is about time.  A list of marks read at time c is Truthful *)
(* when, of every time before c, the last mark that is not later says what *)
(* was on the stream then.  The playout keeps its own list truthful: an    *)
(* event adds a mark of the present, time makes the last one true for      *)
(* longer, and the list loses only its oldest.  The log only grows, so a   *)
(* copy of the list stays as truthful as it was.  PositionIsRight then     *)
(* shows that placing a truthful list by the ends of buffered segments     *)
(* keeps its order, and that what is not placed is not needed, except the  *)
(* mark of a silence that began in a gap (SilenceSkipped).                 *)
(***************************************************************************)
EXTENDS LivePlayer, Queues_proofs

\* Types: what a mark or an entry of the log can name.
Name == Track \cup {Silence}
AnyMark == [after : Nat, offset : Nat, id : Name, pos : Nat]
MarkSet == [after : Nat \ {0}, offset : Nat, id : Name, pos : Nat]
LogSet == [at : Nat, id : Name]

\* Index and OnStream for a given log.
IndexIn(L, t) == Max({i \in DOMAIN L : L[i].at <= t} \cup {0})
StreamIn(L, t) == LET i == IndexIn(L, t)
                  IN  IF i = 0 \/ L[i].id = Silence THEN Nothing
                      ELSE [id |-> L[i].id, position |-> t - L[i].at]

\* When the moment that a mark speaks of was.
Time(m) == m.after * SegmentTime + m.offset

\* What m says of t is what was on the stream; a song's mark says nothing beyond
\* the end of its segment, and silence has a mark only where it begins.
Tells(L, m, t) ==
    /\ m.id # Silence => /\ StreamIn(L, t) = [id |-> m.id, position |-> m.pos + (t - Time(m))]
                         /\ t < (m.after + 1) * SegmentTime
    /\ m.id = Silence => /\ StreamIn(L, t) = Nothing
                         /\ IndexIn(L, t) > 1
                         /\ L[IndexIn(L, t)].id = Silence
                         /\ Time(m) = L[IndexIn(L, t)].at
                         /\ m.pos + (t - Time(m)) = t - L[IndexIn(L, t) - 1].at

\* The mark for t is the last that is not later.
MarkFor(list, j, t) == Time(list[j]) <= t /\ (j < Len(list) => t < Time(list[j + 1]))

\* A list of marks that was read at time c.
Ordered(list, c) ==
    /\ list \in Seq(MarkSet)
    /\ \A j \in 1..Len(list) : Time(list[j]) <= c
    /\ \A i, j \in 1..Len(list) : i <= j => /\ Time(list[i]) <= Time(list[j])
                                            /\ list[i].after <= list[j].after
    /\ \A t \in Int : list # <<>> /\ Time(list[1]) <= t
                        => \E j \in 1..Len(list) : MarkFor(list, j, t)

\* What the list says is what was on the stream; a list that never lost a mark
\* is silent only about silence.
Truthful(L, list, c) ==
    /\ Ordered(list, c)
    /\ \A j \in 1..Len(list), t \in Int : t < c /\ MarkFor(list, j, t) => Tells(L, list[j], t)
    /\ \A t \in Int : /\ SegmentTime <= t /\ t < c /\ Len(list) < MarkCap
                      /\ list # <<>> => t < Time(list[1])
                      => StreamIn(L, t) = Nothing

-----------------------------------------------------------------------------
\* The segment that ended last before t.
LEMMA Quotient ==
    ASSUME NEW n \in Nat \ {0}, NEW t \in Int
    PROVE  t \div n \in Int /\ (t \div n) * n <= t /\ t < (t \div n + 1) * n
  OBVIOUS

\* The next lemmas are the products of a segment's number and length that
\* the solver does not find by itself.
LEMMA TimesGrows ==
    ASSUME NEW n \in Nat, NEW a \in Int, NEW b \in Int, a <= b
    PROVE  a * n \in Int /\ a * n <= b * n
  OBVIOUS

LEMMA TimesType ==
    ASSUME NEW n \in Nat, NEW a \in Nat
    PROVE  a * n \in Nat
  OBVIOUS

LEMMA TimesNext ==
    ASSUME NEW n \in Nat, NEW a \in Int
    PROVE  (a + 1) * n = a * n + n
  OBVIOUS

\* What Append makes of a sequence, entry by entry.
LEMMA AppendIs ==
    ASSUME NEW S, NEW s \in Seq(S), NEW e \in S
    PROVE  /\ Append(s, e) \in Seq(S) /\ Len(s) \in Nat /\ Len(Append(s, e)) = Len(s) + 1
           /\ Append(s, e)[Len(s) + 1] = e
           /\ \A i \in 1..Len(s) : Append(s, e)[i] = s[i]
           /\ \A i \in 1..Len(Append(s, e)) : i \in 1..Len(s) \/ i = Len(s) + 1
  OBVIOUS

\* Tail keeps the last entry of a sequence that has two.
LEMMA TailIs ==
    ASSUME NEW S, NEW s \in Seq(S), Len(s) > 1
    PROVE  Len(Tail(s)) = Len(s) - 1 /\ Tail(s)[Len(s) - 1] = s[Len(s)] /\ Tail(s) # <<>>
<1>1. Len(s) \in Nat /\ Tail(s) \in Seq(S) /\ Len(Tail(s)) = Len(s) - 1
  OBVIOUS
<1>2. \A i \in 1..Len(s) - 1 : Tail(s)[i] = s[i + 1]
  OBVIOUS
<1>3. Len(s) - 1 \in 1..Len(s) - 1 /\ (Len(s) - 1) + 1 = Len(s)
  BY <1>1
<1>4. Tail(s)[Len(s) - 1] = s[Len(s)]
  BY <1>2, <1>3
<1>5. Tail(s) # <<>>
  <2>1. Len(<<>>) = 0
    OBVIOUS
  <2>2. Len(Tail(s)) # 0
    BY <1>1
  <2> QED BY <2>1, <2>2, Zenon
<1> QED BY <1>1, <1>4, <1>5

\* A mark in the segment after the a-th is not later than t only if a segments have ended by t.
LEMMA NotAfter ==
    ASSUME NEW n \in Nat \ {0}, NEW a \in Nat, NEW o \in Nat, NEW q \in Nat, NEW t \in Int,
           a * n + o <= t, t < (q + 1) * n
    PROVE  a <= q
<1> SUFFICES ASSUME q + 1 <= a PROVE FALSE
  OBVIOUS
<1>1. (q + 1) * n <= a * n /\ a * n \in Int /\ (q + 1) * n \in Int
  BY TimesGrows
<1> QED BY <1>1

\* A segment before the q-th has ended when the q-th has.
LEMMA EndsBefore ==
    ASSUME NEW n \in Nat \ {0}, NEW a \in Nat, NEW q \in Nat, NEW t \in Int, a < q, q * n <= t
    PROVE  (a + 1) * n <= t
<1>1. (a + 1) * n <= q * n /\ q * n \in Int /\ (a + 1) * n \in Int
  BY TimesGrows
<1> QED BY <1>1

\* A mark's moment is a time of the stream.
LEMMA TimeType == ASSUME NEW m \in MarkSet PROVE Time(m) \in Nat
<1>1. m.after * SegmentTime \in Nat
  BY PlayoutAssumption DEF MarkSet
<1> QED BY <1>1 DEF Time, MarkSet

-----------------------------------------------------------------------------
\* IndexIn is the last entry of the log that is not later than t.
LEMMA IndexInIs ==
    ASSUME NEW L \in Seq(LogSet), NEW t \in Int
    PROVE  /\ IndexIn(L, t) \in 0..Len(L)
           /\ IndexIn(L, t) > 0 => L[IndexIn(L, t)].at <= t
           /\ \A i \in 1..Len(L) : L[i].at <= t => i <= IndexIn(L, t)
<1> DEFINE S == {i \in DOMAIN L : L[i].at <= t} \cup {0}
<1>1. S \in SUBSET (0..Len(L)) /\ S # {} /\ Len(L) \in Nat
  OBVIOUS
<1>2. \E m \in S : \A x \in S : x <= m
  <2> HIDE DEF S
  <2> QED BY <1>1, GreatestExists
<1>3. \E m \in S : \A x \in S : m >= x
  BY <1>1, <1>2
<1>4. Max(S) \in S /\ \A x \in S : Max(S) >= x
  <2> HIDE DEF S
  <2> QED BY <1>3 DEF Max
<1>5. IndexIn(L, t) = Max(S)
  BY DEF IndexIn
<1> QED BY <1>4, <1>5

\* The index is the last entry not later.
LEMMA IndexInUnique ==
    ASSUME NEW L \in Seq(LogSet), NEW t \in Int, NEW n \in 0..Len(L),
           n > 0 => L[n].at <= t,
           \A i \in 1..Len(L) : L[i].at <= t => i <= n
    PROVE  IndexIn(L, t) = n
<1> DEFINE k == IndexIn(L, t)
<1>1. /\ k \in 0..Len(L)
      /\ k > 0 => L[k].at <= t
      /\ \A i \in 1..Len(L) : L[i].at <= t => i <= k
  BY IndexInIs
<1>2. Len(L) \in Nat
  OBVIOUS
<1> HIDE DEF k
<1>3. k <= n
  <2>1. CASE k > 0
    BY <1>1, <1>2, <2>1
  <2>2. CASE k = 0
    BY <2>2
  <2> QED BY <1>1, <2>1, <2>2
<1>4. n <= k
  BY <1>1, <1>2
<1> QED BY <1>1, <1>3, <1>4 DEF k

\* What came later does not change what was on the stream before.
LEMMA StreamKept ==
    ASSUME NEW L \in Seq(LogSet), NEW e \in LogSet, NEW t \in Int, t < e.at
    PROVE  /\ IndexIn(Append(L, e), t) = IndexIn(L, t)
           /\ StreamIn(Append(L, e), t) = StreamIn(L, t)
           /\ \A i \in 1..Len(L) : Append(L, e)[i] = L[i]
<1> DEFINE M == Append(L, e)
<1>1. /\ M \in Seq(LogSet) /\ Len(M) = Len(L) + 1
      /\ M[Len(L) + 1] = e /\ \A i \in 1..Len(L) : M[i] = L[i]
  OBVIOUS
<1>2. IndexIn(L, t) \in 0..Len(L)
  BY IndexInIs
<1>3. IndexIn(L, t) > 0 => M[IndexIn(L, t)].at <= t
  BY <1>1, <1>2, IndexInIs
<1>4. \A i \in 1..Len(M) : M[i].at <= t => i <= IndexIn(L, t)
  <2> TAKE i \in 1..Len(M)
  <2>1. CASE i = Len(L) + 1
    BY <1>1, <2>1 DEF LogSet
  <2>2. CASE i \in 1..Len(L)
    BY <1>1, <2>2, IndexInIs
  <2> QED BY <1>1, <2>1, <2>2
<1>5. IndexIn(M, t) = IndexIn(L, t)
  <2>1. IndexIn(L, t) \in 0..Len(M)
    BY <1>1, <1>2
  <2> HIDE DEF M
  <2> QED BY <1>1, <1>3, <1>4, <2>1, IndexInUnique
<1>6. StreamIn(M, t) = StreamIn(L, t)
  BY <1>1, <1>2, <1>5 DEF StreamIn
<1> QED BY <1>1, <1>5, <1>6

\* A new entry of the log leaves a list as truthful about what came before it.
LEMMA TruthIsKept ==
    ASSUME NEW L \in Seq(LogSet), NEW e \in LogSet, NEW list, NEW c \in Int,
           Truthful(L, list, c), c <= e.at
    PROVE  Truthful(Append(L, e), list, c)
<1> DEFINE M == Append(L, e)
<1>1. \A t \in Int : t < c => /\ IndexIn(M, t) = IndexIn(L, t)
                              /\ StreamIn(M, t) = StreamIn(L, t)
                              /\ IndexIn(L, t) > 1 => /\ M[IndexIn(L, t) - 1] = L[IndexIn(L, t) - 1]
                                                      /\ M[IndexIn(L, t)] = L[IndexIn(L, t)]
  <2> TAKE t \in Int
  <2> HAVE t < c
  <2>1. t < e.at
    BY DEF LogSet
  <2>2. IndexIn(L, t) \in 0..Len(L)
    BY IndexInIs
  <2> QED BY <2>1, <2>2, StreamKept
<1> HIDE DEF M
<1>2. ASSUME NEW j \in 1..Len(list), NEW t \in Int, t < c, MarkFor(list, j, t)
      PROVE  Tells(M, list[j], t)
  <2>1. Tells(L, list[j], t)
    BY <1>2 DEF Truthful
  <2> QED BY <1>1, <1>2, <2>1 DEF Tells
<1> QED BY <1>1, <1>2 DEF Truthful, M

\* Time passes without an event: the last mark has to be right for longer.
LEMMA TruthLasts ==
    ASSUME NEW L \in Seq(LogSet), NEW list, NEW c \in Int, NEW d \in Int,
           Truthful(L, list, c), c <= d,
           \A t \in Int : c <= t /\ t < d /\ list # <<>> => Tells(L, list[Len(list)], t),
           \A t \in Int : c <= t /\ t < d /\ list = <<>> /\ SegmentTime <= t
                           => StreamIn(L, t) = Nothing
    PROVE  Truthful(L, list, d)
<1>1. list \in Seq(MarkSet) /\ \A j \in 1..Len(list) : Time(list[j]) \in Nat /\ Time(list[j]) <= c
  BY TimeType DEF Truthful, Ordered
<1>2. Ordered(list, d)
  BY <1>1 DEF Truthful, Ordered
<1>3. ASSUME NEW j \in 1..Len(list), NEW t \in Int, t < d, MarkFor(list, j, t)
      PROVE  Tells(L, list[j], t)
  <2>1. CASE t < c
    BY <1>3, <2>1 DEF Truthful
  <2>2. CASE c <= t
    <3>1. j = Len(list)
      BY <1>1, <1>3, <2>2 DEF MarkFor
    <3> QED BY <1>1, <1>3, <2>2, <3>1
  <2> QED BY <2>1, <2>2
<1>4. ASSUME NEW t \in Int, SegmentTime <= t, t < d, Len(list) < MarkCap,
             list # <<>> => t < Time(list[1])
      PROVE  StreamIn(L, t) = Nothing
  <2>1. CASE t < c
    BY <1>4, <2>1 DEF Truthful
  <2>2. CASE c <= t
    BY <1>1, <1>4, <2>2
  <2> QED BY <2>1, <2>2
<1> QED BY <1>2, <1>3, <1>4 DEF Truthful

\* A new mark speaks of the present.
LEMMA TruthfulAppend ==
    ASSUME NEW L, NEW list, NEW c \in Int, NEW m \in MarkSet,
           Truthful(L, list, c), Time(m) = c,
           list # <<>> => list[Len(list)].after <= m.after
    PROVE  Truthful(L, Append(list, m), c)
<1> DEFINE l == Append(list, m)
<1>1. /\ list \in Seq(MarkSet) /\ Len(list) \in Nat /\ (list # <<>> => Len(list) >= 1)
      /\ \A j \in 1..Len(list) : Time(list[j]) \in Nat /\ Time(list[j]) <= c /\ list[j].after \in Nat
  <2>1. list \in Seq(MarkSet) /\ \A j \in 1..Len(list) : list[j] \in MarkSet /\ Time(list[j]) <= c
    BY DEF Truthful, Ordered
  <2>2. \A j \in 1..Len(list) : list[j].after \in Nat
    BY <2>1 DEF MarkSet
  <2> QED BY <2>1, <2>2, TimeType
<1>2. /\ l \in Seq(MarkSet) /\ Len(l) = Len(list) + 1
      /\ l[Len(list) + 1] = m /\ \A j \in 1..Len(list) : l[j] = list[j]
      /\ \A j \in 1..Len(l) : j \in 1..Len(list) \/ j = Len(list) + 1
  BY <1>1, AppendIs
<1>3. l # <<>>
  BY <1>1, <1>2
<1>4. m.after \in Nat
  BY DEF MarkSet
<1>5. \A j \in 1..Len(list) : list[j].after <= m.after
  <2> TAKE j \in 1..Len(list)
  <2>1. list # <<>> /\ Len(list) \in 1..Len(list) /\ j <= Len(list)
    BY <1>1
  <2>2. list[j].after <= list[Len(list)].after
    BY <2>1 DEF Truthful, Ordered
  <2>3. list[j].after \in Nat /\ list[Len(list)].after \in Nat /\ list[Len(list)].after <= m.after
    BY <1>1, <2>1
  <2> QED BY <1>4, <2>2, <2>3
<1> HIDE DEF l
<1>6. \A j \in 1..Len(l) : Time(l[j]) <= c /\ Time(l[j]) \in Int
  BY <1>1, <1>2
<1>7. ASSUME NEW i \in 1..Len(l), NEW j \in 1..Len(l), i <= j
      PROVE  Time(l[i]) <= Time(l[j]) /\ l[i].after <= l[j].after
  <2>1. CASE j = Len(list) + 1
    <3>1. l[i].after <= m.after
      BY <1>2, <1>5, <1>4
    <3> QED BY <1>2, <1>6, <2>1, <3>1
  <2>2. CASE j \in 1..Len(list)
    <3>1. i \in 1..Len(list)
      BY <1>1, <1>7, <2>2
    <3> QED BY <1>2, <1>7, <2>2, <3>1 DEF Truthful, Ordered
  <2> QED BY <1>2, <2>1, <2>2
<1>8. ASSUME NEW t \in Int, Time(l[1]) <= t
      PROVE  \E j \in 1..Len(l) : MarkFor(l, j, t)
  <2>1. CASE c <= t
    <3>1. MarkFor(l, Len(list) + 1, t)
      BY <1>1, <1>2, <2>1 DEF MarkFor
    <3> QED BY <1>1, <1>2, <3>1
  <2>2. CASE t < c
    <3>1. list # <<>> /\ l[1] = list[1]
      BY <1>1, <1>2, <1>8, <2>2
    <3>2. PICK j \in 1..Len(list) : MarkFor(list, j, t)
      BY <1>8, <3>1 DEF Truthful, Ordered
    <3>3. MarkFor(l, j, t)
      <4>1. CASE j = Len(list)
        BY <1>1, <1>2, <2>2, <3>2, <4>1 DEF MarkFor
      <4>2. CASE j < Len(list)
        <5>1. j + 1 \in 1..Len(list)
          BY <1>1, <4>2
        <5>2. l[j] = list[j] /\ l[j + 1] = list[j + 1]
          BY <1>2, <5>1
        <5> QED BY <3>2, <4>2, <5>2 DEF MarkFor
      <4> QED BY <1>1, <4>1, <4>2
    <3> QED BY <1>1, <1>2, <3>3
  <2> QED BY <2>1, <2>2
<1>9. Ordered(l, c)
  BY <1>2, <1>6, <1>7, <1>8 DEF Ordered
<1>10. ASSUME NEW j \in 1..Len(l), NEW t \in Int, t < c, MarkFor(l, j, t)
      PROVE  Tells(L, l[j], t)
  <2>1. j \in 1..Len(list)
    BY <1>1, <1>2, <1>10 DEF MarkFor
  <2>2. MarkFor(list, j, t)
    <3>1. CASE j = Len(list)
      BY <1>1, <1>2, <1>10, <3>1 DEF MarkFor
    <3>2. CASE j < Len(list)
      <4>1. j + 1 \in 1..Len(list) /\ j < Len(l)
        BY <1>1, <1>2, <3>2
      <4>2. l[j] = list[j] /\ l[j + 1] = list[j + 1]
        BY <1>2, <2>1, <4>1
      <4> QED BY <1>10, <3>2, <4>1, <4>2 DEF MarkFor
    <3> QED BY <1>1, <2>1, <3>1, <3>2
  <2> QED BY <1>2, <1>10, <2>1, <2>2 DEF Truthful
<1>11. ASSUME NEW t \in Int, SegmentTime <= t, t < c, Len(l) < MarkCap, t < Time(l[1])
      PROVE  StreamIn(L, t) = Nothing
  <2>1. Len(list) < MarkCap
    BY <1>1, <1>2, <1>11, PlayoutAssumption
  <2>2. list # <<>> => t < Time(list[1])
    BY <1>1, <1>2, <1>11
  <2> QED BY <1>11, <2>1, <2>2 DEF Truthful
<1> QED BY <1>2, <1>9, <1>10, <1>11 DEF Truthful, l

\* The oldest mark may go: what came before it is not spoken of any more.
LEMMA TruthfulTail ==
    ASSUME NEW L, NEW l, NEW c \in Int, Truthful(L, l, c), Len(l) > MarkCap
    PROVE  Truthful(L, Tail(l), c)
<1> DEFINE k == Tail(l)
<1>1. l \in Seq(MarkSet) /\ MarkCap \in Nat /\ MarkCap >= 1 /\ Len(l) \in Nat
  BY PlayoutAssumption DEF Truthful, Ordered
<1>2. /\ k \in Seq(MarkSet) /\ k # <<>> /\ Len(k) = Len(l) - 1
      /\ \A j \in 1..Len(k) : k[j] = l[j + 1] /\ j + 1 \in 1..Len(l)
  BY <1>1
<1>3. \A j \in 1..Len(l) : Time(l[j]) \in Nat
  BY <1>1, TimeType
<1> HIDE DEF k
<1>4. ASSUME NEW j \in 1..Len(k), NEW t \in Int
      PROVE  MarkFor(k, j, t) <=> MarkFor(l, j + 1, t)
  BY <1>1, <1>2 DEF MarkFor
<1>5. ASSUME NEW t \in Int, Time(k[1]) <= t
      PROVE  \E j \in 1..Len(k) : MarkFor(k, j, t)
  <2>1. l # <<>> /\ 1 \in 1..Len(l) /\ 2 \in 1..Len(l) /\ k[1] = l[2]
    BY <1>1, <1>2
  <2>2. Time(l[1]) <= t
    BY <1>3, <1>5, <2>1 DEF Truthful, Ordered
  <2>3. PICK j \in 1..Len(l) : MarkFor(l, j, t)
    BY <2>1, <2>2 DEF Truthful, Ordered
  <2>4. j # 1
    BY <1>1, <1>3, <1>5, <2>1, <2>3 DEF MarkFor
  <2>5. j - 1 \in 1..Len(k) /\ (j - 1) + 1 = j
    BY <1>1, <1>2, <2>4
  <2> QED BY <1>4, <2>3, <2>5
<1>6. Ordered(k, c)
  <2>1. \A j \in 1..Len(k) : Time(k[j]) <= c
    BY <1>2 DEF Truthful, Ordered
  <2>2. \A i, j \in 1..Len(k) : i <= j => Time(k[i]) <= Time(k[j]) /\ k[i].after <= k[j].after
    BY <1>2 DEF Truthful, Ordered
  <2> QED BY <1>2, <1>5, <2>1, <2>2 DEF Ordered
<1>7. \A j \in 1..Len(k), t \in Int : t < c /\ MarkFor(k, j, t) => Tells(L, k[j], t)
  BY <1>2, <1>4 DEF Truthful
<1>8. ~(Len(k) < MarkCap)
  BY <1>1, <1>2
<1> QED BY <1>6, <1>7, <1>8 DEF Truthful, k

-----------------------------------------------------------------------------
\* What PositionAt answers for time t when the marks for it are at hand: no
\* mark or silence's mark when nothing was on, else the track and the place in it.
Right(L, now, t) ==
    \/ now = Nothing /\ StreamIn(L, t) = Nothing
    \/ /\ StreamIn(L, t) = Nothing /\ IndexIn(L, t) > 1
       /\ now = [id |-> Silence, position |-> t - L[IndexIn(L, t) - 1].at] /\ now.position \in Nat
    \/ /\ StreamIn(L, t) = now
       /\ \E id \in Track, p \in Nat : now = [id |-> id, position |-> p]

\* The premises of Known, about a given timeline and list of marks.
OnTimeline(E, b) == \A s \in DOMAIN E : s \in Nat \ {0} /\ E[s] = s * SegmentTime + b
ReachesBack(list, t) == Len(list) < MarkCap \/ Time(list[1]) <= Before(t) * SegmentTime

\* SilenceSkipped for a given log, list of marks and timeline.
SkippedIn(L, list, E, t) ==
    /\ IndexIn(L, t) # 0 /\ L[IndexIn(L, t)].id = Silence
    /\ \E j \in 1..Len(list) : /\ list[j].id = Silence /\ Time(list[j]) = L[IndexIn(L, t)].at
                                /\ list[j].after \notin DOMAIN E
                                /\ \E older \in DOMAIN E : older < list[j].after

\* Types of a list of marks.
LEMMA OrderedType ==
    ASSUME NEW list, NEW c, Ordered(list, c)
    PROVE  /\ list \in Seq(MarkSet) /\ Len(list) \in Nat /\ DOMAIN list = 1..Len(list)
           /\ \A j \in 1..Len(list) : /\ Time(list[j]) \in Nat /\ list[j].after \in Nat
                                      /\ list[j].offset \in Nat /\ list[j].pos \in Nat
                                      /\ list[j].id \in Name
<1>1. list \in Seq(MarkSet)
  BY DEF Ordered
<1>2. Len(list) \in Nat /\ DOMAIN list = 1..Len(list)
  BY <1>1
<1>3. \A j \in 1..Len(list) : list[j] \in MarkSet
  BY <1>1, <1>2
<1>4. \A m \in MarkSet : /\ m.after \in Nat /\ m.offset \in Nat /\ m.pos \in Nat /\ m.id \in Name
  BY DEF MarkSet
<1>5. \A m \in MarkSet : Time(m) \in Nat
  BY TimeType
<1> QED BY <1>1, <1>2, <1>3, <1>4, <1>5

\* The mark for t is the last of those that are not later.
LEMMA NotLater ==
    ASSUME NEW list, NEW c, Ordered(list, c), NEW t \in Int,
           NEW j \in 1..Len(list), MarkFor(list, j, t),
           NEW k \in 1..Len(list), Time(list[k]) <= t
    PROVE  k <= j /\ Time(list[k]) <= Time(list[j]) /\ list[k].after <= list[j].after
<1>1. Len(list) \in Nat /\ \A i \in 1..Len(list) : Time(list[i]) \in Nat
  BY OrderedType
<1>2. k <= j
  <2> SUFFICES ASSUME ~(k <= j) PROVE FALSE
    OBVIOUS
  <2>1. j + 1 \in 1..Len(list) /\ j < Len(list) /\ j + 1 <= k
    BY <1>1
  <2>2. t < Time(list[j + 1])
    BY <2>1 DEF MarkFor
  <2>3. Time(list[j + 1]) <= Time(list[k])
    BY <2>1 DEF Ordered
  <2>4. Time(list[j + 1]) \in Nat /\ Time(list[k]) \in Nat
    BY <1>1, <2>1
  <2> QED BY <2>2, <2>3, <2>4
<1> QED BY <1>2 DEF Ordered

\* The marks that are placed, and where.
Placed(P, list, E, b) ==
    /\ DOMAIN P = {j \in 1..Len(list) : list[j].after \in DOMAIN E}
    /\ \A j \in DOMAIN P : /\ P[j].at = Time(list[j]) + b
                           /\ P[j].id = list[j].id /\ P[j].pos = list[j].pos

\* PlaceMarks places them so.
LEMMA PlacedIs ==
    ASSUME NEW list, NEW c, Ordered(list, c), NEW E, NEW b \in Int, OnTimeline(E, b)
    PROVE  Placed(PlaceMarks(list, E), list, E, b)
<1> DEFINE P == PlaceMarks(list, E)
<1>1. DOMAIN list = 1..Len(list)
  BY OrderedType
<1>2. DOMAIN P = {j \in 1..Len(list) : list[j].after \in DOMAIN E}
  BY <1>1 DEF PlaceMarks
<1>3. ASSUME NEW j \in DOMAIN P
      PROVE  P[j].at = Time(list[j]) + b /\ P[j].id = list[j].id /\ P[j].pos = list[j].pos
  <2>1. P[j] = [at |-> E[list[j].after] + list[j].offset, id |-> list[j].id, pos |-> list[j].pos]
    BY <1>1, <1>2, <1>3 DEF PlaceMarks
  <2>2. E[list[j].after] = list[j].after * SegmentTime + b
    BY <1>2, <1>3 DEF OnTimeline
  <2>3. list[j].after \in Nat /\ list[j].offset \in Nat /\ SegmentTime \in Nat
    BY <1>2, <1>3, OrderedType, PlayoutAssumption
  <2>4. list[j].after * SegmentTime \in Nat
    BY <2>3, TimesType
  <2>5. E[list[j].after] + list[j].offset = Time(list[j]) + b
    BY <2>2, <2>3, <2>4 DEF Time
  <2> QED BY <2>1, <2>5
<1> QED BY <1>2, <1>3 DEF Placed

\* PositionAt takes the last of the stamps that are due,
LEMMA ChosenIs ==
    ASSUME NEW P, NEW u \in Int, NEW j \in DOMAIN P, j \in Int, P[j].at \in Int, P[j].at <= u,
           \A k \in DOMAIN P : P[k].at <= u => /\ k \in Int /\ k <= j
                                               /\ P[k].at \in Int /\ P[k].at <= P[j].at
    PROVE  PositionAt(P, u) = [id |-> P[j].id, position |-> P[j].pos + (u - P[j].at)]
<1> DEFINE due == {i \in DOMAIN P : P[i].at <= u}
           later(i) == \A k \in due : LaterOfEquals(P, i, k)
           first == CHOOSE i \in due : later(i)
<1>1. j \in due
  OBVIOUS
<1>2. \A k \in due : k \in Int /\ k <= j /\ P[k].at \in Int /\ P[k].at <= P[j].at
  OBVIOUS
<1>3. PositionAt(P, u) = IF due = {} THEN Nothing
                         ELSE [id |-> P[first].id, position |-> P[first].pos + (u - P[first].at)]
  BY Zenon DEF PositionAt
<1> HIDE DEF due
<1>4. later(j)
  BY <1>1, <1>2 DEF LaterOfEquals
<1>5. \A i \in due : later(i) => i = j
  BY <1>1, <1>2 DEF LaterOfEquals
<1>6. first = j
  <2> HIDE DEF later
  <2> QED BY <1>1, <1>4, <1>5
<1> HIDE DEF first
<1> QED BY <1>1, <1>3, <1>6

\* and knows nothing if there is none.
LEMMA NoneDue ==
    ASSUME NEW P, NEW u, \A k \in DOMAIN P : ~(P[k].at <= u)
    PROVE  PositionAt(P, u) = Nothing
  BY DEF PositionAt

\* What PositionAt makes of the mark that is placed for t.
LEMMA PlacedIsRight ==
    ASSUME NEW L, NEW m, NEW t \in Int, Tells(L, m, t),
           m.id \in Name, m.pos \in Nat, Time(m) \in Nat, Time(m) <= t
    PROVE  Right(L, [id |-> m.id, position |-> m.pos + (t - Time(m))], t)
<1> DEFINE p == m.pos + (t - Time(m))
           now == [id |-> m.id, position |-> p]
<1>1. p \in Nat
  OBVIOUS
<1>2. CASE m.id = Silence
  <2>1. /\ StreamIn(L, t) = Nothing /\ IndexIn(L, t) > 1
        /\ p = t - L[IndexIn(L, t) - 1].at
    BY <1>2 DEF Tells
  <2> HIDE DEF p
  <2>2. now = [id |-> Silence, position |-> t - L[IndexIn(L, t) - 1].at] /\ now.position \in Nat
    BY <1>1, <1>2, <2>1
  <2> HIDE DEF now
  <2> QED BY <2>1, <2>2 DEF Right, now, p
<1>3. CASE m.id # Silence
  <2>1. StreamIn(L, t) = now
    BY <1>3 DEF Tells
  <2>2. m.id \in Track
    BY <1>3 DEF Name
  <2> HIDE DEF p
  <2>3. \E id \in Track, q \in Nat : now = [id |-> id, position |-> q]
    BY <1>1, <2>2
  <2> HIDE DEF now
  <2> QED BY <2>1, <2>3 DEF Right, now, p
<1> QED BY <1>2, <1>3

\* A mark for t from before the last end is that of silence: a track that was
\* still on had a later one.
LEMMA EarlierIsSilent ==
    ASSUME NEW L, NEW m, NEW t \in Int, NEW q \in Nat \ {0}, Tells(L, m, t),
           m.after \in Nat, m.after < q, q * SegmentTime <= t
    PROVE  m.id = Silence
<1> SUFFICES ASSUME m.id # Silence PROVE FALSE
  OBVIOUS
<1>1. t < (m.after + 1) * SegmentTime
  BY DEF Tells
<1>2. SegmentTime \in Nat \ {0}
  BY PlayoutAssumption
<1>3. (m.after + 1) * SegmentTime <= t
  BY <1>2, EndsBefore
<1>4. (m.after + 1) * SegmentTime \in Nat
  <2>1. m.after + 1 \in Nat
    OBVIOUS
  <2> QED BY <1>2, <2>1, TimesType
<1> QED BY <1>1, <1>3, <1>4

\* For a time whose marks are at hand, PositionAt is right: the mark for it is
\* placed and is the one chosen, or nothing was on.  Only of a silence whose mark
\* is not placed, while an older one is, it takes the older.
LEMMA PositionIsRight ==
    ASSUME NEW L \in Seq(LogSet), NEW list, NEW c \in Int, Truthful(L, list, c),
           NEW E, NEW b \in Int, OnTimeline(E, b),
           NEW t \in Int, t < c, Before(t) \in DOMAIN E, ReachesBack(list, t)
    PROVE  \/ Right(L, PositionAt(PlaceMarks(list, E), t + b), t)
           \/ SkippedIn(L, list, E, t)
<1> DEFINE P == PlaceMarks(list, E)
           q == Before(t)
<1>1. Ordered(list, c)
  BY DEF Truthful
<1>2. /\ list \in Seq(MarkSet) /\ Len(list) \in Nat
      /\ \A j \in 1..Len(list) : Time(list[j]) \in Nat /\ list[j].after \in Nat
  BY <1>1, OrderedType
<1>4. /\ DOMAIN P = {j \in 1..Len(list) : list[j].after \in DOMAIN E}
      /\ \A j \in DOMAIN P : /\ P[j].at = Time(list[j]) + b
                             /\ P[j].id = list[j].id /\ P[j].pos = list[j].pos
  <2>1. Placed(P, list, E, b)
    BY <1>1, PlacedIs
  <2> HIDE DEF P
  <2> QED BY <2>1 DEF Placed
<1>5. q \in Nat \ {0} /\ q \in DOMAIN E /\ SegmentTime \in Nat \ {0}
  BY PlayoutAssumption DEF OnTimeline
<1>6. q * SegmentTime <= t /\ t < (q + 1) * SegmentTime /\ q * SegmentTime \in Int
  <2>1. q * SegmentTime <= t /\ t < (q + 1) * SegmentTime
    BY <1>5, Quotient DEF Before
  <2>2. q * SegmentTime \in Nat
    BY <1>5, TimesType
  <2> QED BY <2>1, <2>2
<1> HIDE DEF P, q
<1>7. SegmentTime <= t
  <2>1. 1 * SegmentTime <= q * SegmentTime
    BY <1>5, TimesGrows
  <2>2. 1 * SegmentTime = SegmentTime
    BY <1>5
  <2> QED BY <1>5, <1>6, <2>1, <2>2
<1>8. \A k \in DOMAIN P : P[k].at <= t + b <=> Time(list[k]) <= t
  <2> TAKE k \in DOMAIN P
  <2>1. P[k].at = Time(list[k]) + b /\ Time(list[k]) \in Nat
    BY <1>2, <1>4
  <2> QED BY <2>1
<1>9. CASE \A j \in 1..Len(list) : ~(Time(list[j]) <= t)
  <2>1. PositionAt(P, t + b) = Nothing
    BY <1>4, <1>8, <1>9, NoneDue
  <2>2. list # <<>> => t < Time(list[1]) /\ ~(Time(list[1]) <= q * SegmentTime)
    <3> SUFFICES ASSUME list # <<>>
                 PROVE  t < Time(list[1]) /\ ~(Time(list[1]) <= q * SegmentTime)
      OBVIOUS
    <3>1. 1 \in 1..Len(list)
      BY <1>2
    <3>2. Time(list[1]) \in Nat /\ ~(Time(list[1]) <= t)
      BY <1>2, <1>9, <3>1
    <3> QED BY <1>6, <3>2
  <2>3. Len(list) < MarkCap
    BY <1>2, <2>2, PlayoutAssumption DEF ReachesBack, q
  <2>4. StreamIn(L, t) = Nothing
    BY <1>7, <2>2, <2>3 DEF Truthful
  <2> QED BY <2>1, <2>4 DEF Right, P
<1>10. CASE \E j \in 1..Len(list) : Time(list[j]) <= t
  <2>1. list # <<>> /\ Time(list[1]) <= t
    <3>1. PICK j \in 1..Len(list) : Time(list[j]) <= t
      BY <1>10
    <3>2. 1 \in 1..Len(list) /\ 1 <= j /\ list # <<>>
      BY <1>2
    <3>3. Time(list[1]) <= Time(list[j])
      BY <1>1, <3>2 DEF Ordered
    <3>4. Time(list[1]) \in Nat /\ Time(list[j]) \in Nat
      BY <1>2, <3>2
    <3> QED BY <3>1, <3>2, <3>3, <3>4
  <2>2. PICK j \in 1..Len(list) : MarkFor(list, j, t)
    BY <1>1, <2>1 DEF Ordered
  <2>3. Tells(L, list[j], t)
    BY <2>2 DEF Truthful
  <2>4. /\ Time(list[j]) <= t /\ Time(list[j]) \in Nat
        /\ list[j].after \in Nat /\ list[j].offset \in Nat /\ list[j].pos \in Nat
        /\ list[j].id \in Name
    BY <1>1, <2>2, OrderedType DEF MarkFor
  <2>5. \A k \in DOMAIN P : P[k].at <= t + b => /\ k \in 1..Len(list) /\ k <= j
                                                /\ Time(list[k]) <= Time(list[j])
                                                /\ list[k].after <= list[j].after
    BY <1>1, <1>4, <1>8, <2>2, NotLater
  <2>6. CASE j \in DOMAIN P
    <3>1. P[j].at = Time(list[j]) + b /\ P[j].id = list[j].id /\ P[j].pos = list[j].pos
      BY <1>4, <2>6
    <3>2. P[j].at \in Int /\ P[j].at <= t + b /\ j \in Int /\ t + b \in Int
      BY <2>4, <3>1
    <3>3. \A k \in DOMAIN P : P[k].at <= t + b => /\ k \in Int /\ k <= j
                                                  /\ P[k].at \in Int /\ P[k].at <= P[j].at
      <4> SUFFICES ASSUME NEW k \in DOMAIN P, P[k].at <= t + b
                   PROVE  /\ k \in Int /\ k <= j
                          /\ P[k].at \in Int /\ P[k].at <= P[j].at
        OBVIOUS
      <4>1. k \in 1..Len(list) /\ k <= j /\ Time(list[k]) <= Time(list[j])
        BY <2>5
      <4>2. P[k].at = Time(list[k]) + b
        BY <1>4
      <4>3. Time(list[k]) \in Nat /\ Time(list[j]) \in Nat
        BY <1>2, <4>1
      <4> QED BY <3>1, <4>1, <4>2, <4>3
    <3>4. PositionAt(P, t + b) = [id |-> P[j].id, position |-> P[j].pos + ((t + b) - P[j].at)]
      BY <2>6, <3>2, <3>3, ChosenIs
    <3>5. (t + b) - (Time(list[j]) + b) = t - Time(list[j])
      BY <2>4
    <3>6. PositionAt(P, t + b) = [id |-> list[j].id, position |-> list[j].pos + (t - Time(list[j]))]
      BY <3>1, <3>4, <3>5
    <3>7. Right(L, [id |-> list[j].id, position |-> list[j].pos + (t - Time(list[j]))], t)
      BY <2>3, <2>4, PlacedIsRight
    <3> QED BY <3>6, <3>7 DEF P
  <2>7. CASE j \notin DOMAIN P
    <3>1. list[j].after \notin DOMAIN E
      BY <1>4, <2>2, <2>7
    <3>2. list[j].after <= q
      <4>1. list[j].after * SegmentTime + list[j].offset <= t
        BY <2>4 DEF Time
      <4> QED BY <1>5, <1>6, <2>4, <4>1, NotAfter
    <3>3. list[j].after < q
      <4>1. list[j].after # q
        BY <1>5, <3>1
      <4> QED BY <1>5, <2>4, <3>2, <4>1
    <3>4. list[j].id = Silence
      BY <1>5, <1>6, <2>3, <2>4, <3>3, EarlierIsSilent
    <3>5. /\ StreamIn(L, t) = Nothing /\ IndexIn(L, t) > 1
          /\ L[IndexIn(L, t)].id = Silence /\ Time(list[j]) = L[IndexIn(L, t)].at
      BY <2>3, <3>4 DEF Tells
    <3>6. CASE \A k \in DOMAIN P : ~(P[k].at <= t + b)
      <4>1. PositionAt(P, t + b) = Nothing
        BY <3>6, NoneDue
      <4> QED BY <3>5, <4>1 DEF Right, P
    <3>7. CASE \E k \in DOMAIN P : P[k].at <= t + b
      <4>1. PICK k \in DOMAIN P : P[k].at <= t + b
        BY <3>7
      <4>2. /\ k \in 1..Len(list) /\ list[k].after <= list[j].after
            /\ list[k].after \in DOMAIN E
        BY <1>4, <2>5, <4>1
      <4>3. list[k].after # list[j].after
        BY <3>1, <4>2
      <4>4. list[k].after \in Nat /\ list[j].after \in Nat
        BY <1>2, <2>4, <4>2
      <4>5. list[k].after < list[j].after
        BY <4>2, <4>3, <4>4
      <4>6. IndexIn(L, t) # 0
        BY <3>5
      <4> QED BY <3>1, <3>4, <3>5, <4>2, <4>5, <4>6 DEF SkippedIn
    <3> QED BY <3>6, <3>7
  <2> QED BY <2>6, <2>7
<1> QED BY <1>9, <1>10

-----------------------------------------------------------------------------
\* The invariant: the types of the playout's variables,
PlayoutTypes ==
    /\ clock \in Nat /\ since \in Nat /\ segment \in Nat /\ ended \in Nat
    /\ track \in Name /\ log \in Seq(LogSet)

\* the clock between the ends of two segments,
Paced == /\ ended = segment * SegmentTime
         /\ ended <= clock /\ clock <= ended + SegmentTime
         /\ (clock - ended) % Tick = 0
         /\ since <= clock

\* the log in order, its last entry what is on the stream now,
LogKept ==
    /\ \A i \in 1..Len(log) : log[i].at <= clock
    /\ \A i, j \in 1..Len(log) : i <= j => log[i].at <= log[j].at
    /\ \A i \in 1..Len(log) : i > 1 => log[i].id # log[i - 1].id
    /\ Len(log) = 0 => track = Silence
    /\ Len(log) > 0 => log[Len(log)].id = track /\ log[1].id # Silence
    /\ track # Silence => since = log[Len(log)].at
    /\ track = Silence /\ Len(log) > 0 => since = log[Len(log) - 1].at

\* and the last mark, which speaks of the present,
LastMark ==
    /\ segment = 0 => marks = <<>>
    /\ marks = <<>> => segment = 0 \/ track = Silence
    /\ marks # <<>> => LET m == marks[Len(marks)]
                       IN  /\ Len(log) > 0 /\ m.id = track
                           /\ m.pos = Time(m) - since
                           /\ m.after <= segment
                           /\ track # Silence => m.after = segment
                           /\ track = Silence => Time(m) = log[Len(log)].at

PlayoutInv == PlayoutTypes /\ Paced /\ LogKept /\ LastMark /\ Truthful(log, marks, clock)

\* the buffered segments, on one timeline while there is one,
MediaInv ==
    /\ playing \in BOOLEAN /\ at \in Int /\ base \in Int \cup {Nothing}
    /\ DOMAIN ends \subseteq 1..segment
    /\ base # Nothing => OnTimeline(ends, base)
    /\ playing /\ base = Nothing => DOMAIN ends = {}

\* and the copy of the marks, truthful about the time it was read.
CopyInv == /\ copy.asOf \in Nat /\ copy.asOf <= clock
           /\ Truthful(log, copy.list, copy.asOf)

Inv == PlayoutInv /\ MediaInv /\ CopyInv

\* What the assumptions say of the length of a segment.
LEMMA TickIs == SegmentTime \in Nat \ {0} /\ SegmentTime % 2 = 0 /\ Tick = 2
  BY PlayoutAssumption, TickAssumption DEF Tick

\* Types of an entry of the log.
LEMMA EntryType ==
    ASSUME PlayoutInv, NEW i \in 1..Len(log)
    PROVE  log[i] \in LogSet /\ log[i].at \in Nat /\ log[i].id \in Name
<1>1. log[i] \in LogSet
  BY DEF PlayoutInv, PlayoutTypes
<1> QED BY <1>1 DEF LogSet

\* Types of the last mark.
LEMMA LastMarkType ==
    ASSUME PlayoutInv, marks # <<>>
    PROVE  LET m == marks[Len(marks)]
           IN  m \in MarkSet /\ m.after \in Nat /\ m.after <= segment /\ Time(m) \in Nat
<1>1. marks[Len(marks)] \in MarkSet
  BY DEF PlayoutInv, Truthful, Ordered
<1>2. marks[Len(marks)].after \in Nat
  BY <1>1 DEF MarkSet
<1>3. marks[Len(marks)].after <= segment
  BY DEF PlayoutInv, LastMark
<1> QED BY <1>1, <1>2, <1>3, TimeType

\* The playout tells the truth from the start: nothing has been on.
LEMMA NothingIsTrue == Truthful(<<>>, <<>>, 0)
<1>1. \A t \in Int : IndexIn(<<>>, t) = 0
  <2>1. <<>> \in Seq(LogSet) /\ Len(<<>>) = 0
    OBVIOUS
  <2> TAKE t \in Int
  <2>2. IndexIn(<<>>, t) \in 0..Len(<<>>)
    BY <2>1, IndexInIs
  <2> QED BY <2>1, <2>2
<1>2. \A t \in Int : StreamIn(<<>>, t) = Nothing
  BY <1>1 DEF StreamIn
<1> QED BY <1>2 DEF Truthful, Ordered

\* What AddMark leaves is as truthful as what it found.
LEMMA AddMarkIs ==
    ASSUME NEW L, NEW m \in AnyMark, AddMark(m),
           NEW c \in Int, Truthful(L, marks, c),
           m.after > 0 => Time(m) = c,
           marks # <<>> => marks[Len(marks)].after <= m.after
    PROVE  /\ Truthful(L, marks', c)
           /\ m.after = 0 => marks' = marks
           /\ m.after > 0 => marks' # <<>> /\ marks'[Len(marks')] = m
<1>1. CASE m.after = 0
  BY <1>1 DEF AddMark
<1>2. CASE m.after > 0
  <2> DEFINE l == Append(marks, m)
  <2>1. m \in MarkSet
    BY <1>2 DEF MarkSet, AnyMark
  <2>2. Truthful(L, l, c)
    BY <1>2, <2>1, TruthfulAppend
  <2>3. /\ l \in Seq(MarkSet) /\ Len(l) \in Nat \ {0} /\ l[Len(l)] = m
    BY <2>1 DEF Truthful, Ordered
  <2>4. marks' = IF Len(l) > MarkCap THEN Tail(l) ELSE l
    BY <1>2 DEF AddMark
  <2> HIDE DEF l
  <2>5. CASE Len(l) > MarkCap
    <3>1. Truthful(L, Tail(l), c)
      BY <2>2, <2>5, TruthfulTail
    <3>2. Len(l) > 1
      BY <2>3, <2>5, PlayoutAssumption
    <3>3. Len(Tail(l)) = Len(l) - 1 /\ Tail(l)[Len(l) - 1] = l[Len(l)] /\ Tail(l) # <<>>
      BY <2>3, <3>2, TailIs
    <3> QED BY <1>2, <2>3, <2>4, <2>5, <3>1, <3>3
  <2>6. CASE ~(Len(l) > MarkCap)
    <3>1. l # <<>>
      BY <2>3
    <3> QED BY <1>2, <2>2, <2>3, <2>4, <2>6, <3>1
  <2> QED BY <2>5, <2>6
<1> QED BY <1>1, <1>2 DEF AnyMark

\* From now on and until the segment ends what was said last holds.
LEMMA NowIs ==
    ASSUME PlayoutInv, NEW t \in Int, clock <= t
    PROVE  /\ IndexIn(log, t) = Len(log)
           /\ track = Silence => StreamIn(log, t) = Nothing
           /\ track # Silence => /\ Len(log) > 0
                                 /\ StreamIn(log, t) = [id |-> track, position |-> t - since]
<1>1. log \in Seq(LogSet) /\ Len(log) \in 0..Len(log) /\ Len(log) \in Nat
  BY DEF PlayoutInv, PlayoutTypes
<1>2. \A i \in 1..Len(log) : log[i].at <= t
  <2> TAKE i \in 1..Len(log)
  <2>1. log[i].at <= clock /\ log[i].at \in Nat /\ clock \in Nat
    <3>1. log[i].at <= clock /\ clock \in Nat
      BY DEF PlayoutInv, PlayoutTypes, LogKept
    <3>2. log[i] \in LogSet
      BY <1>1
    <3> QED BY <3>1, <3>2 DEF LogSet
  <2> QED BY <2>1
<1>3. \A i \in 1..Len(log) : i <= Len(log)
  BY <1>1
<1>4. IndexIn(log, t) = Len(log)
  <2>1. Len(log) > 0 => log[Len(log)].at <= t
    BY <1>1, <1>2
  <2> QED BY <1>1, <1>3, <2>1, IndexInUnique
<1>5. CASE track = Silence
  <2>1. Len(log) = 0 \/ log[Len(log)].id = Silence
    BY <1>1, <1>5 DEF PlayoutInv, LogKept
  <2> QED BY <1>4, <1>5, <2>1 DEF StreamIn
<1>6. CASE track # Silence
  <2>1. Len(log) > 0 /\ log[Len(log)].id = track /\ since = log[Len(log)].at
    BY <1>1, <1>6 DEF PlayoutInv, LogKept
  <2> QED BY <1>1, <1>4, <1>6, <2>1 DEF StreamIn
<1> QED BY <1>4, <1>5, <1>6

-----------------------------------------------------------------------------
\* Time passes: the last mark stays right until its segment is over.
LEMMA StreamRunsKeeps == PlayoutInv /\ StreamRuns => PlayoutInv'
<1> SUFFICES ASSUME PlayoutInv, StreamRuns PROVE PlayoutInv'
  OBVIOUS
<1>1. /\ clock' = clock + 2 /\ clock \in Nat /\ ended \in Nat /\ since \in Nat /\ segment \in Nat
      /\ UNCHANGED <<track, since, segment, ended, marks, log>>
  BY TickIs DEF StreamRuns, PlayoutInv, PlayoutTypes
<1>2. clock + 2 <= ended + SegmentTime
  <2>1. clock < ended + SegmentTime /\ ended <= clock /\ (clock - ended) % 2 = 0
    BY <1>1, TickIs DEF StreamRuns, SegmentDue, PlayoutInv, Paced
  <2> QED BY <1>1, <2>1, TickIs
<1>3. PlayoutTypes'
  BY <1>1 DEF PlayoutInv, PlayoutTypes
<1>4. Paced'
  <2>1. (clock - ended) % 2 = 0
    BY TickIs DEF PlayoutInv, Paced
  <2>2. ((clock + 2) - ended) % 2 = 0
    BY <1>1, <2>1
  <2> QED BY <1>1, <1>2, <2>2, TickIs DEF PlayoutInv, Paced
<1>5. LogKept'
  <2>1. \A i \in 1..Len(log) : log[i].at \in Nat
    BY EntryType
  <2> QED BY <1>1, <2>1 DEF PlayoutInv, LogKept
<1>6. LastMark'
  BY <1>1 DEF PlayoutInv, LastMark, Time
<1>7. ASSUME NEW t \in Int, clock <= t, t < clock + 2, marks # <<>>
      PROVE  Tells(log, marks[Len(marks)], t)
  <2> DEFINE m == marks[Len(marks)]
  <2>1. /\ Len(log) > 0 /\ m.id = track /\ m.pos = Time(m) - since
        /\ track # Silence => m.after = segment
        /\ track = Silence => Time(m) = log[Len(log)].at
    BY <1>7 DEF PlayoutInv, LastMark
  <2>2. Time(m) \in Nat
    BY <1>7, TimeType DEF PlayoutInv, Truthful, Ordered
  <2> SUFFICES Tells(log, m, t)
    OBVIOUS
  <2> HIDE DEF m
  <2>3. m.pos + (t - Time(m)) = t - since
    BY <1>1, <2>1, <2>2
  <2>4. CASE track = Silence
    <3>1. IndexIn(log, t) = Len(log) /\ StreamIn(log, t) = Nothing
      BY <1>7, <2>4, NowIs
    <3>2. log[1].id # Silence /\ log[Len(log)].id = Silence /\ since = log[Len(log) - 1].at
      BY <2>1, <2>4 DEF PlayoutInv, LogKept
    <3>3. Len(log) > 1
      <4>1. Len(log) \in Nat
        BY DEF PlayoutInv, PlayoutTypes
      <4> QED BY <2>1, <3>2, <4>1
    <3>4. m.pos + (t - Time(m)) = t - log[IndexIn(log, t) - 1].at
      BY <2>3, <3>1, <3>2
    <3>5. m.id = Silence /\ Time(m) = log[Len(log)].at
      BY <2>1, <2>4
    <3> QED BY <3>1, <3>2, <3>3, <3>4, <3>5 DEF Tells
  <2>5. CASE track # Silence
    <3>1. StreamIn(log, t) = [id |-> track, position |-> t - since]
      BY <1>7, <2>5, NowIs
    <3>2. (segment + 1) * SegmentTime = ended + SegmentTime
      BY <1>1, TickIs, TimesNext DEF PlayoutInv, Paced
    <3>3. t < (segment + 1) * SegmentTime
      BY <1>1, <1>2, <1>7, <3>2, TickIs
    <3>4. m.id = track /\ m.id # Silence /\ m.after = segment
      BY <2>1, <2>5
    <3>5. StreamIn(log, t) = [id |-> m.id, position |-> m.pos + (t - Time(m))]
      BY <2>3, <3>1, <3>4
    <3> QED BY <3>3, <3>4, <3>5 DEF Tells
  <2> QED BY <2>4, <2>5
<1>8. ASSUME NEW t \in Int, clock <= t, t < clock + 2, marks = <<>>, SegmentTime <= t
      PROVE  StreamIn(log, t) = Nothing
  <2>1. segment # 0
    <3> SUFFICES ASSUME segment = 0 PROVE FALSE
      OBVIOUS
    <3>1. ended = 0
      BY TickIs DEF PlayoutInv, Paced
    <3> QED BY <1>1, <1>2, <1>8, <3>1, TickIs
  <2>2. track = Silence
    BY <1>8, <2>1 DEF PlayoutInv, LastMark
  <2> QED BY <1>8, <2>2, NowIs
<1>9. Truthful(log, marks, clock + 2)
  <2>1. log \in Seq(LogSet) /\ Truthful(log, marks, clock)
    BY DEF PlayoutInv, PlayoutTypes
  <2>2. clock \in Int /\ clock + 2 \in Int /\ clock <= clock + 2
    BY <1>1
  <2> QED BY <1>7, <1>8, <2>1, <2>2, TruthLasts
<1> QED BY <1>1, <1>3, <1>4, <1>5, <1>6, <1>9 DEF PlayoutInv

\* A segment ends: a track that is on gets a mark that holds through the next.
LEMMA SegmentEndsKeeps == PlayoutInv /\ SegmentEnds => PlayoutInv'
<1> SUFFICES ASSUME PlayoutInv, SegmentEnds PROVE PlayoutInv'
  OBVIOUS
<1>1. /\ clock \in Nat /\ ended \in Nat /\ since \in Nat /\ segment \in Nat /\ since <= clock
      /\ segment' = segment + 1 /\ ended' = clock
      /\ UNCHANGED <<clock, track, since, log>>
  BY DEF SegmentEnds, PlayoutInv, PlayoutTypes, Paced
<1>2. clock = (segment + 1) * SegmentTime
  <2>1. clock = ended + SegmentTime
    BY <1>1, TickIs DEF SegmentEnds, SegmentDue, PlayoutInv, Paced
  <2>2. (segment + 1) * SegmentTime = segment * SegmentTime + SegmentTime
    BY <1>1, TickIs, TimesNext
  <2> QED BY <2>1, <2>2 DEF PlayoutInv, Paced
<1>3. PlayoutTypes'
  BY <1>1 DEF PlayoutInv, PlayoutTypes
<1>4. Paced'
  BY <1>1, <1>2, TickIs DEF PlayoutInv, Paced
<1>5. LogKept'
  BY <1>1 DEF PlayoutInv, LogKept
<1>6. LastMark' /\ Truthful(log, marks', clock)
  <2>1. CASE track = Silence
    <3>1. marks' = marks
      BY <2>1 DEF SegmentEnds
    <3>2. \A m : m \in MarkSet => m.after \in Nat
      BY DEF MarkSet
    <3>3. marks # <<>> => marks[Len(marks)] \in MarkSet
      BY DEF PlayoutInv, Truthful, Ordered
    <3>4. LastMark'
      BY <1>1, <2>1, <3>1, <3>2, <3>3 DEF PlayoutInv, LastMark, Time
    <3> QED BY <3>1, <3>4 DEF PlayoutInv
  <2>2. CASE track # Silence
    <3> DEFINE m == Mark(segment + 1, 0, track, clock - since)
    <3>1. /\ m = [after |-> segment + 1, offset |-> 0, id |-> track, pos |-> clock - since]
          /\ AddMark(m) /\ segment + 1 > 0
      BY <1>1, <2>2 DEF SegmentEnds, Mark
    <3>2. m \in AnyMark
      BY <1>1, <3>1 DEF AnyMark, PlayoutInv, PlayoutTypes
    <3>3. Time(m) = clock
      BY <1>1, <1>2, <3>1 DEF Time
    <3>4. marks # <<>> => marks[Len(marks)].after <= m.after
      <4>1. marks # <<>> => marks[Len(marks)].after <= segment /\ marks[Len(marks)].after \in Nat
        BY LastMarkType
      <4> QED BY <1>1, <3>1, <4>1
    <3>5. m.after > 0 /\ m.after = segment + 1 /\ m.id = track /\ m.pos = clock - since
      BY <1>1, <3>1
    <3> HIDE DEF m
    <3>6. Truthful(log, marks', clock) /\ marks' # <<>> /\ marks'[Len(marks')] = m
      BY <1>1, <3>1, <3>2, <3>3, <3>4, <3>5, AddMarkIs DEF PlayoutInv
    <3>7. Len(log) > 0
      BY <1>1, <2>2, NowIs
    <3>8. LastMark'
      <4>1. segment' # 0 /\ Len(log') > 0 /\ track' = track /\ since' = since
        BY <1>1, <3>7
      <4>2. marks'[Len(marks')].pos = Time(marks'[Len(marks')]) - since
        BY <3>3, <3>5, <3>6
      <4>3. marks'[Len(marks')].id = track /\ marks'[Len(marks')].after = segment'
        BY <1>1, <3>5, <3>6
      <4>4. segment' <= segment' /\ track' # Silence
        BY <1>1, <2>2
      <4> QED BY <3>6, <4>1, <4>2, <4>3, <4>4 DEF LastMark
    <3> QED BY <3>6, <3>8
  <2> QED BY <2>1, <2>2
<1> QED BY <1>1, <1>3, <1>4, <1>5, <1>6 DEF PlayoutInv

\* The mark of a change of track speaks of the present.
LEMMA EventMark ==
    ASSUME PlayoutInv, NEW id \in Name, NEW pos \in Nat, AddMark(FromSegmentEnd(id, pos)),
           NEW e \in LogSet, e.at = clock
    PROVE  /\ Truthful(Append(log, e), marks', clock)
           /\ segment = 0 => marks' = <<>>
           /\ segment > 0 => LET m == marks'[Len(marks')]
                             IN  /\ marks' # <<>> /\ m.id = id /\ m.pos = pos
                                 /\ m.after = segment /\ Time(m) = clock
<1> DEFINE m == FromSegmentEnd(id, pos)
<1>1. /\ clock \in Nat /\ segment \in Nat /\ ended \in Nat
      /\ ended <= clock /\ ended = segment * SegmentTime
  BY DEF PlayoutInv, PlayoutTypes, Paced
<1>2. m = [after |-> segment, offset |-> clock - ended, id |-> id, pos |-> pos]
  BY DEF FromSegmentEnd, Mark
<1>3. m \in AnyMark
  BY <1>1, <1>2 DEF AnyMark
<1>4. Time(m) = clock
  <2>1. Time(m) = ended + (clock - ended)
    BY <1>1, <1>2 DEF Time
  <2> QED BY <1>1, <2>1
<1>5. m.after = segment /\ m.id = id /\ m.pos = pos
  BY <1>2
<1>6. marks # <<>> => marks[Len(marks)].after <= m.after
  BY <1>5, LastMarkType
<1>7. Truthful(Append(log, e), marks, clock)
  <2>1. clock \in Int /\ clock <= e.at /\ log \in Seq(LogSet) /\ Truthful(log, marks, clock)
    BY <1>1 DEF PlayoutInv, PlayoutTypes
  <2> QED BY <2>1, TruthIsKept
<1>8. AddMark(m)
  OBVIOUS
<1> HIDE DEF m
<1>9. /\ Truthful(Append(log, e), marks', clock)
      /\ m.after = 0 => marks' = marks
      /\ m.after > 0 => marks' # <<>> /\ marks'[Len(marks')] = m
  BY <1>1, <1>3, <1>4, <1>6, <1>7, <1>8, AddMarkIs
<1>10. segment = 0 => marks = <<>>
  BY DEF PlayoutInv, LastMark
<1> QED BY <1>4, <1>5, <1>9, <1>10

\* The log stays in order, and no entry repeats the one before it.
LEMMA EventLog ==
    ASSUME PlayoutInv, NEW e \in LogSet, e.at = clock, e.id # track
    PROVE  LET L == Append(log, e)
           IN  /\ L \in Seq(LogSet) /\ Len(L) = Len(log) + 1 /\ Len(log) \in Nat
               /\ L[Len(L)] = e /\ (Len(log) > 0 => L[Len(log)] = log[Len(log)])
               /\ \A i \in 1..Len(L) : L[i].at <= clock
               /\ \A i, j \in 1..Len(L) : i <= j => L[i].at <= L[j].at
               /\ \A i \in 1..Len(L) : i > 1 => L[i].id # L[i - 1].id
               /\ L[1].id # Silence
<1> DEFINE L == Append(log, e)
<1>1. log \in Seq(LogSet) /\ Len(log) \in Nat /\ clock \in Nat
  BY DEF PlayoutInv, PlayoutTypes
<1>2. /\ L \in Seq(LogSet) /\ Len(L) = Len(log) + 1 /\ L[Len(log) + 1] = e
      /\ \A i \in 1..Len(log) : L[i] = log[i]
      /\ \A i \in 1..Len(L) : i \in 1..Len(log) \/ i = Len(log) + 1
  BY <1>1, AppendIs
<1> HIDE DEF L
<1>3. \A i \in 1..Len(L) : L[i].at <= clock /\ L[i].at \in Nat
  <2> TAKE i \in 1..Len(L)
  <2>1. CASE i \in 1..Len(log)
    <3>1. log[i].at <= clock
      BY <2>1 DEF PlayoutInv, LogKept
    <3> QED BY <1>2, <2>1, <3>1, EntryType
  <2>2. CASE i = Len(log) + 1
    BY <1>1, <1>2, <2>2
  <2> QED BY <1>2, <2>1, <2>2
<1>4. ASSUME NEW i \in 1..Len(L), NEW j \in 1..Len(L), i <= j
      PROVE  L[i].at <= L[j].at
  <2>1. CASE j = Len(log) + 1
    BY <1>2, <1>3, <2>1
  <2>2. CASE j \in 1..Len(log)
    <3>1. i \in 1..Len(log)
      BY <1>1, <1>4, <2>2
    <3>2. log[i].at <= log[j].at
      BY <1>4, <2>2, <3>1 DEF PlayoutInv, LogKept
    <3> QED BY <1>2, <2>2, <3>1, <3>2
  <2> QED BY <1>2, <2>1, <2>2
<1>5. ASSUME NEW i \in 1..Len(L), i > 1
      PROVE  L[i].id # L[i - 1].id
  <2>1. CASE i = Len(log) + 1
    <3>1. Len(log) > 0 /\ i - 1 = Len(log) /\ Len(log) \in 1..Len(log)
      BY <1>1, <1>5, <2>1
    <3>2. log[Len(log)].id = track
      BY <3>1 DEF PlayoutInv, LogKept
    <3> QED BY <1>2, <2>1, <3>1, <3>2
  <2>2. CASE i \in 1..Len(log)
    <3>1. i - 1 \in 1..Len(log)
      BY <1>1, <1>5, <2>2
    <3>2. log[i].id # log[i - 1].id
      BY <1>5, <2>2 DEF PlayoutInv, LogKept
    <3> QED BY <1>2, <2>2, <3>1, <3>2
  <2> QED BY <1>2, <2>1, <2>2
<1>6. L[1].id # Silence
  <2>1. CASE Len(log) = 0
    <3>1. track = Silence
      BY <2>1 DEF PlayoutInv, LogKept
    <3>2. L[1] = e
      BY <1>2, <2>1
    <3> QED BY <3>1, <3>2
  <2>2. CASE Len(log) > 0
    <3>1. log[1].id # Silence
      BY <2>2 DEF PlayoutInv, LogKept
    <3>2. 1 \in 1..Len(log)
      BY <1>1, <2>2
    <3> QED BY <1>2, <3>1, <3>2
  <2> QED BY <1>1, <2>1, <2>2
<1>7. Len(log) > 0 => L[Len(log)] = log[Len(log)]
  BY <1>1, <1>2
<1> QED BY <1>1, <1>2, <1>3, <1>4, <1>5, <1>6, <1>7 DEF L

\* A track starts.
LEMMA TrackStartsKeeps == ASSUME NEW id \in Track, PlayoutInv, TrackStarts(id) PROVE PlayoutInv'
<1> DEFINE e == [at |-> clock, id |-> id]
<1>1. /\ clock \in Nat /\ ended \in Nat /\ since \in Nat /\ segment \in Nat
      /\ id # track /\ track' = id /\ since' = clock
      /\ AddMark(FromSegmentEnd(id, 0)) /\ log' = Append(log, e)
      /\ UNCHANGED <<clock, segment, ended>>
  BY DEF TrackStarts, PlayoutInv, PlayoutTypes
<1>2. e \in LogSet /\ e.at = clock /\ e.id = id /\ id \in Name /\ id # Silence
  BY <1>1, PlayoutAssumption DEF LogSet, Name
<1> HIDE DEF e
<1>3. /\ log' \in Seq(LogSet) /\ Len(log') = Len(log) + 1 /\ Len(log) \in Nat
      /\ log'[Len(log')] = e
      /\ \A i \in 1..Len(log') : log'[i].at <= clock
      /\ \A i, j \in 1..Len(log') : i <= j => log'[i].at <= log'[j].at
      /\ \A i \in 1..Len(log') : i > 1 => log'[i].id # log'[i - 1].id
      /\ log'[1].id # Silence
  BY <1>1, <1>2, EventLog
<1>4. PlayoutTypes'
  BY <1>1, <1>2, <1>3 DEF PlayoutTypes
<1>5. Paced'
  BY <1>1 DEF PlayoutInv, Paced
<1>6. Len(log') > 0 /\ Len(log') # 0
  BY <1>3
<1>7. LogKept'
  BY <1>1, <1>2, <1>3, <1>6 DEF LogKept
<1>8. /\ Truthful(log', marks', clock)
      /\ segment = 0 => marks' = <<>>
      /\ segment > 0 => LET m == marks'[Len(marks')]
                        IN  /\ marks' # <<>> /\ m.id = id /\ m.pos = 0
                            /\ m.after = segment /\ Time(m) = clock
  BY <1>1, <1>2, EventMark
<1>9. LastMark'
  <2>1. clock - clock = 0 /\ segment <= segment /\ (segment = 0 \/ segment > 0)
    BY <1>1
  <2> QED BY <1>1, <1>2, <1>6, <1>8, <2>1 DEF LastMark
<1> QED BY <1>1, <1>4, <1>5, <1>7, <1>8, <1>9 DEF PlayoutInv

\* The queue runs out: the mark counts from the start of the last track.
LEMMA QueueRunsOutKeeps == PlayoutInv /\ QueueRunsOut => PlayoutInv'
<1> SUFFICES ASSUME PlayoutInv, QueueRunsOut PROVE PlayoutInv'
  OBVIOUS
<1> DEFINE e == [at |-> clock, id |-> Silence]
<1>1. /\ clock \in Nat /\ ended \in Nat /\ since \in Nat /\ segment \in Nat
      /\ since <= clock
      /\ track # Silence /\ track' = Silence
      /\ AddMark(FromSegmentEnd(Silence, clock - since)) /\ log' = Append(log, e)
      /\ UNCHANGED <<clock, since, segment, ended>>
  BY DEF QueueRunsOut, PlayoutInv, PlayoutTypes, Paced
<1>2. e \in LogSet /\ e.at = clock /\ e.id = Silence /\ Silence \in Name /\ clock - since \in Nat
  BY <1>1 DEF LogSet, Name
<1> HIDE DEF e
<1>3. /\ log' \in Seq(LogSet) /\ Len(log') = Len(log) + 1 /\ Len(log) \in Nat
      /\ log'[Len(log')] = e /\ (Len(log) > 0 => log'[Len(log)] = log[Len(log)])
      /\ \A i \in 1..Len(log') : log'[i].at <= clock
      /\ \A i, j \in 1..Len(log') : i <= j => log'[i].at <= log'[j].at
      /\ \A i \in 1..Len(log') : i > 1 => log'[i].id # log'[i - 1].id
      /\ log'[1].id # Silence
  BY <1>1, <1>2, EventLog
<1>4. PlayoutTypes'
  BY <1>1, <1>2, <1>3 DEF PlayoutTypes
<1>5. Paced'
  BY <1>1 DEF PlayoutInv, Paced
<1>6. Len(log) > 0 /\ Len(log') > 0 /\ Len(log') # 0 /\ Len(log') - 1 = Len(log)
  BY <1>1, <1>3 DEF PlayoutInv, LogKept
<1>7. LogKept'
  <2>1. since = log'[Len(log') - 1].at
    <3>1. since = log[Len(log)].at
      BY <1>1 DEF PlayoutInv, LogKept
    <3>2. log'[Len(log') - 1] = log[Len(log)]
      BY <1>3, <1>6
    <3> QED BY <3>1, <3>2
  <2>2. log'[Len(log')].id = track'
    BY <1>1, <1>2, <1>3
  <2>3. clock' = clock /\ since' = since /\ track' = Silence
    BY <1>1
  <2> QED BY <1>3, <1>6, <2>1, <2>2, <2>3 DEF LogKept
<1>8. /\ Truthful(log', marks', clock)
      /\ segment = 0 => marks' = <<>>
      /\ segment > 0 => LET m == marks'[Len(marks')]
                        IN  /\ marks' # <<>> /\ m.id = Silence /\ m.pos = clock - since
                            /\ m.after = segment /\ Time(m) = clock
  BY <1>1, <1>2, EventMark
<1>9. LastMark'
  <2>1. segment <= segment /\ (segment = 0 \/ segment > 0)
    BY <1>1
  <2>2. log'[Len(log')].at = clock
    BY <1>2, <1>3
  <2> QED BY <1>1, <1>6, <1>8, <2>1, <2>2 DEF LastMark
<1> QED BY <1>1, <1>4, <1>5, <1>7, <1>8, <1>9 DEF PlayoutInv

-----------------------------------------------------------------------------
\* The playout's part of the invariant holds at first.
LEMMA PlayoutStarts == PlayoutInit => PlayoutInv
<1> SUFFICES ASSUME PlayoutInit PROVE PlayoutInv
  OBVIOUS
<1>1. /\ clock = 0 /\ track = Silence /\ since = 0 /\ segment = 0 /\ ended = 0
      /\ marks = <<>> /\ log = <<>>
  BY DEF PlayoutInit
<1>2. PlayoutTypes
  BY <1>1 DEF PlayoutTypes, Name
<1>3. Paced
  BY <1>1, TickIs DEF Paced
<1>4. LogKept
  BY <1>1 DEF LogKept
<1>5. LastMark
  BY <1>1 DEF LastMark
<1> QED BY <1>1, <1>2, <1>3, <1>4, <1>5, NothingIsTrue DEF PlayoutInv

\* What does not touch the playout keeps its part.
LEMMA PlayoutSame == PlayoutInv /\ UNCHANGED playoutVars => PlayoutInv'
<1> SUFFICES ASSUME PlayoutInv, UNCHANGED playoutVars PROVE PlayoutInv'
  OBVIOUS
<1>1. UNCHANGED <<clock, track, since, segment, ended, marks, log>>
  BY DEF playoutVars
<1>2. PlayoutTypes' /\ Paced' /\ LogKept'
  BY <1>1 DEF PlayoutInv, PlayoutTypes, Paced, LogKept
<1>3. LastMark'
  BY <1>1 DEF PlayoutInv, LastMark, Time
<1> QED BY <1>1, <1>2, <1>3 DEF PlayoutInv

\* What was true of the past is true after whatever the playout does.
LEMMA PastIsKept ==
    ASSUME PlayoutInv, NEW list, NEW c \in Nat, c <= clock, Truthful(log, list, c),
           \/ log' = log
           \/ \E id \in Name : log' = Append(log, [at |-> clock, id |-> id])
    PROVE  Truthful(log', list, c)
<1>1. CASE log' = log
  BY <1>1
<1>2. CASE \E id \in Name : log' = Append(log, [at |-> clock, id |-> id])
  <2>1. PICK id \in Name : log' = Append(log, [at |-> clock, id |-> id])
    BY <1>2
  <2> DEFINE e == [at |-> clock, id |-> id]
  <2>2. e \in LogSet /\ e.at = clock /\ log \in Seq(LogSet) /\ c \in Int
    BY DEF PlayoutInv, PlayoutTypes, LogSet
  <2> HIDE DEF e
  <2>3. Truthful(Append(log, e), list, c)
    BY <2>2, TruthIsKept
  <2> QED BY <2>1, <2>3 DEF e
<1> QED BY <1>1, <1>2

\* Steps of the playout keep the player's part as well.
LEMMA PlayoutEventKeeps == Inv /\ PlayoutEvent /\ UNCHANGED playerVars => Inv'
<1> SUFFICES ASSUME Inv, PlayoutEvent, UNCHANGED playerVars PROVE Inv'
  OBVIOUS
<1>1. PlayoutInv'
  BY SegmentEndsKeeps, QueueRunsOutKeeps, TrackStartsKeeps DEF Inv, PlayoutEvent
<1>2. UNCHANGED <<playing, ends, base, at, copy>>
  BY DEF playerVars, sessionVars, mediaVars
<1>3. clock' = clock /\ (segment' = segment \/ segment' = segment + 1)
  BY DEF PlayoutEvent, SegmentEnds, QueueRunsOut, TrackStarts
<1>4. \/ log' = log
      \/ \E id \in Name : log' = Append(log, [at |-> clock, id |-> id])
  BY DEF PlayoutEvent, SegmentEnds, QueueRunsOut, TrackStarts, Name
<1>5. MediaInv'
  <2>1. segment \in Nat
    BY DEF Inv, PlayoutInv, PlayoutTypes
  <2>2. 1..segment \subseteq 1..segment'
    BY <1>3, <2>1
  <2> QED BY <1>2, <2>2 DEF Inv, MediaInv, OnTimeline
<1>6. CopyInv'
  <2>1. Truthful(log', copy.list, copy.asOf)
    BY <1>4, PastIsKept DEF Inv, CopyInv
  <2> QED BY <1>2, <1>3, <2>1 DEF Inv, CopyInv
<1> QED BY <1>1, <1>5, <1>6 DEF Inv

\* So does time.
LEMMA TimePassesKeeps == Inv /\ TimePasses => Inv'
<1> SUFFICES ASSUME Inv, TimePasses PROVE Inv'
  OBVIOUS
<1>1. PlayoutInv'
  BY StreamRunsKeeps DEF Inv, TimePasses
<1>2. /\ UNCHANGED <<playing, ends, base, copy, segment, log>>
      /\ clock' = clock + 2 /\ clock \in Nat
      /\ at' = at + 2 \/ at' = at
  BY TickIs DEF TimePasses, StreamRuns, sessionVars, Inv, PlayoutInv, PlayoutTypes
<1>3. MediaInv'
  BY <1>2 DEF Inv, MediaInv, OnTimeline
<1>4. CopyInv'
  <2>1. copy.asOf \in Nat /\ copy.asOf <= clock'
    BY <1>2 DEF Inv, CopyInv
  <2> QED BY <1>2, <2>1 DEF Inv, CopyInv
<1> QED BY <1>1, <1>3, <1>4 DEF Inv

\* The copy of the marks is as good as it was while nobody polls.
LEMMA CopySame == PlayoutInv /\ CopyInv /\ UNCHANGED <<playoutVars, copy>> => CopyInv'
  BY DEF CopyInv, playoutVars

\* start() forgets the segments of the last session.
LEMMA StartKeeps == Inv /\ Start /\ UNCHANGED playoutVars => Inv'
<1> SUFFICES ASSUME Inv, Start, UNCHANGED playoutVars PROVE Inv'
  OBVIOUS
<1>1. PlayoutInv'
  BY PlayoutSame DEF Inv
<1>2. MediaInv'
  <2>1. playing' = TRUE /\ ends' = <<>> /\ base' = Nothing /\ at' = at
    BY DEF Start
  <2>2. DOMAIN ends' = {}
    BY <2>1
  <2> QED BY <2>1, <2>2 DEF Inv, MediaInv
<1>3. CopyInv'
  BY CopySame DEF Inv, Start
<1> QED BY <1>1, <1>2, <1>3 DEF Inv

\* stop() leaves them, with no timeline that would place them.
LEMMA StopKeeps == Inv /\ Stop /\ UNCHANGED playoutVars => Inv'
<1> SUFFICES ASSUME Inv, Stop, UNCHANGED playoutVars PROVE Inv'
  OBVIOUS
<1>1. PlayoutInv'
  BY PlayoutSame DEF Inv
<1>2. MediaInv'
  <2>1. playing' = FALSE /\ ends' = ends /\ base' = Nothing /\ at' = 0 /\ segment' = segment
    BY DEF Stop, playoutVars
  <2>2. ~playing' /\ playing' \in BOOLEAN
    BY <2>1
  <2>3. at' \in Int /\ base' = Nothing /\ DOMAIN ends' \subseteq 1..segment'
    BY <2>1 DEF Inv, MediaInv
  <2> QED BY <2>2, <2>3 DEF MediaInv
<1>3. CopyInv'
  BY CopySame DEF Inv, Stop
<1> QED BY <1>1, <1>2, <1>3 DEF Inv

\* A poll copies what is true now.
LEMMA PollKeeps == Inv /\ Poll => Inv'
<1> SUFFICES ASSUME Inv, Poll PROVE Inv'
  OBVIOUS
<1>1. UNCHANGED <<playoutVars, sessionVars, mediaVars>> /\ copy' = [list |-> marks, asOf |-> clock]
  BY DEF Poll, Answer
<1>2. PlayoutInv'
  BY <1>1, PlayoutSame DEF Inv
<1>3. MediaInv'
  BY <1>1 DEF Inv, MediaInv, OnTimeline, sessionVars, mediaVars, playoutVars
<1>4. CopyInv'
  <2>1. copy'.list = marks /\ copy'.asOf = clock /\ clock' = clock /\ log' = log
    BY <1>1 DEF playoutVars
  <2>2. Truthful(log, marks, clock) /\ clock \in Nat
    BY DEF Inv, PlayoutInv, PlayoutTypes
  <2> QED BY <1>1, <2>1, <2>2 DEF CopyInv
<1> QED BY <1>2, <1>3, <1>4 DEF Inv

\* Only buffered segments have an end, all on the timeline of the session.
LEMMA PlaceKeeps ==
    ASSUME Inv, NEW s \in Int, InPlaylist(s), NEW b \in Int, Place(s, b), playing, at' \in Int,
           base = Nothing => DOMAIN ends = {},
           base # Nothing => b = base
    PROVE  Inv'
<1>1. UNCHANGED <<playoutVars, sessionVars, copy>> /\ base' = b
  BY DEF Place
<1>2. PlayoutInv'
  BY <1>1, PlayoutSame DEF Inv
<1>3. CopyInv'
  BY <1>1, CopySame DEF Inv
<1>4. segment \in Nat /\ s \in 1..segment /\ Window \in Nat
  BY PlayerAssumption DEF InPlaylist, Inv, PlayoutInv, PlayoutTypes
<1> DEFINE D == Capped(DOMAIN ends \cup {s})
<1>5. D \subseteq DOMAIN ends \cup {s}
  BY DEF Capped
<1>6. ends' = [x \in D |-> IF x = s THEN s * SegmentTime + b ELSE ends[x]]
  BY DEF Place
<1> HIDE DEF D
<1>7. DOMAIN ends' = D /\ \A x \in D : ends'[x] = IF x = s THEN s * SegmentTime + b ELSE ends[x]
  BY <1>6
<1>8. DOMAIN ends \subseteq 1..segment
  BY DEF Inv, MediaInv
<1>9. OnTimeline(ends', b)
  <2> SUFFICES ASSUME NEW x \in D
               PROVE  x \in Nat \ {0} /\ ends'[x] = x * SegmentTime + b
    BY <1>7 DEF OnTimeline
  <2>1. x \in Nat \ {0}
    BY <1>4, <1>5, <1>8
  <2>2. CASE x = s
    BY <1>7, <2>1, <2>2
  <2>3. CASE x # s
    <3>1. x \in DOMAIN ends
      BY <1>5, <2>3
    <3>2. base # Nothing /\ b = base
      BY <3>1
    <3>3. ends[x] = x * SegmentTime + b
      BY <3>1, <3>2 DEF Inv, MediaInv, OnTimeline
    <3> QED BY <1>7, <2>1, <2>3, <3>3
  <2> QED BY <2>2, <2>3
<1>10. MediaInv'
  <2>1. playing' = playing /\ segment' = segment
    BY <1>1 DEF sessionVars, playoutVars
  <2>2. base' # Nothing /\ base' \in Int
    BY <1>1, NothingAssumption
  <2>3. DOMAIN ends' \subseteq 1..segment
    BY <1>4, <1>5, <1>7, <1>8
  <2> QED BY <1>1, <1>9, <2>1, <2>2, <2>3 DEF Inv, MediaInv
<1> QED BY <1>2, <1>3, <1>10 DEF Inv

\* The first segment of a session sets its timeline.
LEMMA FirstBufferedKeeps ==
    ASSUME Inv, NEW s \in 1..segment, NEW start \in {0, SegmentTime}, FirstBuffered(s, start)
    PROVE  Inv'
<1>1. s \in Int /\ start \in Int
  BY PlayoutAssumption DEF Inv, PlayoutInv, PlayoutTypes
<1>2. (s - 1) * SegmentTime \in Int
  BY <1>1, PlayoutAssumption
<1>3. start - (s - 1) * SegmentTime \in Int
  BY <1>1, <1>2
<1>4. /\ playing /\ base = Nothing /\ InPlaylist(s) /\ at' = start
      /\ Place(s, start - (s - 1) * SegmentTime)
  BY DEF FirstBuffered
<1>5. DOMAIN ends = {}
  BY <1>4 DEF Inv, MediaInv
<1> QED BY <1>1, <1>3, <1>4, <1>5, PlaceKeeps

\* The next segment joins it.
LEMMA NextBufferedKeeps == ASSUME Inv, NextBuffered PROVE Inv'
<1>1. /\ playing /\ base # Nothing /\ InPlaylist(Newest + 1) /\ at' = at
      /\ Place(Newest + 1, base)
  BY DEF NextBuffered
<1>2. Newest + 1 \in Int /\ base \in Int /\ at \in Int
  BY <1>1 DEF InPlaylist, Inv, MediaInv
<1> QED BY <1>1, <1>2, PlaceKeeps

\* So does the one after a gap.
LEMMA SkipAheadKeeps == ASSUME Inv, NEW s \in 1..segment, SkipAhead(s) PROVE Inv'
<1>1. /\ playing /\ base # Nothing /\ InPlaylist(s) /\ at' = base + (s - 1) * SegmentTime
      /\ Place(s, base)
  BY DEF SkipAhead
<1>2. s \in Int /\ base \in Int
  BY <1>1 DEF Inv, MediaInv, PlayoutInv, PlayoutTypes
<1>3. (s - 1) * SegmentTime \in Int
  BY <1>2, PlayoutAssumption
<1>4. at' \in Int
  BY <1>1, <1>2, <1>3
<1> QED BY <1>1, <1>2, <1>4, PlaceKeeps

\* The invariant of the stream and the player together.
LEMMA InvHolds == Spec => []Inv
<1>1. Init => Inv
  <2> SUFFICES ASSUME Init PROVE Inv
    OBVIOUS
  <2>1. PlayoutInv
    BY PlayoutStarts DEF Init
  <2>2. MediaInv
    <3>1. ends = <<>> /\ playing = FALSE /\ base = Nothing /\ at = 0
      BY DEF Init
    <3>2. DOMAIN ends = {}
      BY <3>1
    <3>3. ~playing /\ playing \in BOOLEAN
      BY <3>1
    <3>4. at \in Int /\ base = Nothing /\ DOMAIN ends \subseteq 1..segment
      BY <3>1, <3>2
    <3> QED BY <3>3, <3>4 DEF MediaInv
  <2>3. CopyInv
    <3>1. copy = [list |-> <<>>, asOf |-> 0] /\ log = <<>> /\ clock = 0
      BY DEF Init, PlayoutInit
    <3> QED BY <3>1, NothingIsTrue DEF CopyInv
  <2> QED BY <2>1, <2>2, <2>3 DEF Inv
<1>2. Inv /\ [Next]_vars => Inv'
  <2> SUFFICES ASSUME Inv, [Next]_vars PROVE Inv'
    OBVIOUS
  <2>1. CASE PlayoutEvent /\ UNCHANGED playerVars
    BY <2>1, PlayoutEventKeeps
  <2>2. CASE TimePasses
    BY <2>2, TimePassesKeeps
  <2>3. CASE PressPlay \/ RetryFires
    BY <2>3, StartKeeps DEF PressPlay, RetryFires
  <2>4. CASE PressStop \/ Recover
    BY <2>4, StopKeeps DEF PressStop, Recover
  <2>5. CASE NextBuffered
    BY <2>5, NextBufferedKeeps
  <2>6. CASE \E s \in 1..segment :
                  SkipAhead(s) \/ \E start \in {0, SegmentTime} : FirstBuffered(s, start)
    BY <2>6, SkipAheadKeeps, FirstBufferedKeeps
  <2>7. CASE Poll
    BY <2>7, PollKeeps
  <2>8. CASE UNCHANGED vars
    <3>1. UNCHANGED <<playoutVars, playing, ends, base, at, copy, segment>>
      BY <2>8 DEF vars, playerVars, sessionVars, mediaVars, playoutVars
    <3>2. PlayoutInv' /\ CopyInv'
      BY <3>1, PlayoutSame, CopySame DEF Inv
    <3> QED BY <3>1, <3>2 DEF Inv, MediaInv, OnTimeline
  <2> QED BY <2>1, <2>2, <2>3, <2>4, <2>5, <2>6, <2>7, <2>8 DEF Next
<1> QED BY <1>1, <1>2, PTL DEF Spec

-----------------------------------------------------------------------------
\* Index and OnStream are IndexIn and StreamIn of the log.
LEMMA IndexIs ==
    ASSUME NEW t
    PROVE  Index(t) = IndexIn(log, t) /\ OnStream(Index(t), t) = StreamIn(log, t)
  BY DEF Index, IndexIn, OnStream, StreamIn

\* Under the invariant the marks at hand for t give the right position.
LEMMA KnownIsRight ==
    ASSUME Inv, playing, base # Nothing, NEW t \in Int, Known(t), ~SilenceSkipped(t)
    PROVE  Right(log, PositionAt(PlaceMarks(copy.list, ends), t + base), t)
<1>1. /\ log \in Seq(LogSet) /\ Truthful(log, copy.list, copy.asOf) /\ copy.asOf \in Int
      /\ base \in Int /\ OnTimeline(ends, base)
  BY DEF Inv, PlayoutInv, PlayoutTypes, CopyInv, MediaInv
<1>2. Before(t) \in DOMAIN ends /\ t < copy.asOf
  <2>1. copy.asOf > t
    BY DEF Known
  <2> QED BY <1>1, <2>1 DEF Known
<1>3. ReachesBack(copy.list, t)
  BY DEF Known, ReachesBack, Time
<1>4. ~SkippedIn(log, copy.list, ends, t)
  <2> SUFFICES ASSUME SkippedIn(log, copy.list, ends, t) PROVE SilenceSkipped(t)
    OBVIOUS
  <2>1. PICK j \in 1..Len(copy.list) :
            /\ copy.list[j].id = Silence /\ Time(copy.list[j]) = log[IndexIn(log, t)].at
            /\ copy.list[j].after \notin DOMAIN ends
            /\ \E older \in DOMAIN ends : older < copy.list[j].after
    BY DEF SkippedIn
  <2>2. copy.list[j] \in ToSet(copy.list)
    <3>1. copy.list \in Seq(MarkSet)
      BY <1>1 DEF Truthful, Ordered
    <3> QED BY <3>1 DEF ToSet
  <2>3. IndexIn(log, t) # 0 /\ log[IndexIn(log, t)].id = Silence
    BY DEF SkippedIn
  <2> QED BY <2>1, <2>2, <2>3, IndexIs DEF SilenceSkipped, Time
<1> QED BY <1>1, <1>2, <1>3, <1>4, PositionIsRight

\* What is right is what is audible.
LEMMA RightIsHeard ==
    ASSUME NEW L, NEW t \in Int, NEW now, Right(L, now, t)
    PROVE  Audible(now) = StreamIn(L, t)
<1>1. CASE now = Nothing /\ StreamIn(L, t) = Nothing
  BY <1>1 DEF Audible
<1>2. CASE /\ StreamIn(L, t) = Nothing
           /\ now = [id |-> Silence, position |-> t - L[IndexIn(L, t) - 1].at]
  BY <1>2 DEF Audible
<1>3. CASE StreamIn(L, t) = now /\ \E id \in Track, p \in Nat : now = [id |-> id, position |-> p]
  <2>1. PICK id \in Track, p \in Nat : now = [id |-> id, position |-> p]
    BY <1>3
  <2>2. now.id = id /\ id # Silence
    BY <2>1, PlayoutAssumption
  <2> QED BY <1>3, <2>2 DEF Audible
<1> QED BY <1>1, <1>2, <1>3 DEF Right

\* Without a fade, what is shown is what PositionAt answers.
LEMMA ExactFromInv == Inv => HeardIsExact
<1> SUFFICES ASSUME Inv, playing, base # Nothing, Known(Heard), ~SilenceSkipped(Heard)
             PROVE  Now(0) = OnStream(Index(Heard), Heard)
  BY DEF HeardIsExact
<1> DEFINE now == PositionAt(PlaceMarks(copy.list, ends), at)
<1>1. at \in Int /\ base \in Int /\ Heard \in Int /\ Heard + base = at
  BY DEF Inv, MediaInv, Heard
<1>2. Right(log, now, Heard)
  BY <1>1, KnownIsRight
<1> HIDE DEF now
<1>3. now = Nothing \/ now.position >= 0
  BY <1>2 DEF Right
<1>4. ShownAt(PlaceMarks(copy.list, ends), at, 0, Clip) = now
  BY <1>3 DEF ShownAt, now
<1>5. Now(0) = Audible(now)
  BY <1>4 DEF Now
<1>6. Audible(now) = StreamIn(log, Heard)
  BY <1>1, <1>2, RightIsHeard
<1> QED BY <1>5, <1>6, IndexIs

\* HeardIsExact: whenever the marks for what is heard are at hand, now() names
\* the track on the stream at that time and the exact position in it, or
\* nothing when the radio was quiet (add_mark of radio.liq, stamps.ts).
THEOREM HeardExactly == Spec => []HeardIsExact
  BY InvHolds, ExactFromInv, PTL

\* With a fade, the step back by a track's position and a Step more lands on the
\* last moment of the track before it.
LEMMA FadeFromInv == Inv => FadeHoldsTheLastSong
<1> DEFINE t == Heard
           i == Index(Heard)
           start == log[i].at
           fading == /\ t - start < Fade
                     /\ {log[i].id, log[i - 1].id} \cap Clip = {}
                     /\ log[i].id # Silence
<1> SUFFICES ASSUME Inv, playing, base # Nothing, i > 1, log[i - 1].at < start,
                    Known(t), ~SilenceSkipped(t),
                    Known(start - Step), ~SilenceSkipped(start - Step),
                    log[i].id = Silence => t - log[i - 1].at >= Fade
             PROVE  \/ ~fading /\ Now(Fade) = OnStream(i, t)
                    \/ fading /\ log[i - 1].id # Silence /\ Now(Fade) = OnStream(i - 1, t)
                    \/ fading /\ log[i - 1].id = Silence /\ Now(Fade) \in {Nothing, OnStream(i, t)}
  BY DEF FadeHoldsTheLastSong
<1> DEFINE P == PlaceMarks(copy.list, ends)
           now == PositionAt(P, at)
           before == PositionAt(P, at - (now.position + Step))
           other == log[i - 1]
           this == log[i]
<1>1. at \in Int /\ base \in Int /\ t \in Int /\ t + base = at
  BY DEF Inv, MediaInv, Heard
<1>2. /\ log \in Seq(LogSet) /\ Len(log) \in Nat /\ i = IndexIn(log, t)
      /\ OnStream(i, t) = StreamIn(log, t)
  BY IndexIs DEF Inv, PlayoutInv, PlayoutTypes
<1>3. i \in 0..Len(log) /\ log[i].at <= t /\ \A k \in 1..Len(log) : log[k].at <= t => k <= i
  <2>1. /\ IndexIn(log, t) \in 0..Len(log)
        /\ IndexIn(log, t) > 0 => log[IndexIn(log, t)].at <= t
        /\ \A k \in 1..Len(log) : log[k].at <= t => k <= IndexIn(log, t)
    BY <1>1, <1>2, IndexInIs
  <2>2. i = IndexIn(log, t) /\ i > 1
    BY <1>2
  <2> HIDE DEF i, t
  <2>3. i > 0
    BY <2>1, <2>2
  <2> QED BY <2>1, <2>2, <2>3
<1>4. i \in 1..Len(log) /\ i - 1 \in 1..Len(log) /\ i - 1 # 0 /\ i # 0
  BY <1>2, <1>3
<1>5. /\ this.at \in Nat /\ this.id \in Name /\ other.at \in Nat /\ other.id \in Name
      /\ this.at = start
  BY <1>4, EntryType DEF Inv
<1>6. this.id # other.id
  BY <1>4 DEF Inv, PlayoutInv, LogKept
<1>7. Right(log, now, t)
  BY <1>1, KnownIsRight
<1>8. StreamIn(log, t) = IF this.id = Silence THEN Nothing
                         ELSE [id |-> this.id, position |-> t - start]
  BY <1>2, <1>4, <1>5 DEF StreamIn
<1>9. IndexIn(log, start - Step) = i - 1
  <2> DEFINE u == start - Step
  <2>1. u \in Int /\ i - 1 \in 0..Len(log) /\ log[i - 1].at <= u
    BY <1>4, <1>5 DEF Step
  <2>2. \A k \in 1..Len(log) : log[k].at <= u => k <= i - 1
    <3> SUFFICES ASSUME NEW k \in 1..Len(log), log[k].at <= u, i <= k PROVE FALSE
      BY <1>4
    <3>1. start <= log[k].at
      BY <1>4 DEF Inv, PlayoutInv, LogKept
    <3>2. log[k].at \in Nat
      BY EntryType DEF Inv
    <3>3. start \in Nat /\ log[k].at <= start - 1
      BY <1>5 DEF Step
    <3> HIDE DEF start
    <3> QED BY <3>1, <3>2, <3>3
  <2> HIDE DEF u
  <2>3. IndexIn(log, u) = i - 1
    BY <1>2, <2>1, <2>2, IndexInUnique
  <2> QED BY <2>3 DEF u
<1>10. StreamIn(log, start - Step) = IF other.id = Silence THEN Nothing
                                     ELSE [id |-> other.id, position |-> (start - Step) - other.at]
  BY <1>4, <1>9 DEF StreamIn
<1>11. Right(log, PositionAt(P, (start - Step) + base), start - Step)
  <2>1. start - Step \in Int
    BY <1>5 DEF Step
  <2> QED BY <2>1, KnownIsRight
<1>12. /\ OnStream(i - 1, t) = IF other.id = Silence THEN Nothing
                               ELSE [id |-> other.id, position |-> t - other.at]
  BY <1>4 DEF OnStream
<1>13. Now(Fade) = Audible(IF \/ now = Nothing
                              \/ now.position >= Fade
                              \/ now.id \in Clip
                              \/ before = Nothing
                              \/ before.id = now.id
                              \/ before.id \in Clip
                           THEN now
                           ELSE [id |-> before.id, position |-> before.position + (now.position + Step)])
  BY DEF Now, ShownAt, StepBack
<1>14. Audible(now) = OnStream(i, t)
  BY <1>1, <1>2, <1>7, RightIsHeard
<1> HIDE DEF t, i, start, P, now, before, other, this
<1>15. CASE this.id = Silence
  <2>1. StreamIn(log, t) = Nothing
    BY <1>8, <1>15
  <2>2. now = Nothing \/ now.position >= Fade
    <3>1. CASE now = Nothing
      BY <3>1
    <3>2. CASE now = [id |-> Silence, position |-> t - log[IndexIn(log, t) - 1].at]
      <4>1. now.position = t - other.at
        BY <1>2, <3>2 DEF other
      <4>2. t - other.at >= Fade
        BY <1>15 DEF other, this
      <4> QED BY <4>1, <4>2
    <3>3. CASE StreamIn(log, t) = now
      BY <2>1, <3>3
    <3> QED BY <1>7, <3>1, <3>2, <3>3 DEF Right
  <2>3. ~fading
    BY <1>15 DEF this
  <2> QED BY <1>13, <1>14, <2>2, <2>3
<1>16. CASE this.id # Silence
  <2>1. StreamIn(log, t) = [id |-> this.id, position |-> t - start]
    BY <1>8, <1>16
  <2>2. t - start \in Int /\ this.id \in Track
    BY <1>1, <1>5, <1>16 DEF Name
  <2>3. StreamIn(log, t) # Nothing
    BY <2>1, <2>2, NothingAssumption
  <2>4. now = [id |-> this.id, position |-> t - start]
    BY <1>7, <2>1, <2>3 DEF Right
  <2>5. now.id = this.id /\ now.position = t - start
    BY <2>4
  <2>6. before = PositionAt(P, (start - Step) + base)
    <3>1. at - ((t - start) + Step) = (start - Step) + base
      BY <1>1, <1>5 DEF Step
    <3> QED BY <2>5, <3>1 DEF before
  <2>7. Right(log, before, start - Step)
    BY <1>11, <2>6
  <2>8. other.id # Silence => before = [id |-> other.id, position |-> (start - Step) - other.at]
    <3> SUFFICES ASSUME other.id # Silence
                 PROVE  before = [id |-> other.id, position |-> (start - Step) - other.at]
      OBVIOUS
    <3>1. StreamIn(log, start - Step) = [id |-> other.id, position |-> (start - Step) - other.at]
      BY <1>10
    <3>2. other.id \in Track /\ (start - Step) - other.at \in Int
      BY <1>5 DEF Name, Step
    <3>3. StreamIn(log, start - Step) # Nothing
      BY <3>1, <3>2, NothingAssumption
    <3> QED BY <2>7, <3>1, <3>3 DEF Right
  <2>9. CASE ~fading
    <3>1. \/ now.position >= Fade \/ now.id \in Clip \/ before.id \in Clip
      <4>1. CASE t - start >= Fade
        BY <2>5, <4>1
      <4>2. CASE this.id \in Clip
        BY <2>5, <4>2
      <4>3. CASE other.id \in Clip
        <5>1. other.id # Silence
          BY <4>3, PlayoutAssumption, PlayerAssumption
        <5> QED BY <2>8, <4>3, <5>1
      <4>4. t - start >= Fade \/ this.id \in Clip \/ other.id \in Clip
        <5>1. Fade \in Int
          BY PlayerAssumption
        <5> QED BY <1>16, <2>2, <2>9, <5>1 DEF this, other
      <4> QED BY <4>1, <4>2, <4>3, <4>4
    <3> QED BY <1>13, <1>14, <2>9, <3>1
  <2>10. CASE fading
    <3>1. ~(now.position >= Fade) /\ now.id \notin Clip /\ other.id \notin Clip
      <4>1. t - start < Fade /\ Fade \in Int
        BY <2>10, PlayerAssumption
      <4> QED BY <2>2, <2>5, <2>10, <4>1 DEF this, other
    <3>2. CASE other.id # Silence
      <4>1. before = [id |-> other.id, position |-> (start - Step) - other.at]
        BY <2>8, <3>2
      <4>2. before.id = other.id /\ before.position = (start - Step) - other.at
        BY <4>1
      <4>3. other.id \in Track /\ (start - Step) - other.at \in Int
        BY <1>5, <3>2 DEF Name, Step
      <4>4. before # Nothing
        BY <4>1, <4>3, NothingAssumption
      <4>5. now # Nothing
        BY <2>1, <2>3, <2>4
      <4>6. ((start - Step) - other.at) + ((t - start) + Step) = t - other.at
        BY <1>1, <1>5 DEF Step
      <4>7. Now(Fade) = Audible([id |-> other.id, position |-> t - other.at])
        BY <1>6, <1>13, <2>5, <3>1, <4>2, <4>4, <4>5, <4>6
      <4>8. Now(Fade) = [id |-> other.id, position |-> t - other.at]
        BY <3>2, <4>7 DEF Audible
      <4> QED BY <1>12, <2>10, <3>2, <4>8 DEF other
    <3>3. CASE other.id = Silence
      <4>1. StreamIn(log, start - Step) = Nothing
        BY <1>10, <3>3
      <4>2. before = Nothing \/ before.id = Silence
        BY <2>7, <4>1 DEF Right
      <4>3. Now(Fade) = Audible(now) \/ \E p : Now(Fade) = Audible([id |-> Silence, position |-> p])
        BY <1>13, <4>2
      <4>4. \A p : Audible([id |-> Silence, position |-> p]) = Nothing
        BY DEF Audible
      <4> QED BY <1>14, <2>10, <3>3, <4>3, <4>4 DEF other
    <3> QED BY <3>2, <3>3
  <2> QED BY <2>9, <2>10
<1> QED BY <1>15, <1>16

\* FadeHoldsTheLastSong: shownAt keeps the last song on the page while the next
\* one fades in, and neither into nor out of a clip or a silence.
THEOREM FadeHolds == Spec => []FadeHoldsTheLastSong
  BY InvHolds, FadeFromInv, PTL

-----------------------------------------------------------------------------
\* What TypeOK says of the sessions and the caps.
Counts ==
    /\ clock <= MaxClock
    /\ Len(marks) <= MarkCap
    /\ playing => engines > 0
    /\ engines \in Nat /\ sessions \in Nat /\ engines <= sessions /\ sessions <= MaxSessions
    /\ retries \in 0..MaxRetries
    /\ IsFiniteSet(DOMAIN ends) /\ Cardinality(DOMAIN ends) <= EndsCap

\* Trimming the ends keeps their number within the cap.
LEMMA CappedIs ==
    ASSUME NEW D \in SUBSET Nat, IsFiniteSet(D), Cardinality(D) <= EndsCap, NEW s \in Nat
    PROVE  LET C == Capped(D \cup {s}) IN IsFiniteSet(C) /\ Cardinality(C) <= EndsCap
<1> DEFINE F == D \cup {s}
<1>1. /\ IsFiniteSet(F) /\ Cardinality(F) \in Nat /\ Cardinality(F) <= EndsCap + 1
      /\ F \in SUBSET Nat /\ F # {}
  <2>1. /\ IsFiniteSet(F)
        /\ Cardinality(F) = IF s \in D THEN Cardinality(D) ELSE Cardinality(D) + 1
    BY FS_AddElement
  <2>2. Cardinality(D) \in Nat /\ EndsCap \in Nat
    BY FS_CardinalityType, PlayerAssumption
  <2> QED BY <2>1, <2>2
<1> HIDE DEF F
<1>2. CASE Cardinality(F) > EndsCap
  <2>1. \E m \in F : \A x \in F : m <= x
    BY <1>1, LeastExists
  <2>2. Min(F) \in F
    BY <2>1 DEF Min
  <2>3. IsFiniteSet(F \ {Min(F)}) /\ Cardinality(F \ {Min(F)}) = Cardinality(F) - 1
    BY <1>1, <2>2, FS_RemoveElement
  <2>4. Capped(F) = F \ {Min(F)}
    BY <1>2 DEF Capped
  <2>5. EndsCap \in Nat
    BY PlayerAssumption
  <2>6. Cardinality(F \ {Min(F)}) <= EndsCap
    BY <1>1, <2>3, <2>5
  <2> QED BY <2>3, <2>4, <2>6 DEF F
<1>3. CASE ~(Cardinality(F) > EndsCap)
  <2>1. Capped(F) = F
    BY <1>3 DEF Capped
  <2>2. EndsCap \in Nat
    BY PlayerAssumption
  <2>3. Cardinality(F) <= EndsCap
    BY <1>1, <1>3, <2>2
  <2> QED BY <1>1, <2>1, <2>3 DEF F
<1> QED BY <1>2, <1>3

\* Trimming the marks keeps their number within theirs.
LEMMA AddMarkCapped ==
    ASSUME NEW m \in AnyMark, AddMark(m),
           marks \in Seq(MarkSet), Len(marks) <= MarkCap
    PROVE  Len(marks') <= MarkCap
<1>1. MarkCap \in Nat
  BY PlayoutAssumption
<1>2. CASE m.after = 0
  BY <1>2 DEF AddMark
<1>3. CASE m.after # 0
  <2> DEFINE l == Append(marks, m)
  <2>1. m \in MarkSet
    BY <1>3 DEF MarkSet, AnyMark
  <2>2. l \in Seq(MarkSet) /\ Len(l) = Len(marks) + 1 /\ Len(marks) \in Nat
    BY <2>1, AppendIs
  <2>3. marks' = IF Len(l) > MarkCap THEN Tail(l) ELSE l
    BY <1>3 DEF AddMark
  <2> HIDE DEF l
  <2>4. Len(l) > MarkCap => Len(Tail(l)) = Len(l) - 1
    BY <1>1, <2>2
  <2> QED BY <1>1, <2>2, <2>3, <2>4
<1> QED BY <1>2, <1>3

\* Engines, sessions, timers and the caps, step by step.
LEMMA CountsKept == Inv /\ Counts /\ [Next]_vars => Counts'
<1> SUFFICES ASSUME Inv, Counts, [Next]_vars PROVE Counts'
  OBVIOUS
<1>1. /\ playing \in BOOLEAN
      /\ clock \in Nat /\ segment \in Nat /\ since \in Nat /\ ended \in Nat /\ track \in Name
      /\ since <= clock /\ ended <= clock /\ marks \in Seq(MarkSet)
      /\ {MaxClock, MaxSessions, MaxRetries, EndsCap} \subseteq Nat
  BY PlayoutAssumption, PlayerAssumption
     DEF Inv, PlayoutInv, PlayoutTypes, Paced, Truthful, Ordered, MediaInv
<1>2. CASE PlayoutEvent /\ UNCHANGED playerVars
  <2>1. /\ UNCHANGED <<playing, engines, sessions, retries, ends>> /\ clock' = clock
    BY <1>2 DEF playerVars, sessionVars, mediaVars, PlayoutEvent, SegmentEnds, QueueRunsOut,
                TrackStarts
  <2>2. Len(marks') <= MarkCap
    <3>1. CASE marks' = marks
      BY <3>1 DEF Counts
    <3>2. CASE SegmentEnds /\ track # Silence
      <4>1. AddMark(Mark(segment + 1, 0, track, clock - since))
        BY <3>2 DEF SegmentEnds
      <4>2. Mark(segment + 1, 0, track, clock - since) \in AnyMark
        BY <1>1 DEF Mark, AnyMark
      <4> QED BY <1>1, <4>1, <4>2, AddMarkCapped DEF Counts
    <3>3. CASE QueueRunsOut \/ \E id \in Track : TrackStarts(id)
      <4>1. \E id \in Name, pos \in Nat : AddMark(Mark(segment, clock - ended, id, pos))
        <5>1. CASE QueueRunsOut
          <6>1. AddMark(Mark(segment, clock - ended, Silence, clock - since))
            BY <5>1 DEF QueueRunsOut, FromSegmentEnd
          <6>2. Silence \in Name /\ clock - since \in Nat
            BY <1>1 DEF Name
          <6> QED BY <6>1, <6>2
        <5>2. CASE \E id \in Track : TrackStarts(id)
          <6>1. PICK id \in Track : TrackStarts(id)
            BY <5>2
          <6>2. AddMark(Mark(segment, clock - ended, id, 0)) /\ id \in Name /\ 0 \in Nat
            BY <6>1 DEF TrackStarts, FromSegmentEnd, Name
          <6> QED BY <6>2
        <5> QED BY <3>3, <5>1, <5>2
      <4>2. \A id \in Name, pos \in Nat :
              Mark(segment, clock - ended, id, pos) \in AnyMark
        BY <1>1 DEF Mark, AnyMark
      <4> QED BY <1>1, <4>1, <4>2, AddMarkCapped DEF Counts
    <3> QED BY <1>2, <3>1, <3>2, <3>3 DEF PlayoutEvent, SegmentEnds
  <2> QED BY <2>1, <2>2 DEF Counts
<1>3. CASE TimePasses
  <2>1. UNCHANGED <<playing, engines, sessions, retries, ends, marks>> /\ clock' <= MaxClock
    BY <1>3 DEF TimePasses, StreamRuns, sessionVars
  <2> QED BY <2>1 DEF Counts
<1>4. CASE PressPlay \/ RetryFires
  <2>1. /\ sessions < MaxSessions /\ sessions' = sessions + 1 /\ engines' = engines + 1
        /\ playing' = TRUE /\ ends' = <<>> /\ UNCHANGED <<clock, marks>>
    BY <1>4 DEF PressPlay, RetryFires, Start, playoutVars
  <2>2. retries' \in 0..MaxRetries
    BY <1>1, <1>4 DEF PressPlay, RetryFires, Counts
  <2>3. IsFiniteSet(DOMAIN ends') /\ Cardinality(DOMAIN ends') <= EndsCap
    <3>1. DOMAIN ends' = {}
      BY <2>1
    <3> QED BY <1>1, <3>1, FS_EmptySet
  <2>4. /\ engines' \in Nat /\ engines' > 0
        /\ sessions' \in Nat /\ engines' <= sessions' /\ sessions' <= MaxSessions
    BY <1>1, <2>1 DEF Counts
  <2> QED BY <2>1, <2>2, <2>3, <2>4 DEF Counts
<1>5. CASE PressStop \/ Recover
  <2>1. /\ ~playing' /\ engines' = (IF playing THEN engines - 1 ELSE engines)
        /\ UNCHANGED <<sessions, ends, clock, marks>>
    BY <1>5 DEF PressStop, Recover, Stop, playoutVars
  <2>2. retries' \in 0..MaxRetries
    BY <1>1, <1>5 DEF PressStop, Recover, Counts
  <2>3. engines' \in Nat /\ engines' <= sessions
    BY <2>1 DEF Counts
  <2> QED BY <2>1, <2>2, <2>3 DEF Counts
<1>6. CASE \E s, b : s > 0 /\ s \in Int /\ Place(s, b)
  <2>1. PICK s, b : s > 0 /\ s \in Int /\ Place(s, b)
    BY <1>6
  <2>2. UNCHANGED <<playing, engines, sessions, retries, clock, marks>>
    BY <2>1 DEF Place, sessionVars, playoutVars
  <2>3. DOMAIN ends' = Capped(DOMAIN ends \cup {s})
    BY <2>1 DEF Place
  <2>4. DOMAIN ends \in SUBSET Nat /\ s \in Nat
    BY <2>1 DEF Inv, MediaInv
  <2>5. IsFiniteSet(DOMAIN ends') /\ Cardinality(DOMAIN ends') <= EndsCap
    BY <2>3, <2>4, CappedIs DEF Counts
  <2> QED BY <2>2, <2>5 DEF Counts
<1>7. CASE NextBuffered \/
              \E s \in 1..segment :
                  SkipAhead(s) \/ \E start \in {0, SegmentTime} : FirstBuffered(s, start)
  <2>1. \E s, b : InPlaylist(s) /\ Place(s, b)
    BY <1>7 DEF NextBuffered, SkipAhead, FirstBuffered
  <2>2. \A s : InPlaylist(s) => s > 0 /\ s \in Int
    BY DEF InPlaylist
  <2> QED BY <1>6, <2>1, <2>2
<1>8. CASE Poll
  <2>1. UNCHANGED <<playing, engines, sessions, retries, clock, marks, ends>>
    BY <1>8 DEF Poll, sessionVars, mediaVars, playoutVars
  <2> QED BY <2>1 DEF Counts
<1>9. CASE UNCHANGED vars
  <2>1. UNCHANGED <<playing, engines, sessions, retries, clock, marks, ends>>
    BY <1>9 DEF vars, playerVars, sessionVars, mediaVars, playoutVars
  <2> QED BY <2>1 DEF Counts
<1> QED BY <1>2, <1>3, <1>4, <1>5, <1>7, <1>8, <1>9 DEF Next

\* The same, for every behaviour.
LEMMA CountsHold == Spec => []Counts
<1>1. Init => Counts
  <2> SUFFICES ASSUME Init PROVE Counts
    OBVIOUS
  <2>1. /\ clock = 0 /\ marks = <<>> /\ ~playing /\ engines = 0 /\ sessions = 0 /\ retries = 0
        /\ ends = <<>>
    BY DEF Init, PlayoutInit
  <2>2. {MaxClock, MarkCap, MaxSessions, MaxRetries, EndsCap} \subseteq Nat
    BY PlayoutAssumption, PlayerAssumption
  <2>3. IsFiniteSet(DOMAIN ends) /\ Cardinality(DOMAIN ends) = 0
    <3>1. DOMAIN ends = {}
      BY <2>1
    <3> QED BY <3>1, FS_EmptySet
  <2> QED BY <2>1, <2>2, <2>3 DEF Counts
<1> QED BY <1>1, CountsKept, InvHolds, PTL DEF Spec

\* TypeOK: the types, the caps of the marks and of the segment ends, and that
\* a player that plays has an engine.
THEOREM TypeCorrect == Spec => []TypeOK
<1>1. Inv /\ Counts => TypeOK
  <2> SUFFICES ASSUME Inv, Counts PROVE TypeOK
    OBVIOUS
  <2>1. clock \in 0..MaxClock /\ engines \in 0..sessions
    BY PlayoutAssumption DEF Counts, Inv, PlayoutInv, PlayoutTypes
  <2> QED BY <2>1 DEF Inv, Counts, TypeOK, PlayoutInv, PlayoutTypes, Paced, MediaInv, CopyInv,
                      Name
<1> QED BY <1>1, InvHolds, CountsHold, PTL

\* LostOnlyByDoubleStart: only a start that finds the player playing leaves an
\* engine behind (start() and stop() of player.svelte.ts).
THEOREM EnginesAreLostByDoubleStart == Spec => LostOnlyByDoubleStart
<1>1. Inv /\ Counts /\ [Next]_vars => [Lost' > Lost => playing /\ playing']_vars
  <2> SUFFICES ASSUME Inv, Counts, Next, Lost' > Lost PROVE playing /\ playing'
    OBVIOUS
  <2>1. playing \in BOOLEAN /\ engines \in Nat
    BY DEF Inv, MediaInv, Counts
  <2>2. CASE UNCHANGED <<playing, engines>>
    BY <2>1, <2>2 DEF Lost
  <2>3. CASE PressPlay \/ RetryFires
    <3>1. playing' /\ engines' = engines + 1
      BY <2>3 DEF PressPlay, RetryFires, Start
    <3>2. CASE ~playing
      BY <2>1, <3>1, <3>2 DEF Lost
    <3> QED BY <2>1, <3>1, <3>2
  <2>4. CASE PressStop \/ Recover
    <3>1. ~playing' /\ engines' = (IF playing THEN engines - 1 ELSE engines)
      BY <2>4 DEF PressStop, Recover, Stop
    <3> QED BY <2>1, <3>1 DEF Lost
  <2> QED BY <2>2, <2>3, <2>4
      DEF Next, TimePasses, NextBuffered, SkipAhead, FirstBuffered, Place, Poll, sessionVars, playerVars
<1> QED BY <1>1, InvHolds, CountsHold, PTL DEF Spec, LostOnlyByDoubleStart
=============================================================================
