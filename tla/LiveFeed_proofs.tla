-------------------------- MODULE LiveFeed_proofs --------------------------
(***************************************************************************)
(* For every size of ring, channel and page, and for every number of       *)
(* records, lives and connections: the bot's log is shown in order, each   *)
(* record once, and without holes.                                         *)
(***************************************************************************)
EXTENDS LiveFeed, Queues_proofs

Sorted(s) == \A i, j \in 1..Len(s) : i < j => s[i].seq < s[j].seq

\* All of s are records of one life, numbered up to top.
Of(s, n, top) == \A i \in 1..Len(s) : s[i].life = n /\ s[i].seq <= top

\* What is on its way to the page is in order and of the present life.
StreamInv ==
    /\ Sorted(ring) /\ Sorted(backlog) /\ Sorted(channel)
    /\ \A i \in 1..Len(backlog), j \in 1..Len(channel) : backlog[i].seq < channel[j].seq
    /\ Of(ring, life, seq) /\ Of(backlog, life, seq) /\ Of(channel, life, seq)
    /\ ~Subscribed => backlog = <<>> /\ channel = <<>>

\* The page is in order, and only a paused page holds records back.
PageInv == /\ ~heldOver => Sorted(entries) /\ Sorted(pending)
           /\ ~paused => pending = <<>>

FirstRecords == life = 1 => Of(entries, 1, seq) /\ Of(pending, 1, seq)

Rec(s) == [life |-> 1, seq |-> s]

LastHeld == IF pending = <<>> THEN 0 ELSE Last(pending).seq

\* The newest record the page has, shown or held back.
Through == IF LastHeld > LastShown THEN LastHeld ELSE LastShown

\* What the page can still be sent.
Coming == ToSet(backlog) \cup ToSet(channel) \cup (IF Subscribed THEN {} ELSE ToSet(ring))

\* Up to Through every record was shown, is held back, or was missed; the others are coming.
NothingSkipped ==
    life = 1 /\ ~heldOver =>
        /\ \A s \in 1..LastShown : \/ Rec(s) \in ToSet(entries) \cup missed
                                   \/ s < entries[1].seq
        /\ \A s \in (LastShown + 1)..LastHeld : Rec(s) \in ToSet(pending) \cup missed
        /\ \A s \in (Through + 1)..seq : Rec(s) \in Coming \cup missed

-----------------------------------------------------------------------------
(* Sequences. *)

LEMMA AppendIs ==
    ASSUME NEW S, NEW s \in Seq(S), NEW e \in S
    PROVE  /\ Append(s, e) \in Seq(S) /\ Len(s) \in Nat /\ Len(Append(s, e)) = Len(s) + 1
           /\ Append(s, e)[Len(s) + 1] = e
           /\ \A i \in 1..Len(s) : Append(s, e)[i] = s[i]
           /\ \A i \in 1..Len(Append(s, e)) : i \in 1..Len(s) \/ i = Len(s) + 1
  OBVIOUS

LEMMA TailIs ==
    ASSUME NEW S, NEW s \in Seq(S), s # <<>>
    PROVE  /\ Tail(s) \in Seq(S) /\ Len(Tail(s)) = Len(s) - 1
           /\ \A i \in 1..Len(Tail(s)) : Tail(s)[i] = s[i + 1] /\ i + 1 \in 1..Len(s)
           /\ Head(s) = s[1] /\ 1 \in 1..Len(s) /\ Head(s) \in S /\ Len(s) \in Nat \ {0}
           /\ \A i \in 1..Len(s) : i = 1 \/ i - 1 \in 1..Len(Tail(s))
  OBVIOUS

LEMMA LastIs ==
    ASSUME NEW S, NEW s \in Seq(S), s # <<>>
    PROVE  /\ Len(s) \in 1..Len(s) /\ Last(s) = s[Len(s)] /\ Last(s) \in S /\ s[1] \in S
           /\ 1 \in 1..Len(s)
  BY DEF Last

\* Latest drops from the front, and only what exceeds n.
LEMMA LatestIs ==
    ASSUME NEW S, NEW s \in Seq(S), NEW n \in Nat \ {0}
    PROVE  LET t == Latest(s, n)
               k == Len(s) - Len(t)
           IN  /\ t \in Seq(S) /\ Len(t) \in Nat /\ Len(t) <= n /\ k \in Nat
               /\ \A i \in 1..Len(t) : t[i] = s[i + k] /\ i + k \in 1..Len(s)
               /\ \A i \in 1..Len(s) : i <= k \/ i - k \in 1..Len(t)
               /\ s # <<>> => t # <<>>
               /\ Len(s) <= n => t = s
<1>0. Len(s) \in Nat
  OBVIOUS
<1>1. CASE Len(s) > n
  <2> DEFINE t == SubSeq(s, Len(s) - n + 1, Len(s))
  <2>1. Latest(s, n) = t
    BY <1>1 DEF Latest, LastN
  <2>2. Len(s) - n + 1 \in 1..Len(s) /\ (Len(s) - (Len(s) - n + 1)) + 1 = n
    BY <1>0, <1>1
  <2>3. t \in Seq(S) /\ Len(t) = n
    BY <1>0, <2>2
  <2>4. \A i \in 1..n : t[i] = s[i + (Len(s) - n)]
    BY <1>0, <2>2
  <2> HIDE DEF t
  <2>5. Len(s) - n \in Nat /\ \A i \in 1..n : i + (Len(s) - n) \in 1..Len(s)
    BY <1>0, <1>1
  <2>6. \A i \in 1..Len(s) : i <= Len(s) - n \/ i - (Len(s) - n) \in 1..n
    BY <1>0, <1>1
  <2>7. t # <<>>
    BY <2>3
  <2> QED BY <1>1, <2>1, <2>3, <2>4, <2>5, <2>6, <2>7
<1>2. CASE ~(Len(s) > n)
  <2>1. Latest(s, n) = s
    BY <1>2 DEF Latest
  <2> QED BY <1>0, <1>2, <2>1
<1> QED BY <1>1, <1>2

LEMMA ConcatIs ==
    ASSUME NEW S, NEW s \in Seq(S), NEW t \in Seq(S)
    PROVE  /\ s \o t \in Seq(S) /\ Len(s) \in Nat /\ Len(t) \in Nat /\ Len(s \o t) = Len(s) + Len(t)
           /\ \A i \in 1..Len(s) : (s \o t)[i] = s[i] /\ i \in 1..Len(s \o t)
           /\ \A i \in 1..Len(t) : (s \o t)[Len(s) + i] = t[i] /\ Len(s) + i \in 1..Len(s \o t)
           /\ \A i \in 1..Len(s \o t) : i \in 1..Len(s) \/ i - Len(s) \in 1..Len(t)
  OBVIOUS

-----------------------------------------------------------------------------
(* push. *)

\* The numbers of records are naturals.
LEMMA NumbersAreNatural ==
    ASSUME NEW s \in Seq(Record)
    PROVE  \A i \in 1..Len(s) : s[i] \in Record /\ s[i].seq \in Nat \ {0}
<1>1. \A x \in Record : x.seq \in 1..MaxSeq
  BY DEF Record
<1>2. \A i \in 1..MaxSeq : i \in Nat \ {0}
  BY FeedBoundAssumption
<1> QED BY <1>1, <1>2

\* Push adds the newer ones of the list, and forgets the oldest.
LEMMA PushIs ==
    ASSUME entries \in Seq(Record), Len(entries) <= KeepLogs, NEW list \in Seq(Record)
    PROVE  \E fresh, e :
               /\ fresh \in Seq(Record)
               /\ Picks(e, fresh, list, {i \in DOMAIN list : list[i].seq > LastShown}, Len(list))
               /\ Push(list) = Latest(entries \o fresh, KeepLogs)
<1> DEFINE P == {i \in DOMAIN list : list[i].seq > LastShown}
           fresh == Sift(list, P)
<1>1. fresh \in Seq(Record) /\ \E e : Picks(e, fresh, list, P, Len(list))
  <2> HIDE DEF P
  <2> QED BY SiftIs
<1>2. Push(list) = IF fresh = <<>> THEN entries ELSE Latest(entries \o fresh, KeepLogs)
  BY DEF Push
<1> HIDE DEF fresh, P
<1>3. fresh = <<>> => Latest(entries \o fresh, KeepLogs) = entries
  <2>1. entries \o <<>> = entries
    OBVIOUS
  <2>2. KeepLogs \in Nat \ {0}
    BY RingAssumption
  <2> QED BY <2>1, <2>2, LatestIs
<1>4. Push(list) = Latest(entries \o fresh, KeepLogs)
  BY <1>2, <1>3
<1> QED BY <1>1, <1>4 DEF P

\* What the page shows after push: in order, up to the newest, without losing one in between.
LEMMA PushEffect ==
    ASSUME entries \in Seq(Record), Len(entries) <= KeepLogs, Sorted(entries),
           NEW list \in Seq(Record), Sorted(list), list # <<>>
    PROVE  LET new == Push(list)
               top == Last(list).seq
           IN  /\ new \in Seq(Record) /\ Len(new) <= KeepLogs /\ new # <<>> /\ Sorted(new)
               /\ Last(new).seq = (IF top > LastShown THEN top ELSE LastShown)
               /\ ToSet(new) \subseteq ToSet(entries) \cup ToSet(list)
               /\ \A x \in ToSet(entries) : x \in ToSet(new) \/ x.seq < new[1].seq
               /\ \A x \in ToSet(list) : \/ x.seq <= LastShown
                                         \/ x \in ToSet(new) \/ x.seq < new[1].seq
               /\ entries # <<>> => entries[1].seq <= new[1].seq
<1>0. PICK fresh, e :
          /\ fresh \in Seq(Record)
          /\ Picks(e, fresh, list, {i \in DOMAIN list : list[i].seq > LastShown}, Len(list))
          /\ Push(list) = Latest(entries \o fresh, KeepLogs)
  BY PushIs
<1> DEFINE all == entries \o fresh
           new == Latest(all, KeepLogs)
           k == Len(all) - Len(new)
<1>1. /\ Len(entries) \in Nat /\ Len(fresh) \in Nat /\ Len(list) \in Nat \ {0}
      /\ \A i \in 1..Len(entries) : entries[i].seq \in Nat /\ entries[i] \in Record
      /\ \A i \in 1..Len(fresh) : fresh[i].seq \in Nat /\ fresh[i] \in Record
      /\ \A i \in 1..Len(list) : list[i].seq \in Nat \ {0} /\ list[i] \in Record
  BY <1>0, NumbersAreNatural
<1>2. /\ e \in [1..Len(fresh) -> 1..Len(list)]
      /\ \A j \in 1..Len(fresh) : list[e[j]].seq > LastShown /\ fresh[j] = list[e[j]]
      /\ \A i, j \in 1..Len(fresh) : i < j => e[i] < e[j]
      /\ \A i \in 1..Len(list) : list[i].seq > LastShown => \E j \in 1..Len(fresh) : e[j] = i
  BY <1>0 DEF Picks
<1>3. /\ all \in Seq(Record) /\ Len(all) = Len(entries) + Len(fresh)
      /\ \A i \in 1..Len(entries) : all[i] = entries[i] /\ i \in 1..Len(all)
      /\ \A i \in 1..Len(fresh) : /\ all[Len(entries) + i] = fresh[i]
                                 /\ Len(entries) + i \in 1..Len(all)
      /\ \A i \in 1..Len(all) : i \in 1..Len(entries) \/ i - Len(entries) \in 1..Len(fresh)
  BY <1>0, ConcatIs
<1>4. /\ new \in Seq(Record) /\ Len(new) \in Nat /\ Len(new) <= KeepLogs /\ k \in Nat
      /\ \A i \in 1..Len(new) : new[i] = all[i + k] /\ i + k \in 1..Len(all)
      /\ \A i \in 1..Len(all) : i <= k \/ i - k \in 1..Len(new)
      /\ all # <<>> => new # <<>>
  <2> HIDE DEF all
  <2>1. KeepLogs \in Nat \ {0}
    BY RingAssumption
  <2> QED BY <1>3, <2>1, LatestIs
<1>5. LastShown \in Nat /\ \A i \in 1..Len(entries) : entries[i].seq <= LastShown
  <2>1. CASE entries = <<>>
    BY <2>1 DEF LastShown
  <2>2. CASE entries # <<>>
    <3>1. LastShown = entries[Len(entries)].seq /\ Len(entries) \in 1..Len(entries)
      BY <2>2, LastIs DEF LastShown
    <3>2. \A i \in 1..Len(entries) : i < Len(entries) \/ i = Len(entries)
      BY <1>1
    <3> QED BY <1>1, <3>1, <3>2 DEF Sorted
  <2> QED BY <2>1, <2>2
<1> DEFINE top == Last(list).seq
<1>6. /\ Len(list) \in 1..Len(list) /\ top = list[Len(list)].seq /\ top \in Nat \ {0}
      /\ \A i \in 1..Len(list) : list[i].seq <= top
  <2>1. Len(list) \in 1..Len(list) /\ top = list[Len(list)].seq
    BY LastIs
  <2>2. \A i \in 1..Len(list) : i < Len(list) \/ i = Len(list)
    BY <1>1
  <2> HIDE DEF top
  <2> QED BY <1>1, <2>1, <2>2 DEF Sorted
<1> HIDE DEF all, new, k, top
<1>7. Sorted(all)
  <2> SUFFICES ASSUME NEW i \in 1..Len(all), NEW j \in 1..Len(all), i < j
               PROVE  all[i].seq < all[j].seq
    BY DEF Sorted
  <2>1. CASE j \in 1..Len(entries)
    <3>1. i \in 1..Len(entries)
      BY <1>1, <1>3, <2>1
    <3> QED BY <1>3, <2>1, <3>1 DEF Sorted
  <2>2. CASE j - Len(entries) \in 1..Len(fresh)
    <3> DEFINE b == j - Len(entries)
    <3>1. all[j] = fresh[b] /\ b \in 1..Len(fresh)
      <4>1. Len(entries) + b = j
        BY <1>1, <1>3
      <4> HIDE DEF b
      <4> QED BY <1>3, <2>2, <4>1 DEF b
    <3>2. fresh[b].seq > LastShown /\ fresh[b].seq \in Nat
      BY <1>1, <1>2, <3>1
    <3>3. CASE i \in 1..Len(entries)
      <4>1. all[i] = entries[i] /\ entries[i].seq <= LastShown /\ entries[i].seq \in Nat
        BY <1>1, <1>3, <1>5, <3>3
      <4> QED BY <1>5, <3>1, <3>2, <4>1
    <3>4. CASE i - Len(entries) \in 1..Len(fresh)
      <4> DEFINE a == i - Len(entries)
      <4>1. all[i] = fresh[a] /\ a \in 1..Len(fresh) /\ a < b
        <5>1. Len(entries) + a = i /\ a < b
          BY <1>1, <1>3
        <5> HIDE DEF a, b
        <5> QED BY <1>3, <3>4, <5>1 DEF a
      <4> HIDE DEF a, b
      <4>2. e[a] < e[b] /\ e[a] \in 1..Len(list) /\ e[b] \in 1..Len(list)
        BY <1>2, <3>1, <4>1
      <4>3. list[e[a]].seq < list[e[b]].seq
        BY <4>2 DEF Sorted
      <4> QED BY <1>2, <3>1, <4>1, <4>3
    <3> QED BY <1>3, <3>3, <3>4
  <2> QED BY <1>3, <2>1, <2>2
<1>8. Sorted(new)
  <2> SUFFICES ASSUME NEW i \in 1..Len(new), NEW j \in 1..Len(new), i < j
               PROVE  new[i].seq < new[j].seq
    BY DEF Sorted
  <2>1. i + k \in 1..Len(all) /\ j + k \in 1..Len(all) /\ i + k < j + k
    BY <1>4
  <2> QED BY <1>4, <1>7, <2>1 DEF Sorted
<1>9. ToSet(new) \subseteq ToSet(entries) \cup ToSet(list)
  <2> SUFFICES ASSUME NEW i \in 1..Len(new) PROVE new[i] \in ToSet(entries) \cup ToSet(list)
    BY <1>4 DEF ToSet
  <2>1. new[i] = all[i + k] /\ i + k \in 1..Len(all)
    BY <1>4
  <2>2. CASE i + k \in 1..Len(entries)
    BY <1>3, <2>1, <2>2 DEF ToSet
  <2>3. CASE (i + k) - Len(entries) \in 1..Len(fresh)
    <3> DEFINE b == (i + k) - Len(entries)
    <3>1. all[i + k] = fresh[b]
      <4>1. Len(entries) + b = i + k
        BY <1>1, <1>4
      <4> HIDE DEF b
      <4> QED BY <1>3, <2>3, <4>1 DEF b
    <3> HIDE DEF b
    <3>2. fresh[b] = list[e[b]] /\ e[b] \in 1..Len(list)
      BY <1>2, <2>3 DEF b
    <3> QED BY <2>1, <3>1, <3>2 DEF ToSet
  <2> QED BY <1>3, <2>1, <2>2, <2>3
\* The members that Latest drops are older than the first it keeps.
<1>10. \A i \in 1..Len(all) : all[i] \in ToSet(new) \/ (new # <<>> /\ all[i].seq < new[1].seq)
  <2> TAKE i \in 1..Len(all)
  <2>1. CASE i - k \in 1..Len(new)
    <3>1. new[i - k] = all[(i - k) + k] /\ (i - k) + k = i
      BY <1>3, <1>4, <2>1
    <3> QED BY <2>1, <3>1 DEF ToSet
  <2>2. CASE i <= k
    <3>1. new # <<>> /\ 1 \in 1..Len(new)
      <4>1. new # <<>>
        BY <1>3, <1>4
      <4> QED BY <1>4, <4>1, LastIs
    <3>2. new[1] = all[1 + k] /\ 1 + k \in 1..Len(all) /\ i < 1 + k
      BY <1>3, <1>4, <2>2, <3>1
    <3> QED BY <1>7, <3>1, <3>2 DEF Sorted
  <2> QED BY <1>4, <2>1, <2>2
<1>11. all # <<>>
  <2>1. CASE entries = <<>>
    <3>1. list[1].seq > LastShown /\ 1 \in 1..Len(list)
      BY <1>1, <2>1 DEF LastShown
    <3>2. 1..Len(fresh) # {}
      BY <1>2, <3>1
    <3> QED BY <1>1, <1>3, <3>2
  <2>2. CASE entries # <<>>
    <3>1. Len(entries) # 0
      BY <2>2
    <3> QED BY <1>1, <1>3, <3>1
  <2> QED BY <2>1, <2>2
<1>12. new # <<>> /\ 1 \in 1..Len(new) /\ Last(new) = new[Len(new)] /\ Len(new) \in 1..Len(new)
  BY <1>4, <1>11, LastIs
<1>13. Len(all) \in 1..Len(all) /\ new[Len(new)] = all[Len(all)] /\ Len(new) + k = Len(all)
  <2>1. Len(new) + k = Len(all) /\ Len(all) \in Nat
    BY <1>1, <1>3, <1>4 DEF k
  <2> QED BY <1>4, <1>12, <2>1
<1>14. Last(new).seq = IF top > LastShown THEN top ELSE LastShown
  <2>1. CASE top > LastShown
    <3>1. PICK j \in 1..Len(fresh) : e[j] = Len(list)
      BY <1>2, <1>6, <2>1
    <3>2. j = Len(fresh)
      <4>1. SUFFICES ASSUME j < Len(fresh) PROVE FALSE
        BY <1>1
      <4>2. Len(fresh) \in 1..Len(fresh)
        BY <1>1, <4>1
      <4>3. e[Len(fresh)] \in 1..Len(list) /\ e[j] < e[Len(fresh)]
        BY <1>2, <4>1, <4>2
      <4> QED BY <1>1, <3>1, <4>3
    <3>3. all[Len(entries) + Len(fresh)] = fresh[Len(fresh)]
      BY <1>3, <3>1, <3>2
    <3>4. fresh[Len(fresh)] = list[Len(list)]
      BY <1>2, <3>1, <3>2
    <3> QED BY <1>3, <1>6, <1>12, <1>13, <2>1, <3>3, <3>4
  <2>2. CASE ~(top > LastShown)
    <3>1. Len(fresh) = 0
      <4>1. SUFFICES ASSUME 1 \in 1..Len(fresh) PROVE FALSE
        BY <1>1
      <4>2. e[1] \in 1..Len(list) /\ list[e[1]].seq > LastShown
        BY <1>2, <4>1
      <4>3. list[e[1]].seq <= top /\ list[e[1]].seq \in Nat
        BY <1>1, <1>6, <4>2
      <4> QED BY <1>5, <1>6, <2>2, <4>2, <4>3
    <3>2. entries # <<>> /\ Len(all) = Len(entries) /\ all[Len(all)] = entries[Len(entries)]
      <4>1. Len(all) = Len(entries)
        BY <1>1, <1>3, <3>1
      <4>2. all[Len(all)] = entries[Len(entries)]
        BY <1>3, <1>13, <4>1
      <4>3. Len(entries) # 0
        BY <1>13, <4>1
      <4> QED BY <4>1, <4>2, <4>3
    <3>3. LastShown = entries[Len(entries)].seq
      BY <3>2, LastIs DEF LastShown
    <3> QED BY <1>12, <1>13, <2>2, <3>2, <3>3
  <2> QED BY <2>1, <2>2
<1>15. \A x \in ToSet(entries) : x \in ToSet(new) \/ x.seq < new[1].seq
  <2> SUFFICES ASSUME NEW i \in 1..Len(entries)
               PROVE  entries[i] \in ToSet(new) \/ entries[i].seq < new[1].seq
    BY DEF ToSet
  <2> QED BY <1>3, <1>10
<1>16. \A x \in ToSet(list) : x.seq <= LastShown \/ x \in ToSet(new) \/ x.seq < new[1].seq
  <2> SUFFICES ASSUME NEW i \in 1..Len(list), ~(list[i].seq <= LastShown)
               PROVE  list[i] \in ToSet(new) \/ list[i].seq < new[1].seq
    BY DEF ToSet
  <2>1. list[i].seq > LastShown
    BY <1>1, <1>5
  <2>2. PICK j \in 1..Len(fresh) : e[j] = i
    BY <1>2, <2>1
  <2>3. all[Len(entries) + j] = list[i] /\ Len(entries) + j \in 1..Len(all)
    BY <1>2, <1>3, <2>2
  <2> QED BY <1>10, <2>3
<1>17. entries # <<>> => entries[1].seq <= new[1].seq
  <2> HAVE entries # <<>>
  <2>1. 1 \in 1..Len(entries) /\ all[1] = entries[1] /\ 1 \in 1..Len(all)
    BY <1>3, LastIs
  <2>2. new[1] = all[1 + k] /\ 1 + k \in 1..Len(all) /\ (k = 0 \/ 1 < 1 + k)
    BY <1>4, <1>12
  <2>3. all[1].seq \in Nat
    BY <1>1, <2>1
  <2>4. k = 0 \/ all[1].seq < all[1 + k].seq
    BY <1>7, <2>1, <2>2 DEF Sorted
  <2>5. all[1 + k].seq \in Nat
    BY <1>3, <2>2, NumbersAreNatural
  <2> QED BY <1>4, <2>1, <2>2, <2>3, <2>4, <2>5
<1>18. Push(list) = new
  BY <1>0 DEF new, all
<1> QED BY <1>4, <1>8, <1>9, <1>12, <1>14, <1>15, <1>16, <1>17, <1>18 DEF top

\* In any order, push adds records of the list only, and keeps within the bound.
LEMMA PushType ==
    ASSUME entries \in Seq(Record), Len(entries) <= KeepLogs, NEW list \in Seq(Record)
    PROVE  /\ Push(list) \in Seq(Record) /\ Len(Push(list)) <= KeepLogs
           /\ ToSet(Push(list)) \subseteq ToSet(entries) \cup ToSet(list)
<1>0. PICK fresh, e :
          /\ fresh \in Seq(Record)
          /\ Picks(e, fresh, list, {i \in DOMAIN list : list[i].seq > LastShown}, Len(list))
          /\ Push(list) = Latest(entries \o fresh, KeepLogs)
  BY PushIs
<1> DEFINE all == entries \o fresh
           new == Latest(all, KeepLogs)
<1>1. /\ e \in [1..Len(fresh) -> 1..Len(list)]
      /\ \A j \in 1..Len(fresh) : fresh[j] = list[e[j]]
  BY <1>0 DEF Picks
<1>2. /\ all \in Seq(Record) /\ Len(entries) \in Nat
      /\ \A i \in 1..Len(entries) : all[i] = entries[i]
      /\ \A i \in 1..Len(fresh) : all[Len(entries) + i] = fresh[i]
      /\ \A i \in 1..Len(all) : i \in 1..Len(entries) \/ i - Len(entries) \in 1..Len(fresh)
  BY <1>0, ConcatIs
<1>3. /\ new \in Seq(Record) /\ Len(new) <= KeepLogs
      /\ \A i \in 1..Len(new) : \E j \in 1..Len(all) : new[i] = all[j]
  <2> HIDE DEF all
  <2>1. KeepLogs \in Nat \ {0}
    BY RingAssumption
  <2> QED BY <1>2, <2>1, LatestIs
<1> HIDE DEF all, new
<1>4. \A i \in 1..Len(all) : all[i] \in ToSet(entries) \cup ToSet(list)
  <2> TAKE i \in 1..Len(all)
  <2>1. CASE i \in 1..Len(entries)
    BY <1>2, <2>1 DEF ToSet
  <2>2. CASE i - Len(entries) \in 1..Len(fresh)
    <3>1. Len(entries) + (i - Len(entries)) = i
      BY <1>2
    <3>2. all[i] = fresh[i - Len(entries)]
      BY <1>2, <2>2, <3>1
    <3> DEFINE b == i - Len(entries)
    <3>3. fresh[b] = list[e[b]] /\ e[b] \in 1..Len(list)
      <4> HIDE DEF b
      <4> QED BY <1>1, <2>2 DEF b
    <3> QED BY <3>2, <3>3 DEF ToSet
  <2> QED BY <1>2, <2>1, <2>2
<1>5. ToSet(new) \subseteq ToSet(entries) \cup ToSet(list)
  <2> SUFFICES ASSUME NEW i \in 1..Len(new) PROVE new[i] \in ToSet(entries) \cup ToSet(list)
    BY <1>3 DEF ToSet
  <2> QED BY <1>3, <1>4
<1> QED BY <1>0, <1>3, <1>5 DEF new, all

\* What Receive shows is the oldest of the backlog, or of the channel behind it.
LEMMA ReceiveIs ==
    ASSUME TypeOK, Receive
    PROVE  \E e \in Record :
               /\ Show(e)
               /\ \/ /\ backlog # <<>> /\ e = Head(backlog)
                     /\ backlog' = Tail(backlog) /\ channel' = channel
                  \/ /\ backlog = <<>> /\ channel # <<>> /\ e = Head(channel)
                     /\ channel' = Tail(channel) /\ backlog' = backlog
<1>1. backlog \in Seq(Record) /\ channel \in Seq(Record)
  BY DEF TypeOK
<1>2. /\ backlog # <<>> => Head(backlog) \in Record
      /\ channel # <<>> => Head(channel) \in Record
  BY <1>1, TailIs
<1> QED BY <1>2 DEF Receive

-----------------------------------------------------------------------------
(* Types. *)

LEMMA TypeInit == Init => TypeOK
<1> SUFFICES ASSUME Init PROVE TypeOK
  OBVIOUS
<1>1. 1 \in 1..MaxLives /\ 0 \in 0..MaxSeq /\ 0 \in 0..MaxConnects
  BY FeedBoundAssumption
<1>2. 0 <= Ring /\ 0 <= Channel /\ 0 <= KeepLogs
  BY RingAssumption
<1>3. ring = <<>> /\ backlog = <<>> /\ channel = <<>> /\ entries = <<>> /\ pending = <<>>
  BY DEF Init
<1>4. <<>> \in Seq(Record) /\ Len(<<>>) = 0
  OBVIOUS
<1>5. {ring, backlog, channel, entries, pending} \subseteq Seq(Record)
  BY <1>3, <1>4
<1>6. Len(ring) <= Ring /\ Len(channel) <= Channel /\ Len(entries) <= KeepLogs
  BY <1>2, <1>3, <1>4
<1> QED BY <1>1, <1>5, <1>6 DEF Init, TypeOK, Place

LEMMA PublishType == ASSUME TypeOK, Publish PROVE TypeOK'
<1> DEFINE e == [life |-> life, seq |-> seq + 1]
<1>1. e \in Record /\ seq + 1 \in 0..MaxSeq
  BY FeedBoundAssumption DEF TypeOK, Publish, Record
<1>2. ring \in Seq(Record) /\ channel \in Seq(Record) /\ Len(channel) \in Nat
  BY DEF TypeOK
<1>3. Ring \in Nat \ {0} /\ Channel \in Nat \ {0}
  BY RingAssumption
<1>4. Append(ring, e) \in Seq(Record) /\ Append(channel, e) \in Seq(Record)
      /\ Len(Append(channel, e)) = Len(channel) + 1
  <2> HIDE DEF e
  <2> QED BY <1>1, <1>2
<1>5. ring' = Latest(Append(ring, e), Ring)
  BY DEF Publish
<1>6. ring' \in Seq(Record) /\ Len(ring') <= Ring
  <2> HIDE DEF e
  <2> QED BY <1>3, <1>4, <1>5, LatestIs
<1>7. channel' \in Seq(Record) /\ Len(channel') <= Channel
  <2>1. channel' = IF Subscribed /\ Len(channel) < Channel THEN Append(channel, e) ELSE channel
    BY DEF Publish
  <2>2. Len(channel) <= Channel
    BY DEF TypeOK
  <2> HIDE DEF e
  <2> QED BY <1>2, <1>3, <1>4, <2>1, <2>2
<1>8. missed' \subseteq Record
  <2>1. missed' \subseteq missed \cup {e} \cup ToSet(ring)
    BY DEF Publish
  <2>2. missed \subseteq Record /\ ToSet(ring) \subseteq Record
    BY <1>2 DEF TypeOK, ToSet
  <2> HIDE DEF e
  <2> QED BY <1>1, <2>1, <2>2
<1>9. /\ seq' = seq + 1 /\ UNCHANGED <<life, backlog, pc, connects, pageVars, heldOver>>
  BY DEF Publish
<1> HIDE DEF e
<1> QED BY <1>1, <1>6, <1>7, <1>8, <1>9 DEF TypeOK, pageVars

LEMMA RestartType == ASSUME TypeOK, Restart PROVE TypeOK'
<1>1. life + 1 \in 1..MaxLives /\ 0 \in 0..MaxSeq
  BY FeedBoundAssumption DEF TypeOK, Restart
<1>2. 0 <= Ring /\ 0 <= Channel
  BY RingAssumption
<1> QED BY <1>1, <1>2 DEF TypeOK, Restart, pageVars, Place

LEMMA ConnectType == ASSUME TypeOK, Connect PROVE TypeOK'
<1>1. connects + 1 \in 0..MaxConnects
  BY FeedBoundAssumption DEF TypeOK, Connect
<1>2. 0 <= Channel
  BY RingAssumption
<1> QED BY <1>1, <1>2 DEF TypeOK, Connect, hubVars, pageVars, Place

LEMMA DropType ==
    ASSUME TypeOK, Drop
    PROVE  /\ missed' \subseteq Record /\ backlog' = <<>> /\ channel' = <<>>
           /\ Len(channel') <= Channel
<1>1. backlog \in Seq(Record) /\ channel \in Seq(Record)
  BY DEF TypeOK
<1>2. backlog \o channel \in Seq(Record)
  BY <1>1
<1>3. ToSet(backlog \o channel) \subseteq Record
  BY <1>2 DEF ToSet
<1>4. 0 <= Channel
  BY RingAssumption
<1> QED BY <1>3, <1>4 DEF Drop, TypeOK

LEMMA BreakType == ASSUME TypeOK, Disconnect \/ End PROVE TypeOK'
<1>1. Drop
  BY DEF Disconnect, End
<1>2. pc' \in Place
  BY DEF Disconnect, End, Place
<1>3. UNCHANGED <<life, seq, ring, connects, entries, paused, pending, heldOver>>
  BY DEF Disconnect, End, hubVars, pageVars
<1>4. missed' \subseteq Record /\ backlog' = <<>> /\ channel' = <<>> /\ Len(channel') <= Channel
  BY <1>1, DropType
<1> QED BY <1>2, <1>3, <1>4 DEF TypeOK

LEMMA ReceiveType == ASSUME TypeOK, Receive PROVE TypeOK'
<1>1. PICK e \in Record :
          /\ Show(e)
          /\ \/ /\ backlog # <<>> /\ e = Head(backlog)
                /\ backlog' = Tail(backlog) /\ channel' = channel
             \/ /\ backlog = <<>> /\ channel # <<>> /\ e = Head(channel)
                /\ channel' = Tail(channel) /\ backlog' = backlog
  BY ReceiveIs
<1>2. /\ backlog \in Seq(Record) /\ channel \in Seq(Record) /\ pending \in Seq(Record)
      /\ entries \in Seq(Record) /\ Len(entries) <= KeepLogs /\ Len(channel) <= Channel
      /\ Len(channel) \in Nat /\ Channel \in Nat
  BY RingAssumption DEF TypeOK
<1>3. backlog' \in Seq(Record) /\ channel' \in Seq(Record) /\ Len(channel') <= Channel
  <2>1. backlog # <<>> => Tail(backlog) \in Seq(Record)
    BY <1>2, TailIs
  <2>2. channel # <<>> => Tail(channel) \in Seq(Record) /\ Len(Tail(channel)) = Len(channel) - 1
    BY <1>2, TailIs
  <2>3. CASE backlog # <<>> /\ backlog' = Tail(backlog) /\ channel' = channel
    BY <1>2, <2>1, <2>3
  <2>4. CASE channel # <<>> /\ channel' = Tail(channel) /\ backlog' = backlog
    BY <1>2, <2>2, <2>4
  <2> QED BY <1>1, <2>3, <2>4
<1>4. entries' \in Seq(Record) /\ Len(entries') <= KeepLogs
  <2>1. <<e>> \in Seq(Record)
    OBVIOUS
  <2>2. entries' = entries \/ entries' = Push(<<e>>)
    BY <1>1 DEF Show
  <2> QED BY <1>2, <2>1, <2>2, PushType
<1>5. pending' \in Seq(Record) /\ heldOver' \in BOOLEAN
  <2>1. pending' = pending \/ pending' = Append(pending, e)
    BY <1>1 DEF Show
  <2> DEFINE b == heldOver \/ (pending # <<>> /\ e.seq <= Last(pending).seq)
  <2>2. heldOver' = heldOver \/ heldOver' = b
    BY <1>1 DEF Show
  <2>3. heldOver \in BOOLEAN
    BY DEF TypeOK
  <2>4. b \in BOOLEAN
    OBVIOUS
  <2>5. heldOver' \in BOOLEAN
    <3> HIDE DEF b
    <3> QED BY <2>2, <2>3, <2>4
  <2>6. pending' \in Seq(Record)
    <3>1. Append(pending, e) \in Seq(Record)
      BY <1>2, AppendIs
    <3> QED BY <1>2, <2>1, <3>1
  <2> QED BY <2>5, <2>6
<1>6. UNCHANGED <<hubVars, pc, connects, paused, missed>>
  BY DEF Receive
<1> QED BY <1>3, <1>4, <1>5, <1>6 DEF TypeOK, hubVars

LEMMA ResumeType == ASSUME TypeOK, Resume PROVE TypeOK'
<1>1. entries' = Push(pending) /\ pending' = <<>> /\ paused' = FALSE
      /\ UNCHANGED <<hubVars, streamVars, missed, heldOver>>
  BY DEF Resume
<1>2. entries \in Seq(Record) /\ Len(entries) <= KeepLogs /\ pending \in Seq(Record)
  BY DEF TypeOK
<1>3. entries' \in Seq(Record) /\ Len(entries') <= KeepLogs
  BY <1>1, <1>2, PushType
<1>4. UNCHANGED <<life, seq, ring, backlog, channel, pc, connects, missed, heldOver>>
  BY <1>1 DEF hubVars, streamVars
<1>5. <<>> \in Seq(Record)
  OBVIOUS
<1> QED BY <1>1, <1>3, <1>4, <1>5 DEF TypeOK

LEMMA TypeStep == ASSUME TypeOK, [Next]_vars PROVE TypeOK'
<1>1. CASE ConnectFails \/ Retry \/ Pause
  BY <1>1 DEF TypeOK, ConnectFails, Retry, Pause, Place, hubVars, pageVars, streamVars
<1>2. CASE UNCHANGED vars
  BY <1>2 DEF TypeOK, vars, hubVars, pageVars, streamVars
<1> QED BY <1>1, <1>2, PublishType, RestartType, ConnectType, BreakType, ReceiveType, ResumeType
        DEF Next

(***************************************************************************)
(* The types hold: the ring, the channel and the page's list keep within   *)
(* their bounds.                                                           *)
(***************************************************************************)
THEOREM TypeCorrect == Spec => []TypeOK
<1>1. TypeOK /\ [Next]_vars => TypeOK'
  BY TypeStep
<1> QED BY TypeInit, <1>1, PTL DEF Spec

-----------------------------------------------------------------------------
(* What is on its way. *)

LEMMA StreamInit == Init => StreamInv
  BY DEF Init, StreamInv, Sorted, Of, Subscribed

\* A record numbered past all others keeps a sequence in order.
LEMMA NewestKeepsOrder ==
    ASSUME NEW s \in Seq(Record), NEW e \in Record, NEW n, NEW top \in Nat, Sorted(s),
           Of(s, n, top),
           e.life = n, e.seq = top + 1
    PROVE  Sorted(Append(s, e)) /\ Of(Append(s, e), n, top + 1)
<1>1. /\ Len(s) \in Nat /\ Len(Append(s, e)) = Len(s) + 1 /\ Append(s, e)[Len(s) + 1] = e
      /\ \A i \in 1..Len(s) : Append(s, e)[i] = s[i]
      /\ \A i \in 1..Len(Append(s, e)) : i \in 1..Len(s) \/ i = Len(s) + 1
  BY AppendIs
<1>2. \A i \in 1..Len(s) : s[i].seq \in Nat /\ s[i].seq <= top /\ s[i].life = n
  BY NumbersAreNatural DEF Of
<1> DEFINE t == Append(s, e)
<1> HIDE DEF t
<1>3. Of(t, n, top + 1)
  BY <1>1, <1>2 DEF Of, t
<1>4. Sorted(t)
  <2> SUFFICES ASSUME NEW i \in 1..Len(t), NEW j \in 1..Len(t), i < j
               PROVE  t[i].seq < t[j].seq
    BY DEF Sorted
  <2>1. i \in 1..Len(s) /\ (j \in 1..Len(s) \/ j = Len(s) + 1)
    BY <1>1 DEF t
  <2>2. t[i].seq = s[i].seq /\ s[i].seq \in Nat /\ s[i].seq <= top
    BY <1>1, <1>2, <2>1 DEF t
  <2>3. CASE j \in 1..Len(s)
    BY <1>1, <2>1, <2>2, <2>3 DEF t, Sorted
  <2>4. CASE j = Len(s) + 1
    BY <1>1, <2>2, <2>4 DEF t
  <2> QED BY <2>1, <2>3, <2>4
<1> QED BY <1>3, <1>4 DEF t

\* What Latest keeps of it is still in order.
LEMMA LatestKeepsOrder ==
    ASSUME NEW s \in Seq(Record), NEW k \in Nat \ {0}, NEW n, NEW top, Sorted(s), Of(s, n, top)
    PROVE  Sorted(Latest(s, k)) /\ Of(Latest(s, k), n, top)
<1> DEFINE t == Latest(s, k)
           d == Len(s) - Len(t)
<1>1. /\ Len(t) \in Nat /\ d \in Nat
      /\ \A i \in 1..Len(t) : t[i] = s[i + d] /\ i + d \in 1..Len(s)
  BY LatestIs
<1> HIDE DEF t, d
<1>2. Of(t, n, top)
  BY <1>1 DEF Of
<1>3. Sorted(t)
  <2> SUFFICES ASSUME NEW i \in 1..Len(t), NEW j \in 1..Len(t), i < j
               PROVE  t[i].seq < t[j].seq
    BY DEF Sorted
  <2>1. i + d \in 1..Len(s) /\ j + d \in 1..Len(s) /\ i + d < j + d
    BY <1>1
  <2> QED BY <1>1, <2>1 DEF Sorted
<1> QED BY <1>2, <1>3 DEF t

LEMMA TailKeepsOrder ==
    ASSUME NEW s \in Seq(Record), s # <<>>, NEW n, NEW top, Sorted(s), Of(s, n, top)
    PROVE  Sorted(Tail(s)) /\ Of(Tail(s), n, top)
<1>1. /\ Len(Tail(s)) = Len(s) - 1 /\ Len(s) \in Nat \ {0}
      /\ \A i \in 1..Len(Tail(s)) : Tail(s)[i] = s[i + 1] /\ i + 1 \in 1..Len(s)
  BY TailIs
<1> DEFINE t == Tail(s)
<1> HIDE DEF t
<1>2. Of(t, n, top)
  BY <1>1 DEF Of, t
<1>3. Sorted(t)
  <2> SUFFICES ASSUME NEW i \in 1..Len(t), NEW j \in 1..Len(t), i < j
               PROVE  t[i].seq < t[j].seq
    BY DEF Sorted
  <2>1. i + 1 \in 1..Len(s) /\ j + 1 \in 1..Len(s) /\ i + 1 < j + 1
    BY <1>1 DEF t
  <2> QED BY <1>1, <2>1 DEF Sorted, t
<1> QED BY <1>2, <1>3 DEF t

LEMMA NothingIsSorted == Sorted(<<>>) /\ \A n, top : Of(<<>>, n, top)
  BY DEF Sorted, Of

LEMMA PublishStream == ASSUME TypeOK, StreamInv, Publish PROVE StreamInv'
<1> DEFINE e == [life |-> life, seq |-> seq + 1]
<1>1. e \in Record /\ e.life = life /\ e.seq = seq + 1 /\ seq \in Nat
  BY FeedBoundAssumption DEF TypeOK, Publish, Record
<1>2. /\ ring \in Seq(Record) /\ channel \in Seq(Record) /\ backlog \in Seq(Record)
      /\ Ring \in Nat \ {0}
  BY RingAssumption DEF TypeOK
<1>3. /\ ring' = Latest(Append(ring, e), Ring)
      /\ channel' = IF Subscribed /\ Len(channel) < Channel THEN Append(channel, e) ELSE channel
      /\ seq' = seq + 1 /\ UNCHANGED <<life, backlog, pc>>
  BY DEF Publish
<1> HIDE DEF e
<1>4. Sorted(ring') /\ Of(ring', life, seq + 1)
  <2>1. Sorted(Append(ring, e)) /\ Of(Append(ring, e), life, seq + 1)
    BY <1>1, <1>2, NewestKeepsOrder DEF StreamInv
  <2>2. Append(ring, e) \in Seq(Record)
    BY <1>1, <1>2
  <2> QED BY <1>2, <1>3, <2>1, <2>2, LatestKeepsOrder
<1>5. \A s : Of(s, life, seq) /\ s \in Seq(Record) => Of(s, life, seq + 1)
  <2> TAKE s
  <2> HAVE Of(s, life, seq) /\ s \in Seq(Record)
  <2>1. \A i \in 1..Len(s) : s[i].seq \in Nat
    BY NumbersAreNatural
  <2> QED BY <1>1, <2>1 DEF Of
<1>6. Sorted(channel') /\ Of(channel', life, seq + 1)
  <2>1. Sorted(Append(channel, e)) /\ Of(Append(channel, e), life, seq + 1)
    BY <1>1, <1>2, NewestKeepsOrder DEF StreamInv
  <2>2. Sorted(channel) /\ Of(channel, life, seq + 1)
    BY <1>2, <1>5 DEF StreamInv
  <2> QED BY <1>3, <2>1, <2>2
<1>7. Of(backlog, life, seq + 1)
  BY <1>2, <1>5 DEF StreamInv
<1>8. \A i \in 1..Len(backlog), j \in 1..Len(channel') : backlog[i].seq < channel'[j].seq
  <2> TAKE i \in 1..Len(backlog), j \in 1..Len(channel')
  <2>1. backlog[i].seq \in Nat /\ backlog[i].seq <= seq
    BY <1>2, NumbersAreNatural DEF StreamInv, Of
  <2>2. CASE channel' = channel
    BY <2>2 DEF StreamInv
  <2>3. CASE channel' = Append(channel, e)
    <3>1. (channel'[j] = channel[j] /\ j \in 1..Len(channel)) \/ channel'[j] = e
      BY <1>1, <1>2, <2>3, AppendIs
    <3> QED BY <1>1, <2>1, <3>1 DEF StreamInv
  <2> QED BY <1>3, <2>2, <2>3
<1>9. ~Subscribed' => backlog' = <<>> /\ channel' = <<>>
  BY <1>3 DEF StreamInv, Subscribed
<1> QED BY <1>3, <1>4, <1>6, <1>7, <1>8, <1>9 DEF StreamInv

LEMMA RestartStream == ASSUME TypeOK, StreamInv, Restart PROVE StreamInv'
<1>1. ring' = <<>> /\ backlog' = <<>> /\ channel' = <<>>
  BY DEF Restart
<1>2. Len(<<>>) = 0
  OBVIOUS
<1> QED BY <1>1, <1>2, NothingIsSorted DEF StreamInv

LEMMA ConnectStream == ASSUME TypeOK, StreamInv, Connect PROVE StreamInv'
<1>1. backlog' = ring /\ channel' = <<>> /\ Subscribed' /\ UNCHANGED <<life, seq, ring>>
  BY DEF Connect, Subscribed, hubVars
<1>2. Len(<<>>) = 0
  OBVIOUS
<1> QED BY <1>1, <1>2, NothingIsSorted DEF StreamInv

LEMMA BreakStream == ASSUME TypeOK, StreamInv, Disconnect \/ End PROVE StreamInv'
<1>1. backlog' = <<>> /\ channel' = <<>> /\ UNCHANGED <<life, seq, ring>>
  BY DEF Disconnect, End, Drop, hubVars
<1>2. Len(<<>>) = 0
  OBVIOUS
<1> QED BY <1>1, <1>2, NothingIsSorted DEF StreamInv

LEMMA ReceiveStream == ASSUME TypeOK, StreamInv, Receive PROVE StreamInv'
<1>1. UNCHANGED <<life, seq, ring, pc>> /\ Subscribed
  BY DEF Receive, hubVars
<1>2. backlog \in Seq(Record) /\ channel \in Seq(Record)
  BY DEF TypeOK
<1>3. CASE backlog # <<>> /\ backlog' = Tail(backlog) /\ channel' = channel
  <2>1. Sorted(backlog') /\ Of(backlog', life, seq)
    BY <1>2, <1>3, TailKeepsOrder DEF StreamInv
  <2>2. \A i \in 1..Len(backlog') : backlog'[i] = backlog[i + 1] /\ i + 1 \in 1..Len(backlog)
    BY <1>2, <1>3, TailIs
  <2> QED BY <1>1, <1>3, <2>1, <2>2 DEF StreamInv, Subscribed
<1>4. CASE backlog = <<>> /\ channel # <<>> /\ channel' = Tail(channel) /\ backlog' = backlog
  <2>1. Sorted(channel') /\ Of(channel', life, seq)
    BY <1>2, <1>4, TailKeepsOrder DEF StreamInv
  <2>2. Len(<<>>) = 0
    OBVIOUS
  <2> QED BY <1>1, <1>4, <2>1, <2>2 DEF StreamInv, Subscribed
<1> QED BY <1>3, <1>4, ReceiveIs

LEMMA StreamStep == ASSUME TypeOK, StreamInv, [Next]_vars PROVE StreamInv'
<1>1. CASE ConnectFails \/ Retry \/ Pause \/ Resume
  BY <1>1 DEF StreamInv, Subscribed, ConnectFails, Retry, Pause, Resume, hubVars, streamVars
<1>2. CASE UNCHANGED vars
  BY <1>2 DEF StreamInv, Subscribed, vars, hubVars, streamVars
<1> QED BY <1>1, <1>2, PublishStream, RestartStream, ConnectStream, BreakStream, ReceiveStream
        DEF Next

-----------------------------------------------------------------------------
(* The page. *)

LEMMA PageInit == Init => PageInv
  BY DEF Init, PageInv, Sorted

LEMMA OneIsSorted ==
    ASSUME NEW e \in Record
    PROVE  /\ <<e>> \in Seq(Record) /\ <<e>> # <<>> /\ Sorted(<<e>>) /\ Last(<<e>>) = e
           /\ ToSet(<<e>>) = {e}
<1>1. <<e>> \in Seq(Record) /\ Len(<<e>>) = 1 /\ <<e>>[1] = e
  OBVIOUS
<1> QED BY <1>1 DEF Sorted, Last, ToSet

\* What Append makes of an ordered sequence with a record after its last.
LEMMA LaterKeepsOrder ==
    ASSUME NEW s \in Seq(Record), NEW e \in Record, Sorted(s), s # <<>> => ~(e.seq <= Last(s).seq)
    PROVE  Sorted(Append(s, e))
<1> DEFINE t == Append(s, e)
<1>1. /\ Len(s) \in Nat /\ Len(t) = Len(s) + 1 /\ t[Len(s) + 1] = e
      /\ \A i \in 1..Len(s) : t[i] = s[i]
      /\ \A i \in 1..Len(t) : i \in 1..Len(s) \/ i = Len(s) + 1
  BY AppendIs
<1>2. \A i \in 1..Len(s) : s[i].seq \in Nat
  BY NumbersAreNatural
<1> HIDE DEF t
<1>3. ASSUME NEW i \in 1..Len(s)
      PROVE  s[i].seq < e.seq
  <2>1. s # <<>> /\ Len(s) \in 1..Len(s) /\ Last(s) = s[Len(s)]
    <3>1. s # <<>>
      OBVIOUS
    <3> QED BY <3>1, LastIs
  <2>2. i < Len(s) \/ i = Len(s)
    BY <1>1
  <2>3. s[i].seq <= Last(s).seq
    BY <1>2, <2>1, <2>2 DEF Sorted
  <2>4. e.seq \in Nat
    BY FeedBoundAssumption DEF Record
  <2> QED BY <1>2, <2>1, <2>3, <2>4
<1>4. Sorted(t)
  <2> SUFFICES ASSUME NEW i \in 1..Len(t), NEW j \in 1..Len(t), i < j
               PROVE  t[i].seq < t[j].seq
    BY DEF Sorted
  <2>1. i \in 1..Len(s) /\ (j \in 1..Len(s) \/ j = Len(s) + 1)
    BY <1>1
  <2> QED BY <1>1, <1>3, <2>1 DEF Sorted
<1> QED BY <1>4 DEF t

LEMMA ReceivePage == ASSUME TypeOK, PageInv, Receive PROVE PageInv'
<1>1. PICK e \in Record : Show(e)
  BY ReceiveIs
<1>2. /\ entries \in Seq(Record) /\ pending \in Seq(Record) /\ Len(entries) <= KeepLogs
  BY DEF TypeOK
<1>0. ~paused' => pending' = <<>>
  BY <1>1 DEF PageInv, Show, Receive
<1> SUFFICES ASSUME ~heldOver' PROVE Sorted(entries') /\ Sorted(pending')
  BY <1>0 DEF PageInv
<1>3. ~heldOver
  BY <1>1 DEF Show
<1>4. CASE paused
  <2>1. /\ pending' = Append(pending, e) /\ entries' = entries
        /\ ~(pending # <<>> /\ e.seq <= Last(pending).seq)
    BY <1>1, <1>4 DEF Show
  <2> QED BY <1>2, <1>3, <2>1, LaterKeepsOrder DEF PageInv
<1>5. CASE ~paused
  <2>1. pending' = pending /\ entries' = Push(<<e>>)
    BY <1>1, <1>5 DEF Show
  <2>2. <<e>> \in Seq(Record) /\ <<e>> # <<>> /\ Sorted(<<e>>)
    BY OneIsSorted
  <2>3. Sorted(Push(<<e>>))
    BY <1>2, <1>3, <2>2, PushEffect DEF PageInv
  <2> QED BY <1>3, <2>1, <2>3 DEF PageInv
<1> QED BY <1>4, <1>5

LEMMA NothingToPush ==
    ASSUME entries \in Seq(Record), Len(entries) <= KeepLogs
    PROVE  Push(<<>>) = entries
<1>1. PICK fresh, e :
          /\ fresh \in Seq(Record)
          /\ Picks(e, fresh, <<>>, {i \in DOMAIN <<>> : <<>>[i].seq > LastShown}, Len(<<>>))
          /\ Push(<<>>) = Latest(entries \o fresh, KeepLogs)
  <2>1. <<>> \in Seq(Record)
    OBVIOUS
  <2> QED BY <2>1, PushIs
<1>2. e \in [1..Len(fresh) -> 1..Len(<<>>)]
  BY <1>1 DEF Picks
<1>3. fresh = <<>>
  <2>1. Len(fresh) \in Nat /\ Len(<<>>) = 0
    OBVIOUS
  <2>2. ~(1 \in 1..Len(fresh))
    BY <1>2, <2>1
  <2>3. Len(fresh) = 0
    BY <2>1, <2>2
  <2> QED BY <2>3
<1>4. entries \o <<>> = entries /\ KeepLogs \in Nat \ {0}
  BY RingAssumption
<1> QED BY <1>1, <1>3, <1>4, LatestIs

LEMMA ResumePage == ASSUME TypeOK, PageInv, Resume PROVE PageInv'
<1>1. entries' = Push(pending) /\ pending' = <<>> /\ heldOver' = heldOver
  BY DEF Resume
<1>2. /\ entries \in Seq(Record) /\ pending \in Seq(Record) /\ Len(entries) <= KeepLogs
  BY DEF TypeOK
<1> SUFFICES ASSUME ~heldOver PROVE Sorted(entries') /\ Sorted(pending')
  BY <1>1 DEF PageInv
<1>3. CASE pending = <<>>
  BY <1>1, <1>2, <1>3, NothingToPush, NothingIsSorted DEF PageInv
<1>4. CASE pending # <<>>
  BY <1>1, <1>2, <1>4, PushEffect, NothingIsSorted DEF PageInv
<1> QED BY <1>3, <1>4

LEMMA PageStep == ASSUME TypeOK, PageInv, [Next]_vars PROVE PageInv'
<1>1. CASE Publish \/ Restart \/ Connect \/ ConnectFails \/ Disconnect \/ Retry \/ End \/ Pause
  BY <1>1 DEF PageInv, Publish, Restart, Connect, ConnectFails, Disconnect, Retry, End, Pause,
              pageVars
<1>2. CASE UNCHANGED vars
  BY <1>2 DEF PageInv, vars, pageVars
<1> QED BY <1>1, <1>2, ReceivePage, ResumePage DEF Next

(***************************************************************************)
(* As long as no reconnection came while records were held back, the page  *)
(* shows records in their order and each once: Sorted relates every two    *)
(* records, where ShownInOrder speaks of neighbours.                       *)
(***************************************************************************)
THEOREM RecordsInOrder == Spec => []ShownInOrder
<1>1. Init => TypeOK /\ PageInv
  BY TypeInit, PageInit
<1>2. TypeOK /\ PageInv /\ [Next]_vars => (TypeOK /\ PageInv)'
  BY TypeStep, PageStep
<1>3. TypeOK /\ PageInv => ShownInOrder
  <2> SUFFICES ASSUME TypeOK, PageInv, ~heldOver, NEW i \in 1..(Len(entries) - 1)
               PROVE  entries[i].seq < entries[i + 1].seq
    BY DEF ShownInOrder, Increasing
  <2>1. Len(entries) \in Nat
    BY DEF TypeOK
  <2>2. i \in 1..Len(entries) /\ i + 1 \in 1..Len(entries) /\ i < i + 1
    BY <2>1
  <2> QED BY <2>2 DEF PageInv, Sorted
<1> QED BY <1>1, <1>2, <1>3, PTL DEF Spec

-----------------------------------------------------------------------------
(* No holes. *)

LEMMA FirstInit == Init => FirstRecords
  BY DEF Init, FirstRecords, Of

LEMMA OfSet == ASSUME NEW s, NEW n, NEW top
               PROVE  Of(s, n, top) <=> \A x \in ToSet(s) : x.life = n /\ x.seq <= top
  BY DEF Of, ToSet

\* The record that is shown is of the present life.
LEMMA ShownIsPresent ==
    ASSUME TypeOK, StreamInv, NEW e \in Record,
           \/ backlog # <<>> /\ e = Head(backlog)
           \/ channel # <<>> /\ e = Head(channel)
    PROVE  e.life = life /\ e.seq <= seq
<1>1. backlog \in Seq(Record) /\ channel \in Seq(Record)
  BY DEF TypeOK
<1>2. /\ backlog # <<>> => Head(backlog) = backlog[1] /\ 1 \in 1..Len(backlog)
      /\ channel # <<>> => Head(channel) = channel[1] /\ 1 \in 1..Len(channel)
  BY <1>1, TailIs
<1> QED BY <1>2 DEF StreamInv, Of

LEMMA AppendSet ==
    ASSUME NEW S, NEW s \in Seq(S), NEW e \in S
    PROVE  ToSet(Append(s, e)) = ToSet(s) \cup {e}
<1>1. /\ Len(Append(s, e)) = Len(s) + 1 /\ Append(s, e)[Len(s) + 1] = e /\ Len(s) \in Nat
      /\ \A i \in 1..Len(s) : Append(s, e)[i] = s[i]
      /\ \A i \in 1..Len(Append(s, e)) : i \in 1..Len(s) \/ i = Len(s) + 1
  BY AppendIs
<1>2. \A i \in 1..Len(s) : i \in 1..Len(Append(s, e))
  BY <1>1
<1>3. Len(s) + 1 \in 1..Len(Append(s, e))
  BY <1>1
<1>4. ToSet(Append(s, e)) = {Append(s, e)[i] : i \in 1..Len(Append(s, e))}
      /\ ToSet(s) = {s[i] : i \in 1..Len(s)}
  BY DEF ToSet
<1> DEFINE t == Append(s, e)
<1> HIDE DEF t
<1>5. \A x \in ToSet(t) : x \in ToSet(s) \cup {e}
  BY <1>1, <1>4 DEF t
<1>6. \A x \in ToSet(s) : x \in ToSet(t)
  BY <1>1, <1>2, <1>4 DEF t
<1>7. e \in ToSet(t)
  BY <1>1, <1>3, <1>4 DEF t
<1> QED BY <1>5, <1>6, <1>7 DEF t

LEMMA TailSet ==
    ASSUME NEW S, NEW s \in Seq(S), s # <<>>
    PROVE  ToSet(s) = ToSet(Tail(s)) \cup {Head(s)}
<1>1. /\ \A i \in 1..Len(Tail(s)) : Tail(s)[i] = s[i + 1] /\ i + 1 \in 1..Len(s)
      /\ Head(s) = s[1] /\ 1 \in 1..Len(s) /\ Len(s) \in Nat \ {0} /\ Len(Tail(s)) = Len(s) - 1
      /\ \A i \in 1..Len(s) : i = 1 \/ i - 1 \in 1..Len(Tail(s))
  BY TailIs
<1> DEFINE t == Tail(s)
<1>2. ToSet(t) = {t[i] : i \in 1..Len(t)} /\ ToSet(s) = {s[i] : i \in 1..Len(s)}
  <2>1. t \in Seq(S)
    BY TailIs
  <2> HIDE DEF t
  <2> QED BY <2>1 DEF ToSet
<1> HIDE DEF t
<1>3. \A x \in ToSet(t) : x \in ToSet(s)
  BY <1>1, <1>2 DEF t
<1>4. ASSUME NEW i \in 1..Len(s)
      PROVE  s[i] \in ToSet(t) \cup {Head(s)}
  <2>1. CASE i = 1
    BY <1>1, <2>1
  <2>2. CASE i - 1 \in 1..Len(t)
    <3>1. t[i - 1] = s[(i - 1) + 1] /\ (i - 1) + 1 = i
      BY <1>1, <2>2 DEF t
    <3> QED BY <1>2, <2>2, <3>1
  <2> QED BY <1>1, <2>1, <2>2 DEF t
<1> QED BY <1>1, <1>2, <1>3, <1>4 DEF t

LEMMA ReceiveFirst == ASSUME TypeOK, StreamInv, FirstRecords, Receive PROVE FirstRecords'
<1>1. PICK e \in Record :
          /\ Show(e)
          /\ \/ /\ backlog # <<>> /\ e = Head(backlog)
                /\ backlog' = Tail(backlog) /\ channel' = channel
             \/ /\ backlog = <<>> /\ channel # <<>> /\ e = Head(channel)
                /\ channel' = Tail(channel) /\ backlog' = backlog
  BY ReceiveIs
<1>2. UNCHANGED <<life, seq>>
  BY DEF Receive, hubVars
<1>3. /\ entries \in Seq(Record) /\ pending \in Seq(Record) /\ Len(entries) <= KeepLogs
  BY DEF TypeOK
<1> SUFFICES ASSUME life = 1 PROVE Of(entries', 1, seq) /\ Of(pending', 1, seq)
  BY <1>2 DEF FirstRecords
<1>4. e.life = 1 /\ e.seq <= seq
  BY <1>1, ShownIsPresent
<1>5. /\ \A x \in ToSet(entries) : x.life = 1 /\ x.seq <= seq
      /\ \A x \in ToSet(pending) : x.life = 1 /\ x.seq <= seq
  BY OfSet DEF FirstRecords
<1>6. ToSet(entries') \subseteq ToSet(entries) \cup {e}
  <2>1. entries' = entries \/ entries' = Push(<<e>>)
    BY <1>1 DEF Show
  <2>2. ToSet(Push(<<e>>)) \subseteq ToSet(entries) \cup {e}
    BY <1>3, OneIsSorted, PushType
  <2> QED BY <2>1, <2>2
<1>7. ToSet(pending') \subseteq ToSet(pending) \cup {e}
  <2>1. pending' = pending \/ pending' = Append(pending, e)
    BY <1>1 DEF Show
  <2> QED BY <1>3, <2>1, AppendSet
<1>8. /\ \A x \in ToSet(entries') : x.life = 1 /\ x.seq <= seq
      /\ \A x \in ToSet(pending') : x.life = 1 /\ x.seq <= seq
  BY <1>4, <1>5, <1>6, <1>7
<1> QED BY <1>8, OfSet

LEMMA ResumeFirst == ASSUME TypeOK, FirstRecords, Resume PROVE FirstRecords'
<1>1. entries' = Push(pending) /\ pending' = <<>> /\ UNCHANGED <<life, seq>>
  BY DEF Resume, hubVars
<1>2. /\ entries \in Seq(Record) /\ pending \in Seq(Record) /\ Len(entries) <= KeepLogs
  BY DEF TypeOK
<1> SUFFICES ASSUME life = 1 PROVE Of(entries', 1, seq) /\ Of(pending', 1, seq)
  BY <1>1 DEF FirstRecords
<1>3. ToSet(entries') \subseteq ToSet(entries) \cup ToSet(pending)
  BY <1>1, <1>2, PushType
<1>4. /\ \A x \in ToSet(entries) : x.life = 1 /\ x.seq <= seq
      /\ \A x \in ToSet(pending) : x.life = 1 /\ x.seq <= seq
  BY OfSet DEF FirstRecords
<1>5. \A x \in ToSet(entries') : x.life = 1 /\ x.seq <= seq
  BY <1>3, <1>4
<1> QED BY <1>1, <1>5, OfSet, NothingIsSorted

LEMMA PublishFirst == ASSUME TypeOK, FirstRecords, Publish PROVE FirstRecords'
<1>1. UNCHANGED <<life, entries, pending>> /\ seq' = seq + 1 /\ seq \in Nat
  BY FeedBoundAssumption DEF Publish, pageVars, TypeOK
<1>2. entries \in Seq(Record) /\ pending \in Seq(Record)
  BY DEF TypeOK
<1>3. /\ \A i \in 1..Len(entries) : entries[i].seq \in Nat
      /\ \A i \in 1..Len(pending) : pending[i].seq \in Nat
  BY <1>2, NumbersAreNatural
<1> QED BY <1>1, <1>3 DEF FirstRecords, Of

LEMMA FirstStep == ASSUME TypeOK, StreamInv, FirstRecords, [Next]_vars PROVE FirstRecords'
<1>1. CASE Connect \/ ConnectFails \/ Disconnect \/ Retry \/ End \/ Pause
  BY <1>1 DEF FirstRecords, Connect, ConnectFails, Disconnect, Retry, End, Pause, pageVars,
              hubVars
<1>2. CASE UNCHANGED vars
  BY <1>2 DEF FirstRecords, vars, pageVars, hubVars
<1>3. CASE Restart
  <2>1. life' # 1
    BY <1>3 DEF Restart, TypeOK
  <2> QED BY <2>1 DEF FirstRecords
<1> QED BY <1>1, <1>2, <1>3, PublishFirst, ReceiveFirst, ResumeFirst DEF Next

LEMMA SkipInit == Init => NothingSkipped
<1> SUFFICES ASSUME Init PROVE NothingSkipped
  OBVIOUS
<1>1. entries = <<>> /\ pending = <<>> /\ seq = 0
  BY DEF Init
<1>2. LastShown = 0 /\ LastHeld = 0 /\ Through = 0
  BY <1>1 DEF LastShown, LastHeld, Through
<1> QED BY <1>1, <1>2 DEF NothingSkipped

\* The last numbers of what is shown and held are naturals.
LEMMA LastsAreNatural ==
    ASSUME TypeOK
    PROVE  LastShown \in Nat /\ LastHeld \in Nat /\ Through \in Nat
<1>1. /\ entries \in Seq(Record) /\ pending \in Seq(Record)
  BY DEF TypeOK
<1>2. /\ entries # <<>> => Last(entries) \in Record
      /\ pending # <<>> => Last(pending) \in Record
  BY <1>1, LastIs
<1>3. \A x \in Record : x.seq \in Nat
  BY FeedBoundAssumption DEF Record
<1> QED BY <1>2, <1>3 DEF LastShown, LastHeld, Through

\* Nothing that was shown or held back changes what the page has.
LEMMA SamePage ==
    ASSUME UNCHANGED <<entries, pending>>
    PROVE  LastShown' = LastShown /\ LastHeld' = LastHeld /\ Through' = Through
  BY DEF LastShown, LastHeld, Through

\* A step that only moves what is coming, or puts it among the missed.
LEMMA MovedKeepsSkip ==
    ASSUME NothingSkipped, UNCHANGED <<life, seq, entries, pending, heldOver>>,
           missed \subseteq missed', Coming \subseteq Coming' \cup missed'
    PROVE  NothingSkipped'
  BY SamePage DEF NothingSkipped

LEMMA PublishSkip == ASSUME TypeOK, StreamInv, NothingSkipped, Publish PROVE NothingSkipped'
<1> DEFINE e == [life |-> life, seq |-> seq + 1]
<1>1. e \in Record /\ seq \in Nat
  BY FeedBoundAssumption DEF TypeOK, Publish, Record
<1>2. /\ ring \in Seq(Record) /\ channel \in Seq(Record) /\ Ring \in Nat \ {0}
  BY RingAssumption DEF TypeOK
<1>3. /\ ring' = Latest(Append(ring, e), Ring)
      /\ channel' = IF Subscribed /\ Len(channel) < Channel THEN Append(channel, e) ELSE channel
      /\ missed' = missed \cup (IF Subscribed /\ ~(Len(channel) < Channel) THEN {e} ELSE {})
                          \cup (IF Subscribed THEN {} ELSE ToSet(ring) \ ToSet(ring'))
      /\ seq' = seq + 1 /\ UNCHANGED <<life, backlog, pc, entries, pending, heldOver>>
  BY DEF Publish, pageVars
<1> SUFFICES ASSUME life = 1, ~heldOver
             PROVE  /\ \A s \in 1..LastShown : \/ Rec(s) \in ToSet(entries) \cup missed'
                                               \/ s < entries[1].seq
                    /\ \A s \in (LastShown + 1)..LastHeld : Rec(s) \in ToSet(pending) \cup missed'
                    /\ \A s \in (Through + 1)..(seq + 1) : Rec(s) \in Coming' \cup missed'
  BY <1>3, SamePage DEF NothingSkipped
<1>4. missed \subseteq missed'
  BY <1>3
<1>5. Subscribed' = Subscribed
  BY <1>3 DEF Subscribed
<1>6. e = Rec(seq + 1)
  BY DEF Rec
<1> HIDE DEF e
<1>7. ToSet(Append(channel, e)) = ToSet(channel) \cup {e}
  BY <1>1, <1>2, AppendSet
<1>8. Coming \subseteq Coming' \cup missed'
  BY <1>3, <1>5, <1>7 DEF Coming
<1>9. e \in Coming' \cup missed'
  <2>1. CASE Subscribed
    <3>1. e \in ToSet(channel') \cup missed'
      BY <1>3, <1>7, <2>1
    <3> QED BY <3>1 DEF Coming
  <2>2. CASE ~Subscribed
    <3> DEFINE all == Append(ring, e)
    <3>1. /\ all \in Seq(Record) /\ Len(all) \in Nat \ {0} /\ all[Len(all)] = e
          /\ ring' = Latest(all, Ring)
      BY <1>1, <1>2, <1>3, AppendIs
    <3> HIDE DEF all
    <3> DEFINE k == Len(all) - Len(Latest(all, Ring))
    <3>2. /\ k \in Nat /\ ring' # <<>> /\ ring' \in Seq(Record) /\ Len(ring') \in Nat
          /\ k = Len(all) - Len(ring')
          /\ \A i \in 1..Len(ring') : ring'[i] = all[i + k]
      <4>1. all # <<>>
        BY <3>1
      <4>2. LET t == Latest(all, Ring)
            IN  /\ t \in Seq(Record) /\ Len(t) \in Nat /\ k \in Nat /\ t # <<>>
                /\ \A i \in 1..Len(t) : t[i] = all[i + k]
        BY <1>2, <3>1, <4>1, LatestIs
      <4> QED BY <3>1, <4>2
    <3> HIDE DEF k
    <3>3. Len(ring') \in 1..Len(ring') /\ Len(ring') + k = Len(all)
      BY <3>1, <3>2, LastIs
    <3>4. ring'[Len(ring')] = e
      BY <3>1, <3>2, <3>3
    <3>5. e \in ToSet(ring')
      BY <3>3, <3>4 DEF ToSet
    <3> QED BY <1>5, <2>2, <3>5 DEF Coming
  <2> QED BY <2>1, <2>2
<1>10. \A s \in (Through + 1)..(seq + 1) : Rec(s) \in Coming' \cup missed'
  <2> TAKE s \in (Through + 1)..(seq + 1)
  <2>1. CASE s = seq + 1
    BY <1>6, <1>9, <2>1
  <2>2. CASE s # seq + 1
    <3>1. s \in (Through + 1)..seq
      BY <1>1, <2>2, LastsAreNatural
    <3> QED BY <1>4, <1>8, <3>1 DEF NothingSkipped
  <2> QED BY <2>1, <2>2
<1> QED BY <1>4, <1>10 DEF NothingSkipped

LEMMA ConnectSkip == ASSUME StreamInv, NothingSkipped, Connect PROVE NothingSkipped'
<1>1. /\ backlog' = ring /\ ring' = ring /\ ~Subscribed /\ missed' = missed
      /\ UNCHANGED <<life, seq, entries, pending, heldOver>>
  BY DEF Connect, Subscribed, hubVars, pageVars
<1>2. Coming \subseteq Coming'
  <2>1. Coming = ToSet(ring)
    <3>1. ToSet(<<>>) = {}
      BY DEF ToSet
    <3> QED BY <1>1, <3>1 DEF Coming, StreamInv
  <2> QED BY <1>1, <2>1 DEF Coming
<1> QED BY <1>1, <1>2, MovedKeepsSkip

LEMMA BreakSkip == ASSUME TypeOK, NothingSkipped, Disconnect \/ End PROVE NothingSkipped'
<1>1. /\ missed' = missed \cup (ToSet(backlog \o channel) \ ToSet(ring)) /\ ring' = ring
      /\ ~Subscribed' /\ UNCHANGED <<life, seq, entries, pending, heldOver>>
  BY DEF Disconnect, End, Drop, Subscribed, hubVars, pageVars
<1>2. ToSet(backlog) \cup ToSet(channel) \subseteq ToSet(backlog \o channel)
  <2>1. backlog \in Seq(Record) /\ channel \in Seq(Record)
    BY DEF TypeOK
  <2>2. /\ \A i \in 1..Len(backlog) : (backlog \o channel)[i] = backlog[i]
                                      /\ i \in 1..Len(backlog \o channel)
        /\ \A i \in 1..Len(channel) : (backlog \o channel)[Len(backlog) + i] = channel[i]
                                      /\ Len(backlog) + i \in 1..Len(backlog \o channel)
        /\ backlog \o channel \in Seq(Record)
    BY <2>1, ConcatIs
  <2> DEFINE all == backlog \o channel
  <2>3. ToSet(all) = {all[i] : i \in 1..Len(all)}
    <3> HIDE DEF all
    <3> QED BY <2>2 DEF ToSet, all
  <2>4. /\ ToSet(backlog) = {backlog[i] : i \in 1..Len(backlog)}
        /\ ToSet(channel) = {channel[i] : i \in 1..Len(channel)}
    BY <2>1 DEF ToSet
  <2>5. \A x \in ToSet(backlog) : x \in ToSet(all)
    <3> HIDE DEF all
    <3> QED BY <2>2, <2>3, <2>4 DEF all
  <2>6. \A x \in ToSet(channel) : x \in ToSet(all)
    <3> HIDE DEF all
    <3> QED BY <2>2, <2>3, <2>4 DEF all
  <2> QED BY <2>5, <2>6
<1>3. Coming \subseteq Coming' \cup missed'
  BY <1>1, <1>2 DEF Coming
<1> QED BY <1>1, <1>3, MovedKeepsSkip

\* Receive takes the oldest record of what is coming.
LEMMA ReceiveTakesOldest ==
    ASSUME TypeOK, StreamInv, Receive
    PROVE  \E e \in Record :
               /\ Show(e) /\ e.life = life /\ e.seq <= seq
               /\ Coming = Coming' \cup {e}
               /\ \A x \in Coming' : e.seq < x.seq
<1>1. PICK e \in Record :
          /\ Show(e)
          /\ \/ /\ backlog # <<>> /\ e = Head(backlog)
                /\ backlog' = Tail(backlog) /\ channel' = channel
             \/ /\ backlog = <<>> /\ channel # <<>> /\ e = Head(channel)
                /\ channel' = Tail(channel) /\ backlog' = backlog
  BY ReceiveIs
<1>2. /\ backlog \in Seq(Record) /\ channel \in Seq(Record)
      /\ Subscribed /\ Subscribed' /\ ToSet(<<>>) = {}
  BY DEF TypeOK, Receive, Subscribed, ToSet
<1>3. Coming = ToSet(backlog) \cup ToSet(channel) /\ Coming' = ToSet(backlog') \cup ToSet(channel')
  BY <1>2 DEF Coming
<1>4. e.life = life /\ e.seq <= seq
  BY <1>1, ShownIsPresent
<1>5. ASSUME NEW s \in Seq(Record), s # <<>>, Sorted(s), NEW x \in ToSet(Tail(s))
      PROVE  Head(s).seq < x.seq
  <2>1. /\ Tail(s) \in Seq(Record) /\ Head(s) = s[1] /\ 1 \in 1..Len(s)
        /\ \A i \in 1..Len(Tail(s)) : Tail(s)[i] = s[i + 1] /\ i + 1 \in 1..Len(s)
    BY <1>5, TailIs
  <2>2. PICK i \in 1..Len(Tail(s)) : x = Tail(s)[i]
    BY <1>5, <2>1 DEF ToSet
  <2>3. 1 < i + 1
    OBVIOUS
  <2> QED BY <1>5, <2>1, <2>2, <2>3 DEF Sorted
<1>6. CASE backlog # <<>> /\ e = Head(backlog) /\ backlog' = Tail(backlog) /\ channel' = channel
  <2>1. ToSet(backlog) = ToSet(backlog') \cup {e}
    BY <1>2, <1>6, TailSet
  <2>2. \A x \in ToSet(backlog') : e.seq < x.seq
    BY <1>2, <1>5, <1>6 DEF StreamInv
  <2>3. \A x \in ToSet(channel) : e.seq < x.seq
    <3>1. e = backlog[1] /\ 1 \in 1..Len(backlog)
      BY <1>2, <1>6, TailIs
    <3>2. ToSet(channel) = {channel[j] : j \in 1..Len(channel)}
      BY <1>2 DEF ToSet
    <3> QED BY <3>1, <3>2 DEF StreamInv
  <2>4. Coming = Coming' \cup {e}
    BY <1>3, <1>6, <2>1
  <2>5. \A x \in Coming' : e.seq < x.seq
    BY <1>3, <1>6, <2>2, <2>3
  <2> QED BY <1>1, <1>4, <2>4, <2>5
<1>7. CASE backlog = <<>> /\ channel # <<>> /\ e = Head(channel) /\ channel' = Tail(channel)
           /\ backlog' = backlog
  <2>1. ToSet(channel) = ToSet(channel') \cup {e}
    BY <1>2, <1>7, TailSet
  <2>2. \A x \in ToSet(channel') : e.seq < x.seq
    BY <1>2, <1>5, <1>7 DEF StreamInv
  <2>3. Coming = Coming' \cup {e}
    BY <1>2, <1>3, <1>7, <2>1
  <2>4. \A x \in Coming' : e.seq < x.seq
    BY <1>2, <1>3, <1>7, <2>2
  <2> QED BY <1>1, <1>4, <2>3, <2>4
<1> QED BY <1>1, <1>6, <1>7

\* What lies between Through and a record that is the oldest to come was missed.
LEMMA BetweenIsMissed ==
    ASSUME TypeOK, NothingSkipped, life = 1, ~heldOver, NEW e \in Record, e.seq <= seq,
           \A x \in Coming : x = e \/ e.seq < x.seq
    PROVE  \A s \in (Through + 1)..(e.seq - 1) : Rec(s) \in missed
<1> TAKE s \in (Through + 1)..(e.seq - 1)
<1>1. e.seq \in Nat /\ seq \in Nat
  BY FeedBoundAssumption DEF Record, TypeOK
<1>2. Rec(s).seq = s
  BY DEF Rec
<1>3. s \in (Through + 1)..seq /\ s < e.seq
  BY <1>1, LastsAreNatural
<1>4. Rec(s) \notin Coming
  BY <1>1, <1>2, <1>3
<1> QED BY <1>3, <1>4 DEF NothingSkipped

LEMMA ReceiveSkip ==
    ASSUME TypeOK, StreamInv, PageInv, FirstRecords, NothingSkipped, Receive
    PROVE  NothingSkipped'
<1>1. PICK e \in Record : /\ Show(e) /\ e.life = life /\ e.seq <= seq
                          /\ Coming = Coming' \cup {e}
                          /\ \A x \in Coming' : e.seq < x.seq
  BY ReceiveTakesOldest
<1>2. UNCHANGED <<life, seq, missed>>
  BY DEF Receive, hubVars
<1> SUFFICES ASSUME life = 1, ~heldOver'
             PROVE  /\ \A s \in 1..LastShown' : \/ Rec(s) \in ToSet(entries') \cup missed
                                                \/ s < entries'[1].seq
                    /\ \A s \in (LastShown' + 1)..LastHeld' : Rec(s) \in ToSet(pending') \cup missed
                    /\ \A s \in (Through' + 1)..seq : Rec(s) \in Coming' \cup missed
  BY <1>2 DEF NothingSkipped
<1>3. ~heldOver
  BY <1>1 DEF Show
<1>4. /\ entries \in Seq(Record) /\ pending \in Seq(Record) /\ Len(entries) <= KeepLogs
      /\ e.seq \in Nat \ {0} /\ seq \in Nat
      /\ LastShown \in Nat /\ LastHeld \in Nat /\ Through \in Nat
  BY LastsAreNatural, FeedBoundAssumption DEF TypeOK, Record
<1>5. e = Rec(e.seq)
  BY <1>1 DEF Record, Rec
<1>6. \A s \in (Through + 1)..(e.seq - 1) : Rec(s) \in missed
  BY <1>1, <1>3, BetweenIsMissed
<1>7. /\ \A s \in 1..LastShown : Rec(s) \in ToSet(entries) \cup missed \/ s < entries[1].seq
      /\ \A s \in (LastShown + 1)..LastHeld : Rec(s) \in ToSet(pending) \cup missed
      /\ \A s \in (Through + 1)..seq : Rec(s) \in Coming \cup missed
  BY <1>3 DEF NothingSkipped
\* Whatever becomes of e, what is coming after Through' is what came after Through.
<1>8. ASSUME Through' = IF e.seq > Through THEN e.seq ELSE Through
      PROVE  \A s \in (Through' + 1)..seq : Rec(s) \in Coming' \cup missed
  <2> TAKE s \in (Through' + 1)..seq
  <2>1. s \in (Through + 1)..seq /\ s > e.seq /\ Rec(s).seq = s
    BY <1>4, <1>8 DEF Rec
  <2>2. Rec(s) # e
    BY <1>4, <2>1
  <2> QED BY <1>1, <1>7, <2>1, <2>2
<1>9. CASE paused
  <2>1. /\ pending' = Append(pending, e) /\ entries' = entries
        /\ ~(pending # <<>> /\ e.seq <= Last(pending).seq)
    BY <1>1, <1>9 DEF Show
  <2>2. LastShown' = LastShown
    BY <2>1 DEF LastShown
  <2>3. LastHeld' = e.seq /\ (pending = <<>> \/ LastHeld < e.seq)
    <3>1. pending' \in Seq(Record) /\ Len(pending') = Len(pending) + 1
          /\ pending'[Len(pending) + 1] = e
      BY <1>4, <2>1, AppendIs
    <3>2. pending' # <<>>
      BY <2>1, <3>1
    <3>3. Last(pending') = e
      BY <3>1, <3>2, LastIs
    <3> QED BY <1>4, <2>1, <3>2, <3>3 DEF LastHeld
  <2>4. LastHeld <= e.seq
    BY <1>4, <2>3 DEF LastHeld
  <2>5. Through' = IF e.seq > Through THEN e.seq ELSE Through
    BY <1>4, <2>2, <2>3, <2>4 DEF Through
  <2>6. ToSet(pending') = ToSet(pending) \cup {e}
    BY <1>4, <2>1, AppendSet
  <2>7. \A s \in (LastShown' + 1)..LastHeld' : Rec(s) \in ToSet(pending') \cup missed
    <3> TAKE s \in (LastShown' + 1)..LastHeld'
    <3>1. s \in (LastShown + 1)..e.seq
      BY <2>2, <2>3
    <3>2. CASE s = e.seq
      BY <1>5, <2>6, <3>2
    <3>3. CASE s <= LastHeld
      BY <1>4, <1>7, <2>6, <3>1, <3>3
    <3>4. CASE s # e.seq /\ ~(s <= LastHeld)
      <4>1. s \in (Through + 1)..(e.seq - 1)
        BY <1>4, <3>1, <3>4 DEF Through
      <4> QED BY <1>6, <4>1
    <3> QED BY <3>2, <3>3, <3>4
  <2> QED BY <1>7, <1>8, <2>1, <2>2, <2>5, <2>7
<1>10. CASE ~paused
  <2>1. pending' = pending /\ entries' = Push(<<e>>)
    BY <1>1, <1>10 DEF Show
  <2> DEFINE new == Push(<<e>>)
  <2>2. /\ new # <<>>
        /\ Last(new).seq = (IF e.seq > LastShown THEN e.seq ELSE LastShown)
        /\ \A x \in ToSet(entries) : x \in ToSet(new) \/ x.seq < new[1].seq
        /\ e.seq <= LastShown \/ e \in ToSet(new) \/ e.seq < new[1].seq
        /\ entries # <<>> => entries[1].seq <= new[1].seq
        /\ new[1].seq \in Nat
    <3>1. /\ <<e>> \in Seq(Record) /\ <<e>> # <<>> /\ Sorted(<<e>>) /\ Last(<<e>>) = e
          /\ ToSet(<<e>>) = {e}
      BY OneIsSorted
    <3>2. Sorted(entries)
      BY <1>3 DEF PageInv
    <3>3. /\ new \in Seq(Record) /\ new # <<>>
          /\ Last(new).seq = (IF Last(<<e>>).seq > LastShown THEN Last(<<e>>).seq ELSE LastShown)
          /\ \A x \in ToSet(entries) : x \in ToSet(new) \/ x.seq < new[1].seq
          /\ \A x \in ToSet(<<e>>) : x.seq <= LastShown \/ x \in ToSet(new) \/ x.seq < new[1].seq
          /\ entries # <<>> => entries[1].seq <= new[1].seq
      BY <1>4, <3>1, <3>2, PushEffect
    <3> HIDE DEF new
    <3>4. new[1].seq \in Nat
      <4>1. 1 \in 1..Len(new)
        BY <3>3, LastIs
      <4> QED BY <3>3, <4>1, NumbersAreNatural
    <3> QED BY <3>1, <3>3, <3>4
  <2>3. entries' = new
    BY <2>1
  <2> HIDE DEF new
  <2>4. LastShown' = (IF e.seq > LastShown THEN e.seq ELSE LastShown) /\ LastHeld' = LastHeld
    BY <2>1, <2>2, <2>3 DEF LastShown, LastHeld
  <2>5. Through' = IF e.seq > Through THEN e.seq ELSE Through
    BY <1>4, <2>4 DEF Through
  <2>6. \A s \in 1..LastShown' : Rec(s) \in ToSet(new) \cup missed \/ s < new[1].seq
    <3> TAKE s \in 1..LastShown'
    <3>1. Rec(s).seq = s /\ s \in Nat
      BY <1>4, <2>4 DEF Rec
    <3>2. CASE s <= LastShown
      <4>1. s \in 1..LastShown
        BY <1>4, <3>1, <3>2
      <4>2. CASE Rec(s) \in ToSet(entries)
        BY <2>2, <3>1, <4>2
      <4>3. CASE s < entries[1].seq
        <5>1. entries # <<>>
          BY <4>1 DEF LastShown
        <5>2. 1 \in 1..Len(entries)
          BY <1>4, <5>1, LastIs
        <5>3. entries[1].seq \in Nat
          BY <1>4, <5>2, NumbersAreNatural
        <5>4. entries[1].seq <= new[1].seq /\ new[1].seq \in Nat
          BY <2>2, <5>1
        <5> QED BY <3>1, <4>3, <5>3, <5>4
      <4> QED BY <1>7, <4>1, <4>2, <4>3
    <3>3. CASE ~(s <= LastShown)
      <4>1. e.seq > LastShown /\ s \in (LastShown + 1)..e.seq
        BY <1>4, <2>4, <3>1, <3>3
      <4>2. CASE s = e.seq
        BY <1>4, <1>5, <2>2, <4>1, <4>2
      <4>3. CASE s # e.seq
        <5>1. s <= LastHeld \/ s \in (Through + 1)..(e.seq - 1)
          BY <1>4, <3>1, <4>1, <4>3 DEF Through
        <5>2. CASE s <= LastHeld
          <6>1. LastHeld = 0
            BY <1>10 DEF LastHeld, PageInv
          <6> QED BY <1>4, <3>1, <3>3, <5>2, <6>1
        <5> QED BY <1>6, <5>1, <5>2
      <4> QED BY <4>2, <4>3
    <3> QED BY <3>2, <3>3
  <2>7. \A s \in (LastShown' + 1)..LastHeld' : Rec(s) \in ToSet(pending') \cup missed
    <3> TAKE s \in (LastShown' + 1)..LastHeld'
    <3>1. s \in (LastShown + 1)..LastHeld
      BY <1>4, <2>4
    <3> QED BY <1>7, <2>1, <3>1
  <2> QED BY <1>8, <2>3, <2>5, <2>6, <2>7
<1> QED BY <1>9, <1>10

LEMMA ResumeSkip ==
    ASSUME TypeOK, PageInv, FirstRecords, NothingSkipped, Resume
    PROVE  NothingSkipped'
<1>1. /\ entries' = Push(pending) /\ pending' = <<>>
      /\ UNCHANGED <<life, seq, ring, backlog, channel, pc, missed, heldOver>>
  BY DEF Resume, hubVars, streamVars
<1>2. /\ entries \in Seq(Record) /\ pending \in Seq(Record) /\ Len(entries) <= KeepLogs
      /\ LastShown \in Nat /\ LastHeld \in Nat /\ Through \in Nat
  BY LastsAreNatural DEF TypeOK
<1>3. Coming' = Coming /\ LastHeld' = 0
  BY <1>1 DEF Coming, Subscribed, LastHeld
<1>4. CASE pending = <<>>
  <2>1. entries' = entries /\ pending' = pending
    BY <1>1, <1>2, <1>4, NothingToPush
  <2> QED BY <1>1, <1>3, <2>1, MovedKeepsSkip
<1>5. CASE pending # <<>>
  <2> SUFFICES ASSUME life = 1, ~heldOver
               PROVE  /\ \A s \in 1..LastShown' : \/ Rec(s) \in ToSet(entries') \cup missed
                                                  \/ s < entries'[1].seq
                      /\ \A s \in (LastShown' + 1)..LastHeld' :
                            Rec(s) \in ToSet(pending') \cup missed
                      /\ \A s \in (Through' + 1)..seq : Rec(s) \in Coming' \cup missed
    BY <1>1 DEF NothingSkipped
  <2>1. /\ \A s \in 1..LastShown : Rec(s) \in ToSet(entries) \cup missed \/ s < entries[1].seq
        /\ \A s \in (LastShown + 1)..LastHeld : Rec(s) \in ToSet(pending) \cup missed
        /\ \A s \in (Through + 1)..seq : Rec(s) \in Coming \cup missed
    BY DEF NothingSkipped
  <2> DEFINE new == Push(pending)
  <2>2. /\ new \in Seq(Record) /\ new # <<>>
        /\ Last(new).seq = (IF LastHeld > LastShown THEN LastHeld ELSE LastShown)
        /\ \A x \in ToSet(entries) : x \in ToSet(new) \/ x.seq < new[1].seq
        /\ \A x \in ToSet(pending) : x.seq <= LastShown \/ x \in ToSet(new) \/ x.seq < new[1].seq
        /\ entries # <<>> => entries[1].seq <= new[1].seq
    <3>1. Sorted(entries) /\ Sorted(pending) /\ LastHeld = Last(pending).seq
      BY <1>5 DEF PageInv, LastHeld
    <3> QED BY <1>2, <1>5, <3>1, PushEffect
  <2>3. entries' = new
    BY <1>1
  <2> HIDE DEF new
  <2>4. LastShown' = Through /\ Through' = Through
    BY <1>2, <1>3, <2>2, <2>3 DEF LastShown, Through
  <2>5. new[1].seq \in Nat
    <3>1. 1 \in 1..Len(new)
      BY <2>2, LastIs
    <3> QED BY <2>2, <3>1, NumbersAreNatural
  <2>6. \A s \in 1..LastShown' : Rec(s) \in ToSet(new) \cup missed \/ s < new[1].seq
    <3> TAKE s \in 1..LastShown'
    <3>1. Rec(s).seq = s /\ s \in Nat
      BY <1>2, <2>4 DEF Rec
    <3>2. CASE s <= LastShown
      <4>1. s \in 1..LastShown
        BY <1>2, <3>1, <3>2
      <4>2. CASE Rec(s) \in ToSet(entries)
        BY <2>2, <3>1, <4>2
      <4>3. CASE s < entries[1].seq
        <5>1. entries # <<>>
          BY <4>1 DEF LastShown
        <5>2. 1 \in 1..Len(entries)
          BY <1>2, <5>1, LastIs
        <5>3. entries[1].seq \in Nat
          BY <1>2, <5>2, NumbersAreNatural
        <5>4. entries[1].seq <= new[1].seq
          BY <2>2, <5>1
        <5> QED BY <2>5, <3>1, <4>3, <5>3, <5>4
      <4> QED BY <2>1, <4>1, <4>2, <4>3
    <3>3. CASE ~(s <= LastShown)
      <4>1. s \in (LastShown + 1)..LastHeld
        BY <1>2, <2>4, <3>1, <3>3 DEF Through
      <4>2. CASE Rec(s) \in ToSet(pending)
        BY <2>2, <3>1, <3>3, <4>2
      <4> QED BY <2>1, <4>1, <4>2
    <3> QED BY <3>2, <3>3
  <2>7. \A s \in (LastShown' + 1)..LastHeld' : Rec(s) \in ToSet(pending') \cup missed
    BY <1>2, <1>3, <2>4
  <2> QED BY <1>3, <2>1, <2>3, <2>4, <2>6, <2>7
<1> QED BY <1>4, <1>5

LEMMA SkipStep ==
    ASSUME TypeOK, StreamInv, PageInv, FirstRecords, NothingSkipped, [Next]_vars
    PROVE  NothingSkipped'
<1>1. CASE ConnectFails \/ Retry \/ Pause
  <2>1. UNCHANGED <<life, seq, ring, backlog, channel, entries, pending, missed, heldOver>>
    BY <1>1 DEF ConnectFails, Retry, Pause, hubVars, streamVars, pageVars
  <2>2. Subscribed' = Subscribed
    BY <1>1 DEF ConnectFails, Retry, Pause, streamVars, Subscribed
  <2>3. Coming' = Coming
    BY <2>1, <2>2 DEF Coming
  <2> QED BY <2>1, <2>3, MovedKeepsSkip
<1>2. CASE UNCHANGED vars
  <2>1. UNCHANGED <<life, seq, ring, backlog, channel, pc, entries, pending, missed, heldOver>>
    BY <1>2 DEF vars, hubVars, streamVars, pageVars
  <2>2. Coming' = Coming
    BY <2>1 DEF Coming, Subscribed
  <2> QED BY <2>1, <2>2, MovedKeepsSkip
<1>3. CASE Restart
  <2>1. life' # 1
    BY <1>3 DEF Restart, TypeOK
  <2> QED BY <2>1 DEF NothingSkipped
<1> QED BY <1>1, <1>2, <1>3, PublishSkip, ConnectSkip, BreakSkip, ReceiveSkip, ResumeSkip
        DEF Next

FeedInv == TypeOK /\ StreamInv /\ PageInv /\ FirstRecords /\ NothingSkipped

(***************************************************************************)
(* Within the first life of the bot the page has no holes: whatever is     *)
(* dropped, replayed, held back or trimmed, a record between the oldest    *)
(* and the newest shown is shown, or no connection could carry it.         *)
(***************************************************************************)
THEOREM PageHasNoHoles == Spec => []NoHoles
<1>1. Init => FeedInv
  BY TypeInit, StreamInit, PageInit, FirstInit, SkipInit DEF FeedInv
<1>2. FeedInv /\ [Next]_vars => FeedInv'
  BY TypeStep, StreamStep, PageStep, FirstStep, SkipStep DEF FeedInv
<1>3. FeedInv => NoHoles
  <2> SUFFICES ASSUME FeedInv, life = 1, ~heldOver, entries # <<>>,
                      NEW s \in entries[1].seq..Last(entries).seq
               PROVE  Rec(s) \in ToSet(entries) \/ Rec(s) \in missed
    BY DEF NoHoles, Rec
  <2>1. entries \in Seq(Record)
    BY DEF FeedInv, TypeOK
  <2>2. 1 \in 1..Len(entries) /\ entries[1].seq \in Nat \ {0}
    BY <2>1, LastIs, NumbersAreNatural
  <2>3. LastShown = Last(entries).seq /\ LastShown \in Nat
    BY LastsAreNatural DEF LastShown, FeedInv
  <2>4. s \in 1..LastShown /\ ~(s < entries[1].seq)
    BY <2>2, <2>3
  <2> QED BY <2>4 DEF FeedInv, NothingSkipped
<1> QED BY <1>1, <1>2, <1>3, PTL DEF Spec
=============================================================================
