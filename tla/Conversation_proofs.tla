------------------------- MODULE Conversation_proofs -------------------------
(***************************************************************************)
(* For every set of requests and every size: the commit lock of a          *)
(* conversation always comes back; what is settled is on disk; exchanges   *)
(* stay whole; nothing is lost that no recap tells of; and a screened      *)
(* speaker's turns are gone when +screen has answered.                     *)
(***************************************************************************)
EXTENDS Conversation, Queues_proofs

\* The inductive invariant of the lock: that its holder writes, and the shapes it speaks of.
LockInv == /\ pc \in [Request -> Stage]
           /\ "pc" \in DOMAIN fold
           /\ LockIsReturned

-----------------------------------------------------------------------------
(* The commit lock. *)

LEMMA LockInvInit == Init => LockInv
  BY WriterAssumption DEF Init, LockInv, LockIsReturned, Stage, NoFold

\* Whoever waits at the model, looks at the size or ends does not hold the lock.
LEMMA RequestKeepsLockInv ==
    ASSUME LockInv, NEW r \in Request, Ask(r) \/ Answer(r) \/ Close(r)
    PROVE  LockInv'
<1>1. pc[r] \notin {"writing", "noting", "purging"} /\ holder' = holder
  BY DEF Ask, Answer, Close
<1>2. holder # r
  BY <1>1 DEF LockInv, LockIsReturned
<1>3. fold' = fold /\ screening' = screening
  BY DEF Ask, Answer, Close
<1>4. PICK s \in Stage : pc' = [pc EXCEPT ![r] = s]
  BY DEF Ask, Answer, Close, Stay, Stage
<1> QED BY <1>1, <1>2, <1>3, <1>4 DEF LockInv, LockIsReturned

\* A commit takes the lock to write, and gives it back when all is written.
LEMMA CommitKeepsLockInv ==
    ASSUME LockInv, NEW r \in Request, CommitExchange(r) \/ Committed(r)
    PROVE  LockInv'
<1>1. fold' = fold /\ screening' = screening
  BY DEF CommitExchange, Committed
<1>2. CASE CommitExchange(r)
  <2>1. PICK s \in {"writing", "noting"} : pc' = [pc EXCEPT ![r] = s]
    BY <1>2 DEF CommitExchange, Stay
  <2>2. holder' = r
    BY <1>2 DEF CommitExchange, Acquire
  <2> QED BY <1>1, <2>1, <2>2, WriterAssumption DEF LockInv, LockIsReturned, Stage
<1>3. CASE Committed(r)
  <2>1. PICK s \in {"closing", "convicted"} : pc' = [pc EXCEPT ![r] = s]
    BY <1>3 DEF Committed, Stay
  <2>2. holder' = "nobody"
    BY <1>3 DEF Committed, Release
  <2> QED BY <1>1, <2>1, <2>2, WriterAssumption DEF LockInv, LockIsReturned, Stage
<1> QED BY <1>2, <1>3

\* A quarantine that finds nothing to drop leaves the lock free.
LEMMA QuarantineKeepsLockInv ==
    ASSUME LockInv, NEW r \in Request, Quarantine(r)
    PROVE  LockInv'
<1>1. fold' = fold /\ screening' = screening
  BY DEF Quarantine, FindTurns, TurnsDropped
<1>2. CASE pc[r] = "convicted" /\ FindTurns(r) /\ Purged(history) = history
                               /\ Stay(r, "closing")
  <2>1. holder' = "nobody"
    BY <1>2 DEF FindTurns
  <2> QED BY <1>1, <1>2, <2>1, WriterAssumption DEF LockInv, LockIsReturned, Stage, Stay
<1>3. CASE pc[r] = "convicted" /\ FindTurns(r) /\ Purged(history) # history
                               /\ Stay(r, "purging")
  <2>1. holder' = r
    BY <1>3 DEF FindTurns, Acquire
  <2> QED BY <1>1, <1>3, <2>1, WriterAssumption DEF LockInv, LockIsReturned, Stage, Stay
<1>4. CASE pc[r] = "purging" /\ TurnsDropped(r) /\ Stay(r, "closing")
  <2>1. holder' = "nobody"
    BY <1>4 DEF TurnsDropped, Release
  <2> QED BY <1>1, <1>4, <2>1, WriterAssumption DEF LockInv, LockIsReturned, Stage, Stay
<1> QED BY <1>2, <1>3, <1>4 DEF Quarantine

\* A fold holds the lock from its second look to its last write, whichever way it ends.
LEMMA FoldKeepsLockInv ==
    ASSUME LockInv, FoldStep \/ IdleFold
    PROVE  LockInv'
<1>1. pc' = pc /\ screening' = screening
  BY DEF FoldStep, IdleFold, SizeFold, CheckPrefix, SaveRecap, HardTrim, FoldEnds
<1>2. CASE SizeFold \/ IdleFold
  <2>1. holder' = holder
    BY <1>2 DEF SizeFold, IdleFold
  <2>2. \/ fold' = fold
        \/ fold.pc = "off" /\ "pc" \in DOMAIN fold'
    BY <1>2 DEF SizeFold, IdleFold, BeginFold, NoFold
  <2>3. holder = "fold" => fold' = fold
    BY <2>2 DEF LockInv, LockIsReturned
  <2> QED BY <1>1, <2>1, <2>2, <2>3 DEF LockInv, LockIsReturned
<1>3. CASE CheckPrefix
  <2>1. \/ holder' = "fold" /\ fold'.pc = "checked"
        \/ holder' = "nobody"
    BY <1>3 DEF CheckPrefix, LockInv
  <2>2. ASSUME NEW rest, fold' = [fold EXCEPT !.pc = "checked", !.rest = rest]
        PROVE  DOMAIN fold' = DOMAIN fold
    BY <2>2
  <2>3. "pc" \in DOMAIN fold'
    <3>1. \/ fold' = NoFold
          \/ fold' = [fold EXCEPT !.pc = "checked",
                                  !.rest = SubSeq(history, Len(fold.old) + 1, Len(history))]
      BY <1>3 DEF CheckPrefix
    <3>2. fold' = NoFold \/ DOMAIN fold' = DOMAIN fold
      BY <3>1, <2>2
    <3> QED BY <3>2 DEF LockInv, NoFold
  <2> QED BY <1>1, <2>1, <2>3, WriterAssumption DEF LockInv, LockIsReturned
<1>4. CASE SaveRecap
  <2>1. \/ holder' = "nobody"
        \/ holder' = holder /\ fold'.pc = "rewriting"
    BY <1>4 DEF SaveRecap, NoFold
  <2>2. "pc" \in DOMAIN fold'
    BY <1>4 DEF SaveRecap, NoFold
  <2> QED BY <1>1, <2>1, <2>2, WriterAssumption DEF LockInv, LockIsReturned
<1>5. CASE HardTrim
  <2>1. \/ holder' = "fold" /\ fold'.pc = "rewriting"
        \/ holder' = "nobody"
    BY <1>5 DEF HardTrim, NoFold
  <2>2. "pc" \in DOMAIN fold'
    BY <1>5 DEF HardTrim, NoFold
  <2> QED BY <1>1, <2>1, <2>2, WriterAssumption DEF LockInv, LockIsReturned
<1>6. CASE FoldEnds
  <2>1. holder' = "nobody" /\ "pc" \in DOMAIN fold'
    BY <1>6 DEF FoldEnds, Release, NoFold
  <2> QED BY <1>1, <2>1, WriterAssumption DEF LockInv, LockIsReturned
<1> QED BY <1>2, <1>3, <1>4, <1>5, <1>6 DEF FoldStep

\* +screen holds the lock while it drops the turns it found.
LEMMA ScreenKeepsLockInv ==
    ASSUME LockInv, Screen, UNCHANGED pc
    PROVE  LockInv'
<1>1. fold' = fold
  BY DEF Screen, FindTurns, TurnsDropped
<1>2. CASE screening = "off" /\ holder' = holder
  BY <1>1, <1>2 DEF LockInv, LockIsReturned
<1>3. CASE holder' = "nobody"
  BY <1>1, <1>3, WriterAssumption DEF LockInv, LockIsReturned
<1>4. CASE holder' = "screen" /\ screening' = "purging"
  BY <1>1, <1>4, WriterAssumption DEF LockInv, LockIsReturned
<1> QED BY <1>2, <1>3, <1>4 DEF Screen, FindTurns, TurnsDropped, Acquire, Release

LEMMA LockInvNext == LockInv /\ [Next]_vars => LockInv'
<1> SUFFICES ASSUME LockInv, [Next]_vars PROVE LockInv'
  OBVIOUS
<1>1. ASSUME NEW r \in Request, Ask(r) \/ Answer(r) \/ RequestStep(r) PROVE LockInv'
  BY <1>1, RequestKeepsLockInv, CommitKeepsLockInv, QuarantineKeepsLockInv DEF RequestStep
<1>2. CASE \/ \E w \in Writer : WriteNext(w)
           \/ Flush \/ Reset \/ RecapCommand
           \/ UNCHANGED vars
  <2>1. UNCHANGED <<pc, holder, fold, screening>>
    BY <1>2 DEF WriteNext, Flush, Reset, RecapCommand, vars, convVars
  <2> QED BY <2>1 DEF LockInv, LockIsReturned
<1>3. CASE FoldStep \/ IdleFold
  BY <1>3, FoldKeepsLockInv
<1>4. CASE Screen /\ UNCHANGED pc
  BY <1>4, ScreenKeepsLockInv
<1>5. CASE Restart
  <2>1. holder' = "nobody" /\ fold' = NoFold /\ pc' \in [Request -> Stage]
    BY <1>5 DEF Restart, Stage
  <2> QED BY <2>1, WriterAssumption DEF LockInv, LockIsReturned, NoFold
<1> QED BY <1>1, <1>2, <1>3, <1>4, <1>5 DEF Next

\* The commit lock is held only by someone about to write (core.CommitLock and its callers).
THEOREM LockComesBack == Spec => []LockIsReturned
<1>1. LockInv => LockIsReturned
  BY DEF LockInv
<1> QED BY <1>1, LockInvInit, LockInvNext, PTL DEF Spec

-----------------------------------------------------------------------------
(* The row. *)

\* A flush, a write and a restart each leave the key marked, the flush unfinished, or the row equal.
LEMMA StoreStep ==
    ASSUME SettledOnDisk,
           \/ FlushTake \/ FlushWrite \/ FlushFails
           \/ Clear \/ Restore
           \/ \E m : AddMessage(m)
           \/ UNCHANGED storeVars
    PROVE  SettledOnDisk'
<1>1. CASE FlushTake \/ FlushFails
  BY <1>1 DEF SettledOnDisk, FlushTake, FlushFails
<1>2. CASE FlushWrite \/ Restore
  BY <1>2 DEF SettledOnDisk, FlushWrite, Restore
<1>3. CASE Clear \/ \E m : AddMessage(m)
  BY <1>3 DEF SettledOnDisk, Clear, AddMessage
<1>4. CASE UNCHANGED storeVars
  BY <1>4 DEF SettledOnDisk, storeVars
<1> QED BY <1>1, <1>2, <1>3, <1>4

\* With no mark, no flush under way and none failed, the row is the history (Flush, save).
THEOREM SettledIsSaved == Spec => []SettledOnDisk
<1>1. Init => SettledOnDisk
  BY DEF Init, StoreInit, SettledOnDisk
<1>2. SettledOnDisk /\ [Next]_vars => SettledOnDisk'
  <2> SUFFICES ASSUME SettledOnDisk, [Next]_vars PROVE SettledOnDisk'
    OBVIOUS
  <2>1. ASSUME NEW r \in Request, Ask(r) \/ Answer(r) \/ RequestStep(r) PROVE UNCHANGED storeVars
    BY <2>1 DEF Ask, Answer, RequestStep, CommitExchange, Committed, Close, Quarantine,
                FindTurns, TurnsDropped
  <2>2. CASE \E w \in Writer : WriteNext(w)
    BY <2>2, StoreStep DEF WriteNext
  <2>3. CASE Flush
    BY <2>3, StoreStep DEF Flush
  <2>4. CASE FoldStep \/ IdleFold
    <3>1. UNCHANGED storeVars
      BY <2>4 DEF FoldStep, IdleFold, SizeFold, CheckPrefix, SaveRecap, HardTrim, FoldEnds
    <3> QED BY <3>1, StoreStep
  <2>5. CASE Reset \/ Restart
    BY <2>5, StoreStep DEF Reset, Restart
  <2>6. CASE RecapCommand \/ (Screen /\ UNCHANGED pc)
    <3>1. UNCHANGED storeVars
      BY <2>6 DEF RecapCommand, Screen, FindTurns, TurnsDropped
    <3> QED BY <3>1, StoreStep
  <2>7. CASE UNCHANGED vars
    BY <2>7, StoreStep DEF vars
  <2> QED BY <2>1, <2>2, <2>3, <2>4, <2>5, <2>6, <2>7, StoreStep DEF Next
<1> QED BY <1>1, <1>2, PTL DEF Spec

-----------------------------------------------------------------------------
(* Sequences of messages. *)

\* Where a message is in its exchange.
Place(m) == IF m.role = "user" THEN 1
            ELSE IF m.role = "assistant" /\ m.of \in ToolUser THEN 3 ELSE 2

Follows(m, n) == n.of = m.of /\ Place(n) = Place(m) + 1

(***************************************************************************)
(* Exchanges are whole, except that one may have lost its beginning where  *)
(* the sequence starts and its end anywhere: what has a later message of   *)
(* the same request is followed by it, and what is not a question follows  *)
(* the message before it.                                                  *)
(***************************************************************************)
Whole(s) ==
    /\ \A i \in 1..Len(s) : s[i].role = "tool" => s[i].of \in ToolUser
    /\ \A i, j \in 1..Len(s) : i < j /\ s[i].of = s[j].of => Follows(s[i], s[i + 1])
    /\ \A i \in 1..Len(s) : i # 1 /\ s[i].role # "user" => Follows(s[i - 1], s[i])

\* No turn of the screened speaker starts in s.
NoSuspect(s) == \A i \in 1..Len(s) : ~(s[i].role = "user" /\ s[i].of \in Suspect)

LEMMA MessageIs ==
    ASSUME NEW m \in Message
    PROVE  /\ m.of \in Request /\ m.role \in {"user", "tool", "assistant"}
           /\ m = [of |-> m.of, role |-> m.role]
           /\ Place(m) \in 1..3 /\ (Place(m) = 1 <=> m.role = "user") /\ m # Wipe
  BY WriterAssumption DEF Message, Place, Wipe

LEMMA NothingIsWhole == Whole(<<>>) /\ Turns(<<>>) = {} /\ NoSuspect(<<>>) /\ ToSet(<<>>) = {}
  BY DEF Whole, Turns, ToSet, NoSuspect

\* What is asked and what is answered.
\* The parts of an exchange, put together.
LEMMA TuplesConcat ==
    ASSUME NEW q, NEW t, NEW a
    PROVE  (<<q>> \o <<t>>) \o <<a>> = <<q, t, a>> /\ (<<q>> \o <<>>) \o <<a>> = <<q, a>>
<1> DEFINE S == {q, t, a}
<1>1. /\ <<q>> \in Seq(S) /\ <<t>> \in Seq(S) /\ <<a>> \in Seq(S) /\ <<>> \in Seq(S)
      /\ Len(<<q>>) = 1 /\ Len(<<t>>) = 1 /\ Len(<<a>>) = 1 /\ Len(<<>>) = 0
  OBVIOUS
<1> HIDE DEF S
<1>2. <<q>> \o <<t>> = <<q, t>>
  <2> DEFINE u == <<q>> \o <<t>>
  <2>1. u \in Seq(S) /\ Len(u) = 2 /\ u[1] = q /\ u[2] = t
    BY <1>1
  <2> HIDE DEF u
  <2>2. u = <<q, t>>
    BY <2>1
  <2> QED BY <2>2 DEF u
<1>3. <<q>> \o <<>> = <<q>>
  BY <1>1, ConcatEmptySeq
<1>4. <<q, t>> \o <<a>> = <<q, t, a>>
  <2> DEFINE u == <<q, t>> \o <<a>>
  <2>0. <<q, t>> \in Seq(S) /\ Len(<<q, t>>) = 2
    BY <1>1 DEF S
  <2>1. /\ u \in Seq(S) /\ Len(u) = 3 /\ u[1] = q /\ u[2] = t /\ u[3] = a
    BY <1>1, <2>0
  <2> HIDE DEF u
  <2>2. u = <<q, t, a>>
    BY <2>1
  <2> QED BY <2>2 DEF u
<1>5. <<q>> \o <<a>> = <<q, a>>
  <2> DEFINE u == <<q>> \o <<a>>
  <2>1. u \in Seq(S) /\ Len(u) = 2 /\ u[1] = q /\ u[2] = a
    BY <1>1
  <2> HIDE DEF u
  <2>2. u = <<q, a>>
    BY <2>1
  <2> QED BY <2>2 DEF u
<1> QED BY <1>2, <1>3, <1>4, <1>5

LEMMA ExchangeIs ==
    ASSUME NEW r \in Request, NEW s \in {Exchange(r), Question(r)}
    PROVE  /\ s \in Seq(Message) /\ s # <<>> /\ Head(s) # Wipe /\ Whole(s)
           /\ s[1].role = "user" /\ Turns(s) = {r} /\ Len(s) \in 1..3
           /\ \A i \in 1..Len(s) : s[i].of = r
<1> DEFINE q == Says(r, "user")  t == Says(r, "tool")  a == Says(r, "assistant")
<1>1. /\ q \in Message /\ t \in Message /\ a \in Message
      /\ q.of = r /\ t.of = r /\ a.of = r
      /\ q.role = "user" /\ t.role = "tool" /\ a.role = "assistant"
      /\ Place(q) = 1 /\ Place(t) = 2 /\ Place(a) = (IF r \in ToolUser THEN 3 ELSE 2)
  BY DEF Says, Message, Place
<1>2. \/ s = <<q, t, a>> /\ r \in ToolUser
      \/ s = <<q, a>> /\ r \notin ToolUser
      \/ s = <<q>>
  <2>1. Question(r) = <<q>>
    BY DEF Question
  <2>2. CASE s = Exchange(r) /\ r \in ToolUser
    <3>1. s = (<<q>> \o <<t>>) \o <<a>>
      BY <2>1, <2>2 DEF Exchange
    <3> HIDE DEF q, t, a
    <3>2. (<<q>> \o <<t>>) \o <<a>> = <<q, t, a>>
      BY TuplesConcat
    <3> QED BY <2>2, <3>1, <3>2
  <2>3. CASE s = Exchange(r) /\ r \notin ToolUser
    <3>1. s = (<<q>> \o <<>>) \o <<a>>
      BY <2>1, <2>3 DEF Exchange
    <3> HIDE DEF q, t, a
    <3>2. (<<q>> \o <<>>) \o <<a>> = <<q, a>>
      BY TuplesConcat
    <3> QED BY <2>3, <3>1, <3>2
  <2> QED BY <2>1, <2>2, <2>3
<1> HIDE DEF q, t, a
<1>3. /\ s \in Seq(Message) /\ s[1] = q /\ Len(s) \in 1..3
      /\ \A i \in 1..Len(s) : s[i] \in {q, t, a}
  <2>1. CASE s = <<q, t, a>>
    BY <1>1, <2>1
  <2>2. CASE s = <<q, a>>
    BY <1>1, <2>2
  <2>3. CASE s = <<q>>
    BY <1>1, <2>3
  <2> QED BY <1>2, <2>1, <2>2, <2>3
<1>4. Whole(s)
  <2>1. CASE s = <<q, t, a>> /\ r \in ToolUser
    <3>1. s[1] = q /\ s[2] = t /\ s[3] = a /\ Len(s) = 3 /\ 1..3 = {1, 2, 3}
      BY <2>1
    <3> QED BY <1>1, <2>1, <3>1 DEF Whole, Follows
  <2>2. CASE s = <<q, a>> /\ r \notin ToolUser
    <3>1. s[1] = q /\ s[2] = a /\ Len(s) = 2 /\ 1..2 = {1, 2}
      BY <2>2
    <3> QED BY <1>1, <2>2, <3>1 DEF Whole, Follows
  <2>3. CASE s = <<q>>
    <3>1. s[1] = q /\ Len(s) = 1 /\ 1..1 = {1}
      BY <2>3
    <3> QED BY <1>1, <2>3, <3>1 DEF Whole, Follows
  <2> QED BY <1>2, <2>1, <2>2, <2>3
<1>5. s # <<>> /\ Head(s) = s[1] /\ 1 \in 1..Len(s)
  BY <1>3
<1>6. Head(s) # Wipe
  BY <1>1, <1>3, <1>5, MessageIs
<1>7. \A i \in 1..Len(s) : s[i].of = r
  BY <1>1, <1>3
<1>8. ToSet(s) = {s[i] : i \in 1..Len(s)}
  BY <1>3 DEF ToSet
<1>9. Turns(s) = {r}
  BY <1>5, <1>7, <1>8 DEF Turns
<1> QED BY <1>1, <1>3, <1>4, <1>5, <1>6, <1>7, <1>9

\* Who has a message in s.
LEMMA TurnsAre ==
    ASSUME NEW S, NEW s \in Seq(S)
    PROVE  /\ \A i \in 1..Len(s) : s[i].of \in Turns(s)
           /\ \A r \in Turns(s) : \E i \in 1..Len(s) : s[i].of = r
<1>1. ToSet(s) = {s[i] : i \in 1..Len(s)}
  BY DEF ToSet
<1> QED BY <1>1 DEF Turns

LEMMA SubSeqIs ==
    ASSUME NEW S, NEW s \in Seq(S), NEW a \in Nat, NEW b \in Nat, a <= b, b <= Len(s)
    PROVE  /\ SubSeq(s, a + 1, b) \in Seq(S) /\ Len(SubSeq(s, a + 1, b)) = b - a
           /\ \A i \in 1..(b - a) : SubSeq(s, a + 1, b)[i] = s[i + a] /\ i + a \in 1..Len(s)
<1>1. Len(s) \in Nat
  OBVIOUS
<1>2. /\ SubSeq(s, a + 1, b) \in Seq(S) /\ Len(SubSeq(s, a + 1, b)) = b - a
  <2>1. SubSeq(s, a + 1, b) \in Seq(S)
    BY <1>1
  <2>2. Len(SubSeq(s, a + 1, b)) = b - a
    BY <1>1
  <2> QED BY <2>1, <2>2
<1>3. \A i \in 1..(b - a) : SubSeq(s, a + 1, b)[i] = s[i + a]
  BY <1>1
<1>4. \A i \in 1..(b - a) : i + a \in 1..Len(s)
  BY <1>1
<1> QED BY <1>2, <1>3, <1>4

\* A part of a whole sequence is whole.
LEMMA PartIsWhole ==
    ASSUME NEW s \in Seq(Message), Whole(s), NEW a \in Nat, NEW b \in Nat, a <= b, b <= Len(s)
    PROVE  LET t == SubSeq(s, a + 1, b)
           IN  /\ t \in Seq(Message) /\ Len(t) = b - a /\ Whole(t) /\ ToSet(t) \subseteq ToSet(s)
               /\ Turns(t) \subseteq Turns(s)
               /\ NoSuspect(s) => NoSuspect(t)
<1> DEFINE t == SubSeq(s, a + 1, b)
<1>1. /\ t \in Seq(Message) /\ Len(t) = b - a /\ Len(s) \in Nat
      /\ \A i \in 1..Len(t) : t[i] = s[i + a] /\ i + a \in 1..Len(s)
  BY SubSeqIs
<1> HIDE DEF t
<1>2. \A i \in 1..Len(t) : t[i].role = "tool" => t[i].of \in ToolUser
  BY <1>1 DEF Whole
<1>3. ASSUME NEW i \in 1..Len(t), NEW j \in 1..Len(t), i < j, t[i].of = t[j].of
      PROVE  Follows(t[i], t[i + 1])
  <2>1. i + a < j + a /\ i + 1 \in 1..Len(t) /\ (i + 1) + a = (i + a) + 1
    BY <1>1, <1>3
  <2>2. Follows(s[i + a], s[(i + a) + 1])
    BY <1>1, <1>3, <2>1 DEF Whole
  <2>3. t[i] = s[i + a] /\ t[i + 1] = s[(i + a) + 1]
    BY <1>1, <2>1
  <2> QED BY <2>2, <2>3
<1>4. ASSUME NEW i \in 1..Len(t), i # 1, t[i].role # "user"
      PROVE  Follows(t[i - 1], t[i])
  <2>1. i - 1 \in 1..Len(t) /\ (i - 1) + a = (i + a) - 1 /\ i + a # 1
    BY <1>1, <1>4
  <2>2. Follows(s[(i + a) - 1], s[i + a])
    BY <1>1, <1>4, <2>1 DEF Whole
  <2> QED BY <1>1, <2>1, <2>2
<1>5. Whole(t)
  BY <1>2, <1>3, <1>4 DEF Whole
<1>6. ToSet(t) \subseteq ToSet(s)
  <2>1. ToSet(t) = {t[i] : i \in 1..Len(t)} /\ ToSet(s) = {s[i] : i \in 1..Len(s)}
    BY <1>1 DEF ToSet
  <2> QED BY <1>1, <2>1
<1>7. Turns(t) \subseteq Turns(s)
  BY <1>6 DEF Turns
<1>8. NoSuspect(s) => NoSuspect(t)
  BY <1>1 DEF NoSuspect
<1> QED BY <1>1, <1>5, <1>6, <1>7, <1>8 DEF t

\* A whole sequence that starts with a question may follow one that knows none of its requests.
LEMMA WholeConcat ==
    ASSUME NEW s \in Seq(Message), NEW t \in Seq(Message), Whole(s), Whole(t), t # <<>>,
           t[1].role = "user", Turns(s) \cap Turns(t) = {}
    PROVE  Whole(s \o t)
<1> DEFINE u == s \o t
           n == Len(s)
<1>1. /\ u \in Seq(Message) /\ n \in Nat /\ Len(t) \in Nat /\ Len(u) = n + Len(t)
      /\ \A i \in 1..n : u[i] = s[i]
      /\ \A i \in 1..Len(u) : i > n => u[i] = t[i - n] /\ i - n \in 1..Len(t)
  OBVIOUS
<1> HIDE DEF u, n
<1>2. \A i \in 1..n, j \in 1..Len(t) : s[i].of # t[j].of
  BY TurnsAre DEF n
<1>3. \A i \in 1..Len(u) : u[i].role = "tool" => u[i].of \in ToolUser
  <2> TAKE i \in 1..Len(u)
  <2>1. i \in 1..n \/ i > n
    BY <1>1
  <2> QED BY <1>1, <2>1 DEF Whole, n
<1>4. ASSUME NEW i \in 1..Len(u), NEW j \in 1..Len(u), i < j, u[i].of = u[j].of
      PROVE  Follows(u[i], u[i + 1])
  <2>1. CASE j \in 1..n
    <3>1. i \in 1..n /\ i + 1 \in 1..n
      BY <1>1, <1>4, <2>1
    <3> QED BY <1>1, <1>4, <2>1, <3>1 DEF Whole, n
  <2>2. CASE i > n
    <3>1. j > n /\ i + 1 > n /\ i + 1 \in 1..Len(u) /\ (i + 1) - n = (i - n) + 1 /\ i - n < j - n
      BY <1>1, <1>4, <2>2
    <3>2. Follows(t[i - n], t[(i - n) + 1])
      BY <1>1, <1>4, <2>2, <3>1 DEF Whole
    <3> QED BY <1>1, <2>2, <3>1, <3>2
  <2>3. CASE i \in 1..n /\ j > n
    BY <1>1, <1>2, <1>4, <2>3
  <2> QED BY <1>1, <2>1, <2>2, <2>3
<1>5. ASSUME NEW i \in 1..Len(u), i # 1, u[i].role # "user"
      PROVE  Follows(u[i - 1], u[i])
  <2>1. CASE i \in 1..n
    <3>1. i - 1 \in 1..n
      BY <1>1, <1>5, <2>1
    <3> QED BY <1>1, <1>5, <2>1, <3>1 DEF Whole, n
  <2>2. CASE i > n
    <3>1. i - n # 1 /\ i - 1 > n /\ i - 1 \in 1..Len(u) /\ (i - 1) - n = (i - n) - 1
      <4>1. i - n # 1
        BY <1>1, <1>5, <2>2
      <4> QED BY <1>1, <2>2, <4>1
    <3>2. Follows(t[(i - n) - 1], t[i - n])
      BY <1>1, <1>5, <2>2, <3>1 DEF Whole
    <3> QED BY <1>1, <2>2, <3>1, <3>2
  <2> QED BY <1>1, <2>1, <2>2
<1>6. Whole(u)
  BY <1>3, <1>4, <1>5 DEF Whole
<1> QED BY <1>6 DEF u

-----------------------------------------------------------------------------
(* Whose turn a message is part of, and the turns that a screening leaves. *)

\* The messages of one request are next to each other, in the order of their places.
LEMMA NearInExchange ==
    ASSUME NEW s \in Seq(Message), Whole(s), NEW i \in 1..Len(s), NEW j \in 1..Len(s),
           i < j, s[i].of = s[j].of
    PROVE  \/ j = i + 1 /\ Follows(s[i], s[j])
           \/ /\ j = i + 2 /\ s[i + 1].of = s[i].of
              /\ Follows(s[i], s[i + 1]) /\ Follows(s[i + 1], s[j])
<1>1. Len(s) \in Nat /\ i + 1 \in 1..Len(s) /\ Follows(s[i], s[i + 1])
  BY DEF Whole
<1>2. s[i + 1].of = s[j].of /\ Place(s[i + 1]) = Place(s[i]) + 1
  BY <1>1 DEF Follows
<1>3. \A k \in 1..Len(s) : Place(s[k]) \in 1..3
  BY MessageIs
<1>4. CASE i + 1 < j
  <2>1. Follows(s[i + 1], s[(i + 1) + 1]) /\ (i + 1) + 1 \in 1..Len(s)
    BY <1>1, <1>2, <1>4 DEF Whole
  <2>2. s[(i + 1) + 1].of = s[j].of /\ Place(s[(i + 1) + 1]) = Place(s[i]) + 2
    BY <1>1, <1>2, <1>3, <2>1 DEF Follows
  <2>3. ~((i + 1) + 1 < j)
    <3> SUFFICES ASSUME (i + 1) + 1 < j PROVE FALSE
      OBVIOUS
    <3>1. /\ Follows(s[(i + 1) + 1], s[((i + 1) + 1) + 1])
          /\ ((i + 1) + 1) + 1 \in 1..Len(s)
      BY <1>1, <2>1, <2>2 DEF Whole
    <3>2. Place(s[((i + 1) + 1) + 1]) = Place(s[i]) + 3
      BY <1>1, <1>3, <2>1, <2>2, <3>1 DEF Follows
    <3> QED BY <1>3, <3>1, <3>2
  <2>4. j = (i + 1) + 1 /\ (i + 1) + 1 = i + 2
    BY <1>1, <1>4, <2>3
  <2> QED BY <1>1, <1>2, <2>1, <2>4
<1>5. CASE ~(i + 1 < j)
  <2>1. j = i + 1
    BY <1>1, <1>5
  <2> QED BY <1>1, <2>1
<1> QED BY <1>4, <1>5

\* The turn of the ith message is a suspect's if the question before it is.
LEMMA BySuspectIs ==
    ASSUME NEW s \in Seq(Message), NEW i \in 1..Len(s)
    PROVE  BySuspect(s, i) <=> \E q \in 1..i : /\ s[q].role = "user" /\ s[q].of \in Suspect
                                             /\ \A k \in 1..i : q < k => s[k].role # "user"
<1> DEFINE asked == {j \in 1..i : s[j].role = "user"}
<1>0. i \in Nat
  OBVIOUS
<1>1. BySuspect(s, i) <=> asked # {} /\ s[Max(asked)].of \in Suspect
  BY DEF BySuspect
<1>2. ASSUME asked # {}
      PROVE  Max(asked) \in asked /\ \A j \in asked : Max(asked) >= j
  <2>1. \E m \in asked : \A x \in asked : x <= m
    <3>1. asked \in SUBSET (0..i)
      BY <1>0
    <3> HIDE DEF asked
    <3> QED BY <1>0, <1>2, <3>1, GreatestExists
  <2>2. \E m \in asked : \A x \in asked : m >= x
    BY <1>0, <2>1
  <2> HIDE DEF asked
  <2> QED BY <2>2, Zenon DEF Max
<1>3. ASSUME BySuspect(s, i)
      PROVE  \E q \in 1..i : /\ s[q].role = "user" /\ s[q].of \in Suspect
                             /\ \A k \in 1..i : q < k => s[k].role # "user"
  <2> DEFINE q == Max(asked)
  <2>1. q \in asked /\ (\A j \in asked : q >= j) /\ s[q].of \in Suspect
    BY <1>1, <1>2, <1>3
  <2> HIDE DEF q
  <2>2. q \in 1..i /\ s[q].role = "user"
    BY <2>1
  <2>3. \A k \in 1..i : q < k => s[k].role # "user"
    BY <1>0, <2>1, <2>2
  <2> QED BY <2>1, <2>2, <2>3
<1>4. ASSUME NEW q \in 1..i, s[q].role = "user", s[q].of \in Suspect,
             \A k \in 1..i : q < k => s[k].role # "user"
      PROVE  BySuspect(s, i)
  <2>1. q \in asked
    BY <1>4
  <2>2. Max(asked) \in asked /\ Max(asked) >= q
    BY <1>2, <2>1
  <2> DEFINE m == Max(asked)
  <2>3. m \in 1..i /\ s[m].role = "user" /\ m >= q
    BY <2>2
  <2> HIDE DEF m
  <2>4. m = q
    BY <1>0, <1>4, <2>3
  <2> QED BY <1>1, <1>4, <2>1, <2>4 DEF m
<1> QED BY <1>3, <1>4

\* Messages of one request are part of the same turn.
LEMMA SameTurn ==
    ASSUME NEW s \in Seq(Message), Whole(s), NEW i \in 1..Len(s), NEW j \in 1..Len(s),
           i < j, s[i].of = s[j].of
    PROVE  BySuspect(s, i) <=> BySuspect(s, j)
<1>1. \A k \in 1..j : i < k => k \in 1..Len(s) /\ s[k].role # "user"
  <2> SUFFICES ASSUME NEW k \in 1..j, i < k
               PROVE  k \in 1..Len(s) /\ s[k].role # "user"
    OBVIOUS
  <2>1. k \in 1..Len(s) /\ (k = j \/ (k = i + 1 /\ j = i + 2))
    BY NearInExchange
  <2>2. Follows(s[i], s[k]) \/ Follows(s[i + 1], s[k])
    BY <2>1, NearInExchange
  <2>3. i + 1 \in 1..Len(s)
    BY <2>1
  <2>4. Place(s[k]) # 1
    BY <2>1, <2>2, <2>3, MessageIs DEF Follows
  <2> QED BY <2>1, <2>4, MessageIs
<1>2. i \in Nat /\ j \in Nat
  OBVIOUS
<1>3. ASSUME BySuspect(s, i) PROVE BySuspect(s, j)
  <2>1. PICK q \in 1..i : /\ s[q].role = "user" /\ s[q].of \in Suspect
                          /\ \A k \in 1..i : q < k => s[k].role # "user"
    BY <1>3, BySuspectIs
  <2>2. q \in 1..j
    BY <1>2
  <2>3. ASSUME NEW k \in 1..j, q < k PROVE s[k].role # "user"
    <3>1. k \in 1..i \/ i < k
      BY <1>2
    <3> QED BY <1>1, <2>1, <2>3, <3>1
  <2> QED BY <2>1, <2>2, <2>3, BySuspectIs
<1>4. ASSUME BySuspect(s, j) PROVE BySuspect(s, i)
  <2>1. PICK q \in 1..j : /\ s[q].role = "user" /\ s[q].of \in Suspect
                          /\ \A k \in 1..j : q < k => s[k].role # "user"
    BY <1>4, BySuspectIs
  <2>2. q \in 1..i
    BY <1>1, <1>2, <2>1
  <2>3. \A k \in 1..i : q < k => s[k].role # "user"
    BY <1>2, <2>1
  <2> QED BY <2>1, <2>2, <2>3, BySuspectIs
<1> QED BY <1>3, <1>4

\* What is part of a suspect's turn is a suspect's.
LEMMA SuspectsTurn ==
    ASSUME NEW s \in Seq(Message), Whole(s), NEW i \in 1..Len(s), BySuspect(s, i)
    PROVE  s[i].of \in Suspect
<1>1. PICK q \in 1..i : /\ s[q].role = "user" /\ s[q].of \in Suspect
                        /\ \A k \in 1..i : q < k => s[k].role # "user"
  BY BySuspectIs
<1>2. /\ i \in Nat /\ q \in Nat /\ q \in 1..Len(s)
      /\ \A k \in 1..i : q < k => k \in 1..Len(s) /\ k # 1
      /\ \A k \in 1..Len(s) : Place(s[k]) \in 1..3
  BY MessageIs
<1>3. \A k \in 1..i : q < k => /\ s[k].of = s[k - 1].of /\ Place(s[k]) = Place(s[k - 1]) + 1
                               /\ k - 1 \in 1..Len(s)
  <2> SUFFICES ASSUME NEW k \in 1..i, q < k
               PROVE  Follows(s[k - 1], s[k]) /\ k - 1 \in 1..Len(s)
    BY DEF Follows
  <2>1. k \in 1..Len(s) /\ k # 1 /\ s[k].role # "user"
    BY <1>1, <1>2
  <2> QED BY <2>1 DEF Whole
<1>4. CASE i = q
  BY <1>1, <1>4
<1>5. CASE i = q + 1
  <2>1. i \in 1..i /\ q < i /\ i - 1 = q
    BY <1>2, <1>5
  <2> QED BY <1>1, <1>3, <2>1
<1>6. CASE i = q + 2
  <2>1. i \in 1..i /\ q < i /\ i - 1 \in 1..i /\ q < i - 1 /\ (i - 1) - 1 = q
    BY <1>2, <1>6
  <2> QED BY <1>1, <1>3, <2>1
<1>7. CASE i > q + 2
  <2>1. /\ i \in 1..i /\ q < i
        /\ i - 1 \in 1..i /\ q < i - 1
        /\ (i - 1) - 1 \in 1..i /\ q < (i - 1) - 1
    BY <1>2, <1>7
  <2>2. /\ Place(s[i]) = Place(s[i - 1]) + 1
        /\ Place(s[i - 1]) = Place(s[(i - 1) - 1]) + 1
        /\ Place(s[(i - 1) - 1]) = Place(s[((i - 1) - 1) - 1]) + 1
        /\ ((i - 1) - 1) - 1 \in 1..Len(s) /\ (i - 1) - 1 \in 1..Len(s)
        /\ i - 1 \in 1..Len(s) /\ i \in 1..Len(s)
    BY <1>3, <2>1
  <2> QED BY <1>2, <2>2
<1> QED BY <1>2, <1>4, <1>5, <1>6, <1>7

\* A purge keeps or drops all messages of a request, so that what it leaves is whole.
LEMMA PurgedIs ==
    ASSUME NEW s \in Seq(Message), Whole(s)
    PROVE  LET t == Purged(s)
           IN  /\ t \in Seq(Message) /\ Whole(t) /\ NoSuspect(t)
               /\ ToSet(t) \subseteq ToSet(s) /\ Turns(t) \subseteq Turns(s)
               /\ \A m \in ToSet(s) \ ToSet(t) : m.of \in Suspect
<1> DEFINE P == {i \in DOMAIN s : ~BySuspect(s, i)}
           t == Purged(s)
<1>0. Len(s) \in Nat /\ \A i : i \in P <=> i \in 1..Len(s) /\ ~BySuspect(s, i)
  OBVIOUS
<1>1. t \in Seq(Message) /\ \E e : Picks(e, t, s, P, Len(s))
  <2>1. t = Sift(s, P)
    BY DEF Purged
  <2> HIDE DEF P, t
  <2> QED BY <2>1, SiftIs
<1> HIDE DEF P, t
<1>2. PICK e : Picks(e, t, s, P, Len(s))
  BY <1>1
<1>3. /\ \A j \in 1..Len(t) : e[j] \in 1..Len(s) /\ e[j] \in P /\ t[j] = s[e[j]]
      /\ \A j, k \in 1..Len(t) : j < k => e[j] < e[k]
      /\ \A i \in P : \E j \in 1..Len(t) : e[j] = i
      /\ Len(t) \in Nat
  <2>1. Len(t) \in Nat
    BY <1>1
  <2>2. /\ e \in [1..Len(t) -> 1..Len(s)]
        /\ \A j \in 1..Len(t) : e[j] \in P /\ t[j] = s[e[j]]
        /\ \A j, k \in 1..Len(t) : j < k => e[j] < e[k]
        /\ \A i \in 1..Len(s) : i \in P => \E j \in 1..Len(t) : e[j] = i
    BY <1>2 DEF Picks
  <2>3. \A j \in 1..Len(t) : e[j] \in 1..Len(s)
    BY <2>2
  <2> QED BY <1>0, <2>1, <2>2, <2>3
<1>4. ASSUME NEW i \in P, NEW j \in 1..Len(s), s[i].of = s[j].of
      PROVE  j \in P
  <2>1. i \in 1..Len(s) /\ ~BySuspect(s, i)
    BY <1>0
  <2>2. CASE i < j
    BY <1>0, <1>4, <2>1, <2>2, SameTurn
  <2>3. CASE j < i
    BY <1>0, <1>4, <2>1, <2>3, SameTurn
  <2> QED BY <1>0, <2>1, <2>2, <2>3
\* What is next to each other in s and kept is next to each other in t.
<1>5. ASSUME NEW j \in 1..Len(t), e[j] + 1 \in P
      PROVE  j + 1 \in 1..Len(t) /\ e[j + 1] = e[j] + 1
  <2>1. PICK k \in 1..Len(t) : e[k] = e[j] + 1
    BY <1>3, <1>5
  <2>2. e[j] \in Nat /\ e[k] \in Nat
    BY <1>3
  <2>3. j < k
    <3>1. CASE k < j
      <4>1. e[k] < e[j]
        BY <1>3, <3>1
      <4> QED BY <2>1, <2>2, <4>1
    <3>2. CASE k = j
      BY <2>1, <2>2, <3>2
    <3> QED BY <1>3, <3>1, <3>2
  <2>4. j + 1 \in 1..Len(t) /\ (j + 1 = k \/ j + 1 < k) /\ j < j + 1
    BY <1>3, <2>3
  <2>5. e[j] < e[j + 1] /\ (j + 1 < k => e[j + 1] < e[k]) /\ e[j + 1] \in Nat
    BY <1>3, <2>4
  <2> QED BY <2>1, <2>2, <2>4, <2>5
<1>6. \A i \in 1..Len(t) : t[i].role = "tool" => t[i].of \in ToolUser
  BY <1>3 DEF Whole
<1>7. ASSUME NEW i \in 1..Len(t), NEW j \in 1..Len(t), i < j, t[i].of = t[j].of
      PROVE  Follows(t[i], t[i + 1])
  <2>1. /\ e[i] \in P /\ e[i] \in 1..Len(s) /\ e[j] \in 1..Len(s) /\ e[i] < e[j]
        /\ s[e[i]].of = s[e[j]].of
    BY <1>3, <1>7
  <2>2. Follows(s[e[i]], s[e[i] + 1]) /\ e[i] + 1 \in 1..Len(s)
    <3>1. \A k, l \in 1..Len(s) : k < l /\ s[k].of = s[l].of => Follows(s[k], s[k + 1])
      BY DEF Whole
    <3>2. Follows(s[e[i]], s[e[i] + 1])
      BY <2>1, <3>1
    <3>3. e[i] + 1 \in 1..Len(s)
      BY <1>0, <2>1
    <3> QED BY <3>2, <3>3
  <2>3. e[i] + 1 \in P
    <3>1. s[e[i] + 1].of = s[e[i]].of
      BY <2>2 DEF Follows
    <3> QED BY <1>4, <2>1, <2>2, <3>1
  <2>4. i + 1 \in 1..Len(t) /\ e[i + 1] = e[i] + 1
    BY <1>5, <2>3
  <2> QED BY <1>3, <2>2, <2>4
<1>8. ASSUME NEW i \in 1..Len(t), i # 1, t[i].role # "user"
      PROVE  Follows(t[i - 1], t[i])
  <2>1. i - 1 \in 1..Len(t) /\ i - 1 < i /\ (i - 1) + 1 = i
    BY <1>3, <1>8
  <2>2. /\ e[i] \in P /\ e[i] \in 1..Len(s) /\ e[i - 1] \in 1..Len(s) /\ e[i - 1] < e[i]
        /\ s[e[i]].role # "user"
    BY <1>3, <1>8, <2>1
  <2>3. e[i] # 1 /\ e[i] - 1 \in 1..Len(s) /\ (e[i] - 1) + 1 = e[i]
    BY <1>0, <2>2
  <2>4. Follows(s[e[i] - 1], s[e[i]])
    BY <2>2, <2>3 DEF Whole
  <2>5. e[i] - 1 \in P
    BY <1>4, <2>2, <2>3, <2>4 DEF Follows
  <2>6. PICK k \in 1..Len(t) : e[k] = e[i] - 1
    BY <1>3, <2>5
  <2>7. k + 1 \in 1..Len(t) /\ e[k + 1] = e[i]
    BY <1>5, <2>2, <2>3, <2>6
  <2>8. k + 1 = i
    <3>1. ~(k + 1 < i) /\ ~(i < k + 1)
      BY <1>3, <2>2, <2>7
    <3> QED BY <1>3, <2>7, <3>1
  <2>9. k = i - 1
    BY <1>3, <2>8
  <2> QED BY <1>3, <2>1, <2>4, <2>6, <2>9
<1>9. NoSuspect(t)
  <2> SUFFICES ASSUME NEW i \in 1..Len(t), t[i].role = "user", t[i].of \in Suspect
               PROVE  FALSE
    BY DEF NoSuspect
  <2>1. e[i] \in P /\ e[i] \in 1..Len(s) /\ s[e[i]].role = "user" /\ s[e[i]].of \in Suspect
    BY <1>3
  <2>2. e[i] \in 1..e[i] /\ \A k \in 1..e[i] : ~(e[i] < k)
    BY <2>1
  <2>3. BySuspect(s, e[i])
    BY <2>1, <2>2, BySuspectIs
  <2> QED BY <1>0, <2>1, <2>3
<1>10. ToSet(t) = {t[i] : i \in 1..Len(t)} /\ ToSet(s) = {s[i] : i \in 1..Len(s)}
  BY <1>1 DEF ToSet
<1>11. ToSet(t) \subseteq ToSet(s)
  BY <1>3, <1>10
<1>12. Turns(t) \subseteq Turns(s)
  BY <1>11 DEF Turns
<1>13. ASSUME NEW m \in ToSet(s) \ ToSet(t) PROVE m.of \in Suspect
  <2>1. PICK i \in 1..Len(s) : m = s[i]
    BY <1>10
  <2>2. i \notin P
    BY <1>3, <1>10, <1>13, <2>1
  <2> QED BY <1>0, <2>1, <2>2, SuspectsTurn
<1>14. Whole(t)
  BY <1>6, <1>7, <1>8 DEF Whole
<1> QED BY <1>1, <1>9, <1>11, <1>12, <1>13, <1>14 DEF t

\* Where no suspect asked, a purge drops nothing.
LEMMA NothingToPurge ==
    ASSUME NEW s \in Seq(Message), NoSuspect(s)
    PROVE  Purged(s) = s
<1> DEFINE P == {i \in DOMAIN s : ~BySuspect(s, i)}
<1>1. ASSUME NEW i \in 1..Len(s) PROVE i \in P
  <2>1. \A q \in 1..i : q \in 1..Len(s)
    OBVIOUS
  <2>2. ~BySuspect(s, i)
    BY <2>1, BySuspectIs DEF NoSuspect
  <2> QED BY <2>2
<1>2. Purged(s) = Sift(s, P)
  BY DEF Purged
<1> HIDE DEF P
<1> QED BY <1>1, <1>2, SiftAll

-----------------------------------------------------------------------------
(* Where a fold cuts. *)

\* A cut is a position of the history.
LEMMA NextTurnStartIs ==
    ASSUME NEW S, NEW s \in Seq(S), NEW i \in Nat
    PROVE  NextTurnStart(s, i) \in 0..Len(s)
<1> DEFINE starts == {j \in i..(Len(s) - 1) : s[j + 1].role = "user"} \cup {Len(s)}
<1>1. Len(s) \in Nat /\ starts \in SUBSET (0..Len(s)) /\ starts # {}
  OBVIOUS
<1>2. NextTurnStart(s, i) = Min(starts)
  BY DEF NextTurnStart
<1> HIDE DEF starts
<1>3. \E m \in starts : \A x \in starts : m <= x
  <2>1. starts \in SUBSET Nat
    BY <1>1
  <2> QED BY <1>1, <2>1, LeastExists
<1>4. Min(starts) \in starts
  BY <1>3, Zenon DEF Min
<1> QED BY <1>1, <1>2, <1>4

LEMMA CutForSizeIs ==
    ASSUME NEW S, NEW s \in Seq(S), NEW keep \in Nat
    PROVE  CutForSize(s, keep) \in 0..Len(s)
<1> DEFINE two == {0, Len(s) - keep}
<1>1. Len(s) \in Nat /\ two \subseteq Int /\ 0 \in two
  OBVIOUS
<1>2. \E m \in two : \A x \in two : m >= x
  <2>1. CASE Len(s) - keep >= 0
    BY <1>1, <2>1
  <2>2. CASE ~(Len(s) - keep >= 0)
    BY <1>1, <2>2
  <2> QED BY <2>1, <2>2
<1>3. CutForSize(s, keep) = NextTurnStart(s, Max(two))
  BY DEF CutForSize
<1> HIDE DEF two
<1>4. Max(two) \in two /\ \A x \in two : Max(two) >= x
  BY <1>2, Zenon DEF Max
<1>5. Max(two) \in Nat
  <2>1. Max(two) \in Int /\ Max(two) >= 0
    BY <1>1, <1>4
  <2> QED BY <2>1
<1> QED BY <1>3, <1>5, NextTurnStartIs

\* With n questions or more, there is one that only n - 1 come after.
LEMMA CutKeepTurnsIs ==
    ASSUME NEW S, NEW s \in Seq(S), NEW n \in Nat \ {0}
    PROVE  CutKeepTurns(s, n) \in 0..Len(s)
<1> DEFINE starts == {i \in DOMAIN s : s[i].role = "user"}
           From(i) == {j \in starts : j >= i}
           After(i) == {j \in starts : j > i}
           many == {i \in starts : Cardinality(From(i)) >= n}
<1>1. Len(s) \in Nat /\ starts \subseteq 1..Len(s) /\ IsFiniteSet(starts)
  <2>1. IsFiniteSet(1..Len(s))
    BY FS_Interval
  <2> QED BY <2>1, FS_Subset
<1>2. \A i \in Nat : /\ IsFiniteSet(From(i)) /\ Cardinality(From(i)) \in Nat
                    /\ IsFiniteSet(After(i)) /\ Cardinality(After(i)) \in Nat
  <2>1. \A i \in Nat : From(i) \subseteq starts /\ After(i) \subseteq starts
    OBVIOUS
  <2> HIDE DEF starts, From, After
  <2> QED BY <1>1, <2>1, FS_Subset, FS_CardinalityType
<1>3. CASE Cardinality(starts) < n
  BY <1>1, <1>3 DEF CutKeepTurns
<1>4. CASE ~(Cardinality(starts) < n)
  <2>1. Cardinality(starts) \in Nat /\ starts # {}
    BY <1>1, <1>4, FS_CardinalityType, FS_EmptySet
  <2>2. many # {}
    <3>1. PICK i \in starts : \A j \in starts : i <= j
      <4>1. starts \in SUBSET Nat
        BY <1>1
      <4> HIDE DEF starts
      <4> QED BY <2>1, <4>1, LeastExists
    <3>2. From(i) = starts
      BY <1>1, <3>1
    <3>3. Cardinality(From(i)) >= n
      <4> HIDE DEF starts, From
      <4> QED BY <1>4, <2>1, <3>2
    <3> QED BY <3>3
  <2>3. PICK i \in many : \A j \in many : j <= i
    <3>1. many \in SUBSET (0..Len(s))
      BY <1>1
    <3> HIDE DEF many
    <3> QED BY <1>1, <2>2, <3>1, GreatestExists
  <2>4. i \in starts /\ i \in Nat /\ Cardinality(From(i)) >= n
    BY <1>1
  <2>5. From(i) = After(i) \cup {i} /\ i \notin After(i)
    BY <1>1, <2>4
  <2>6. Cardinality(From(i)) = Cardinality(After(i)) + 1
    <3> HIDE DEF From, After
    <3> QED BY <1>2, <2>4, <2>5, FS_AddElement
  <2>7. ~(Cardinality(After(i)) >= n)
    <3> SUFFICES ASSUME Cardinality(After(i)) >= n PROVE FALSE
      OBVIOUS
    <3>1. After(i) # {} /\ After(i) \in SUBSET Nat
      <4>1. Cardinality(After(i)) # 0
        <5> DEFINE c == Cardinality(After(i))
        <5>1. c \in Nat /\ c >= n
          BY <1>2, <2>4
        <5> HIDE DEF c
        <5>2. c # 0
          BY <5>1
        <5> QED BY <5>2 DEF c
      <4>2. After(i) # {}
        <5> HIDE DEF After
        <5> QED BY <4>1, FS_EmptySet
      <4>3. After(i) \in SUBSET Nat
        BY <1>1
      <4> QED BY <4>2, <4>3
    <3>2. PICK k \in After(i) : \A j \in After(i) : k <= j
      <4> HIDE DEF After
      <4> QED BY <3>1, LeastExists
    <3>3. k \in starts /\ k > i /\ k \in Nat
      BY <3>1
    <3>4. From(k) = After(i)
      BY <1>1, <2>4, <3>2, <3>3
    <3>5. k \in many
      BY <3>3, <3>4
    <3> QED BY <2>3, <2>4, <3>3, <3>5
  <2>8. Cardinality(From(i)) = n
    <3> HIDE DEF From, After
    <3> QED BY <1>2, <2>4, <2>6, <2>7
  <2> DEFINE c == CHOOSE k \in starts : Cardinality({j \in starts : j >= k}) = n
  <2>9. CutKeepTurns(s, n) = c - 1
    BY <1>4 DEF CutKeepTurns
  <2>10. c \in starts
    BY <2>4, <2>8
  <2> HIDE DEF c
  <2> QED BY <1>1, <2>9, <2>10
<1> QED BY <1>3, <1>4

-----------------------------------------------------------------------------
(* The types, and who may have something left to write. *)

\* What a writer has left to write: some messages, or a whole history over an emptied one.
Pages == Seq(Message) \cup {<<Wipe>> \o t : t \in Seq(Message)}

\* What the history hs will be once the rest is written.
Finished(hs, rest) ==
    IF rest # <<>> /\ Head(rest) = Wipe THEN Tail(rest) ELSE hs \o rest

StoreTypes == /\ history \in Seq(Message) /\ disk \in Seq(Message)
              /\ dirty \in BOOLEAN /\ flushing \in {"idle", "failed", "taken"}

FoldTypes == /\ recap \subseteq Request
             /\ fold \in [pc : {"off", "asking", "checked", "rewriting"}, old : Seq(Message),
                          draft : SUBSET Request, rest : Seq(Message)]

RestTypes == /\ screening \in {"off", "listed", "purging", "done", "lost"}
             /\ events \in 0..MaxEvents
             /\ cancelled \subseteq Request

\* Only the holder of the lock has something left to write; a fold that has looked twice, nothing.
PenInv == /\ holder \in Writer \cup {"nobody"}
          /\ todo \in [Writer -> Pages]
          /\ \A w \in Writer : w # holder => todo[w] = <<>>
          /\ fold.pc = "checked" => holder = "fold" /\ todo["fold"] = <<>>

\* Requests whose exchange is committed or dropped, and those that have ended.
Past(p) == {r \in Request : p[r] \in {"closing", "convicted", "purging", "done"}}
Ended(p) == {r \in Request : p[r] = "done"}

\* A request looks at the size of the history at most twice: when it commits and when it ends.
QueueInv == /\ pc \in [Request -> Stage]
            /\ queued \in Nat
            /\ queued <= Cardinality(Past(pc)) + Cardinality(Ended(pc))

StateInv == StoreTypes /\ FoldTypes /\ RestTypes /\ PenInv /\ QueueInv /\ LockInv

LEMMA RequestsAreFinite == IsFiniteSet(Request) /\ Cardinality(Request) \in Nat
  BY RequestAssumption, FS_CardinalityType DEF Request

LEMMA PastIs ==
    ASSUME NEW p
    PROVE  /\ IsFiniteSet(Past(p)) /\ Cardinality(Past(p)) \in Nat
           /\ IsFiniteSet(Ended(p)) /\ Cardinality(Ended(p)) \in Nat
           /\ Cardinality(Past(p)) <= Cardinality(Request)
           /\ Cardinality(Ended(p)) <= Cardinality(Request)
<1>1. Past(p) \subseteq Request /\ Ended(p) \subseteq Request
  BY DEF Past, Ended
<1> QED BY <1>1, RequestsAreFinite, FS_Subset, FS_CardinalityType

\* One request moves on: it joins those that committed or those that ended, and leaves neither.
LEMMA MovesOn ==
    ASSUME NEW p \in [Request -> Stage], NEW r \in Request, NEW s \in Stage,
           NEW q, q = [p EXCEPT ![r] = s], p[r] # "done", r \in Past(p) => r \in Past(q)
    PROVE  /\ q \in [Request -> Stage]
           /\ Cardinality(Past(p)) <= Cardinality(Past(q))
           /\ Cardinality(Ended(p)) <= Cardinality(Ended(q))
           /\ r \notin Past(p) /\ r \in Past(q) =>
                Cardinality(Past(q)) = Cardinality(Past(p)) + 1
           /\ s = "done" => Cardinality(Ended(q)) = Cardinality(Ended(p)) + 1
<1>1. q \in [Request -> Stage] /\ q[r] = s /\ \A o \in Request : o # r => q[o] = p[o]
  OBVIOUS
<1>2. Past(p) \subseteq Past(q) /\ Ended(p) \subseteq Ended(q) /\ r \notin Ended(p)
  BY <1>1 DEF Past, Ended
<1>3. Past(q) \subseteq Past(p) \cup {r} /\ (s = "done" => Ended(q) = Ended(p) \cup {r})
  BY <1>1 DEF Past, Ended
<1>4. r \notin Past(p) /\ r \in Past(q) => Past(q) = Past(p) \cup {r}
  BY <1>2, <1>3
<1>5. r \notin Past(p) /\ r \in Past(q) => Cardinality(Past(q)) = Cardinality(Past(p)) + 1
  BY <1>4, PastIs, FS_AddElement
<1>6. s = "done" => Cardinality(Ended(q)) = Cardinality(Ended(p)) + 1
  BY <1>2, <1>3, PastIs, FS_AddElement
<1>7. Cardinality(Past(p)) <= Cardinality(Past(q)) /\ Cardinality(Ended(p)) <= Cardinality(Ended(q))
  BY <1>2, PastIs, FS_Subset
<1> QED BY <1>1, <1>5, <1>6, <1>7

\* Something to write has the shape the types speak of.
LEMMA PagesAre ==
    /\ <<>> \in Seq(Message) /\ <<>> \in Pages /\ Seq(Message) \subseteq Pages
    /\ \A t \in Seq(Message) : <<Wipe>> \o t \in Pages
    /\ Pages \subseteq Seq(Message \cup {Wipe})
<1>1. \A t \in Seq(Message) : t \in Seq(Message \cup {Wipe})
  OBVIOUS
<1>2. \A t \in Seq(Message) : <<Wipe>> \o t \in Seq(Message \cup {Wipe})
  <2> TAKE t \in Seq(Message)
  <2>1. <<Wipe>> \in Seq(Message \cup {Wipe}) /\ t \in Seq(Message \cup {Wipe})
    OBVIOUS
  <2> QED BY <2>1
<1>3. <<>> \in Seq(Message)
  OBVIOUS
<1>4. ASSUME NEW p \in Pages PROVE p \in Seq(Message \cup {Wipe})
  <2>1. p \in Seq(Message) \/ \E t \in Seq(Message) : p = <<Wipe>> \o t
    BY DEF Pages
  <2> QED BY <1>1, <1>2, <2>1
<1>5. Seq(Message) \subseteq Pages /\ \A t \in Seq(Message) : <<Wipe>> \o t \in Pages
  BY DEF Pages
<1> QED BY <1>3, <1>4, <1>5

\* The two shapes of what is left to write, its first write and what it comes to.
LEMMA PageIs ==
    ASSUME NEW t \in Seq(Message), NEW hs \in Seq(Message)
    PROVE  /\ t # <<>> => /\ Head(t) # Wipe /\ Head(t) \in Message /\ Tail(t) \in Seq(Message)
                          /\ Append(hs, Head(t)) \o Tail(t) = hs \o t
           /\ Finished(hs, t) = hs \o t
           /\ <<Wipe>> \o t # <<>> /\ Head(<<Wipe>> \o t) = Wipe /\ Tail(<<Wipe>> \o t) = t
           /\ Finished(hs, <<Wipe>> \o t) = t
<1>1. t # <<>> => /\ Head(t) # Wipe /\ Head(t) \in Message /\ Tail(t) \in Seq(Message)
                  /\ Append(hs, Head(t)) \o Tail(t) = hs \o t
  <2> SUFFICES ASSUME t # <<>>
               PROVE  /\ Head(t) # Wipe /\ Head(t) \in Message /\ Tail(t) \in Seq(Message)
                      /\ Append(hs, Head(t)) \o Tail(t) = hs \o t
    OBVIOUS
  <2>1. Head(t) \in Message /\ Tail(t) \in Seq(Message) /\ Head(t) = t[1]
    OBVIOUS
  <2>2. Head(t) # Wipe
    BY <2>1, MessageIs
  <2>3. Append(hs, Head(t)) \o Tail(t) = hs \o t
    <3> DEFINE a == Append(hs, Head(t))
    <3>1. /\ Len(t) \in Nat /\ Len(hs) \in Nat /\ Len(Tail(t)) = Len(t) - 1 /\ Len(t) >= 1
          /\ \A i \in 1..(Len(t) - 1) : Tail(t)[i] = t[i + 1]
      OBVIOUS
    <3>2. /\ a \in Seq(Message) /\ Len(a) = Len(hs) + 1 /\ a[Len(hs) + 1] = t[1]
          /\ \A i \in 1..Len(hs) : a[i] = hs[i]
      BY <2>1
    <3> DEFINE b == Tail(t)
    <3> HIDE DEF a, b
    <3>3. /\ a \o b \in Seq(Message) /\ Len(a \o b) = Len(hs) + Len(t)
          /\ \A i \in 1..(Len(hs) + Len(t)) :
                (a \o b)[i] = IF i <= Len(hs) + 1 THEN a[i] ELSE b[i - (Len(hs) + 1)]
      <4>1. b \in Seq(Message) /\ Len(b) = Len(t) - 1
        BY <2>1, <3>1 DEF b
      <4>2. Len(a) + Len(b) = Len(hs) + Len(t)
        BY <3>1, <3>2, <4>1
      <4>3. /\ a \o b \in Seq(Message) /\ Len(a \o b) = Len(a) + Len(b)
            /\ \A i \in 1..(Len(a) + Len(b)) :
                  (a \o b)[i] = IF i <= Len(a) THEN a[i] ELSE b[i - Len(a)]
        BY <3>2, <4>1, ConcatProperties
      <4> QED BY <3>2, <4>2, <4>3
    <3>4. /\ hs \o t \in Seq(Message) /\ Len(hs \o t) = Len(hs) + Len(t)
          /\ \A i \in 1..(Len(hs) + Len(t)) :
                (hs \o t)[i] = IF i <= Len(hs) THEN hs[i] ELSE t[i - Len(hs)]
      BY ConcatProperties
    <3>5. ASSUME NEW i \in 1..(Len(hs) + Len(t))
          PROVE  (a \o b)[i] = (hs \o t)[i]
      <4>1. CASE i <= Len(hs)
        BY <3>1, <3>2, <3>3, <3>4, <4>1
      <4>2. CASE i = Len(hs) + 1
        BY <3>1, <3>2, <3>3, <3>4, <4>2
      <4>3. CASE i > Len(hs) + 1
        <5>1. /\ i - (Len(hs) + 1) \in 1..(Len(t) - 1)
              /\ (i - (Len(hs) + 1)) + 1 = i - Len(hs)
          BY <3>1, <4>3
        <5>2. b[i - (Len(hs) + 1)] = t[i - Len(hs)]
          BY <3>1, <5>1 DEF b
        <5>3. ~(i <= Len(hs) + 1) /\ ~(i <= Len(hs))
          BY <3>1, <4>3
        <5>4. (a \o b)[i] = b[i - (Len(hs) + 1)]
          BY <3>3, <5>3
        <5>5. (hs \o t)[i] = t[i - Len(hs)]
          BY <3>4, <5>3
        <5> QED BY <5>2, <5>4, <5>5
      <4>4. i <= Len(hs) \/ i = Len(hs) + 1 \/ i > Len(hs) + 1
        BY <3>1
      <4> QED BY <4>1, <4>2, <4>3, <4>4
    <3> QED BY <3>3, <3>4, <3>5, SeqEqual DEF a, b
  <2> QED BY <2>1, <2>2, <2>3
<1>2. Finished(hs, t) = hs \o t
  BY <1>1 DEF Finished
<1>3. /\ <<Wipe>> \o t # <<>> /\ Head(<<Wipe>> \o t) = Wipe /\ Tail(<<Wipe>> \o t) = t
  <2> DEFINE S == Message \cup {Wipe}
             u == <<Wipe>> \o t
  <2>1. t \in Seq(S) /\ <<Wipe>> \in Seq(S) /\ Len(<<Wipe>>) = 1 /\ Len(t) \in Nat
    OBVIOUS
  <2>2. /\ u \in Seq(S) /\ Len(u) = Len(t) + 1 /\ u[1] = Wipe
        /\ \A i \in 1..Len(t) : u[i + 1] = t[i]
    <3> HIDE DEF S
    <3> QED BY <2>1
  <2> HIDE DEF u, S
  <2>3. u # <<>> /\ Head(u) = Wipe
    BY <2>1, <2>2
  <2>4. Tail(u) = t
    <3>1. /\ Tail(u) \in Seq(S) /\ Len(Tail(u)) = Len(t)
          /\ \A i \in 1..Len(t) : Tail(u)[i] = t[i]
      BY <2>1, <2>2, <2>3
    <3> QED BY <2>1, <3>1, SeqEqual
  <2> QED BY <2>3, <2>4 DEF u
<1> QED BY <1>1, <1>2, <1>3 DEF Finished

\* What the holder of the lock writes next, and what it then has left.
LEMMA WriteNextIs ==
    ASSUME PenInv, NEW w \in Writer, WriteNext(w)
    PROVE  /\ w = holder /\ todo[w] \in Pages /\ todo[w] # <<>>
           /\ todo' = [todo EXCEPT ![w] = Tail(todo[w])]
           /\ Tail(todo[w]) \in Seq(Message)
           /\ \/ Head(todo[w]) = Wipe /\ Clear
                 /\ \E t \in Seq(Message) : todo[w] = <<Wipe>> \o t /\ Tail(todo[w]) = t
              \/ /\ todo[w] \in Seq(Message) /\ Head(todo[w]) \in Message
                 /\ AddMessage(Head(todo[w]))
<1>1. /\ w = holder /\ todo[w] \in Pages /\ todo[w] # <<>>
      /\ todo' = [todo EXCEPT ![w] = Tail(todo[w])]
  BY DEF WriteNext, WillWrite, PenInv
<1>2. (Head(todo[w]) = Wipe /\ Clear) \/ (Head(todo[w]) # Wipe /\ AddMessage(Head(todo[w])))
  BY DEF WriteNext
<1>3. CASE todo[w] \in Seq(Message)
  <2>1. Head(todo[w]) # Wipe /\ Head(todo[w]) \in Message /\ Tail(todo[w]) \in Seq(Message)
    BY <1>1, <1>3, PagesAre, PageIs
  <2> QED BY <1>1, <1>2, <1>3, <2>1
<1>4. CASE \E t \in Seq(Message) : todo[w] = <<Wipe>> \o t
  <2>1. PICK t \in Seq(Message) : todo[w] = <<Wipe>> \o t
    BY <1>4
  <2>2. Head(todo[w]) = Wipe /\ Tail(todo[w]) = t
    BY <2>1, PagesAre, PageIs
  <2> QED BY <1>1, <1>2, <2>1, <2>2
<1> QED BY <1>1, <1>3, <1>4 DEF Pages

\* A request, a fold and a command say what they will write; WriteNext writes it.
LEMMA RequestLeavesStore ==
    ASSUME NEW r \in Request, Ask(r) \/ Answer(r) \/ RequestStep(r)
    PROVE  UNCHANGED storeVars
  BY DEF Ask, Answer, RequestStep, CommitExchange, Committed, Close, Quarantine, FindTurns,
         TurnsDropped

LEMMA OthersLeaveStore ==
    ASSUME FoldStep \/ IdleFold \/ RecapCommand \/ Screen
    PROVE  UNCHANGED storeVars
<1>1. CASE FoldStep \/ IdleFold
  BY <1>1 DEF FoldStep, IdleFold, SizeFold, CheckPrefix, SaveRecap, HardTrim, FoldEnds
<1>2. CASE RecapCommand \/ Screen
  BY <1>2 DEF RecapCommand, Screen, FindTurns, TurnsDropped
<1> QED BY <1>1, <1>2

LEMMA StoreTypesNext ==
    ASSUME StateInv, [Next]_vars
    PROVE  StoreTypes'
<1>1. StoreTypes /\ PenInv
  BY DEF StateInv
<1>2. CASE UNCHANGED storeVars
  BY <1>1, <1>2 DEF StoreTypes, storeVars
<1>3. ASSUME NEW r \in Request, Ask(r) \/ Answer(r) \/ RequestStep(r) PROVE StoreTypes'
  BY <1>2, <1>3, RequestLeavesStore
<1>4. ASSUME NEW w \in Writer, WriteNext(w) PROVE StoreTypes'
  <2>1. Clear \/ \E m \in Message : AddMessage(m)
    BY <1>1, <1>4, WriteNextIs
  <2>2. CASE Clear
    BY <1>1, <2>2, PagesAre DEF Clear, StoreTypes
  <2>3. ASSUME NEW m \in Message, AddMessage(m) PROVE StoreTypes'
    <3>1. history' = Append(history, m) /\ Append(history, m) \in Seq(Message)
      BY <1>1, <2>3 DEF AddMessage, StoreTypes
    <3>2. dirty' \in BOOLEAN /\ UNCHANGED <<disk, flushing>>
      BY <2>3 DEF AddMessage
    <3> QED BY <1>1, <3>1, <3>2 DEF StoreTypes
  <2> QED BY <2>1, <2>2, <2>3
<1>5. CASE Flush
  BY <1>1, <1>5 DEF Flush, FlushTake, FlushWrite, FlushFails, StoreTypes
<1>6. CASE Reset
  BY <1>1, <1>6, PagesAre DEF Reset, Clear, StoreTypes
<1>7. CASE Restart
  BY <1>1, <1>7 DEF Restart, Restore, StoreTypes
<1>8. CASE UNCHANGED vars
  BY <1>2, <1>8 DEF vars
<1> QED BY <1>2, <1>3, <1>4, <1>5, <1>6, <1>7, <1>8, OthersLeaveStore DEF Next

-----------------------------------------------------------------------------
(* The recap and the fold. *)

\* Whom a transcript tells of are requests.
LEMMA TranscriptIs ==
    ASSUME NEW s \in Seq(Message)
    PROVE  Transcript(s) \subseteq Request
<1>1. \A i \in DOMAIN s : s[i] \in Message
  OBVIOUS
<1>2. \A i \in DOMAIN s : s[i].of \in Request
  BY <1>1, MessageIs
<1> QED BY <1>2 DEF Transcript

\* What a fold that begins remembers.
LEMMA BeginFoldIs ==
    ASSUME StoreTypes, FoldTypes, NEW n \in 0..Len(history), BeginFold(n)
    PROVE  \/ fold' = fold
           \/ LET old == SubSeq(history, 1, n)
              IN  /\ fold' = [pc |-> "asking", old |-> old, draft |-> recap \cup Transcript(old),
                               rest |-> <<>>]
                  /\ old \in Seq(Message) /\ recap \cup Transcript(old) \subseteq Request
<1> DEFINE old == SubSeq(history, 1, n)
<1>1. history \in Seq(Message) /\ recap \subseteq Request
  BY DEF StoreTypes, FoldTypes
<1>2. old \in Seq(Message)
  BY <1>1
<1>3. recap \cup Transcript(old) \subseteq Request
  <2> HIDE DEF old
  <2> QED BY <1>1, <1>2, TranscriptIs
<1>4. fold' = fold \/ fold' = [pc |-> "asking", old |-> old, draft |-> recap \cup Transcript(old),
                              rest |-> <<>>]
  BY DEF BeginFold, NoFold
<1> QED BY <1>2, <1>3, <1>4

LEMMA NoFoldIs ==
    /\ NoFold \in [pc : {"off", "asking", "checked", "rewriting"}, old : Seq(Message),
                   draft : SUBSET Request, rest : Seq(Message)]
    /\ NoFold.pc = "off" /\ NoFold.rest = <<>> /\ NoFold.old = <<>>
  BY PagesAre DEF NoFold

\* The two looks of a fold and the ways it ends.
LEMMA FoldsAre ==
    ASSUME StoreTypes, FoldTypes, FoldStep \/ IdleFold
    PROVE  FoldTypes'
<1>1. history \in Seq(Message) /\ recap \subseteq Request
  BY DEF StoreTypes, FoldTypes
<1>2. ASSUME NEW n \in 0..Len(history), BeginFold(n), recap' = recap PROVE FoldTypes'
  <2> DEFINE old == SubSeq(history, 1, n)
  <2>1. \/ fold' = fold
        \/ /\ fold' = [pc |-> "asking", old |-> old, draft |-> recap \cup Transcript(old),
                        rest |-> <<>>]
           /\ old \in Seq(Message) /\ recap \cup Transcript(old) \subseteq Request
    BY <1>2, BeginFoldIs
  <2> HIDE DEF old
  <2> QED BY <1>1, <1>2, <2>1, PagesAre DEF FoldTypes
<1>3. CASE SizeFold
  <2>1. recap' = recap /\ (fold' = fold \/ BeginFold(CutForSize(history, Keep)))
    BY <1>3 DEF SizeFold
  <2>2. CutForSize(history, Keep) \in 0..Len(history)
    BY <1>1, CutForSizeIs, SizeAssumption
  <2>3. CASE fold' = fold
    BY <2>1, <2>3 DEF FoldTypes
  <2> QED BY <1>2, <2>1, <2>2, <2>3
<1>4. CASE IdleFold
  <2>1. recap' = recap /\ BeginFold(CutKeepTurns(history, KeepTurns))
    BY <1>4 DEF IdleFold
  <2>2. CutKeepTurns(history, KeepTurns) \in 0..Len(history)
    BY <1>1, CutKeepTurnsIs, SizeAssumption
  <2> QED BY <1>2, <2>1, <2>2
<1>5. CASE fold' = NoFold /\ recap' = recap
  BY <1>5, NoFoldIs DEF FoldTypes
<1>6. CASE CheckPrefix
  <2>1. CASE ~IsPrefix(fold.old, history)
    BY <1>5, <1>6, <2>1 DEF CheckPrefix
  <2>2. CASE IsPrefix(fold.old, history)
    <3> DEFINE rest == SubSeq(history, Len(fold.old) + 1, Len(history))
    <3>1. fold' = [fold EXCEPT !.pc = "checked", !.rest = rest] /\ recap' = recap
      BY <1>6, <2>2 DEF CheckPrefix
    <3>2. rest \in Seq(Message)
      <4>1. Len(fold.old) \in Nat /\ Len(history) \in Nat
        BY <1>1 DEF FoldTypes
      <4> QED BY <1>1, <4>1
    <3> HIDE DEF rest
    <3> QED BY <3>1, <3>2 DEF FoldTypes
  <2> QED BY <2>1, <2>2
<1>7. CASE SaveRecap
  <2>1. CASE recap' = fold.draft /\ fold' = [NoFold EXCEPT !.pc = "rewriting"]
    <3>1. fold.draft \subseteq Request
      BY DEF FoldTypes
    <3> QED BY <2>1, <3>1, PagesAre DEF FoldTypes, NoFold
  <2> QED BY <1>5, <1>7, <2>1 DEF SaveRecap
<1>8. CASE HardTrim
  <2>1. CASE recap' = recap /\ fold' = [NoFold EXCEPT !.pc = "rewriting"]
    BY <1>1, <2>1, PagesAre DEF FoldTypes, NoFold
  <2> QED BY <1>5, <1>8, <2>1 DEF HardTrim
<1>9. CASE FoldEnds
  BY <1>5, <1>9 DEF FoldEnds
<1> QED BY <1>3, <1>4, <1>6, <1>7, <1>8, <1>9 DEF FoldStep

LEMMA FoldTypesNext ==
    ASSUME StateInv, [Next]_vars
    PROVE  FoldTypes'
<1>1. FoldTypes /\ StoreTypes
  BY DEF StateInv
<1>2. CASE fold' = fold /\ (recap' = recap \/ recap' = {})
  BY <1>1, <1>2 DEF FoldTypes
<1>3. ASSUME NEW r \in Request, Ask(r) \/ Answer(r) \/ RequestStep(r) PROVE FoldTypes'
  <2>1. fold' = fold /\ (recap' = recap \/ recap' = {})
    BY <1>3 DEF Ask, Answer, RequestStep, CommitExchange, Committed, Close, Quarantine,
                FindTurns,
                TurnsDropped
  <2> QED BY <1>2, <2>1
<1>4. CASE FoldStep \/ IdleFold
  BY <1>1, <1>4, FoldsAre
<1>5. CASE \/ \E w \in Writer : WriteNext(w)
           \/ Flush \/ Reset \/ RecapCommand \/ Screen
           \/ UNCHANGED vars
  <2>1. fold' = fold /\ (recap' = recap \/ recap' = {})
    BY <1>5 DEF WriteNext, Flush, Reset, RecapCommand, Screen, FindTurns, TurnsDropped, vars,
                convVars
  <2> QED BY <1>2, <2>1
<1>6. CASE Restart
  BY <1>1, <1>6, NoFoldIs DEF Restart, FoldTypes
<1> QED BY <1>3, <1>4, <1>5, <1>6 DEF Next

-----------------------------------------------------------------------------
(* The lock and what its holder has left to write. *)

\* A fold that looks again takes the lock and has nothing to write yet.
LEMMA PenTakenToLook ==
    ASSUME PenInv, holder = "nobody", holder' = "fold", todo' = todo
    PROVE  PenInv'
<1>1. "fold" \in Writer /\ \A o \in Writer : todo[o] = <<>>
  BY WriterAssumption DEF PenInv, Writer
<1> QED BY <1>1 DEF PenInv

\* Everyone else takes it with something to write.
LEMMA PenTaken ==
    ASSUME PenInv, holder = "nobody", NEW w \in Writer, holder' = w, NEW s \in Pages,
           todo' = [todo EXCEPT ![w] = s], fold'.pc \in {fold.pc, "rewriting"}
    PROVE  PenInv'
<1>1. \A o \in Writer : todo[o] = <<>>
  BY WriterAssumption DEF PenInv, Writer
<1>2. fold'.pc # "checked"
  BY WriterAssumption DEF PenInv
<1>3. todo' \in [Writer -> Pages] /\ \A o \in Writer : o # w => todo'[o] = <<>>
  BY <1>1 DEF PenInv
<1> QED BY <1>2, <1>3 DEF PenInv

\* Its holder has written everything, or has nothing to write, and gives it back.
LEMMA PenGiven ==
    ASSUME PenInv, NEW w \in Writer, holder = w, todo[w] = <<>>, holder' = "nobody", todo' = todo,
           fold'.pc # "checked"
    PROVE  PenInv'
  BY WriterAssumption DEF PenInv, Writer

LEMMA PenKept ==
    ASSUME PenInv, UNCHANGED <<holder, todo>>, fold'.pc = "checked" => fold.pc = "checked"
    PROVE  PenInv'
  BY DEF PenInv

LEMMA PenWrites ==
    ASSUME PenInv, NEW w \in Writer, WriteNext(w)
    PROVE  PenInv'
<1>1. /\ w = holder /\ todo[w] # <<>> /\ todo' = [todo EXCEPT ![w] = Tail(todo[w])]
      /\ Tail(todo[w]) \in Pages
  BY WriteNextIs, PagesAre
<1>2. holder' = holder /\ fold' = fold
  BY DEF WriteNext
<1>3. todo' \in [Writer -> Pages] /\ \A o \in Writer : o # w => todo'[o] = todo[o]
  BY <1>1 DEF PenInv
<1>4. fold.pc # "checked"
  BY <1>1 DEF PenInv
<1> QED BY <1>1, <1>2, <1>3, <1>4 DEF PenInv

\* QuarantineSpeaker, in a request and in +screen: nothing to drop, or the lock with the rest to
\* write.
LEMMA PenFindsTurns ==
    ASSUME PenInv, StoreTypes, NEW w \in Writer, FindTurns(w)
    PROVE  PenInv'
<1>1. fold' = fold /\ holder = "nobody"
  BY DEF FindTurns
<1>2. CASE UNCHANGED <<holder, todo>>
  BY <1>1, <1>2, PenKept
<1>3. CASE Acquire(w) /\ WillWrite(w, <<Wipe>> \o Purged(history))
  <2>1. Purged(history) \in Seq(Message)
    BY SiftIs DEF Purged, StoreTypes
  <2>2. <<Wipe>> \o Purged(history) \in Pages
    BY <2>1, PagesAre
  <2> DEFINE s == <<Wipe>> \o Purged(history)
  <2>3. holder' = w /\ todo' = [todo EXCEPT ![w] = s]
    BY <1>3 DEF Acquire, WillWrite
  <2>4. s \in Pages /\ fold'.pc = fold.pc
    BY <1>1, <2>2
  <2> HIDE DEF s
  <2> QED BY <1>1, <2>3, <2>4, PenTaken
<1> QED BY <1>2, <1>3 DEF FindTurns

LEMMA PenDropsTurns ==
    ASSUME PenInv, LockInv, NEW w \in Writer \ {"fold"}, TurnsDropped(w)
    PROVE  PenInv'
<1>1. /\ fold' = fold /\ holder = w /\ todo[w] = <<>> /\ holder' = "nobody" /\ todo' = todo
  BY DEF TurnsDropped, Release, Written
<1>2. fold.pc # "checked"
  BY <1>1 DEF PenInv
<1> QED BY <1>1, <1>2, PenGiven

\* A fold takes the lock when it looks again or trims, and gives it back when it is through.
LEMMA PenFolds ==
    ASSUME PenInv, StoreTypes, FoldTypes, LockInv, FoldStep \/ IdleFold
    PROVE  PenInv'
<1>1. "fold" \in Writer /\ "fold" # "nobody" /\ history \in Seq(Message) /\ <<>> \in Pages
  BY PagesAre DEF Writer, StoreTypes
<1>2. CASE SizeFold \/ IdleFold
  <2>1. UNCHANGED <<holder, todo>>
    BY <1>2 DEF SizeFold, IdleFold
  <2>2. fold' = fold \/ fold'.pc # "checked"
    BY <1>2 DEF SizeFold, IdleFold, BeginFold, NoFold
  <2> QED BY <2>1, <2>2, PenKept
<1>3. CASE CheckPrefix
  <2>1. CASE holder' = "fold"
    BY <1>3, <2>1, PenTakenToLook DEF CheckPrefix
  <2>2. CASE holder' = holder /\ fold' = NoFold
    BY <1>3, <2>2, PenKept, NoFoldIs DEF CheckPrefix
  <2> QED BY <1>3, <2>1, <2>2 DEF CheckPrefix
<1>4. CASE SaveRecap
  <2>0. holder = "fold" /\ todo["fold"] = <<>>
    BY <1>4 DEF SaveRecap, PenInv
  <2>1. CASE fold' = NoFold /\ holder' = "nobody" /\ todo' = todo
    BY <1>1, <2>0, <2>1, PenGiven, NoFoldIs
  <2>2. CASE /\ WillWrite("fold", <<Wipe>> \o fold.rest) /\ holder' = holder
             /\ fold' = [NoFold EXCEPT !.pc = "rewriting"]
    <3>1. <<Wipe>> \o fold.rest \in Pages
      BY PagesAre DEF FoldTypes
    <3>2. fold'.pc # "checked"
      BY <2>2 DEF NoFold
    <3>3. todo' = [todo EXCEPT !["fold"] = <<Wipe>> \o fold.rest]
      BY <2>2 DEF WillWrite
    <3> QED BY <1>1, <2>0, <2>2, <3>1, <3>2, <3>3 DEF PenInv
  <2> QED BY <1>4, <2>1, <2>2 DEF SaveRecap
<1>5. CASE HardTrim
  <2>1. CASE fold' = NoFold /\ UNCHANGED <<holder, todo>>
    BY <2>1, PenKept, NoFoldIs
  <2> DEFINE rest == SubSeq(history, CutForSize(history, MaxContext) + 1, Len(history))
  <2>2. CASE /\ holder' = "fold" /\ WillWrite("fold", <<Wipe>> \o rest)
             /\ fold' = [NoFold EXCEPT !.pc = "rewriting"]
    <3>1. rest \in Seq(Message)
      <4>1. CutForSize(history, MaxContext) \in 0..Len(history)
        BY <1>1, CutForSizeIs, SizeAssumption
      <4> QED BY <1>1, <4>1
    <3> HIDE DEF rest
    <3>2. <<Wipe>> \o rest \in Pages /\ holder = "nobody"
      BY <1>5, <3>1, PagesAre DEF HardTrim
    <3>3. fold'.pc \in {fold.pc, "rewriting"}
      BY <2>2 DEF NoFold
    <3>4. todo' = [todo EXCEPT !["fold"] = <<Wipe>> \o rest]
      BY <2>2 DEF WillWrite
    <3> QED BY <1>1, <2>2, <3>2, <3>3, <3>4, PenTaken
  <2> QED BY <1>5, <2>1, <2>2 DEF HardTrim
<1>6. CASE FoldEnds
  <2>1. /\ holder = "fold" /\ todo["fold"] = <<>> /\ holder' = "nobody" /\ todo' = todo
        /\ fold' = NoFold
    BY <1>6 DEF FoldEnds, Release, Written
  <2> QED BY <1>1, <2>1, PenGiven, NoFoldIs
<1> QED BY <1>2, <1>3, <1>4, <1>5, <1>6 DEF FoldStep

LEMMA PenNext ==
    ASSUME StateInv, [Next]_vars
    PROVE  PenInv'
<1>1. PenInv /\ StoreTypes /\ FoldTypes /\ LockInv
  BY DEF StateInv
<1>2. CASE UNCHANGED <<holder, todo, fold>>
  BY <1>1, <1>2, PenKept
<1>3. ASSUME NEW r \in Request, Ask(r) \/ Answer(r) \/ RequestStep(r) PROVE PenInv'
  <2>1. r \in Writer \ {"fold"}
    BY WriterAssumption DEF Writer
  <2>2. CASE Ask(r) \/ Answer(r) \/ Close(r)
    BY <1>2, <2>2 DEF Ask, Answer, Close
  <2>3. CASE CommitExchange(r)
    <3>1. PICK s \in {Exchange(r), Question(r)} : todo' = [todo EXCEPT ![r] = s]
      BY <2>3 DEF CommitExchange, WillWrite
    <3>2. s \in Pages
      BY ExchangeIs, PagesAre
    <3>3. holder = "nobody" /\ holder' = r /\ fold'.pc = fold.pc
      BY <2>3 DEF CommitExchange, Acquire
    <3> QED BY <1>1, <2>1, <3>1, <3>2, <3>3, PenTaken
  <2>4. CASE Committed(r)
    <3>1. holder = r /\ todo[r] = <<>> /\ holder' = "nobody" /\ todo' = todo /\ fold' = fold
      BY <2>4 DEF Committed, Release, Written
    <3>2. fold.pc # "checked"
      BY <1>1, <2>1, <3>1 DEF PenInv
    <3> QED BY <1>1, <2>1, <3>1, <3>2, PenGiven
  <2>5. CASE Quarantine(r)
    BY <1>1, <2>1, <2>5, PenFindsTurns, PenDropsTurns DEF Quarantine
  <2> QED BY <1>3, <2>2, <2>3, <2>4, <2>5 DEF RequestStep
<1>4. ASSUME NEW w \in Writer, WriteNext(w) PROVE PenInv'
  BY <1>1, <1>4, PenWrites
<1>5. CASE FoldStep \/ IdleFold
  BY <1>1, <1>5, PenFolds
<1>6. CASE Flush \/ Reset \/ RecapCommand \/ UNCHANGED vars
  BY <1>2, <1>6 DEF Flush, Reset, RecapCommand, vars, convVars
<1>7. CASE Screen
  <2>1. "screen" \in Writer \ {"fold"}
    BY DEF Writer
  <2>2. UNCHANGED <<holder, todo, fold>> \/ FindTurns("screen") \/ TurnsDropped("screen")
    BY <1>7 DEF Screen
  <2> QED BY <1>1, <1>2, <2>1, <2>2, PenFindsTurns, PenDropsTurns
<1>8. CASE Restart
  <2>1. holder' = "nobody" /\ todo' = [w \in Writer |-> <<>>] /\ fold' = NoFold
    BY <1>8 DEF Restart
  <2> QED BY <2>1, PagesAre, NoFoldIs DEF PenInv
<1> QED BY <1>3, <1>4, <1>5, <1>6, <1>7, <1>8 DEF Next

-----------------------------------------------------------------------------
(* The counters. *)

LEMMA RestTypesNext ==
    ASSUME StateInv, [Next]_vars
    PROVE  RestTypes'
<1>1. RestTypes /\ MaxEvents \in Nat
  BY SizeAssumption DEF StateInv
<1>2. screening' \in {"off", "listed", "purging", "done", "lost"}
  <2>1. CASE Screen
    BY <2>1 DEF Screen
  <2>2. CASE Restart
    BY <1>1, <2>2 DEF Restart, RestTypes
  <2>3. ASSUME NEW r \in Request, Ask(r) \/ Answer(r) \/ RequestStep(r) PROVE screening' = screening
    BY <2>3 DEF Ask, Answer, RequestStep, CommitExchange, Committed, Close, Quarantine
  <2>4. CASE FoldStep \/ IdleFold
    BY <1>1, <2>4 DEF FoldStep, IdleFold, SizeFold, CheckPrefix, SaveRecap, HardTrim, FoldEnds,
                      RestTypes
  <2>5. CASE \/ \E w \in Writer : WriteNext(w)
             \/ Flush \/ Reset \/ RecapCommand \/ UNCHANGED vars
    BY <1>1, <2>5 DEF WriteNext, Flush, Reset, RecapCommand, vars, convVars, RestTypes
  <2> QED BY <1>1, <2>1, <2>2, <2>3, <2>4, <2>5 DEF Next, RestTypes
<1>3. events' \in 0..MaxEvents
  <2>1. CASE events' = events
    BY <1>1, <2>1 DEF RestTypes
  <2>2. CASE Event
    BY <1>1, <2>2 DEF Event, RestTypes
  <2>3. ASSUME NEW r \in Request, Ask(r) \/ Answer(r) \/ RequestStep(r) PROVE events' = events
    BY <2>3 DEF Ask, Answer, RequestStep, CommitExchange, Committed, Close, Quarantine,
                FindTurns,
                TurnsDropped
  <2>4. CASE \/ FoldStep \/ Screen \/ Flush
             \/ \E w \in Writer : WriteNext(w)
             \/ UNCHANGED vars
    BY <2>1, <2>4 DEF FoldStep, SizeFold, CheckPrefix, SaveRecap, HardTrim, FoldEnds, Screen,
                      FindTurns, TurnsDropped, Flush, WriteNext, vars, convVars
  <2>5. CASE IdleFold \/ Reset \/ RecapCommand \/ Restart
    BY <2>2, <2>5 DEF IdleFold, Reset, RecapCommand, Restart
  <2> QED BY <2>1, <2>3, <2>4, <2>5 DEF Next
<1>4. cancelled' \subseteq Request
  <2>1. CASE cancelled' = cancelled
    BY <1>1, <2>1 DEF RestTypes
  <2>2. ASSUME NEW r \in Request, Ask(r) \/ Answer(r) \/ RequestStep(r)
        PROVE  cancelled' \subseteq cancelled
    BY <2>2 DEF Ask, Answer, RequestStep, CommitExchange, Committed, Close, Quarantine,
                FindTurns,
                TurnsDropped
  <2>3. CASE Reset \/ Restart
    BY <2>3 DEF Reset, Restart
  <2>4. CASE \/ FoldStep \/ IdleFold \/ Screen \/ Flush \/ RecapCommand
             \/ \E w \in Writer : WriteNext(w)
             \/ UNCHANGED vars
    BY <2>1, <2>4 DEF FoldStep, IdleFold, SizeFold, CheckPrefix, SaveRecap, HardTrim, FoldEnds,
                      Screen, FindTurns, TurnsDropped, Flush, RecapCommand, WriteNext, vars,
                      convVars
  <2> QED BY <1>1, <2>2, <2>3, <2>4 DEF Next, RestTypes
<1> QED BY <1>2, <1>3, <1>4 DEF RestTypes

LEMMA QueueNext ==
    ASSUME StateInv, [Next]_vars
    PROVE  QueueInv'
<1>1. QueueInv
  BY DEF StateInv
<1>2. /\ Cardinality(Past(pc)) \in Nat /\ Cardinality(Ended(pc)) \in Nat
      /\ Cardinality(Past(pc')) \in Nat /\ Cardinality(Ended(pc')) \in Nat
  BY PastIs
<1>3. CASE pc' = pc /\ (queued' = queued \/ (queued > 0 /\ queued' = queued - 1))
  BY <1>1, <1>2, <1>3 DEF QueueInv
<1>4. ASSUME NEW r \in Request, Ask(r) \/ Answer(r) \/ RequestStep(r) PROVE QueueInv'
  <2>1. ASSUME NEW s \in Stage, Stay(r, s), pc[r] # "done", r \in Past(pc) => r \in Past(pc'),
               \/ queued' = queued
               \/ queued' = queued + 1 /\ ((r \notin Past(pc) /\ r \in Past(pc')) \/ s = "done")
        PROVE  QueueInv'
    <3> DEFINE q == pc'
    <3>1. /\ q \in [Request -> Stage]
          /\ Cardinality(Past(pc)) <= Cardinality(Past(q))
          /\ Cardinality(Ended(pc)) <= Cardinality(Ended(q))
          /\ r \notin Past(pc) /\ r \in Past(q) =>
               Cardinality(Past(q)) = Cardinality(Past(pc)) + 1
          /\ s = "done" => Cardinality(Ended(q)) = Cardinality(Ended(pc)) + 1
      <4>1. pc \in [Request -> Stage] /\ q = [pc EXCEPT ![r] = s]
        BY <1>1, <2>1 DEF QueueInv, Stay
      <4>2. r \in Past(pc) => r \in Past(q)
        BY <2>1
      <4> HIDE DEF q
      <4> QED BY <2>1, <4>1, <4>2, MovesOn
    <3> QED BY <1>1, <1>2, <2>1, <3>1 DEF QueueInv
  <2>2. ASSUME NEW s \in Stage, Stay(r, s)
        PROVE  pc'[r] = s /\ (r \in Past(pc') <=> s \in {"closing", "convicted", "purging", "done"})
    BY <1>1, <2>2 DEF Stay, QueueInv, Past
  <2>3. CASE Ask(r) \/ Answer(r) \/ CommitExchange(r)
    <3>1. PICK s \in Stage : Stay(r, s)
      BY <2>3 DEF Ask, Answer, CommitExchange, Stage
    <3>2. pc[r] # "done" /\ r \notin Past(pc) /\ queued' = queued
      BY <2>3 DEF Ask, Answer, CommitExchange, Past
    <3> QED BY <2>1, <3>1, <3>2
  <2>4. CASE Committed(r)
    <3>1. PICK s \in {"closing", "convicted"} : Stay(r, s)
      BY <2>4 DEF Committed
    <3>2. pc[r] # "done" /\ r \notin Past(pc) /\ (queued' = queued \/ queued' = queued + 1)
      BY <2>4 DEF Committed, MaybeFold, Past
    <3>3. s \in Stage
      BY DEF Stage
    <3> QED BY <2>1, <2>2, <3>1, <3>2, <3>3
  <2>5. CASE Close(r)
    <3>1. Stay(r, "done") /\ "done" \in Stage /\ pc[r] # "done"
      BY <2>5 DEF Close, Stage
    <3>2. queued' = queued \/ queued' = queued + 1
      BY <2>5 DEF Close, MaybeFold
    <3> QED BY <2>1, <2>2, <3>1, <3>2
  <2>6. CASE Quarantine(r)
    <3>1. PICK s \in {"closing", "purging"} : Stay(r, s)
      BY <2>6 DEF Quarantine
    <3>2. pc[r] # "done" /\ queued' = queued /\ s \in Stage
      BY <2>6 DEF Quarantine, FindTurns, TurnsDropped, Stage
    <3> QED BY <2>1, <2>2, <3>1, <3>2
  <2> QED BY <1>4, <2>3, <2>4, <2>5, <2>6 DEF RequestStep
<1>5. CASE SizeFold
  BY <1>3, <1>5 DEF SizeFold
<1>6. CASE \/ CheckPrefix \/ SaveRecap \/ HardTrim \/ FoldEnds \/ IdleFold
           \/ \E w \in Writer : WriteNext(w)
           \/ Flush \/ Reset \/ RecapCommand \/ (Screen /\ UNCHANGED pc) \/ UNCHANGED vars
  <2>1. pc' = pc /\ queued' = queued
    BY <1>6 DEF CheckPrefix, SaveRecap, HardTrim, FoldEnds, IdleFold, WriteNext, Flush, Reset,
                RecapCommand, Screen, FindTurns, TurnsDropped, vars, convVars
  <2> QED BY <1>1, <2>1 DEF QueueInv
<1>7. CASE Restart
  <2>1. pc' \in [Request -> Stage] /\ queued' = 0
    BY <1>7 DEF Restart, Stage
  <2> QED BY <1>2, <2>1 DEF QueueInv
<1> QED BY <1>4, <1>5, <1>6, <1>7 DEF Next, FoldStep

-----------------------------------------------------------------------------
(* The types, for every set of requests. *)

LEMMA StateInvInit == Init => StateInv
<1> SUFFICES ASSUME Init PROVE StateInv
  OBVIOUS
<1>1. StoreTypes
  BY PagesAre DEF Init, StoreInit, StoreTypes
<1>2. FoldTypes
  BY NoFoldIs DEF Init, FoldTypes
<1>3. RestTypes
  BY SizeAssumption DEF Init, RestTypes
<1>4. PenInv
  BY PagesAre, NoFoldIs DEF Init, PenInv
<1>5. QueueInv
  <2>1. pc \in [Request -> Stage] /\ queued = 0
    BY DEF Init, Stage
  <2> QED BY <2>1, PastIs DEF QueueInv
<1> QED BY <1>1, <1>2, <1>3, <1>4, <1>5, LockInvInit DEF StateInv

LEMMA StateInvNext == StateInv /\ [Next]_vars => StateInv'
<1> SUFFICES ASSUME StateInv, [Next]_vars PROVE StateInv'
  OBVIOUS
<1>1. LockInv'
  BY LockInvNext DEF StateInv
<1> QED BY <1>1, StoreTypesNext, FoldTypesNext, RestTypesNext, PenNext, QueueNext DEF StateInv

LEMMA StateInvTypes == StateInv => TypeOK
<1> SUFFICES ASSUME StateInv PROVE TypeOK
  OBVIOUS
<1>1. todo \in [Writer -> Seq(Message \cup {Wipe})]
  BY PagesAre DEF StateInv, PenInv
<1>2. queued \in 0..(2 * Cardinality(Request))
  <2>1. queued \in Nat /\ queued <= Cardinality(Past(pc)) + Cardinality(Ended(pc))
    BY DEF StateInv, QueueInv
  <2> QED BY <2>1, PastIs, RequestsAreFinite
<1>3. /\ fold.pc \in {"off", "asking", "checked", "rewriting"}
      /\ {fold.old, fold.rest} \subseteq Seq(Message) /\ fold.draft \subseteq Request
      /\ recap \subseteq Request
  BY DEF StateInv, FoldTypes
<1> QED BY <1>1, <1>2, <1>3 DEF StateInv, StoreTypes, RestTypes, PenInv, QueueInv, TypeOK

\* Every variable has its type: a request starts two size folds at most, one when it has committed
\* and one when its stream ends (Complete).
THEOREM TypeCorrect == Spec => []TypeOK
<1>1. Spec => []StateInv
  BY StateInvInit, StateInvNext, PTL DEF Spec
<1> QED BY <1>1, StateInvTypes, PTL

-----------------------------------------------------------------------------
(* What each step does to the history, and to what it will be when the rest is written. *)

PartOf(t, s) == \E a \in 0..Len(s) : \E b \in a..Len(s) : t = SubSeq(s, a + 1, b)

LEMMA PartIsWholeToo ==
    ASSUME NEW s \in Seq(Message), Whole(s), NEW t, PartOf(t, s)
    PROVE  /\ t \in Seq(Message) /\ Whole(t) /\ ToSet(t) \subseteq ToSet(s)
           /\ Turns(t) \subseteq Turns(s)
           /\ NoSuspect(s) => NoSuspect(t)
<1>0. PICK a \in 0..Len(s) : \E b \in a..Len(s) : t = SubSeq(s, a + 1, b)
  BY DEF PartOf
<1>1. PICK b \in a..Len(s) : t = SubSeq(s, a + 1, b)
  BY <1>0
<1>2. a \in Nat /\ b \in Nat /\ a <= b /\ b <= Len(s)
  BY <1>1
<1> QED BY <1>1, <1>2, PartIsWhole

\* The parts the steps leave: all, nothing, the beginning and the end.
LEMMA PartsAre ==
    ASSUME NEW s \in Seq(Message)
    PROVE  /\ PartOf(s, s) /\ PartOf(<<>>, s)
           /\ \A a \in 0..Len(s) : PartOf(SubSeq(s, a + 1, Len(s)), s)
<1>1. Len(s) \in Nat
  OBVIOUS
<1>2. SubSeq(s, 0 + 1, Len(s)) = s /\ SubSeq(s, 0 + 1, 0) = <<>>
  OBVIOUS
<1>3. 0 \in 0..Len(s) /\ 0 \in 0..0 /\ Len(s) \in 0..Len(s)
  BY <1>1
<1>4. PartOf(s, s) /\ PartOf(<<>>, s)
  BY <1>2, <1>3 DEF PartOf
<1>5. ASSUME NEW a \in 0..Len(s) PROVE PartOf(SubSeq(s, a + 1, Len(s)), s)
  <2>1. Len(s) \in a..Len(s)
    BY <1>1
  <2> QED BY <2>1 DEF PartOf
<1> QED BY <1>4, <1>5

LEMMA JoinedParts ==
    ASSUME NEW s \in Seq(Message), NEW t \in Seq(Message)
    PROVE  /\ PartOf(t, s \o t)
           /\ t # <<>> => PartOf(Append(s, Head(t)), s \o t)
<1> DEFINE u == s \o t
           n == Len(s)
<1>1. /\ u \in Seq(Message) /\ Len(u) = n + Len(t) /\ n \in Nat /\ Len(t) \in Nat
      /\ \A i \in 1..n : u[i] = s[i]
      /\ \A i \in 1..Len(t) : u[i + n] = t[i]
  OBVIOUS
<1> HIDE DEF u, n
<1>2. t = SubSeq(u, n + 1, Len(u))
  <2> DEFINE v == SubSeq(u, n + 1, Len(u))
  <2>1. n <= Len(u) /\ Len(u) \in Nat /\ Len(u) - n = Len(t)
    BY <1>1
  <2>2. /\ v \in Seq(Message) /\ Len(v) = Len(t)
        /\ \A i \in 1..Len(t) : v[i] = u[i + n]
    <3>1. /\ v \in Seq(Message) /\ Len(v) = Len(u) - n
          /\ \A i \in 1..(Len(u) - n) : v[i] = u[i + n]
      <4> DEFINE z == Len(u)
      <4>1. z \in Nat /\ n \in Nat /\ n <= z /\ z <= Len(u) /\ u \in Seq(Message)
        BY <1>1, <2>1
      <4> HIDE DEF z
      <4>2. /\ SubSeq(u, n + 1, z) \in Seq(Message) /\ Len(SubSeq(u, n + 1, z)) = z - n
            /\ \A i \in 1..(z - n) : SubSeq(u, n + 1, z)[i] = u[i + n]
        BY <4>1, SubSeqIs
      <4> QED BY <4>2 DEF z
    <3> QED BY <2>1, <3>1
  <2> HIDE DEF v
  <2>3. v = t
    BY <1>1, <2>2, SeqEqual
  <2> QED BY <2>3 DEF v
<1>3. n \in 0..Len(u) /\ Len(u) \in n..Len(u)
  BY <1>1
<1>4. PartOf(t, u)
  BY <1>2, <1>3 DEF PartOf
<1>5. ASSUME t # <<>> PROVE PartOf(Append(s, Head(t)), u)
  <2> DEFINE v == SubSeq(u, 0 + 1, n + 1)
             w == Append(s, Head(t))
  <2>1. 0 <= n + 1 /\ n + 1 <= Len(u) /\ n + 1 \in Nat /\ (n + 1) - 0 = n + 1 /\ 1 \in 1..Len(t)
    BY <1>1, <1>5
  <2>2. /\ v \in Seq(Message) /\ Len(v) = n + 1
        /\ \A i \in 1..(n + 1) : v[i] = u[i + 0]
    BY <1>1, <2>1, SubSeqIs
  <2>3. /\ w \in Seq(Message) /\ Len(w) = n + 1 /\ w[n + 1] = t[1]
        /\ \A i \in 1..n : w[i] = s[i]
    BY <1>5 DEF n
  <2> HIDE DEF v, w
  <2>4. \A i \in 1..(n + 1) : v[i] = w[i]
    <3> TAKE i \in 1..(n + 1)
    <3>1. v[i] = u[i]
      BY <1>1, <2>2
    <3>2. CASE i \in 1..n
      BY <1>1, <2>3, <3>1, <3>2
    <3>3. CASE i = n + 1
      <4>1. u[1 + n] = t[1] /\ 1 + n = n + 1
        BY <1>1, <2>1
      <4> QED BY <2>3, <3>1, <3>3, <4>1
    <3> QED BY <1>1, <3>2, <3>3
  <2>5. w = v
    BY <2>2, <2>3, <2>4, SeqEqual
  <2>6. 0 \in 0..Len(u) /\ n + 1 \in 0..Len(u)
    BY <1>1, <2>1
  <2>7. \E a \in 0..Len(u) : \E b \in a..Len(u) : w = SubSeq(u, a + 1, b)
    BY <2>5, <2>6 DEF v
  <2> QED BY <2>7 DEF PartOf, w
<1> QED BY <1>4, <1>5 DEF u

\* What the history comes to: by definition, and before and after the lock changes hands.
LEMMA KeptIs ==
    /\ Kept = IF holder = "nobody" THEN history ELSE Finished(history, todo[holder])
    /\ Kept' = IF holder' = "nobody" THEN history' ELSE Finished(history', todo'[holder'])
  BY DEF Kept, Finished

LEMMA KeptUnchanged ==
    ASSUME UNCHANGED <<history, holder, todo>>
    PROVE  Kept' = Kept
  BY DEF Kept

LEMMA KeptTaken ==
    ASSUME PenInv, holder = "nobody", NEW w \in Writer, holder' = w, history' = history, NEW s,
           todo' = [todo EXCEPT ![w] = s]
    PROVE  Kept = history /\ Kept' = Finished(history, s)
<1>1. w # "nobody" /\ todo'[w] = s
  BY WriterAssumption DEF Writer, PenInv
<1> QED BY <1>1, KeptIs

LEMMA KeptGiven ==
    ASSUME StoreTypes, NEW w \in Writer, holder = w, todo[w] = <<>>, history' = history,
           holder' = "nobody"
    PROVE  Kept = history /\ Kept' = history
<1>1. w # "nobody" /\ history \in Seq(Message)
  BY WriterAssumption DEF Writer, StoreTypes
<1>2. Finished(history, <<>>) = history
  <2>1. Finished(history, <<>>) = history \o <<>>
    BY <1>1, PagesAre, PageIs
  <2> QED BY <1>1, <2>1, ConcatEmptySeq
<1> QED BY <1>1, <1>2, KeptIs

\* What the holder of the lock keeps is a history.
LEMMA KeptTypes ==
    ASSUME StoreTypes, PenInv
    PROVE  Kept \in Seq(Message)
<1>1. history \in Seq(Message)
  BY DEF StoreTypes
<1>2. CASE holder = "nobody"
  BY <1>1, <1>2, KeptIs
<1>3. CASE holder # "nobody"
  <2>1. Kept = Finished(history, todo[holder]) /\ todo[holder] \in Pages
    BY <1>3, KeptIs DEF PenInv
  <2>2. CASE todo[holder] \in Seq(Message)
    <3>1. Kept = history \o todo[holder]
      BY <1>1, <2>1, <2>2, PageIs
    <3> QED BY <1>1, <2>2, <3>1
  <2>3. CASE \E t \in Seq(Message) : todo[holder] = <<Wipe>> \o t
    <3>1. PICK t \in Seq(Message) : todo[holder] = <<Wipe>> \o t
      BY <2>3
    <3>2. Finished(history, <<Wipe>> \o t) = t
      BY <1>1, PageIs, Zenon
    <3> QED BY <2>1, <3>1, <3>2, Zenon
  <2> QED BY <2>1, <2>2, <2>3 DEF Pages
<1> QED BY <1>2, <1>3

\* A write brings the history nearer to what it comes to, and does not change that.
LEMMA WriteKeepsKept ==
    ASSUME StoreTypes, PenInv, NEW w \in Writer, WriteNext(w)
    PROVE  Kept' = Kept /\ PartOf(history', Kept)
<1>1. /\ history \in Seq(Message) /\ w = holder /\ holder' = holder /\ w # "nobody"
      /\ todo'[w] = Tail(todo[w]) /\ todo[w] # <<>> /\ Tail(todo[w]) \in Seq(Message)
  BY WriteNextIs, WriterAssumption DEF StoreTypes, WriteNext, PenInv, Writer
<1>2. Kept = Finished(history, todo[w]) /\ Kept' = Finished(history', Tail(todo[w]))
  BY <1>1, KeptIs
<1>3. CASE Clear /\ \E t \in Seq(Message) : todo[w] = <<Wipe>> \o t /\ Tail(todo[w]) = t
  <2>1. PICK t \in Seq(Message) : todo[w] = <<Wipe>> \o t /\ Tail(todo[w]) = t
    BY <1>3
  <2>2. history' = <<>>
    BY <1>3 DEF Clear
  <2>3. Kept = t
    <3>1. Finished(history, <<Wipe>> \o t) = t
      BY <1>1, PageIs, Zenon
    <3> QED BY <1>2, <2>1, <3>1, Zenon
  <2>4. Finished(<<>>, t) = <<>> \o t
    BY PagesAre, PageIs
  <2>5. Kept' = t
    BY <1>2, <2>1, <2>2, <2>4, ConcatEmptySeq
  <2> QED BY <2>2, <2>3, <2>5, PartsAre
<1>4. CASE todo[w] \in Seq(Message) /\ Head(todo[w]) \in Message /\ AddMessage(Head(todo[w]))
  <2> DEFINE t == todo[w]
  <2>1. history' = Append(history, Head(t)) /\ t \in Seq(Message) /\ t # <<>>
    BY <1>1, <1>4 DEF AddMessage
  <2>2. Append(history, Head(t)) \in Seq(Message)
    BY <1>1, <1>4
  <2>3. Kept' = Append(history, Head(t)) \o Tail(t)
    BY <1>1, <1>2, <2>1, <2>2, PageIs
  <2>4. Kept = history \o t
    BY <1>1, <1>2, <2>1, PageIs
  <2>5. Append(history, Head(t)) \o Tail(t) = history \o t
    BY <1>1, <2>1, PageIs
  <2>6. PartOf(Append(history, Head(t)), history \o t)
    <3> HIDE DEF t
    <3> QED BY <1>1, <2>1, JoinedParts
  <2> QED BY <2>1, <2>3, <2>4, <2>5, <2>6
<1> QED BY <1>3, <1>4, WriteNextIs

\* A quarantine drops turns from what is there, or finds nothing to drop.
LEMMA FindTurnsIs ==
    ASSUME StoreTypes, PenInv, NEW w \in Writer, FindTurns(w)
    PROVE  /\ Kept = history /\ history' = history
           /\ \/ Purged(history) = history /\ Kept' = Kept /\ holder' = "nobody"
              \/ Purged(history) # history /\ Kept' = Purged(history) /\ holder' = w
<1>1. history' = history /\ holder = "nobody" /\ history \in Seq(Message)
  BY DEF FindTurns, storeVars, StoreTypes
<1>2. Kept = history
  BY <1>1, KeptIs
<1>3. CASE Purged(history) = history /\ UNCHANGED <<holder, todo>>
  <2>1. Kept' = Kept
    BY <1>1, <1>3, KeptUnchanged
  <2> QED BY <1>1, <1>2, <1>3, <2>1
<1>4. CASE Purged(history) # history /\ Acquire(w) /\ WillWrite(w, <<Wipe>> \o Purged(history))
  <2> DEFINE t == Purged(history)
             s == <<Wipe>> \o t
  <2>1. holder' = w /\ todo' = [todo EXCEPT ![w] = s]
    BY <1>4 DEF Acquire, WillWrite
  <2>2. Kept' = Finished(history, s)
    <3> HIDE DEF s
    <3> QED BY <1>1, <2>1, KeptTaken
  <2>3. t \in Seq(Message)
    BY <1>1, SiftIs DEF Purged
  <2> HIDE DEF t
  <2>4. Finished(history, <<Wipe>> \o t) = t
    BY <1>1, <2>3, PageIs, Zenon
  <2>5. Kept' = t
    BY <2>2, <2>4
  <2> QED BY <1>1, <1>2, <1>4, <2>1, <2>5 DEF t
<1> QED BY <1>3, <1>4 DEF FindTurns

LEMMA TurnsDroppedIs ==
    ASSUME StoreTypes, NEW w \in Writer, TurnsDropped(w)
    PROVE  Kept' = Kept /\ Kept = history /\ history' = history /\ holder = w /\ holder' = "nobody"
<1>1. holder = w /\ todo[w] = <<>> /\ history' = history /\ holder' = "nobody"
  BY DEF TurnsDropped, Release, Written, storeVars
<1> QED BY <1>1, KeptGiven

\* What a commit adds.
LEMMA CommitIs ==
    ASSUME StoreTypes, PenInv, NEW r \in Request, CommitExchange(r)
    PROVE  /\ Kept = history /\ history' = history /\ holder' = r
           /\ \E e \in {Exchange(r), Question(r)} : Kept' = history \o e
<1>1. /\ history' = history /\ holder = "nobody" /\ history \in Seq(Message) /\ holder' = r
      /\ r \in Writer
  BY DEF CommitExchange, Acquire, storeVars, StoreTypes, Writer
<1>2. PICK e \in {Exchange(r), Question(r)} : todo' = [todo EXCEPT ![r] = e]
  BY DEF CommitExchange, WillWrite
<1>3. Kept = history /\ Kept' = Finished(history, e)
  BY <1>1, <1>2, KeptTaken
<1>4. e \in Seq(Message)
  BY ExchangeIs
<1>5. Finished(history, e) = history \o e
  BY <1>1, <1>4, PageIs, Zenon
<1> QED BY <1>1, <1>3, <1>5

\* A fold replaces the history by the rest, or cuts it, or leaves it.
LEMMA FoldKept ==
    ASSUME StoreTypes, FoldTypes, PenInv, FoldStep \/ IdleFold
    PROVE  /\ history' = history
           /\ \/ Kept' = Kept
              \/ /\ SaveRecap /\ Kept = history /\ Kept' = fold.rest /\ recap' = fold.draft
                 /\ holder' = "fold"
              \/ /\ fold.pc = "asking" /\ fold'.pc = "rewriting" /\ Len(history) > Hard
                 /\ Kept = history /\ PartOf(Kept', history) /\ holder' = "fold"
<1>1. /\ history' = history /\ history \in Seq(Message) /\ "fold" \in Writer
      /\ fold.rest \in Seq(Message) /\ "fold" # "nobody"
  BY OthersLeaveStore DEF storeVars, StoreTypes, Writer, FoldTypes
<1>2. Finished(history, <<>>) = history
  <2>1. Finished(history, <<>>) = history \o <<>>
    BY <1>1, PagesAre, PageIs
  <2> QED BY <1>1, <2>1, ConcatEmptySeq
<1>3. CASE UNCHANGED <<holder, todo>>
  BY <1>1, <1>3, KeptUnchanged
<1>4. CASE SizeFold \/ IdleFold
  BY <1>3, <1>4 DEF SizeFold, IdleFold
<1>5. CASE CheckPrefix
  <2>1. holder = "nobody" /\ todo' = todo
    BY <1>5 DEF CheckPrefix
  <2>2. CASE holder' = "fold"
    <3>1. todo["fold"] = <<>>
      BY <1>1, <2>1 DEF PenInv
    <3>2. Kept = history /\ Kept' = Finished(history, <<>>)
      BY <1>1, <2>1, <2>2, <3>1, KeptIs
    <3> QED BY <1>1, <1>2, <3>2
  <2> QED BY <1>3, <1>5, <2>1, <2>2 DEF CheckPrefix
<1>6. CASE SaveRecap
  <2>1. holder = "fold" /\ todo["fold"] = <<>>
    BY <1>6 DEF SaveRecap, PenInv
  <2>2. CASE holder' = "nobody" /\ todo' = todo
    BY <1>1, <2>1, <2>2, KeptGiven
  <2>3. CASE recap' = fold.draft /\ WillWrite("fold", <<Wipe>> \o fold.rest) /\ holder' = holder
    <3> DEFINE t == fold.rest
    <3>1. Kept = history
      BY <1>1, <1>2, <2>1, KeptIs
    <3>2. todo'["fold"] = <<Wipe>> \o t
      BY <1>1, <2>3 DEF WillWrite, PenInv
    <3>3. Kept' = Finished(history, <<Wipe>> \o t)
      BY <1>1, <2>1, <2>3, <3>2, KeptIs, Zenon
    <3>4. t \in Seq(Message)
      BY <1>1
    <3> HIDE DEF t
    <3>5. Finished(history, <<Wipe>> \o t) = t
      BY <1>1, <3>4, PageIs, Zenon
    <3>6. Kept' = t
      BY <3>3, <3>5
    <3> QED BY <1>1, <1>6, <2>1, <2>3, <3>1, <3>6 DEF t
  <2> QED BY <1>6, <2>2, <2>3 DEF SaveRecap
<1>7. CASE HardTrim
  <2>1. fold.pc = "asking" /\ holder = "nobody"
    BY <1>7 DEF HardTrim
  <2> DEFINE c == CutForSize(history, MaxContext)
             t == SubSeq(history, c + 1, Len(history))
             s == <<Wipe>> \o t
  <2>2. CASE /\ Len(history) > Hard /\ holder' = "fold" /\ WillWrite("fold", s)
             /\ fold' = [NoFold EXCEPT !.pc = "rewriting"]
    <3>1. fold'.pc = "rewriting"
      BY <2>2 DEF NoFold
    <3>2. c \in 0..Len(history)
      BY <1>1, CutForSizeIs, SizeAssumption
    <3>3. t \in Seq(Message) /\ PartOf(t, history)
      <4> HIDE DEF c
      <4>1. PartOf(t, history)
        BY <1>1, <3>2, PartsAre
      <4>2. t \in Seq(Message)
        BY <1>1, <3>2
      <4> QED BY <4>1, <4>2
    <3>4. todo' = [todo EXCEPT !["fold"] = s]
      BY <2>2 DEF WillWrite
    <3>5. Kept = history /\ Kept' = Finished(history, s)
      <4> HIDE DEF s
      <4> QED BY <1>1, <2>1, <2>2, <3>4, KeptTaken
    <3> HIDE DEF t
    <3>6. Finished(history, <<Wipe>> \o t) = t
      BY <1>1, <3>3, PageIs, Zenon
    <3>7. Kept' = t
      BY <3>5, <3>6
    <3> QED BY <1>1, <2>1, <2>2, <3>1, <3>3, <3>5, <3>7
  <2>3. CASE UNCHANGED <<holder, todo>>
    BY <1>3, <2>3
  <2> QED BY <1>7, <2>2, <2>3 DEF HardTrim
<1>8. CASE FoldEnds
  <2>1. holder = "fold" /\ todo["fold"] = <<>> /\ holder' = "nobody"
    BY <1>8 DEF FoldEnds, Release, Written
  <2> QED BY <1>1, <2>1, KeptGiven
<1> QED BY <1>4, <1>5, <1>6, <1>7, <1>8 DEF FoldStep

\* +reset empties the history; what its holder had left to write still comes.
LEMMA ResetKept ==
    ASSUME StoreTypes, PenInv, Reset
    PROVE  history' = <<>> /\ holder' = holder /\ PartOf(Kept', Kept)
<1>1. history' = <<>> /\ holder' = holder /\ todo' = todo /\ history \in Seq(Message)
  BY DEF Reset, Clear, StoreTypes
<1>2. CASE holder = "nobody"
  BY <1>1, <1>2, KeptIs, PartsAre
<1>3. CASE holder # "nobody"
  <2> DEFINE p == todo[holder]
  <2>1. Kept = Finished(history, p) /\ Kept' = Finished(<<>>, p) /\ p \in Pages
    BY <1>1, <1>3, KeptIs DEF PenInv
  <2> HIDE DEF p
  <2>2. CASE p \in Seq(Message)
    <3>1. Finished(history, p) = history \o p
      BY <1>1, <2>2, PageIs, Zenon
    <3>2. Finished(<<>>, p) = <<>> \o p
      BY <2>2, PagesAre, PageIs, Zenon
    <3>3. <<>> \o p = p
      BY <2>2, ConcatEmptySeq
    <3>4. PartOf(p, history \o p)
      BY <1>1, <2>2, JoinedParts
    <3> QED BY <1>1, <2>1, <3>1, <3>2, <3>3, <3>4
  <2>3. CASE \E t \in Seq(Message) : p = <<Wipe>> \o t
    <3>1. PICK t \in Seq(Message) : p = <<Wipe>> \o t
      BY <2>3
    <3>2. Finished(history, <<Wipe>> \o t) = t
      BY <1>1, PageIs, Zenon
    <3>3. Finished(<<>>, <<Wipe>> \o t) = t
      BY PagesAre, PageIs, Zenon
    <3>4. Kept = t /\ Kept' = t
      BY <2>1, <3>1, <3>2, <3>3, Zenon
    <3> QED BY <1>1, <3>4, PartsAre
  <2> QED BY <2>1, <2>2, <2>3 DEF Pages
<1> QED BY <1>2, <1>3

\* A step leaves what the history comes to as it is, or is one of these.
LEMMA KeptNext ==
    ASSUME StateInv, [Next]_vars
    PROVE  \/ Kept' = Kept
           \/ Reset /\ PartOf(Kept', Kept)
           \/ Restart /\ Kept' = disk /\ holder' = "nobody"
           \/ Kept = history /\ Kept' = Purged(history)
           \/ \E r \in Request : /\ CommitExchange(r) /\ Kept = history
                                 /\ \E e \in {Exchange(r), Question(r)} : Kept' = history \o e
           \/ /\ SaveRecap /\ Kept = history /\ Kept' = fold.rest /\ recap' = fold.draft
              /\ holder' = "fold"
           \/ /\ fold.pc = "asking" /\ fold'.pc = "rewriting" /\ Len(history) > Hard
              /\ Kept = history /\ PartOf(Kept', history) /\ holder' = "fold"
<1>1. StoreTypes /\ FoldTypes /\ PenInv
  BY DEF StateInv
<1>2. ASSUME NEW r \in Request, Ask(r) \/ Answer(r) \/ Close(r) \/ Committed(r) \/ Quarantine(r)
      PROVE  \/ Kept' = Kept
             \/ Kept = history /\ Kept' = Purged(history)
  <2>1. r \in Writer
    BY DEF Writer
  <2>2. CASE Ask(r) \/ Answer(r) \/ Close(r)
    BY <2>2, KeptUnchanged DEF Ask, Answer, Close, storeVars
  <2>3. CASE Committed(r)
    <3>1. holder = r /\ todo[r] = <<>> /\ holder' = "nobody" /\ history' = history
      BY <2>3 DEF Committed, Release, Written, storeVars
    <3> QED BY <1>1, <2>1, <3>1, KeptGiven
  <2>4. CASE Quarantine(r)
    <3>1. FindTurns(r) \/ TurnsDropped(r)
      BY <2>4 DEF Quarantine
    <3> QED BY <1>1, <2>1, <3>1, FindTurnsIs, TurnsDroppedIs
  <2> QED BY <1>2, <2>2, <2>3, <2>4
<1>3. ASSUME NEW r \in Request, CommitExchange(r)
      PROVE  Kept = history /\ \E e \in {Exchange(r), Question(r)} : Kept' = history \o e
  BY <1>1, <1>3, CommitIs
<1>4. ASSUME NEW w \in Writer, WriteNext(w) PROVE Kept' = Kept
  BY <1>1, <1>4, WriteKeepsKept
<1>5. CASE FoldStep \/ IdleFold
  BY <1>1, <1>5, FoldKept
<1>6. CASE Flush \/ RecapCommand \/ UNCHANGED vars
  <2>1. UNCHANGED <<history, holder, todo>>
    BY <1>6 DEF Flush, FlushTake, FlushWrite, FlushFails, RecapCommand, storeVars, vars,
                convVars
  <2> QED BY <2>1, KeptUnchanged
<1>7. CASE Reset
  BY <1>1, <1>7, ResetKept
<1>8. CASE Screen
  <2>1. "screen" \in Writer
    BY DEF Writer
  <2>2. UNCHANGED <<history, holder, todo>> \/ FindTurns("screen") \/ TurnsDropped("screen")
    BY <1>8 DEF Screen, storeVars
  <2> QED BY <1>1, <2>1, <2>2, KeptUnchanged, FindTurnsIs, TurnsDroppedIs
<1>9. CASE Restart
  <2>1. holder' = "nobody" /\ history' = disk
    BY <1>9 DEF Restart, Restore
  <2>2. Kept' = disk
    BY <2>1, KeptIs
  <2> QED BY <1>9, <2>1, <2>2
<1>10. CASE \E r \in Request : Ask(r) \/ Answer(r) \/ RequestStep(r)
  <2>1. PICK r \in Request : Ask(r) \/ Answer(r) \/ RequestStep(r)
    BY <1>10
  <2>2. CASE CommitExchange(r)
    BY <1>3, <2>2
  <2>3. CASE Ask(r) \/ Answer(r) \/ Close(r) \/ Committed(r) \/ Quarantine(r)
    BY <1>2, <2>3
  <2> QED BY <2>1, <2>2, <2>3 DEF RequestStep
<1> QED BY <1>4, <1>5, <1>6, <1>7, <1>8, <1>9, <1>10 DEF Next

\* The history, the row and the rest a fold keeps are parts of what there was.
LEMMA StoreNext ==
    ASSUME StateInv, [Next]_vars
    PROVE  /\ PartOf(history', history) \/ PartOf(history', Kept) \/ history' = disk
           /\ disk' \in {disk, history}
           /\ PartOf(fold'.rest, fold.rest) \/ PartOf(fold'.rest, history)
<1>1. /\ StoreTypes /\ FoldTypes /\ PenInv /\ history \in Seq(Message) /\ fold.rest \in Seq(Message)
      /\ Kept \in Seq(Message)
  BY KeptTypes DEF StateInv, StoreTypes, FoldTypes
<1>2. PartOf(history, history) /\ PartOf(fold.rest, fold.rest) /\ PartOf(<<>>, history)
  BY <1>1, PartsAre
<1>3. ASSUME NEW r \in Request, Ask(r) \/ Answer(r) \/ RequestStep(r)
      PROVE  UNCHANGED <<history, disk, fold>>
  <2>1. UNCHANGED storeVars
    BY <1>3, RequestLeavesStore
  <2>2. fold' = fold
    BY <1>3 DEF Ask, Answer, RequestStep, CommitExchange, Committed, Close, Quarantine,
                FindTurns,
                TurnsDropped
  <2> QED BY <2>1, <2>2 DEF storeVars
<1>4. ASSUME NEW w \in Writer, WriteNext(w)
      PROVE  PartOf(history', Kept) /\ disk' = disk /\ fold' = fold
  <2>1. disk' = disk /\ fold' = fold
    BY <1>4 DEF WriteNext, Clear, AddMessage
  <2> QED BY <1>1, <1>4, <2>1, WriteKeepsKept
<1>5. CASE Flush
  <2>1. history' = history /\ disk' \in {disk, history} /\ fold' = fold
    BY <1>5 DEF Flush, FlushTake, FlushWrite, FlushFails, convVars
  <2> QED BY <1>2, <2>1
<1>6. CASE FoldStep \/ IdleFold
  <2>1. history' = history /\ disk' = disk
    BY <1>6, OthersLeaveStore DEF storeVars
  <2>2. PartOf(fold'.rest, fold.rest) \/ PartOf(fold'.rest, history)
    <3>1. ASSUME fold'.rest = <<>> PROVE PartOf(fold'.rest, history)
      BY <1>2, <3>1
    <3>2. CASE SizeFold \/ IdleFold
      <4>1. fold' = fold \/ fold'.rest = <<>>
        BY <3>2 DEF SizeFold, IdleFold, BeginFold, NoFold
      <4> QED BY <1>2, <3>1, <4>1
    <3>3. CASE CheckPrefix
      <4>1. CASE ~IsPrefix(fold.old, history)
        BY <3>1, <3>3, <4>1, NoFoldIs DEF CheckPrefix
      <4>2. CASE IsPrefix(fold.old, history)
        <5>1. fold'.rest = SubSeq(history, Len(fold.old) + 1, Len(history))
          BY <1>1, <3>3, <4>2 DEF CheckPrefix, FoldTypes
        <5>2. Len(fold.old) \in 0..Len(history)
          <6>1. Len(fold.old) \in Nat /\ Len(history) \in Nat
            BY <1>1 DEF FoldTypes
          <6> QED BY <4>2, <6>1 DEF IsPrefix
        <5> QED BY <1>1, <5>1, <5>2, PartsAre
      <4> QED BY <4>1, <4>2
    <3>4. CASE SaveRecap \/ HardTrim \/ FoldEnds
      <4>1. fold'.rest = <<>>
        BY <3>4 DEF SaveRecap, HardTrim, FoldEnds, NoFold
      <4> QED BY <3>1, <4>1
    <3> QED BY <1>6, <3>2, <3>3, <3>4 DEF FoldStep
  <2> QED BY <1>2, <2>1, <2>2
<1>7. CASE Reset
  <2>1. history' = <<>> /\ disk' = disk /\ fold' = fold
    BY <1>7 DEF Reset, Clear
  <2> QED BY <1>2, <2>1
<1>8. CASE Restart
  <2>1. history' = disk /\ disk' = disk /\ fold'.rest = <<>>
    BY <1>8, NoFoldIs DEF Restart, Restore
  <2> QED BY <1>2, <2>1
<1>9. CASE RecapCommand \/ Screen \/ UNCHANGED vars
  <2>1. UNCHANGED <<history, disk, fold>>
    BY <1>9 DEF RecapCommand, Screen, FindTurns, TurnsDropped, storeVars, vars, convVars
  <2> QED BY <1>2, <2>1
<1>10. ASSUME UNCHANGED <<history, disk, fold>>
       PROVE  /\ PartOf(history', history) /\ disk' \in {disk, history}
              /\ PartOf(fold'.rest, fold.rest)
  BY <1>2, <1>10
<1>11. CASE \E r \in Request : Ask(r) \/ Answer(r) \/ RequestStep(r)
  BY <1>3, <1>10, <1>11
<1>12. CASE \E w \in Writer : WriteNext(w)
  BY <1>2, <1>4, <1>12
<1> QED BY <1>5, <1>6, <1>7, <1>8, <1>9, <1>11, <1>12 DEF Next

-----------------------------------------------------------------------------
(***************************************************************************)
(* The invariant of the conversation.  The history, the row, what the      *)
(* history comes to and the rest a fold keeps are whole; none of them has  *)
(* a message of a request that has not committed; +screen keeps no turn of *)
(* the screened speaker; a fold's draft tells of the turns it will drop,   *)
(* and what it looked at twice is what it drops and what it keeps.         *)
(***************************************************************************)
Wholes == Whole(history) /\ Whole(disk) /\ Whole(Kept) /\ Whole(fold.rest)

Told == Turns(history) \cup Turns(disk) \cup Turns(Kept) \cup Turns(fold.rest)

Early == {"idle", "asked", "answered", "failed"}

Fresh == \A r \in Request : pc[r] \in Early => r \notin Told

ScreenInv == holder = "screen" => NoSuspect(Kept)

DraftTells == fold.pc \in {"asking", "checked"} =>
                 \A i \in 1..Len(fold.old) : fold.old[i].of \in fold.draft \cup Suspect

CheckedIsAll == fold.pc = "checked" =>
                   \A m \in ToSet(history) : m \in ToSet(fold.old) \cup ToSet(fold.rest)

TalkInv == Wholes /\ Fresh /\ ScreenInv /\ DraftTells /\ CheckedIsAll

LEMMA MessagesAre ==
    ASSUME NEW S, NEW s \in Seq(S)
    PROVE  /\ ToSet(s) = {s[i] : i \in 1..Len(s)}
           /\ \A i \in 1..Len(s) : s[i] \in ToSet(s)
           /\ \A m \in ToSet(s) : \E i \in 1..Len(s) : m = s[i]
<1>1. ToSet(s) = {s[i] : i \in 1..Len(s)}
  BY DEF ToSet
<1> QED BY <1>1

\* An exchange adds one request to a conversation, and its messages are the last.
LEMMA ExchangeJoins ==
    ASSUME NEW s \in Seq(Message), NEW r \in Request, NEW e \in {Exchange(r), Question(r)}
    PROVE  Turns(s \o e) \subseteq Turns(s) \cup {r} /\ ToSet(s) \subseteq ToSet(s \o e)
<1> DEFINE u == s \o e
<1>1. e \in Seq(Message) /\ \A i \in 1..Len(e) : e[i].of = r
  BY ExchangeIs
<1>2. /\ u \in Seq(Message) /\ Len(s) \in Nat /\ Len(e) \in Nat /\ Len(u) = Len(s) + Len(e)
      /\ \A i \in 1..Len(s) : i \in 1..Len(u) /\ u[i] = s[i]
      /\ \A i \in 1..Len(u) : i > Len(s) => i - Len(s) \in 1..Len(e) /\ u[i] = e[i - Len(s)]
  BY <1>1
<1> HIDE DEF u
<1>3. ToSet(s) \subseteq ToSet(u)
  <2>1. \A m \in ToSet(s) : \E i \in 1..Len(s) : m = s[i]
    BY MessagesAre
  <2>2. \A i \in 1..Len(u) : u[i] \in ToSet(u)
    BY <1>2, MessagesAre
  <2> QED BY <1>2, <2>1, <2>2
<1>4. ASSUME NEW q \in Turns(u) PROVE q \in Turns(s) \cup {r}
  <2>1. PICK i \in 1..Len(u) : u[i].of = q
    BY <1>2, TurnsAre
  <2>2. CASE i <= Len(s)
    <3>1. i \in 1..Len(s) /\ u[i] = s[i]
      BY <1>2, <2>2
    <3> QED BY <2>1, <3>1, TurnsAre
  <2>3. CASE i > Len(s)
    BY <1>1, <1>2, <2>1, <2>3
  <2> QED BY <1>2, <2>2, <2>3
<1> QED BY <1>3, <1>4 DEF u

LEMMA WholesNext ==
    ASSUME StateInv, TalkInv, [Next]_vars
    PROVE  Wholes'
<1>1. /\ history \in Seq(Message) /\ disk \in Seq(Message) /\ Kept \in Seq(Message)
      /\ fold.rest \in Seq(Message)
      /\ Whole(history) /\ Whole(disk) /\ Whole(Kept) /\ Whole(fold.rest)
  BY KeptTypes DEF StateInv, StoreTypes, FoldTypes, TalkInv, Wholes
<1>2. Whole(history') /\ Whole(disk') /\ Whole(fold'.rest)
  BY <1>1, StoreNext, PartIsWholeToo
<1>3. Whole(Kept')
  <2>1. ASSUME NEW r \in Request, CommitExchange(r), NEW e \in {Exchange(r), Question(r)},
               Kept' = history \o e
        PROVE  Whole(Kept')
    <3>1. /\ e \in Seq(Message) /\ e # <<>> /\ Whole(e) /\ e[1].role = "user" /\ Turns(e) = {r}
      BY ExchangeIs
    <3>2. r \notin Turns(history)
      BY <2>1 DEF CommitExchange, TalkInv, Fresh, Early, Told
    <3> QED BY <1>1, <2>1, <3>1, <3>2, WholeConcat
  <2>2. Whole(Purged(history))
    BY <1>1, PurgedIs
  <2>3. \A t : PartOf(t, Kept) \/ PartOf(t, history) => Whole(t)
    BY <1>1, PartIsWholeToo
  <2> QED BY <1>1, <2>1, <2>2, <2>3, KeptNext
<1> QED BY <1>2, <1>3 DEF Wholes

\* Whom any of the four tells of was told of before, or commits now.
LEMMA ToldNext ==
    ASSUME StateInv, TalkInv, [Next]_vars, NEW q \in Told'
    PROVE  q \in Told \/ (q \in Request /\ CommitExchange(q))
<1>1. /\ history \in Seq(Message) /\ disk \in Seq(Message) /\ Kept \in Seq(Message)
      /\ fold.rest \in Seq(Message)
      /\ Whole(history) /\ Whole(disk) /\ Whole(Kept) /\ Whole(fold.rest)
  BY KeptTypes DEF StateInv, StoreTypes, FoldTypes, TalkInv, Wholes
<1>2. /\ Turns(history) \subseteq Told /\ Turns(disk) \subseteq Told
      /\ Turns(Kept) \subseteq Told /\ Turns(fold.rest) \subseteq Told
  BY DEF Told
<1>3. \A t : PartOf(t, history) \/ PartOf(t, Kept) \/ PartOf(t, fold.rest)
                => \A o \in Turns(t) : o \in Told
  <2> SUFFICES ASSUME NEW t, PartOf(t, history) \/ PartOf(t, Kept) \/ PartOf(t, fold.rest),
                      NEW o \in Turns(t)
               PROVE  o \in Told
    OBVIOUS
  <2>1. o \in Turns(history) \/ o \in Turns(Kept) \/ o \in Turns(fold.rest)
    BY <1>1, PartIsWholeToo
  <2> QED BY <1>2, <2>1
<1>4. ASSUME NEW o \in Turns(history') PROVE o \in Told
  <2>1. \/ PartOf(history', history) \/ PartOf(history', Kept)
        \/ history' = disk
    BY StoreNext
  <2>2. CASE history' = disk
    BY <1>2, <1>4, <2>2
  <2> QED BY <1>3, <1>4, <2>1, <2>2
<1>5. Turns(disk') \subseteq Told
  BY <1>2, StoreNext
<1>6. ASSUME NEW o \in Turns(fold'.rest) PROVE o \in Told
  <2>1. PartOf(fold'.rest, fold.rest) \/ PartOf(fold'.rest, history)
    BY StoreNext
  <2> QED BY <1>3, <1>6, <2>1
<1>7. ASSUME NEW o \in Turns(Kept') PROVE o \in Told \/ (o \in Request /\ CommitExchange(o))
  <2>1. ASSUME NEW r \in Request, CommitExchange(r), NEW e \in {Exchange(r), Question(r)},
               Kept' = history \o e
        PROVE  o \in Told \/ (o \in Request /\ CommitExchange(o))
    <3>1. o \in Turns(history) \cup {r}
      BY <1>1, <1>7, <2>1, ExchangeJoins
    <3> QED BY <1>2, <2>1, <3>1
  <2>2. Turns(Purged(history)) \subseteq Told
    <3>1. Turns(Purged(history)) \subseteq Turns(history)
      BY <1>1, PurgedIs
    <3> QED BY <1>2, <3>1
  <2>3. CASE \E r \in Request : /\ CommitExchange(r)
                                /\ \E e \in {Exchange(r), Question(r)} : Kept' = history \o e
    BY <2>1, <2>3
  <2>4. CASE Kept' = Kept \/ Kept' = disk \/ Kept' = fold.rest \/ Kept' = Purged(history)
    BY <1>2, <1>7, <2>2, <2>4
  <2>5. CASE PartOf(Kept', Kept) \/ PartOf(Kept', history)
    BY <1>3, <1>7, <2>5
  <2> QED BY <2>3, <2>4, <2>5, KeptNext
<1> QED BY <1>4, <1>5, <1>6, <1>7 DEF Told

\* Nobody goes back before its commit.
LEMMA EarlyBefore ==
    ASSUME StateInv, [Next]_vars, NEW r \in Request, pc'[r] \in Early
    PROVE  pc[r] \in Early /\ ~CommitExchange(r)
<1>1. pc \in [Request -> Stage]
  BY DEF StateInv, QueueInv
<1>2. ~CommitExchange(r)
  <2> SUFFICES ASSUME CommitExchange(r) PROVE FALSE
    OBVIOUS
  <2>1. pc'[r] \in {"writing", "noting"}
    BY <1>1 DEF CommitExchange, Stay
  <2> QED BY <2>1 DEF Early
<1>3. CASE pc' = pc
  BY <1>2, <1>3
<1>4. ASSUME NEW q \in Request, Ask(q) \/ Answer(q) \/ RequestStep(q) PROVE pc[r] \in Early
  <2>1. pc[q] \in Early \/ pc'[q] \notin Early
    BY <1>1, <1>4 DEF Ask, Answer, RequestStep, CommitExchange, Committed, Close, Quarantine,
                      Stay,
                      Early
  <2>2. q # r => pc'[r] = pc[r]
    BY <1>1, <1>4 DEF Ask, Answer, RequestStep, CommitExchange, Committed, Close, Quarantine,
                      Stay
  <2> QED BY <2>1, <2>2
<1>5. CASE Restart
  BY <1>2, <1>5 DEF Restart, Early
<1>6. CASE \/ FoldStep \/ IdleFold \/ (Screen /\ UNCHANGED pc)
           \/ \E w \in Writer : WriteNext(w)
           \/ Flush \/ Reset \/ RecapCommand \/ UNCHANGED vars
  BY <1>3, <1>6 DEF FoldStep, IdleFold, SizeFold, CheckPrefix, SaveRecap, HardTrim, FoldEnds,
                    WriteNext, Flush, Reset, RecapCommand, vars, convVars
<1> QED BY <1>2, <1>4, <1>5, <1>6 DEF Next

LEMMA FreshNext ==
    ASSUME StateInv, TalkInv, [Next]_vars
    PROVE  Fresh'
<1> SUFFICES ASSUME NEW r \in Request, pc'[r] \in Early, r \in Told' PROVE FALSE
  BY DEF Fresh
<1>1. pc[r] \in Early /\ ~CommitExchange(r)
  BY EarlyBefore
<1>2. r \in Told
  BY <1>1, ToldNext
<1> QED BY <1>1, <1>2 DEF TalkInv, Fresh

\* +screen has the lock from its look, with the suspect's turns gone from what it will write.
LEMMA ScreenTakes ==
    ASSUME StateInv, [Next]_vars, holder # "screen", holder' = "screen"
    PROVE  Kept' = Purged(history)
<1>1. StoreTypes /\ FoldTypes /\ PenInv
  BY DEF StateInv
<1>2. CASE Screen
  <2>1. "screen" \in Writer
    BY DEF Writer
  <2>2. FindTurns("screen")
    BY <1>2 DEF Screen, TurnsDropped, Release
  <2>3. \/ holder' = "nobody"
        \/ Kept' = Purged(history)
    BY <1>1, <2>1, <2>2, FindTurnsIs
  <2> QED BY <2>3
<1>3. ASSUME NEW r \in Request, Ask(r) \/ Answer(r) \/ RequestStep(r) PROVE FALSE
  <2>1. r # "screen" /\ holder' \in {holder, "nobody", r}
    BY <1>3, WriterAssumption DEF Ask, Answer, RequestStep, CommitExchange, Committed, Close,
                                  Quarantine, FindTurns, TurnsDropped, Acquire, Release
  <2> QED BY <2>1
<1>4. CASE FoldStep \/ IdleFold
  <2>1. holder' \in {holder, "nobody", "fold"}
    BY <1>4 DEF FoldStep, IdleFold, SizeFold, CheckPrefix, SaveRecap, HardTrim, FoldEnds,
                Release
  <2> QED BY <2>1
<1>5. CASE \/ \E w \in Writer : WriteNext(w)
           \/ Flush \/ Reset \/ RecapCommand \/ Restart \/ UNCHANGED vars
  <2>1. holder' \in {holder, "nobody"}
    BY <1>5 DEF WriteNext, Flush, Reset, RecapCommand, Restart, vars, convVars
  <2> QED BY <2>1
<1> QED BY <1>2, <1>3, <1>4, <1>5 DEF Next

LEMMA ScreenInvNext ==
    ASSUME StateInv, TalkInv, [Next]_vars
    PROVE  ScreenInv'
<1> SUFFICES ASSUME holder' = "screen" PROVE NoSuspect(Kept')
  BY DEF ScreenInv
<1>1. /\ history \in Seq(Message) /\ Whole(history) /\ Kept \in Seq(Message) /\ Whole(Kept)
      /\ StoreTypes /\ PenInv
  BY KeptTypes DEF StateInv, StoreTypes, TalkInv, Wholes
<1>2. NoSuspect(Purged(history))
  BY <1>1, PurgedIs
<1>3. CASE holder # "screen"
  BY <1>2, <1>3, ScreenTakes
<1>4. CASE holder = "screen"
  <2>1. NoSuspect(Kept)
    BY <1>4 DEF TalkInv, ScreenInv
  <2>2. \A t : PartOf(t, Kept) => NoSuspect(t)
    BY <1>1, <2>1, PartIsWholeToo
  <2>3. ~ \E r \in Request : CommitExchange(r)
    BY <1>4 DEF CommitExchange, Acquire
  <2> QED BY <1>2, <2>1, <2>2, <2>3, KeptNext
<1> QED BY <1>3, <1>4

\* A draft tells of every message the fold looked at, but for those of a screened speaker's turns.
LEMMA TranscriptTells ==
    ASSUME NEW s \in Seq(Message), Whole(s), NEW i \in 1..Len(s)
    PROVE  s[i].of \in Transcript(s) \cup Suspect
<1>1. CASE BySuspect(s, i)
  BY <1>1, SuspectsTurn
<1>2. CASE ~BySuspect(s, i)
  <2>1. i \in {j \in DOMAIN s : ~(screening # "off" /\ BySuspect(s, j))}
    BY <1>2
  <2> QED BY <2>1 DEF Transcript
<1> QED BY <1>1, <1>2

LEMMA BeginTells ==
    ASSUME StateInv, TalkInv, NEW n \in 0..Len(history), BeginFold(n), fold.pc = "off"
    PROVE  DraftTells'
<1>1. StoreTypes /\ FoldTypes /\ history \in Seq(Message) /\ Whole(history)
  BY DEF StateInv, StoreTypes, TalkInv, Wholes
<1> DEFINE old == SubSeq(history, 1, n)
<1>2. CASE fold' = fold
  BY <1>2 DEF DraftTells
<1>3. CASE fold' = [pc |-> "asking", old |-> old, draft |-> recap \cup Transcript(old),
                    rest |-> <<>>]
  <2>1. old \in Seq(Message) /\ Whole(old)
    <3>1. SubSeq(history, 0 + 1, n) = old /\ 0 <= n /\ n \in Nat /\ n <= Len(history) /\ 0 \in Nat
      BY <1>1
    <3>2. SubSeq(history, 0 + 1, n) \in Seq(Message) /\ Whole(SubSeq(history, 0 + 1, n))
      BY <1>1, <3>1, PartIsWhole
    <3> HIDE DEF old
    <3> QED BY <3>1, <3>2
  <2> HIDE DEF old
  <2>2. fold'.old = old /\ fold'.draft = recap \cup Transcript(old)
    BY <1>3
  <2>3. \A i \in 1..Len(old) : old[i].of \in Transcript(old) \cup Suspect
    BY <2>1, TranscriptTells
  <2> QED BY <2>2, <2>3 DEF DraftTells
<1> QED BY <1>1, <1>2, <1>3, BeginFoldIs

LEMMA DraftNext ==
    ASSUME StateInv, TalkInv, [Next]_vars
    PROVE  DraftTells'
<1>1. /\ DraftTells /\ history \in Seq(Message) /\ FoldTypes
  BY DEF StateInv, StoreTypes, TalkInv
<1>2. CASE fold' = fold
  BY <1>1, <1>2 DEF DraftTells
<1>3. CASE fold'.pc \notin {"asking", "checked"}
  BY <1>3 DEF DraftTells
<1>4. ASSUME NEW r \in Request, Ask(r) \/ Answer(r) \/ RequestStep(r) PROVE DraftTells'
  <2>1. fold' = fold
    BY <1>4 DEF Ask, Answer, RequestStep, CommitExchange, Committed, Close, Quarantine,
                FindTurns,
                TurnsDropped
  <2> QED BY <1>2, <2>1
<1>5. CASE SizeFold
  <2>1. fold' = fold \/ (fold.pc = "off" /\ BeginFold(CutForSize(history, Keep)))
    BY <1>5 DEF SizeFold
  <2>2. CutForSize(history, Keep) \in 0..Len(history)
    BY <1>1, CutForSizeIs, SizeAssumption
  <2> QED BY <1>2, <2>1, <2>2, BeginTells
<1>6. CASE IdleFold
  <2>1. fold.pc = "off" /\ BeginFold(CutKeepTurns(history, KeepTurns))
    BY <1>6 DEF IdleFold
  <2>2. CutKeepTurns(history, KeepTurns) \in 0..Len(history)
    BY <1>1, CutKeepTurnsIs, SizeAssumption
  <2> QED BY <2>1, <2>2, BeginTells
<1>7. CASE CheckPrefix
  <2>1. CASE ~IsPrefix(fold.old, history)
    BY <1>3, <1>7, <2>1, NoFoldIs DEF CheckPrefix
  <2>2. CASE IsPrefix(fold.old, history)
    <3> DEFINE rest == SubSeq(history, Len(fold.old) + 1, Len(history))
    <3>1. fold' = [fold EXCEPT !.pc = "checked", !.rest = rest]
      BY <1>7, <2>2 DEF CheckPrefix
    <3> HIDE DEF rest
    <3>2. fold'.old = fold.old /\ fold'.draft = fold.draft /\ fold.pc = "asking"
      BY <1>1, <1>7, <3>1 DEF FoldTypes, CheckPrefix
    <3> QED BY <1>1, <3>2 DEF DraftTells
  <2> QED BY <2>1, <2>2
<1>8. CASE SaveRecap \/ HardTrim \/ FoldEnds \/ Restart
  <2>1. fold'.pc \in {"off", "rewriting"}
    BY <1>8 DEF SaveRecap, HardTrim, FoldEnds, Restart, NoFold
  <2> QED BY <1>3, <2>1
<1>9. CASE \/ \E w \in Writer : WriteNext(w)
           \/ Flush \/ Reset \/ RecapCommand \/ Screen \/ UNCHANGED vars
  <2>1. fold' = fold
    BY <1>9 DEF WriteNext, Flush, Reset, RecapCommand, Screen, FindTurns, TurnsDropped, vars,
                convVars
  <2> QED BY <1>2, <2>1
<1> QED BY <1>4, <1>5, <1>6, <1>7, <1>8, <1>9 DEF Next, FoldStep

\* A history that begins with what was folded is that and the rest.
LEMMA PrefixAndRest ==
    ASSUME NEW s \in Seq(Message), NEW t \in Seq(Message), IsPrefix(t, s)
    PROVE  \A m \in ToSet(s) : m \in ToSet(t) \cup ToSet(SubSeq(s, Len(t) + 1, Len(s)))
<1> DEFINE n == Len(t)
           l == Len(s)
           rest == SubSeq(s, n + 1, l)
<1>1. /\ n \in Nat /\ l \in Nat /\ n <= l /\ l <= Len(s) /\ n <= Len(t) /\ n <= Len(s)
      /\ 0 \in Nat /\ 0 <= n /\ n - 0 = n
  BY DEF IsPrefix
<1>2. /\ rest \in Seq(Message) /\ Len(rest) = l - n
      /\ \A i \in 1..(l - n) : rest[i] = s[i + n]
  <2> HIDE DEF l, n
  <2> QED BY <1>1, SubSeqIs
<1>3. \A i \in 1..n : s[i] = t[i]
  <2>1. SubSeq(t, 1, n) = SubSeq(s, 1, n)
    BY DEF IsPrefix
  <2>2. ASSUME NEW i \in 1..n
        PROVE  SubSeq(t, 1, n)[i] = t[i] /\ SubSeq(s, 1, n)[i] = s[i]
    BY <1>1
  <2> QED BY <2>1, <2>2
<1>4. (\A i \in 1..n : t[i] \in ToSet(t)) /\ \A i \in 1..(l - n) : rest[i] \in ToSet(rest)
  <2> HIDE DEF rest
  <2> QED BY <1>2, MessagesAre
<1> SUFFICES ASSUME NEW m \in ToSet(s) PROVE m \in ToSet(t) \cup ToSet(rest)
  OBVIOUS
<1>5. PICK i \in 1..l : m = s[i]
  BY MessagesAre
<1> HIDE DEF n, l, rest
<1>6. CASE i <= n
  <2>1. i \in 1..n
    BY <1>1, <1>6
  <2> QED BY <1>3, <1>4, <1>5, <2>1
<1>7. CASE i > n
  <2>1. i - n \in 1..(l - n) /\ (i - n) + n = i
    BY <1>1, <1>7
  <2> QED BY <1>2, <1>4, <1>5, <2>1
<1> QED BY <1>1, <1>6, <1>7

LEMMA CheckedNext ==
    ASSUME StateInv, TalkInv, [Next]_vars
    PROVE  CheckedIsAll'
<1> SUFFICES ASSUME fold'.pc = "checked"
             PROVE  \A m \in ToSet(history') : m \in ToSet(fold'.old) \cup ToSet(fold'.rest)
  BY DEF CheckedIsAll
<1>1. /\ CheckedIsAll /\ StoreTypes /\ FoldTypes /\ PenInv
      /\ history \in Seq(Message) /\ fold.old \in Seq(Message)
  BY DEF StateInv, StoreTypes, FoldTypes, TalkInv
<1>2. CASE fold' = fold /\ (history' = history \/ history' = <<>>)
  BY <1>1, <1>2, NothingIsWhole DEF CheckedIsAll
<1>3. ASSUME NEW r \in Request, Ask(r) \/ Answer(r) \/ RequestStep(r)
      PROVE  fold' = fold /\ history' = history
  <2>1. UNCHANGED storeVars
    BY <1>3, RequestLeavesStore
  <2>2. fold' = fold
    BY <1>3 DEF Ask, Answer, RequestStep, CommitExchange, Committed, Close, Quarantine,
                FindTurns,
                TurnsDropped
  <2> QED BY <2>1, <2>2 DEF storeVars
<1>4. ASSUME NEW w \in Writer, WriteNext(w) PROVE FALSE
  <2>1. fold.pc = "checked"
    BY <1>4 DEF WriteNext
  <2>2. w = holder /\ todo[w] # <<>>
    BY <1>1, <1>4, WriteNextIs
  <2> QED BY <1>1, <2>1, <2>2 DEF PenInv
<1>5. CASE SizeFold \/ IdleFold
  <2>1. history' = history
    BY <1>5, OthersLeaveStore DEF storeVars, FoldStep
  <2>2. fold' = fold \/ fold'.pc = "asking"
    BY <1>5 DEF SizeFold, IdleFold, BeginFold, NoFold
  <2> QED BY <1>2, <2>1, <2>2
<1>6. CASE CheckPrefix
  <2>1. IsPrefix(fold.old, history)
    BY <1>6, NoFoldIs DEF CheckPrefix
  <2> DEFINE rest == SubSeq(history, Len(fold.old) + 1, Len(history))
  <2>2. fold' = [fold EXCEPT !.pc = "checked", !.rest = rest] /\ history' = history
    BY <1>6, <2>1 DEF CheckPrefix, storeVars
  <2>3. \A m \in ToSet(history) : m \in ToSet(fold.old) \cup ToSet(rest)
    BY <1>1, <2>1, PrefixAndRest
  <2> HIDE DEF rest
  <2>4. fold'.old = fold.old /\ fold'.rest = rest
    BY <1>1, <2>2 DEF FoldTypes
  <2> QED BY <2>2, <2>3, <2>4
<1>7. CASE SaveRecap \/ HardTrim \/ FoldEnds \/ Restart
  <2>1. fold'.pc \in {"off", "rewriting"}
    BY <1>7 DEF SaveRecap, HardTrim, FoldEnds, Restart, NoFold
  <2> QED BY <2>1
<1>8. CASE Flush \/ Reset \/ RecapCommand \/ Screen \/ UNCHANGED vars
  <2>1. fold' = fold /\ (history' = history \/ history' = <<>>)
    BY <1>8 DEF Flush, FlushTake, FlushWrite, FlushFails, Reset, Clear, RecapCommand, Screen,
                FindTurns, TurnsDropped, storeVars, vars, convVars
  <2> QED BY <1>2, <2>1
<1>9. CASE \E r \in Request : Ask(r) \/ Answer(r) \/ RequestStep(r)
  BY <1>2, <1>3, <1>9
<1> QED BY <1>4, <1>5, <1>6, <1>7, <1>8, <1>9 DEF Next, FoldStep

-----------------------------------------------------------------------------
(* The properties of the conversation. *)

LEMMA TalkInvInit == Init => TalkInv
<1> SUFFICES ASSUME Init PROVE TalkInv
  OBVIOUS
<1>1. history = <<>> /\ disk = <<>> /\ Kept = <<>> /\ fold.rest = <<>> /\ fold.pc = "off"
  BY NoFoldIs DEF Init, StoreInit, Kept
<1>2. holder # "screen"
  BY DEF Init
<1> QED BY <1>1, <1>2, NothingIsWhole DEF TalkInv, Wholes, Fresh, Told, ScreenInv, DraftTells,
                                          CheckedIsAll

LEMMA TalkInvNext == StateInv /\ TalkInv /\ [Next]_vars => TalkInv'
  BY WholesNext, FreshNext, ScreenInvNext, DraftNext, CheckedNext DEF TalkInv

\* Both invariants hold of every behaviour.
LEMMA AlwaysTalkInv == Spec => [](StateInv /\ TalkInv)
<1>1. Init => StateInv /\ TalkInv
  BY StateInvInit, TalkInvInit
<1>2. (StateInv /\ TalkInv) /\ [Next]_vars => (StateInv /\ TalkInv)'
  BY StateInvNext, TalkInvNext
<1> QED BY <1>1, <1>2, PTL DEF Spec

\* A message of an exchange is the one at its place.
LEMMA PlaceInExchange ==
    ASSUME NEW r \in Request, NEW m \in Message, m.of = r, m.role = "tool" => r \in ToolUser
    PROVE  /\ Place(m) \in 1..Len(Exchange(r)) /\ Exchange(r)[Place(m)] = m
           /\ Exchange(r) \in Seq(Message)
<1> DEFINE q == Says(r, "user")  t == Says(r, "tool")  a == Says(r, "assistant")
           e == Exchange(r)
<1>1. e \in Seq(Message)
  BY ExchangeIs
<1>2. /\ Place(q) = 1 /\ Place(t) = 2 /\ Place(a) = (IF r \in ToolUser THEN 3 ELSE 2)
      /\ q.role = "user" /\ t.role = "tool" /\ a.role = "assistant"
  BY DEF Says, Place
<1>3. m \in {q, t, a} /\ (m = t => r \in ToolUser)
  <2>1. m.role \in {"user", "tool", "assistant"} /\ m = [of |-> r, role |-> m.role]
    BY MessageIs
  <2> QED BY <2>1 DEF Says
<1>4. CASE r \in ToolUser
  <2>1. e = <<q, t, a>>
    <3>1. e = (<<q>> \o <<t>>) \o <<a>>
      BY <1>4 DEF Exchange, Question
    <3> HIDE DEF q, t, a, e
    <3> QED BY <3>1, TuplesConcat
  <2> HIDE DEF q, t, a, e
  <2>2. Len(e) = 3 /\ e[1] = q /\ e[2] = t /\ e[3] = a
    BY <2>1
  <2> QED BY <1>1, <1>2, <1>3, <1>4, <2>2 DEF e
<1>5. CASE r \notin ToolUser
  <2>1. e = <<q, a>>
    <3>1. e = (<<q>> \o <<>>) \o <<a>>
      BY <1>5 DEF Exchange, Question
    <3> HIDE DEF q, t, a, e
    <3> QED BY <3>1, TuplesConcat
  <2> HIDE DEF q, t, a, e
  <2>2. Len(e) = 2 /\ e[1] = q /\ e[2] = a
    BY <2>1
  <2> QED BY <1>1, <1>2, <1>3, <1>5, <2>2 DEF e
<1> QED BY <1>4, <1>5

\* In a whole history the messages of a request are an interval, and a part of its exchange.
LEMMA WholeIsTogether ==
    ASSUME history \in Seq(Message), Whole(history)
    PROVE  ExchangesStayTogether
<1> SUFFICES ASSUME NEW r \in Request, {i \in DOMAIN history : history[i].of = r} # {}
             PROVE  LET at == {i \in DOMAIN history : history[i].of = r}
                    IN  /\ at = Min(at)..Max(at)
                        /\ SubSeq(history, Min(at), Max(at)) \in SubSeqs(Exchange(r))
  BY DEF ExchangesStayTogether
<1> DEFINE at == {i \in DOMAIN history : history[i].of = r}
           n == Min(at)
           x == Max(at)
           e == Exchange(r)
<1>1. /\ Len(history) \in Nat /\ at # {}
      /\ \A i : i \in at <=> i \in 1..Len(history) /\ history[i].of = r
  OBVIOUS
<1> HIDE DEF at
<1>2. n \in at /\ \A i \in at : n <= i
  <2>1. \E k \in at : \A i \in at : k <= i
    <3>1. at \in SUBSET Nat
      BY <1>1
    <3> QED BY <1>1, <3>1, LeastExists
  <2> QED BY <2>1, Zenon DEF Min
<1>3. x \in at /\ \A i \in at : x >= i
  <2>1. \E k \in at : \A i \in at : i <= k
    <3>1. at \in SUBSET (0..Len(history))
      BY <1>1
    <3> QED BY <1>1, <3>1, GreatestExists
  <2>2. \E k \in at : \A i \in at : k >= i
    BY <1>1, <2>1
  <2> QED BY <2>2, Zenon DEF Max
<1> HIDE DEF n, x
<1>4. /\ n \in 1..Len(history) /\ x \in 1..Len(history) /\ n <= x
      /\ history[n].of = r /\ history[x].of = r
  BY <1>1, <1>2, <1>3
<1> DEFINE p == Place(history[n])
<1>5. p \in 1..3
  BY <1>4, MessageIs
<1> HIDE DEF p
<1>6. \A i \in n..x : i \in 1..Len(history) /\ history[i].of = r /\ Place(history[i]) = p + (i - n)
  <2> TAKE i \in n..x
  <2>0. i \in Nat /\ n \in Nat /\ x \in Nat /\ n <= i /\ i <= x
    BY <1>4
  <2>1. CASE i = n
    BY <1>4, <1>5, <2>0, <2>1 DEF p
  <2>2. CASE i # n
    <3>1. n < x
      BY <2>0, <2>2
    <3>2. \/ x = n + 1 /\ Follows(history[n], history[x])
          \/ /\ x = n + 2 /\ history[n + 1].of = history[n].of
             /\ Follows(history[n], history[n + 1]) /\ Follows(history[n + 1], history[x])
      BY <1>4, <3>1, NearInExchange
    <3>3. CASE x = n + 1 /\ Follows(history[n], history[x])
      <4>1. i = n + 1 /\ i = x /\ i - n = 1
        BY <2>0, <2>2, <3>3
      <4> QED BY <1>4, <3>3, <4>1 DEF Follows, p
    <3>4. CASE /\ x = n + 2 /\ history[n + 1].of = history[n].of
               /\ Follows(history[n], history[n + 1]) /\ Follows(history[n + 1], history[x])
      <4>1. n + 1 \in 1..Len(history) /\ ((i = n + 1 /\ i - n = 1) \/ (i = x /\ i - n = 2))
        BY <1>1, <1>4, <2>0, <2>2, <3>4
      <4>2. Place(history[n + 1]) = p + 1
        BY <3>4 DEF Follows, p
      <4>3. Place(history[x]) = p + 2
        <5>1. Place(history[x]) = Place(history[n + 1]) + 1
          BY <3>4 DEF Follows
        <5> QED BY <1>5, <4>2, <5>1
      <4> QED BY <1>4, <3>4, <4>1, <4>2, <4>3
    <3> QED BY <3>2, <3>3, <3>4
  <2> QED BY <2>1, <2>2
<1>7. at = n..x
  <2>1. \A i \in at : i \in n..x
    BY <1>1, <1>2, <1>3, <1>4
  <2>2. \A i \in n..x : i \in at
    BY <1>1, <1>6
  <2> QED BY <2>1, <2>2
<1>8. /\ e \in Seq(Message) /\ Len(e) \in Nat
      /\ \A i \in n..x : p + (i - n) \in 1..Len(e) /\ e[p + (i - n)] = history[i]
  <2>1. e \in Seq(Message)
    BY ExchangeIs
  <2>2. ASSUME NEW i \in n..x
        PROVE  p + (i - n) \in 1..Len(e) /\ e[p + (i - n)] = history[i]
    <3>1. history[i] \in Message /\ (history[i].role = "tool" => r \in ToolUser)
      BY <1>6 DEF Whole
    <3> QED BY <1>6, <3>1, PlaceInExchange
  <2> QED BY <2>1, <2>2
<1> HIDE DEF e
<1> DEFINE a == p - 1
           b == p + (x - n)
           u == SubSeq(history, (n - 1) + 1, x)
           v == SubSeq(e, a + 1, b)
<1>9. /\ a \in Nat /\ b \in Nat /\ a <= b /\ b <= Len(e) /\ b - a = x - (n - 1)
      /\ n - 1 \in Nat /\ x \in Nat /\ n - 1 <= x /\ x <= Len(history) /\ (n - 1) + 1 = n
      /\ a \in 0..Len(e) /\ b \in 0..Len(e)
  <2>1. x \in n..x /\ n \in n..x
    BY <1>4
  <2>2. p + (x - n) \in 1..Len(e)
    BY <1>8, <2>1
  <2> QED BY <1>4, <1>5, <1>8, <2>2
<1> HIDE DEF a, b
<1>10. /\ u \in Seq(Message) /\ Len(u) = x - (n - 1)
       /\ \A i \in 1..(x - (n - 1)) : u[i] = history[i + (n - 1)]
  <2> DEFINE k == n - 1
  <2>1. k \in Nat /\ x \in Nat /\ k <= x /\ x <= Len(history)
    BY <1>9
  <2> HIDE DEF k
  <2>2. /\ SubSeq(history, k + 1, x) \in Seq(Message) /\ Len(SubSeq(history, k + 1, x)) = x - k
        /\ \A i \in 1..(x - k) : SubSeq(history, k + 1, x)[i] = history[i + k]
    BY <2>1, SubSeqIs
  <2> QED BY <2>2 DEF k
<1>11. /\ v \in Seq(Message) /\ Len(v) = b - a /\ \A i \in 1..(b - a) : v[i] = e[i + a]
  BY <1>8, <1>9, SubSeqIs
<1> HIDE DEF u, v
<1>12. u = v
  <2>1. ASSUME NEW i \in 1..Len(u) PROVE u[i] = v[i]
    <3>1. i + (n - 1) \in n..x /\ p + ((i + (n - 1)) - n) = i + a
      BY <1>4, <1>5, <1>9, <1>10 DEF a
    <3>2. e[i + a] = history[i + (n - 1)]
      BY <1>8, <3>1
    <3> QED BY <1>9, <1>10, <1>11, <3>2
  <2> QED BY <1>9, <1>10, <1>11, <2>1, SeqEqual
<1>13. v \in SubSeqs(e)
  <2>1. \E i, j \in 0..Len(e) : v = SubSeq(e, i + 1, j)
    BY <1>9 DEF v
  <2> QED BY <2>1 DEF SubSeqs
<1>14. SubSeq(history, n, x) = u
  BY <1>9 DEF u
<1>15. at = n..x /\ SubSeq(history, n, x) \in SubSeqs(e)
  BY <1>7, <1>12, <1>13, <1>14
<1> QED BY <1>15 DEF at, n, x, e

\* What is in the history of one exchange is together, in its order and there once, whatever
\* commits, folds, quarantines, resets and restarts came between (commitExchange, CommitLock).
THEOREM ExchangesAreWhole == Spec => []ExchangesStayTogether
<1>1. StateInv /\ TalkInv => ExchangesStayTogether
  BY WholeIsTogether DEF StateInv, StoreTypes, TalkInv, Wholes
<1> QED BY <1>1, AlwaysTalkInv, PTL

-----------------------------------------------------------------------------
(* What the steps may never do. *)

LEMMA StepLosesNothing ==
    ASSUME StateInv, TalkInv, Next, ~(Reset \/ Restart), NEW m \in ToSet(Kept) \ ToSet(Kept')
    PROVE  \/ m.of \in recap'
           \/ m.of \in Suspect
           \/ fold.pc = "asking" /\ fold'.pc = "rewriting" /\ Len(history) > Hard
<1>1. /\ history \in Seq(Message) /\ Whole(history) /\ FoldTypes /\ PenInv
      /\ DraftTells /\ CheckedIsAll
  BY DEF StateInv, StoreTypes, TalkInv, Wholes
<1>2. CASE Kept = history /\ Kept' = Purged(history)
  BY <1>1, <1>2, PurgedIs
<1>3. CASE \E r \in Request : /\ CommitExchange(r) /\ Kept = history
                              /\ \E e \in {Exchange(r), Question(r)} : Kept' = history \o e
  BY <1>1, <1>3, ExchangeJoins
<1>4. CASE SaveRecap /\ Kept = history /\ Kept' = fold.rest /\ recap' = fold.draft
  <2>1. fold.pc = "checked" /\ fold.old \in Seq(Message)
    BY <1>1, <1>4 DEF SaveRecap, FoldTypes
  <2>2. m \in ToSet(fold.old)
    BY <1>1, <1>4, <2>1 DEF CheckedIsAll
  <2>3. PICK i \in 1..Len(fold.old) : m = fold.old[i]
    BY <2>1, <2>2, MessagesAre
  <2>4. m.of \in fold.draft \cup Suspect
    BY <1>1, <2>1, <2>3 DEF DraftTells
  <2> QED BY <1>4, <2>4
<1> QED BY <1>2, <1>3, <1>4, KeptNext

\* What leaves a conversation is in its recap, a suspect's, or cut because it is far too long and no
\* summary could be had (FoldContext, hardTrim, QuarantineSpeaker).
THEOREM NothingIsLost == Spec => NothingLost
<1>1. StateInv /\ TalkInv /\ [Next]_vars =>
        [~(Reset \/ Restart) =>
           \A m \in ToSet(Kept) \ ToSet(Kept') :
              \/ m.of \in recap'
              \/ m.of \in Suspect
              \/ fold.pc = "asking" /\ fold'.pc = "rewriting" /\ Len(history) > Hard]_vars
  BY StepLosesNothing
<1> QED BY <1>1, AlwaysTalkInv, PTL DEF Spec, NothingLost

LEMMA ScreenLeavesNothing ==
    ASSUME StateInv, TalkInv, Next, screening # "done", screening' = "done"
    PROVE  Purged(history') = history'
<1>1. /\ history \in Seq(Message) /\ StoreTypes /\ PenInv
      /\ RestTypes /\ ScreenInv /\ "screen" \in Writer
  BY DEF StateInv, StoreTypes, TalkInv, Writer
<1>2. CASE Screen
  <2>1. CASE FindTurns("screen") /\ Purged(history) = history
    BY <1>1, <2>1, FindTurnsIs
  <2>2. CASE TurnsDropped("screen")
    <3>1. Kept = history /\ history' = history /\ holder = "screen"
      BY <1>1, <2>2, TurnsDroppedIs
    <3>2. NoSuspect(history)
      BY <1>1, <3>1 DEF ScreenInv
    <3> QED BY <1>1, <3>1, <3>2, NothingToPurge
  <2> QED BY <1>2, <2>1, <2>2 DEF Screen
<1>3. ASSUME NEW r \in Request, Ask(r) \/ Answer(r) \/ RequestStep(r) PROVE FALSE
  BY <1>3 DEF Ask, Answer, RequestStep, CommitExchange, Committed, Close, Quarantine
<1>4. CASE FoldStep \/ IdleFold
  BY <1>4 DEF FoldStep, IdleFold, SizeFold, CheckPrefix, SaveRecap, HardTrim, FoldEnds
<1>5. CASE \/ \E w \in Writer : WriteNext(w)
           \/ Flush \/ Reset \/ RecapCommand \/ Restart
  BY <1>5 DEF WriteNext, Flush, Reset, RecapCommand, Restart, convVars
<1> QED BY <1>2, <1>3, <1>4, <1>5 DEF Next

\* When +screen has answered, no turn of the screened speaker is left (commands/screen.go).
THEOREM ScreenedAreGone == Spec => ScreenedLeaveTheHistory
<1>1. StateInv /\ TalkInv /\ [Next]_vars =>
        [screening # "done" /\ screening' = "done" => Purged(history') = history']_vars
  BY ScreenLeavesNothing
<1> QED BY <1>1, AlwaysTalkInv, PTL DEF Spec, ScreenedLeaveTheHistory
=============================================================================
