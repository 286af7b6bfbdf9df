------------------------ MODULE RequestLock_proofs ------------------------
(***************************************************************************)
(* The request lock's accounting, its bound and its wakeups, for every     *)
(* set of requests, every set of operators and every limit, and that it    *)
(* implements the FIFO semaphore.                                          *)
(***************************************************************************)
EXTENDS RequestLock, Queues_proofs

\* The inductive invariant: the parts need each other.
IInv == /\ TypeOK
        /\ QueueOK
        /\ HeldIsOwned
        /\ BoundedByHighestLimit

-----------------------------------------------------------------------------
(* The owners of the slots. *)

LEMMA OwnerFinite == IsFiniteSet(Owner) /\ Cardinality(Owner) \in Nat
BY RequestAssumption, FS_Subset, FS_CardinalityType DEF Owner

\* A request that takes a slot adds one owner.
LEMMA OwnerAdded ==
    ASSUME NEW r, r \notin Owner, Owner' = Owner \cup {r}
    PROVE  Cardinality(Owner') = Cardinality(Owner) + 1
BY OwnerFinite, FS_AddElement

\* A request that frees its slot takes one owner away.
LEMMA OwnerRemoved ==
    ASSUME NEW r \in Owner, Owner' = Owner \ {r}
    PROVE  Cardinality(Owner') = Cardinality(Owner) - 1
BY OwnerFinite, FS_RemoveElement

\* A step that moves nobody in or out of a slot keeps the count.
LEMMA OwnerKept ==
    ASSUME HeldIsOwned, BoundedByHighestLimit, Owner' = Owner, held' = held
    PROVE  HeldIsOwned' /\ BoundedByHighestLimit'
BY DEF HeldIsOwned, BoundedByHighestLimit

\* Who is granted, spelled out at both ends of a step.
LEMMA GrantedDef ==
    /\ \A r : Granted(r) <=> pc[r] = "waiting" /\ r \notin Waiting
    /\ \A r : Granted(r)' <=> pc'[r] = "waiting" /\ r \notin Waiting'
BY DEF Granted

-----------------------------------------------------------------------------
(* The critical sections of LockWithContext and Unlock. *)

LEMMA TakeFreeSlotStep ==
    ASSUME IInv, NEW r \in Request, TakeFreeSlot(r)
    PROVE  IInv'
<1> USE DEF IInv, TakeFreeSlot
<1>1. TypeOK'
  BY OperatorAssumption DEF TypeOK, Thread, RequestPC, OperatorPC
<1>2. QueueOK' /\ Waiting = {} /\ Waiting' = {}
  BY DEF QueueOK, Waiting, ToSet, TypeOK
<1>3. r \notin Owner /\ Owner' = Owner \cup {r}
  BY <1>2 DEF Owner, Granted, TypeOK, Thread
<1>4. HeldIsOwned'
  BY <1>3, OwnerAdded DEF HeldIsOwned
<1>5. BoundedByHighestLimit'
  BY MaxLimitAssumption DEF BoundedByHighestLimit, TypeOK
<1> QED BY <1>1, <1>2, <1>4, <1>5

LEMMA JoinWaitersStep ==
    ASSUME IInv, NEW r \in Request, JoinWaiters(r)
    PROVE  IInv'
<1> USE DEF IInv, JoinWaiters
<1>1. /\ waiters' \in Seq(Request) /\ Len(waiters') = Len(waiters) + 1
      /\ \A i \in 1..Len(waiters) : waiters'[i] = waiters[i]
      /\ waiters'[Len(waiters) + 1] = r
  BY AppendProperties DEF TypeOK
<1>2. Waiting' = Waiting \cup {r} /\ r \notin Waiting
  <2>1. Waiting' = Waiting \cup {r}
    <3>1. DOMAIN waiters' = 1..(Len(waiters) + 1) /\ DOMAIN waiters = 1..Len(waiters)
      BY <1>1 DEF TypeOK
    <3>2. \A i \in DOMAIN waiters' : i \in DOMAIN waiters \/ i = Len(waiters) + 1
      BY <3>1 DEF TypeOK
    <3>3. Len(waiters) + 1 \in DOMAIN waiters' /\ DOMAIN waiters \subseteq DOMAIN waiters'
      BY <3>1 DEF TypeOK
    <3> QED BY <1>1, <3>1, <3>2, <3>3 DEF Waiting, ToSet
  <2>2. r \notin Waiting
    BY DEF QueueOK
  <2> QED BY <2>1, <2>2
<1>3. TypeOK'
  BY <1>1, OperatorAssumption DEF TypeOK, Thread, RequestPC, OperatorPC
<1>4. QueueOK'
  <2>1. \A i, j \in DOMAIN waiters' : waiters'[i] = waiters'[j] => i = j
    <3>1. \A i \in DOMAIN waiters : waiters[i] # r
      BY <1>2 DEF Waiting, ToSet
    <3> QED BY <1>1, <3>1 DEF QueueOK, TypeOK
  <2>2. \A q \in Waiting' : pc'[q] = "waiting"
    BY <1>2 DEF QueueOK, TypeOK, Thread
  <2> QED BY <2>1, <2>2 DEF QueueOK
<1>5. Owner' = Owner
  BY <1>2 DEF Owner, Granted, TypeOK, Thread
<1> QED BY <1>3, <1>4, <1>5, OwnerKept

LEMMA WakeStep ==
    ASSUME IInv, NEW r \in Request, Wake(r) \/ NoticeGrantTooLate(r)
    PROVE  IInv'
<1> USE DEF IInv
<1>0. /\ UNCHANGED <<limit, held, waiters, seen>>
      /\ pc[r] = "waiting" /\ r \notin Waiting
  BY DEF Wake, NoticeGrantTooLate, Granted
<1>0a. PICK x \in {"holding", "giveback"} : pc' = [pc EXCEPT ![r] = x]
  BY DEF Wake, NoticeGrantTooLate
<1>1. TypeOK'
  BY <1>0, <1>0a, OperatorAssumption DEF TypeOK, Thread, RequestPC, OperatorPC
<1>2. Waiting' = Waiting
  BY <1>0 DEF Waiting
<1>3. QueueOK'
  BY <1>0, <1>0a, <1>2 DEF QueueOK, TypeOK, Thread
<1>4. Owner' = Owner
  BY <1>0, <1>0a, <1>2 DEF Owner, Granted, TypeOK, Thread
<1> QED BY <1>0, <1>1, <1>3, <1>4, OwnerKept

LEMMA LeaveWaitersStep ==
    ASSUME IInv, NEW r \in Request, LeaveWaiters(r)
    PROVE  IInv'
<1> USE DEF IInv
<1>1. PICK i \in DOMAIN waiters : waiters[i] = r /\ waiters' = RemoveAt(waiters, i)
  BY DEF LeaveWaiters
<1>2. /\ waiters' \in Seq(Request) /\ Injective(waiters')
      /\ Waiting' = Waiting \ {r}
  <2>1. Injective(waiters) /\ waiters \in Seq(Request)
    BY DEF QueueOK, Injective, TypeOK
  <2> QED BY <1>1, <2>1, RemoveFromQueue DEF Waiting
<1>3. /\ pc[r] = "waiting" /\ pc' = [pc EXCEPT ![r] = "idle"]
      /\ UNCHANGED <<limit, held, seen>> /\ r \in Waiting
  BY <1>1 DEF LeaveWaiters, Waiting, ToSet
<1>4. TypeOK'
  BY <1>2, <1>3 DEF TypeOK, Thread, RequestPC, OperatorPC
<1>5. QueueOK'
  BY <1>2, <1>3 DEF QueueOK, Injective, TypeOK, Thread
<1>6. Owner' = Owner
  BY <1>2, <1>3 DEF Owner, Granted, TypeOK, Thread
<1> QED BY <1>3, <1>4, <1>5, <1>6, OwnerKept

LEMMA UnlockStep ==
    ASSUME IInv, NEW r \in Request, Unlock(r)
    PROVE  IInv'
<1> USE DEF IInv, Unlock
<1>1. r \in Owner /\ Owner' = Owner \ {r}
  BY DEF Owner, Granted, Waiting, TypeOK, Thread
<1>2. held > 0
  BY <1>1, OwnerFinite, FS_EmptySet DEF HeldIsOwned
<1>3. TypeOK'
  BY <1>2 DEF TypeOK, Thread, RequestPC, OperatorPC
<1>4. QueueOK'
  BY DEF QueueOK, Waiting, TypeOK, Thread
<1>5. HeldIsOwned'
  BY <1>1, <1>2, OwnerRemoved DEF HeldIsOwned
<1>6. BoundedByHighestLimit'
  BY <1>2, MaxLimitAssumption DEF BoundedByHighestLimit, TypeOK
<1> QED BY <1>3, <1>4, <1>5, <1>6

-----------------------------------------------------------------------------
(* SetConcurrency, and the two halves of admit. *)

LEMMA SetConcurrencyStep ==
    ASSUME IInv, NEW o \in Operator, NEW n \in 0..MaxLimit, SetConcurrency(o, n)
    PROVE  IInv'
<1> USE DEF IInv, SetConcurrency
<1>1. TypeOK'
  BY MaxLimitAssumption, OperatorAssumption DEF TypeOK, Thread, RequestPC, OperatorPC
<1>2. QueueOK' /\ Waiting' = Waiting
  BY OperatorAssumption DEF QueueOK, Waiting, ToSet, TypeOK, Thread
<1>3. Owner' = Owner
  BY <1>2, OperatorAssumption DEF Owner, Granted, TypeOK, Thread
<1> QED BY <1>1, <1>2, <1>3, OwnerKept

LEMMA ReadLimitStep ==
    ASSUME IInv, NEW t \in Thread, ReadLimit(t)
    PROVE  IInv'
<1> USE DEF IInv, ReadLimit
<1>1. TypeOK'
  BY MaxLimitAssumption, OperatorAssumption DEF TypeOK, Thread, RequestPC, OperatorPC
<1>2. QueueOK' /\ Waiting' = Waiting
  BY DEF QueueOK, Waiting, ToSet, TypeOK, Thread
<1>3. Owner' = Owner
  BY <1>2 DEF Owner, Granted, TypeOK, Thread
<1> QED BY <1>1, <1>2, <1>3, OwnerKept

\* What the loop of admit does to the queue and to the owners.
LEMMA AdmitEffect ==
    ASSUME IInv, NEW t \in Thread, Admit(t)
    PROVE  LET k == Admits(seen[t])
               pre == ToSet(SubSeq(waiters, 1, k))
           IN  /\ k \in 0..Len(waiters)
               /\ held' = held + k
               /\ waiters' = SubSeq(waiters, k + 1, Len(waiters))
               /\ waiters' \in Seq(Request) /\ Injective(waiters')
               /\ Waiting' = Waiting \ pre
               /\ pre \subseteq Waiting
               /\ pre \cap Owner = {}
               /\ Owner' = Owner \cup pre
               /\ IsFiniteSet(pre) /\ Cardinality(pre) = k
<1> DEFINE k == Admits(seen[t])
           pre == ToSet(SubSeq(waiters, 1, k))
           post == ToSet(SubSeq(waiters, k + 1, Len(waiters)))
<1>1. waiters \in Seq(Request) /\ Injective(waiters) /\ held \in Nat /\ seen[t] \in Nat
  BY DEF IInv, TypeOK, QueueOK, Injective
<1>2. k \in 0..Len(waiters)
  BY <1>1 DEF Admits
<1> HIDE DEF k
<1>3. /\ held' = held + k /\ waiters' = SubSeq(waiters, k + 1, Len(waiters))
      /\ pc[t] = "admitting" /\ pc' = [pc EXCEPT ![t] = "idle"]
  BY DEF Admit, k
<1>4. /\ waiters' \in Seq(Request) /\ Injective(waiters')
      /\ pre \cup post = Waiting /\ pre \cap post = {} /\ pre \subseteq Request
      /\ post = Waiting'
  BY <1>1, <1>2, <1>3, SplitQueue DEF Waiting
<1>5. IsFiniteSet(pre) /\ Cardinality(pre) = k
  BY <1>1, <1>2, PrefixCardinality
<1> HIDE DEF pre, post
<1>6. \A r \in pre : pc[r] = "waiting" /\ r \in Waiting /\ r # t
  BY <1>3, <1>4 DEF IInv, QueueOK
<1>7. pre \cap Owner = {}
  BY <1>6 DEF Owner, Granted
<1>8. Owner' = Owner \cup pre
  BY <1>3, <1>4, <1>6 DEF Owner, Granted, IInv, TypeOK, Thread
<1>9. Waiting' = Waiting \ pre /\ pre \subseteq Waiting
  BY <1>4
<1> QED BY <1>2, <1>3, <1>4, <1>5, <1>7, <1>8, <1>9 DEF k, pre

LEMMA AdmitStepInv ==
    ASSUME IInv, NEW t \in Thread, Admit(t)
    PROVE  IInv'
<1> DEFINE k == Admits(seen[t])
           pre == ToSet(SubSeq(waiters, 1, k))
<1>1. /\ k \in 0..Len(waiters) /\ held' = held + k
      /\ waiters' \in Seq(Request) /\ Injective(waiters')
      /\ Waiting' \subseteq Waiting /\ pre \cap Owner = {} /\ Owner' = Owner \cup pre
      /\ IsFiniteSet(pre) /\ Cardinality(pre) = k
  BY AdmitEffect
<1>2. held + k <= MaxLimit
  BY MaxLimitAssumption DEF Admits, IInv, TypeOK, BoundedByHighestLimit
<1>3. k \in Nat
  BY <1>1 DEF IInv, TypeOK
<1> HIDE DEF k, pre
<1>4. TypeOK'
  <2>1. held' \in Nat
    BY <1>1, <1>3 DEF IInv, TypeOK
  <2> QED BY <1>1, <2>1, MaxLimitAssumption DEF Admit, IInv, TypeOK, Thread, RequestPC, OperatorPC
<1>5. QueueOK'
  BY <1>1 DEF Admit, IInv, QueueOK, Injective, TypeOK, Thread
<1>6. HeldIsOwned'
  <2>1. Cardinality(Owner \cup pre) = Cardinality(Owner) + Cardinality(pre) - Cardinality({})
    BY <1>1, OwnerFinite, FS_Union
  <2> QED BY <1>1, <1>3, <2>1, OwnerFinite, FS_EmptySet DEF IInv, HeldIsOwned
<1>7. BoundedByHighestLimit'
  BY <1>1, <1>2 DEF BoundedByHighestLimit
<1> QED BY <1>4, <1>5, <1>6, <1>7 DEF IInv

-----------------------------------------------------------------------------
LEMMA InitInv == Init => IInv
<1> SUFFICES ASSUME Init PROVE IInv
  OBVIOUS
<1>1. TypeOK
  BY MaxLimitAssumption DEF Init, TypeOK, Thread, RequestPC, OperatorPC
<1>2. QueueOK /\ Waiting = {}
  BY DEF Init, QueueOK, Waiting, ToSet
<1>3. Owner = {}
  BY DEF Init, Owner, Granted, Thread
<1> QED BY <1>1, <1>2, <1>3, FS_EmptySet, MaxLimitAssumption
       DEF IInv, HeldIsOwned, BoundedByHighestLimit, Init

LEMMA NextInv == IInv /\ [Next]_vars => IInv'
<1> SUFFICES ASSUME IInv, [Next]_vars PROVE IInv'
  OBVIOUS
<1>1. CASE UNCHANGED vars
  BY <1>1 DEF vars, IInv, TypeOK, QueueOK, HeldIsOwned, BoundedByHighestLimit,
             Owner, Granted, Waiting
<1>2. ASSUME NEW r \in Request, RequestStep(r) PROVE IInv'
  BY <1>2, TakeFreeSlotStep, JoinWaitersStep, WakeStep, LeaveWaitersStep, UnlockStep
     DEF RequestStep
<1>3. ASSUME NEW o \in Operator, NEW n \in 0..MaxLimit, SetConcurrency(o, n) PROVE IInv'
  BY <1>3, SetConcurrencyStep
<1>4. ASSUME NEW t \in Thread, AdmitStep(t) PROVE IInv'
  BY <1>4, ReadLimitStep, AdmitStepInv DEF AdmitStep
<1> QED BY <1>1, <1>2, <1>3, <1>4 DEF Next

LEMMA InvHolds == Spec => []IInv
BY InitInv, NextInv, PTL DEF Spec

(***************************************************************************)
(* Every variable of the lock keeps its type: in particular the limit      *)
(* stays at least 1, whatever an operator asks for, and held never falls   *)
(* below zero.                                                             *)
(***************************************************************************)
THEOREM TypeCorrect == Spec => []TypeOK
BY InvHolds, PTL DEF IInv

(***************************************************************************)
(* The queue holds waiting requests, each once: a request that was granted *)
(* or gave up is not in it, so no grant goes to someone who has left.      *)
(***************************************************************************)
THEOREM QueueHoldsWaiters == Spec => []QueueOK
BY InvHolds, PTL DEF IInv

(***************************************************************************)
(* held is the number of requests that own a slot in every reachable       *)
(* state, also while a grant races with a cancellation.                    *)
(***************************************************************************)
THEOREM SlotAccounting == Spec => []HeldIsOwned
BY InvHolds, PTL DEF IInv

(***************************************************************************)
(* No interleaving of limit changes and admissions lets in more requests   *)
(* than the highest limit.                                                 *)
(***************************************************************************)
THEOREM HeldBounded == Spec => []BoundedByHighestLimit
BY InvHolds, PTL DEF IInv

-----------------------------------------------------------------------------
(* No lost wakeup. *)

LEMMA WakeupKept ==
    ASSUME IInv, NoLostWakeup, [Next]_vars
    PROVE  NoLostWakeup'
<1> SUFFICES ASSUME held' < limit', waiters' # <<>>
             PROVE  \E t \in Thread :
                       \/ pc'[t] = "reading"
                       \/ pc'[t] = "admitting" /\ seen'[t] >= limit'
  BY DEF NoLostWakeup
<1> USE DEF IInv, TypeOK, Thread
<1> DEFINE Coming(t) == pc[t] = "reading" \/ (pc[t] = "admitting" /\ seen[t] >= limit)
<1>1. CASE UNCHANGED vars
  BY <1>1 DEF vars, NoLostWakeup
<1>2. ASSUME NEW r \in Request, TakeFreeSlot(r) PROVE FALSE
  BY <1>2 DEF TakeFreeSlot
<1>3. ASSUME NEW r \in Request, JoinWaiters(r)
      PROVE  \E t \in Thread : Coming(t)'
  <2>1. PICK t \in Thread : Coming(t)
    BY <1>3 DEF JoinWaiters, NoLostWakeup
  <2> QED BY <1>3, <2>1 DEF JoinWaiters
<1>4. ASSUME NEW r \in Request, Wake(r) \/ NoticeGrantTooLate(r)
      PROVE  \E t \in Thread : Coming(t)'
  <2>1. PICK t \in Thread : Coming(t)
    BY <1>4 DEF Wake, NoticeGrantTooLate, NoLostWakeup
  <2> QED BY <1>4, <2>1 DEF Wake, NoticeGrantTooLate, Granted
<1>5. ASSUME NEW r \in Request, LeaveWaiters(r)
      PROVE  \E t \in Thread : Coming(t)'
  <2>1. waiters # <<>>
    BY <1>5 DEF LeaveWaiters
  <2>2. PICK t \in Thread : Coming(t)
    BY <1>5, <2>1 DEF LeaveWaiters, NoLostWakeup
  <2> QED BY <1>5, <2>2 DEF LeaveWaiters
<1>6. ASSUME NEW r \in Request, Unlock(r)
      PROVE  \E t \in Thread : Coming(t)'
  BY <1>6 DEF Unlock
<1>7. ASSUME NEW o \in Operator, NEW n \in 0..MaxLimit, SetConcurrency(o, n)
      PROVE  \E t \in Thread : Coming(t)'
  BY <1>7 DEF SetConcurrency
<1>8. ASSUME NEW u \in Thread, ReadLimit(u)
      PROVE  \E t \in Thread : Coming(t)'
  <2>1. Coming(u)'
    BY <1>8, MaxLimitAssumption DEF ReadLimit
  <2> QED BY <2>1
<1>9. ASSUME NEW u \in Thread, Admit(u)
      PROVE  \E t \in Thread : Coming(t)'
  <2> DEFINE k == Admits(seen[u])
  <2>1. /\ k \in 0..Len(waiters) /\ held' = held + k
        /\ waiters' = SubSeq(waiters, k + 1, Len(waiters))
    BY <1>9, AdmitEffect
  <2>2. k < Len(waiters)
    BY <2>1, SubSeqEmpty
  <2>3. seen[u] < limit
    <3>1. seen[u] \in Nat /\ limit \in Nat /\ held \in Nat
      BY MaxLimitAssumption
    <3>2. held + k < limit
      BY <1>9, <2>1 DEF Admit
    <3>3. k >= seen[u] - held
      BY <2>2, <3>1 DEF Admits
    <3> HIDE DEF k
    <3> QED BY <2>1, <3>1, <3>2, <3>3
  <2>4. held < limit
    <3>1. held \in Nat /\ limit \in Nat /\ k \in Nat /\ limit' = limit
      BY <1>9, <2>1, MaxLimitAssumption DEF Admit
    <3> HIDE DEF k
    <3> QED BY <2>1, <3>1
  <2>5. waiters # <<>>
    BY <2>1, <2>2
  <2>6. PICK t \in Thread : Coming(t)
    BY <2>4, <2>5 DEF NoLostWakeup
  <2>7. t # u
    BY <1>9, <2>3, <2>6, MaxLimitAssumption DEF Admit
  <2> QED BY <1>9, <2>6, <2>7 DEF Admit
<1> QED BY <1>1, <1>2, <1>3, <1>4, <1>5, <1>6, <1>7, <1>8, <1>9
       DEF Next, RequestStep, AdmitStep

(***************************************************************************)
(* Whenever a slot is free and someone waits for it, a goroutine is on its *)
(* way to hand it out: dropping the mutex between a change and admit never *)
(* strands a waiter.                                                       *)
(***************************************************************************)
THEOREM WakeupNotLost == Spec => []NoLostWakeup
<1>1. Init => NoLostWakeup
  BY DEF Init, NoLostWakeup
<1>2. IInv /\ NoLostWakeup /\ [Next]_vars => NoLostWakeup'
  BY WakeupKept
<1> QED BY <1>1, <1>2, InvHolds, PTL DEF Spec

-----------------------------------------------------------------------------
(* The lock implements the FIFO semaphore. *)

\* The two copies of Cardinality are one operator.
LEMMA SameCardinality == Semaphore!Cardinality(Owner) = Cardinality(Owner)
BY DEF Semaphore!Cardinality, Cardinality

LEMMA StepImplements ==
    ASSUME IInv, [Next]_vars
    PROVE  [Semaphore!Next]_(Semaphore!vars)
<1> USE DEF Semaphore!vars
<1>1. CASE UNCHANGED vars
  BY <1>1 DEF vars, Owner, Granted, Waiting
<1>2. ASSUME NEW r \in Request, TakeFreeSlot(r) PROVE Semaphore!Enter(r)
  <2>1. waiters = <<>> /\ Waiting = {} /\ waiters' = waiters /\ Waiting' = {}
    BY <1>2 DEF TakeFreeSlot, Waiting, ToSet
  <2>2. r \notin Owner /\ Owner' = Owner \cup {r}
    BY <1>2, <2>1 DEF TakeFreeSlot, IInv, Owner, Granted, TypeOK, Thread
  <2>3. Cardinality(Owner) < MaxLimit
    BY <1>2, MaxLimitAssumption DEF TakeFreeSlot, IInv, HeldIsOwned, TypeOK
  <2> QED BY <2>1, <2>2, <2>3, SameCardinality DEF Semaphore!Enter, Semaphore!Outside, Semaphore!ToSet, Waiting, ToSet
<1>3. ASSUME NEW r \in Request, JoinWaiters(r) PROVE Semaphore!Join(r)
  <2>1. r \notin Waiting /\ r \notin Owner
    BY <1>3 DEF JoinWaiters, IInv, QueueOK, Owner, Granted
  <2>2. Waiting \subseteq Waiting' /\ r \in Waiting'
    <3>1. /\ Len(waiters') = Len(waiters) + 1
          /\ \A i \in 1..Len(waiters) : waiters'[i] = waiters[i]
          /\ waiters'[Len(waiters) + 1] = r
          /\ waiters' \in Seq(Request)
      BY <1>3, AppendProperties DEF JoinWaiters, IInv, TypeOK
    <3>2. DOMAIN waiters' = 1..(Len(waiters) + 1) /\ DOMAIN waiters = 1..Len(waiters)
      BY <3>1 DEF IInv, TypeOK
    <3>3. Len(waiters) + 1 \in DOMAIN waiters' /\ DOMAIN waiters \subseteq DOMAIN waiters'
      BY <3>2 DEF IInv, TypeOK
    <3> QED BY <3>1, <3>2, <3>3 DEF Waiting, ToSet
  <2>3. Waiting' \subseteq Waiting \cup {r}
    <3>1. \A i \in DOMAIN waiters' : waiters'[i] \in Waiting \cup {r}
      BY <1>3, AppendProperties DEF JoinWaiters, IInv, TypeOK, Waiting, ToSet
    <3> QED BY <3>1 DEF Waiting, ToSet
  <2>4. Owner' = Owner
    BY <1>3, <2>1, <2>2, <2>3 DEF JoinWaiters, Owner, Granted, IInv, TypeOK, Thread
  <2> QED BY <1>3, <2>1, <2>4 DEF JoinWaiters, Semaphore!Join, Semaphore!Outside, Semaphore!ToSet, Waiting, ToSet
<1>4. ASSUME NEW r \in Request, Wake(r) \/ NoticeGrantTooLate(r)
      PROVE  UNCHANGED Semaphore!vars
  <2>1. waiters' = waiters /\ Waiting' = Waiting
    BY <1>4 DEF Wake, NoticeGrantTooLate, Waiting
  <2>2. Owner' = Owner
    BY <1>4, <2>1 DEF Wake, NoticeGrantTooLate, Owner, Granted, IInv, TypeOK, Thread
  <2> QED BY <2>1, <2>2
<1>5. ASSUME NEW r \in Request, LeaveWaiters(r)
      PROVE  \E i \in 1..Len(waiters) : Semaphore!GiveUp(i)
  <2>1. PICK i \in DOMAIN waiters : waiters[i] = r /\ waiters' = RemoveAt(waiters, i)
    BY <1>5 DEF LeaveWaiters
  <2>2. Waiting' = Waiting \ {r} /\ r \in Waiting
    <3>1. Injective(waiters) /\ waiters \in Seq(Request)
      BY DEF IInv, QueueOK, Injective, TypeOK
    <3>2. Waiting' = Waiting \ {r}
      BY <2>1, <3>1, RemoveFromQueue DEF Waiting
    <3> QED BY <2>1, <3>2 DEF Waiting, ToSet
  <2>3. Owner' = Owner
    BY <1>5, <2>2 DEF LeaveWaiters, Owner, Granted, IInv, TypeOK, Thread
  <2>4. i \in 1..Len(waiters)
    BY <2>1 DEF IInv, TypeOK
  <2> QED BY <2>1, <2>3, <2>4 DEF Semaphore!GiveUp, Semaphore!RemoveAt, RemoveAt
<1>6. ASSUME NEW r \in Request, Unlock(r)
      PROVE  r \in Owner /\ Semaphore!Leave(r)
  BY <1>6 DEF Unlock, Semaphore!Leave, Owner, Granted, Waiting, IInv, TypeOK, Thread
<1>7. ASSUME NEW o \in Operator, NEW n \in 0..MaxLimit, SetConcurrency(o, n)
      PROVE  UNCHANGED Semaphore!vars
  BY <1>7, OperatorAssumption DEF SetConcurrency, Owner, Granted, Waiting, IInv, TypeOK, Thread
<1>8. ASSUME NEW t \in Thread, ReadLimit(t) PROVE UNCHANGED Semaphore!vars
  BY <1>8 DEF ReadLimit, Owner, Granted, Waiting, IInv, TypeOK, Thread
<1>9. ASSUME NEW t \in Thread, Admit(t)
      PROVE  \/ UNCHANGED Semaphore!vars
             \/ \E k \in 1..Len(waiters) : Semaphore!Grant(k)
  <2> DEFINE k == Admits(seen[t])
             pre == ToSet(SubSeq(waiters, 1, k))
  <2>1. /\ k \in 0..Len(waiters) /\ held' = held + k
        /\ waiters' = SubSeq(waiters, k + 1, Len(waiters))
        /\ Owner' = Owner \cup pre
    BY <1>9, AdmitEffect
  <2>2. CASE k = 0
    <3>1. waiters' = waiters
      BY <2>1, <2>2, SubSeqFull DEF IInv, TypeOK
    <3>2. pre = {}
      BY <2>2, SubSeqEmpty DEF ToSet
    <3> QED BY <2>1, <3>1, <3>2
  <2>3. CASE k # 0
    <3>1. IInv'
      BY <1>9, AdmitStepInv
    <3>2. Cardinality(Owner) + k <= MaxLimit
      BY <2>1, <3>1 DEF IInv, HeldIsOwned, BoundedByHighestLimit
    <3>3. k \in 1..Len(waiters)
      BY <2>1, <2>3 DEF IInv, TypeOK
    <3>4. pre = Semaphore!ToSet(SubSeq(waiters, 1, k))
      BY DEF Semaphore!ToSet, ToSet
    <3> HIDE DEF k, pre
    <3>5. Semaphore!Grant(k)
      BY <2>1, <3>2, <3>4, SameCardinality DEF Semaphore!Grant
    <3> QED BY <3>3, <3>5
  <2> QED BY <2>2, <2>3
<1>10. ASSUME NEW r \in Request, RequestStep(r) PROVE [Semaphore!Next]_(Semaphore!vars)
  BY <1>10, <1>2, <1>3, <1>4, <1>5, <1>6 DEF RequestStep, Semaphore!Next
<1>11. ASSUME NEW t \in Thread, AdmitStep(t) PROVE [Semaphore!Next]_(Semaphore!vars)
  BY <1>11, <1>8, <1>9 DEF AdmitStep, Semaphore!Next
<1> QED BY <1>1, <1>7, <1>10, <1>11 DEF Next

(***************************************************************************)
(* The request lock is a FIFO semaphore whose callers own one slot each,   *)
(* bounded by the highest limit: what every module above it assumes.       *)
(***************************************************************************)
THEOREM LockImplementsSemaphore == Spec => ImplementsSemaphore
<1>1. Init => Semaphore!Init
  BY DEF Init, Semaphore!Init, Owner, Granted, Waiting, ToSet, Thread
<1>2. IInv /\ [Next]_vars => [Semaphore!Next]_(Semaphore!vars)
  BY StepImplements
<1> QED BY <1>1, <1>2, InvHolds, PTL DEF Spec, ImplementsSemaphore, Semaphore!Spec
=============================================================================
