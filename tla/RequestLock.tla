---------------------------- MODULE RequestLock ----------------------------
(***************************************************************************)
(* core/lock.go: the counting semaphore every model request passes, at the *)
(* granularity of the critical sections under its mutex c.mu.              *)
(*                                                                         *)
(* A Request is one goroutine in LockWithContext / Unlock; an Operator is  *)
(* one goroutine in SetConcurrency.  Everything done under c.mu is one     *)
(* step.  admit is two steps, because it reads the limit before it takes   *)
(* the mutex: another goroutine may change the limit, or take and release  *)
(* the mutex, in between.                                                  *)
(***************************************************************************)
EXTENDS Integers, Sequences, FiniteSets, SequencesExt

CONSTANTS Request,    \* goroutines that take the lock
          Operator,   \* goroutines that change the limit
          MaxLimit    \* the largest limit an operator asks for (a bound of the model)

ASSUME RequestAssumption == IsFiniteSet(Request)
ASSUME OperatorAssumption == Operator \cap Request = {}
ASSUME MaxLimitAssumption == MaxLimit \in Nat \ {0}

VARIABLES limit,      \* the package variable concurrency
          held,       \* c.held
          waiters,    \* c.waiters, each channel named by the request that waits on it
          pc,         \* where each goroutine is
          seen        \* the limit an admit call has read and not yet used

vars == <<limit, held, waiters, pc, seen>>

Thread == Request \cup Operator

(***************************************************************************)
(* idle      not in the lock's code                                        *)
(* waiting   in the select of LockWithContext                              *)
(* holding   LockWithContext returned true                                 *)
(* giveback  cancelled after the grant, about to call c.Unlock             *)
(* reading   in admit, before it reads the limit                           *)
(* admitting in admit, with the limit in seen, before it takes c.mu        *)
(***************************************************************************)
RequestPC == {"idle", "waiting", "holding", "giveback", "reading", "admitting"}
OperatorPC == {"idle", "reading", "admitting"}

Waiting == ToSet(waiters)

\* A request whose channel is closed but which has not noticed yet.
Granted(r) == pc[r] = "waiting" /\ r \notin Waiting

\* The requests that own one of the held slots.
Owner == {r \in Request : pc[r] \in {"holding", "giveback"} \/ Granted(r)}

Init == /\ limit = 1
        /\ held = 0
        /\ waiters = <<>>
        /\ pc = [t \in Thread |-> "idle"]
        /\ seen = [t \in Thread |-> 0]

-----------------------------------------------------------------------------
(* Faults of the code that the properties below must notice. *)

TakeFreeSlotPastWaiters(r) ==
    /\ pc[r] = "idle" /\ held < limit
    /\ held' = held + 1
    /\ pc' = [pc EXCEPT ![r] = "holding"]
    /\ UNCHANGED <<limit, waiters, seen>>

LeaveWithoutDequeue(r) ==
    /\ pc[r] = "waiting" /\ r \in Waiting
    /\ pc' = [pc EXCEPT ![r] = "idle"]
    /\ UNCHANGED <<limit, held, waiters, seen>>

KeepTheLateGrant(r) ==
    /\ Granted(r)
    /\ pc' = [pc EXCEPT ![r] = "idle"]
    /\ UNCHANGED <<limit, held, waiters, seen>>

UnlockWithoutAdmit(r) ==
    /\ pc[r] \in {"holding", "giveback"}
    /\ held' = held - 1
    /\ pc' = [pc EXCEPT ![r] = "idle"]
    /\ UNCHANGED <<limit, waiters, seen>>

SetConcurrencyUnchecked(o, n) ==
    /\ pc[o] = "idle"
    /\ limit' = n
    /\ pc' = [pc EXCEPT ![o] = "reading"]
    /\ UNCHANGED <<held, waiters, seen>>

AdmitsOneTooMany(l) == IF l < held \/ waiters = <<>> THEN 0
                       ELSE IF l - held < Len(waiters) THEN l - held + 1 ELSE Len(waiters)

-----------------------------------------------------------------------------
(* LockWithContext, first critical section. *)

TakeFreeSlot(r) ==
    /\ pc[r] = "idle"
    /\ held < limit /\ waiters = <<>>
    /\ held' = held + 1
    /\ pc' = [pc EXCEPT ![r] = "holding"]
    /\ UNCHANGED <<limit, waiters, seen>>

JoinWaiters(r) ==
    /\ pc[r] = "idle"
    /\ ~(held < limit /\ waiters = <<>>)
    /\ waiters' = Append(waiters, r)
    /\ pc' = [pc EXCEPT ![r] = "waiting"]
    /\ UNCHANGED <<limit, held, seen>>

(* LockWithContext, the select: <-ch is ready once the channel is closed. *)
Wake(r) ==
    /\ Granted(r)
    /\ pc' = [pc EXCEPT ![r] = "holding"]
    /\ UNCHANGED <<limit, held, waiters, seen>>

(* The select took ctx.Done: a request still queued leaves the queue, *)
(* one that was granted meanwhile goes on to give the slot back.      *)
LeaveWaiters(r) ==
    /\ pc[r] = "waiting"
    /\ \E i \in DOMAIN waiters : waiters[i] = r /\ waiters' = RemoveAt(waiters, i)
    /\ pc' = [pc EXCEPT ![r] = "idle"]
    /\ UNCHANGED <<limit, held, seen>>

NoticeGrantTooLate(r) ==
    /\ Granted(r)
    /\ pc' = [pc EXCEPT ![r] = "giveback"]
    /\ UNCHANGED <<limit, held, waiters, seen>>

(* Unlock, by a holder that is done or by one giving its slot back. *)
Unlock(r) ==
    /\ pc[r] \in {"holding", "giveback"}
    /\ held' = IF held > 0 THEN held - 1 ELSE held
    /\ pc' = [pc EXCEPT ![r] = "reading"]
    /\ UNCHANGED <<limit, waiters, seen>>

(* SetConcurrency: the new limit, raised to 1 when lower; then admit. *)
SetConcurrency(o, n) ==
    /\ pc[o] = "idle"
    /\ limit' = IF n < 1 THEN 1 ELSE n
    /\ pc' = [pc EXCEPT ![o] = "reading"]
    /\ UNCHANGED <<held, waiters, seen>>

(* admit, before the mutex ... *)
ReadLimit(t) ==
    /\ pc[t] = "reading"
    /\ seen' = [seen EXCEPT ![t] = limit]
    /\ pc' = [pc EXCEPT ![t] = "admitting"]
    /\ UNCHANGED <<limit, held, waiters>>

\* How many waiters the loop of admit lets in with l as its limit.
Admits(l) == IF l <= held THEN 0
             ELSE IF l - held < Len(waiters) THEN l - held ELSE Len(waiters)

(* ... and under it: the oldest waiters, up to the limit that was read. *)
Admit(t) ==
    /\ pc[t] = "admitting"
    /\ held' = held + Admits(seen[t])
    /\ waiters' = SubSeq(waiters, Admits(seen[t]) + 1, Len(waiters))
    /\ pc' = [pc EXCEPT ![t] = "idle"]
    /\ seen' = [seen EXCEPT ![t] = 0]
    /\ UNCHANGED limit

-----------------------------------------------------------------------------
RequestStep(r) == \/ TakeFreeSlot(r) \/ JoinWaiters(r)
                  \/ Wake(r) \/ LeaveWaiters(r) \/ NoticeGrantTooLate(r)
                  \/ Unlock(r)

AdmitStep(t) == ReadLimit(t) \/ Admit(t)

Next == \/ \E r \in Request : RequestStep(r)
        \/ \E o \in Operator, n \in 0..MaxLimit : SetConcurrency(o, n)
        \/ \E t \in Thread : AdmitStep(t)

(***************************************************************************)
(* Goroutines keep running, a granted request notices, and a request that  *)
(* holds the lock ends: each runs under the deadline of its own context.   *)
(* Nothing makes a request arrive, be cancelled, or an operator act.       *)
(***************************************************************************)
Fairness == /\ \A t \in Thread : WF_vars(AdmitStep(t))
            /\ \A r \in Request : WF_vars(Wake(r) \/ NoticeGrantTooLate(r)) /\ WF_vars(Unlock(r))

Spec == Init /\ [][Next]_vars
FairSpec == Spec /\ Fairness

-----------------------------------------------------------------------------
TypeOK == /\ limit \in 1..MaxLimit
          /\ held \in Nat
          /\ waiters \in Seq(Request)
          /\ pc \in [Thread -> RequestPC]
          /\ \A o \in Operator : pc[o] \in OperatorPC
          /\ seen \in [Thread -> 0..MaxLimit]

\* The queue holds each waiting request once, and nobody else.
QueueOK == /\ \A i, j \in DOMAIN waiters : waiters[i] = waiters[j] => i = j
           /\ \A r \in Waiting : pc[r] = "waiting"

(***************************************************************************)
(* held counts the slots that somebody owns: a grant that races with a     *)
(* cancellation neither leaks the slot nor frees it twice (the comment     *)
(* "give the slot back" of LockWithContext).                               *)
(***************************************************************************)
HeldIsOwned == held = Cardinality(Owner)

(***************************************************************************)
(* No lost wakeup: when a slot is free and someone waits, some goroutine   *)
(* is on its way through admit with a limit at least as high as the        *)
(* current one.  Unlock and SetConcurrency both change the condition and   *)
(* drop the mutex before they call admit.                                  *)
(***************************************************************************)
NoLostWakeup ==
    held < limit /\ waiters # <<>> =>
        \E t \in Thread : \/ pc[t] = "reading"
                          \/ pc[t] = "admitting" /\ seen[t] >= limit

(***************************************************************************)
(* However the limit moves, no more requests own a slot than the highest   *)
(* limit that was ever set: the bound the stale read in admit leaves.      *)
(***************************************************************************)
BoundedByHighestLimit == held <= MaxLimit

(***************************************************************************)
(* Whoever waits is let in or gives up (LockWithContext returns).          *)
(***************************************************************************)
WaitersLeaveTheQueue == \A r \in Request : pc[r] = "waiting" ~> pc[r] # "waiting"

(***************************************************************************)
(* The lock implements the semaphore its callers rely on: a request is     *)
(* inside from the moment its slot is counted until the slot is given up.  *)
(***************************************************************************)
Semaphore == INSTANCE FifoSemaphore WITH inside <- Owner, line <- waiters

(***************************************************************************)
(* First come, first served, one slot each: the request that takes a free  *)
(* slot never passes a waiter, and a cancelled one leaves the others'      *)
(* order alone.                                                            *)
(***************************************************************************)
ImplementsSemaphore == Semaphore!Spec
=============================================================================
