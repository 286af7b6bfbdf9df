----------------------- MODULE WithRequestLock_proofs -----------------------
(***************************************************************************)
(* For every set of requests, conversations, limit and number of resets:   *)
(* no slot of a conversation's lock or of the gate is lost or held twice,  *)
(* and the gate bounds the requests at the model.                          *)
(***************************************************************************)
EXTENDS WithRequestLock, Queues_proofs

Shapes == /\ pc \in [Req -> PC]
          /\ key \in [Req -> Key \cup {None}]
          /\ lock \in [Req -> Lock \cup {NoLock}]
          /\ ended \in [Req -> BOOLEAN]
          /\ current \in [Key -> 0..MaxResets]
          /\ inside \in [Lock -> SUBSET Req]
          /\ line \in [Lock -> Seq(Req)]
          /\ gateIn \in SUBSET Req
          /\ gateLine \in Seq(Req)
          /\ parent \in [Delegate -> Round \cup {None}]
          /\ resetting \subseteq Channel

\* A request has the key, and then the lock object, its place needs.
Keyed == \A q \in Req : /\ pc[q] # "idle" => key[q] \in Key
                        /\ pc[q] \notin {"idle", "arrived"} => lock[q] \in Lock

\* A reset that was begun has a lock object left (the bound of the model).
Resets == \A ch \in resetting : current[ch] < MaxResets

\* Who stands in a line waits for that lock object and is not past it.
KeyLines == \A l \in Lock : /\ Injective(line[l])
                            /\ \A q \in ToSet(line[l]) : /\ pc[q] = "waitKey" /\ lock[q] = l
                                                         /\ q \notin inside[l]

GateLine == /\ Injective(gateLine)
            /\ \A q \in ToSet(gateLine) : pc[q] = "waitGate" /\ q \notin gateIn

GateBounded == IsFiniteSet(gateIn) /\ Cardinality(gateIn) <= Limit

IInv == Shapes /\ Keyed /\ Resets /\ KeyLines /\ GateLine /\ NoSlotLeaks /\ GateBounded

LEMMA Initial == Init => IInv
<1> SUFFICES ASSUME Init PROVE IInv
  OBVIOUS
<1>1. Shapes /\ Keyed /\ Resets /\ NoSlotLeaks
  BY LimitAssumption DEF Init, Shapes, Keyed, Resets, NoSlotLeaks, PC
<1>2. KeyLines /\ GateLine
  BY DEF Init, KeyLines, GateLine, Injective, ToSet
<1>3. GateBounded
  BY FS_EmptySet, LimitAssumption DEF Init, GateBounded
<1> QED BY <1>1, <1>2, <1>3 DEF IInv

\* Giving the gate's slot back keeps its bound.
LEMMA FewerInside ==
    ASSUME GateBounded, NEW q, gateIn' = gateIn \ {q}
    PROVE  GateBounded'
<1>1. IsFiniteSet(gateIn') /\ Cardinality(gateIn') <= Cardinality(gateIn)
  BY FS_Subset DEF GateBounded
<1> QED BY <1>1, FS_CardinalityType, LimitAssumption DEF GateBounded

\* And so does taking one that is free.
LEMMA OneMoreInside ==
    ASSUME GateBounded, NEW q, q \notin gateIn, gateIn' = gateIn \cup {q}, Cardinality(gateIn) < Limit
    PROVE  GateBounded'
<1>1. IsFiniteSet(gateIn') /\ Cardinality(gateIn') = Cardinality(gateIn) + 1
  BY FS_AddElement DEF GateBounded
<1>2. Cardinality(gateIn) \in Nat
  BY FS_CardinalityType DEF GateBounded
<1> QED BY <1>1, <1>2, LimitAssumption DEF GateBounded

\* A new request is in no line and holds nothing.
LEMMA ArriveKeeps ==
    ASSUME IInv, NEW c \in Chat, NEW ch \in Channel, Arrive(c, ch)
    PROVE  IInv'
<1> USE DEF IInv
<1>1. Shapes'
  BY DEF Shapes, PC, Arrive, Key, Req, Goto
<1>2. Keyed'
  BY DEF Shapes, Keyed, Arrive, Key, Goto
<1>3. Resets'
  BY DEF Resets, Arrive
<1>4. KeyLines'
  BY DEF Shapes, KeyLines, Arrive, Goto
<1>5. GateLine'
  BY DEF Shapes, GateLine, Arrive, Goto
<1>6. NoSlotLeaks'
  BY DEF Shapes, NoSlotLeaks, Arrive, Goto
<1>7. GateBounded'
  BY DEF GateBounded, Arrive, Req
<1> QED BY <1>1, <1>2, <1>3, <1>4, <1>5, <1>6, <1>7

\* A round begins the same way.
LEMMA BeginRoundKeeps ==
    ASSUME IInv, NEW r \in Round, BeginRound(r)
    PROVE  IInv'
<1> USE DEF IInv
<1>1. Shapes'
  BY DEF Shapes, PC, BeginRound, Key, Req, Goto
<1>2. Keyed'
  BY DEF Shapes, Keyed, BeginRound, Key, Goto
<1>3. Resets'
  BY DEF Resets, BeginRound
<1>4. KeyLines'
  BY DEF Shapes, KeyLines, BeginRound, Goto
<1>5. GateLine'
  BY DEF Shapes, GateLine, BeginRound, Goto
<1>6. NoSlotLeaks'
  BY DEF Shapes, NoSlotLeaks, BeginRound, Goto
<1>7. GateBounded'
  BY DEF GateBounded, BeginRound, Req
<1> QED BY <1>1, <1>2, <1>3, <1>4, <1>5, <1>6, <1>7

\* And so does a delegate.
LEMMA StartDelegateKeeps ==
    ASSUME IInv, NEW r \in Round, NEW d \in Delegate, StartDelegate(r, d)
    PROVE  IInv'
<1> USE DEF IInv
<1>1. Shapes'
  BY DEF Shapes, PC, StartDelegate, Key, Req, DelegateSlotFree, Goto
<1>2. Keyed'
  BY DEF Shapes, Keyed, StartDelegate, Key, Req, DelegateSlotFree, Goto
<1>3. Resets'
  BY DEF Resets, StartDelegate
<1>4. KeyLines'
  BY DEF Shapes, KeyLines, StartDelegate, Req, DelegateSlotFree, Goto
<1>5. GateLine'
  BY DEF Shapes, GateLine, StartDelegate, Req, DelegateSlotFree, Goto
<1>6. NoSlotLeaks'
  BY DEF Shapes, NoSlotLeaks, StartDelegate, Req, DelegateSlotFree, Goto
<1>7. GateBounded'
  BY DEF GateBounded, StartDelegate, Req, DelegateSlotFree
<1> QED BY <1>1, <1>2, <1>3, <1>4, <1>5, <1>6, <1>7

\* The end of a context moves nobody.
LEMMA ExpireKeeps ==
    ASSUME IInv, NEW q \in Req, Expire(q)
    PROVE  IInv'
<1> USE DEF IInv
<1>1. Shapes'
  BY DEF Shapes, PC, Expire, EndContexts
<1>2. Keyed'
  BY DEF Shapes, Keyed, Expire
<1>3. Resets'
  BY DEF Resets, Expire
<1>4. KeyLines'
  BY DEF Shapes, KeyLines, Expire
<1>5. GateLine'
  BY DEF Shapes, GateLine, Expire
<1>6. NoSlotLeaks'
  BY DEF Shapes, NoSlotLeaks, Expire
<1>7. GateBounded'
  BY DEF GateBounded, Expire, Req
<1> QED BY <1>1, <1>2, <1>3, <1>4, <1>5, <1>6, <1>7

\* The lock object is one of its conversation's.
LEMMA GetRequestLockKeeps ==
    ASSUME IInv, NEW q \in Req, GetRequestLock(q)
    PROVE  IInv'
<1> USE DEF IInv
<1>1. Shapes'
  BY DEF Shapes, PC, GetRequestLock, Keyed, Key, Lock, Req, Goto
<1>2. Keyed'
  BY DEF Shapes, Keyed, GetRequestLock, Key, Lock, Goto
<1>3. Resets'
  BY DEF Resets, GetRequestLock
<1>4. KeyLines'
  BY DEF Shapes, KeyLines, GetRequestLock, Goto
<1>5. GateLine'
  BY DEF Shapes, GateLine, GetRequestLock, Goto
<1>6. NoSlotLeaks'
  BY DEF Shapes, NoSlotLeaks, GetRequestLock, Goto
<1>7. GateBounded'
  BY DEF GateBounded, GetRequestLock, Req
<1> QED BY <1>1, <1>2, <1>3, <1>4, <1>5, <1>6, <1>7

\* A free slot when nobody waits, else the end of the line.
LEMMA TakeKeyKeeps ==
    ASSUME IInv, NEW q \in Req, TakeKey(q)
    PROVE  IInv'
<1> USE DEF IInv
<1> DEFINE l == lock[q]
<1>1. l \in Lock /\ pc[q] = "keyed" /\ q \notin inside[l] /\ q \notin ToSet(line[l])
  BY DEF TakeKey, Keyed, NoSlotLeaks, KeyLines
<1>2. Resets' /\ GateBounded'
  BY DEF TakeKey, Resets, GateBounded
<1>3. CASE KeyFree(l) /\ line[l] = <<>>
  <2>1. /\ inside' = [inside EXCEPT ![l] = @ \cup {q}] /\ pc' = [pc EXCEPT ![q] = "ownKey"]
        /\ UNCHANGED <<key, lock, ended, current, line, gateIn, gateLine, parent, resetting>>
    BY <1>3 DEF TakeKey, Goto
  <2>2. Shapes' /\ Keyed'
    BY <1>1, <2>1 DEF Shapes, Keyed, PC
  <2>3. KeyLines' /\ GateLine'
    BY <1>1, <2>1 DEF Shapes, KeyLines, GateLine
  <2>4. NoSlotLeaks'
    BY <1>1, <2>1 DEF Shapes, NoSlotLeaks
  <2> QED BY <1>2, <2>2, <2>3, <2>4
<1>4. CASE ~(KeyFree(l) /\ line[l] = <<>>)
  <2>1. /\ line' = [line EXCEPT ![l] = Append(@, q)] /\ pc' = [pc EXCEPT ![q] = "waitKey"]
        /\ UNCHANGED <<key, lock, ended, current, inside, gateIn, gateLine, parent, resetting>>
    BY <1>4 DEF TakeKey, Goto
  <2>2. /\ Append(line[l], q) \in Seq(Req) /\ Injective(Append(line[l], q))
        /\ ToSet(Append(line[l], q)) = ToSet(line[l]) \cup {q}
    BY <1>1, EnqueueEffect DEF Shapes, KeyLines
  <2> HIDE DEF l
  <2>3. Shapes' /\ Keyed'
    BY <1>1, <2>1, <2>2 DEF Shapes, Keyed, PC
  <2>4. KeyLines'
    BY <1>1, <2>1, <2>2 DEF Shapes, KeyLines, l
  <2>5. GateLine' /\ NoSlotLeaks'
    BY <1>1, <2>1 DEF Shapes, GateLine, NoSlotLeaks
  <2> QED BY <1>2, <2>3, <2>4, <2>5
<1> QED BY <1>3, <1>4

\* The oldest in the line of one lock object gets its slot.
LEMMA AdmitKeyKeeps ==
    ASSUME IInv, NEW l \in Lock, AdmitKey(l)
    PROVE  IInv'
<1> USE DEF IInv
<1> DEFINE h == Head(line[l])
           rest == Tail(line[l])
<1>1. /\ inside' = [inside EXCEPT ![l] = @ \cup {h}] /\ line' = [line EXCEPT ![l] = rest]
      /\ UNCHANGED <<pc, key, lock, ended, current, gateIn, gateLine, parent, resetting>>
  BY DEF AdmitKey
<1>2. /\ h \in ToSet(line[l]) /\ rest \in Seq(Req) /\ Injective(rest)
      /\ ToSet(rest) = ToSet(line[l]) \ {h}
  BY HeadLeaves DEF AdmitKey, Shapes, KeyLines
<1>3. h \in Req /\ pc[h] = "waitKey" /\ lock[h] = l
  <2>1. ToSet(line[l]) \subseteq Req
    BY ElementOfSeq DEF Shapes, ToSet
  <2> QED BY <1>2, <2>1 DEF KeyLines
<1> HIDE DEF h, rest
<1>4. Shapes' /\ Keyed' /\ Resets'
  BY <1>1, <1>2, <1>3 DEF Shapes, Keyed, Resets
<1>5. KeyLines'
  BY <1>1, <1>2, <1>3 DEF Shapes, KeyLines
<1>6. GateLine' /\ GateBounded'
  BY <1>1 DEF GateLine, GateBounded
<1>7. NoSlotLeaks'
  BY <1>1, <1>3 DEF Shapes, NoSlotLeaks
<1> QED BY <1>4, <1>5, <1>6, <1>7

\* The grant is noticed.
LEMMA WakeKeyKeeps ==
    ASSUME IInv, NEW q \in Req, WakeKey(q)
    PROVE  IInv'
<1> USE DEF IInv
<1>1. Shapes'
  BY DEF Shapes, PC, WakeKey, Goto
<1>2. Keyed'
  BY DEF Shapes, Keyed, WakeKey, Goto
<1>3. Resets'
  BY DEF Resets, WakeKey
<1>4. KeyLines'
  BY DEF Shapes, KeyLines, WakeKey, Goto
<1>5. GateLine'
  BY DEF Shapes, GateLine, WakeKey, Goto
<1>6. NoSlotLeaks'
  BY DEF Shapes, NoSlotLeaks, WakeKey, Goto
<1>7. GateBounded'
  BY DEF GateBounded, WakeKey, Req
<1> QED BY <1>1, <1>2, <1>3, <1>4, <1>5, <1>6, <1>7

\* Whoever gives up leaves the line, or gives its slot back.
LEMMA GiveUpKeyKeeps ==
    ASSUME IInv, NEW q \in Req, GiveUpKey(q)
    PROVE  IInv'
<1> USE DEF IInv
<1> DEFINE l == lock[q]
           rest == Dequeue(line[l], q)
<1>1. /\ l \in Lock /\ pc[q] = "waitKey"
      /\ inside' = [inside EXCEPT ![l] = @ \ {q}] /\ line' = [line EXCEPT ![l] = rest]
      /\ pc' = [pc EXCEPT ![q] = "done"]
      /\ UNCHANGED <<key, lock, ended, current, gateIn, gateLine, parent, resetting>>
  BY DEF GiveUpKey, Keyed, Goto
<1>2. /\ rest \in Seq(Req) /\ Injective(rest)
      /\ ToSet(rest) = ToSet(line[l]) \ {q}
  BY <1>1, DequeueEffect DEF Shapes, KeyLines
<1> HIDE DEF rest
<1>3. Shapes' /\ Keyed' /\ Resets'
  BY <1>1, <1>2 DEF Shapes, Keyed, Resets, PC
<1>4. KeyLines'
  BY <1>1, <1>2 DEF Shapes, KeyLines
<1>5. GateLine' /\ GateBounded'
  BY <1>1 DEF Shapes, GateLine, GateBounded
<1>6. NoSlotLeaks'
  BY <1>1 DEF Shapes, NoSlotLeaks
<1> QED BY <1>3, <1>4, <1>5, <1>6

\* Past the gate when a slot is free and nobody waits, else in line for it.
LEMMA TakeGateKeeps ==
    ASSUME IInv, NEW q \in Req, TakeGate(q)
    PROVE  IInv'
<1> USE DEF IInv
<1>1. pc[q] = "ownKey" /\ q \notin gateIn /\ q \notin ToSet(gateLine)
  BY DEF TakeGate, NoSlotLeaks, GateLine
<1>2. CASE GateFree /\ gateLine = <<>>
  <2>1. /\ gateIn' = gateIn \cup {q} /\ pc' = [pc EXCEPT ![q] = "running"]
        /\ UNCHANGED <<key, lock, ended, current, inside, line, gateLine, parent, resetting>>
    BY <1>2 DEF TakeGate, Goto
  <2>2. Shapes' /\ Keyed' /\ Resets'
    BY <1>1, <2>1 DEF Shapes, Keyed, Resets, PC
  <2>3. KeyLines' /\ GateLine'
    BY <1>1, <1>2, <2>1 DEF Shapes, KeyLines, GateLine, ToSet
  <2>4. NoSlotLeaks'
    BY <1>1, <2>1 DEF Shapes, NoSlotLeaks
  <2>5. GateBounded'
    <3>1. Cardinality(gateIn) < Limit
      BY <1>2 DEF GateFree
    <3> QED BY <1>1, <2>1, <3>1, OneMoreInside
  <2> QED BY <2>2, <2>3, <2>4, <2>5
<1>3. CASE ~(GateFree /\ gateLine = <<>>)
  <2>1. /\ gateLine' = Append(gateLine, q) /\ pc' = [pc EXCEPT ![q] = "waitGate"]
        /\ UNCHANGED <<key, lock, ended, current, inside, line, gateIn, parent, resetting>>
    BY <1>3 DEF TakeGate, Goto
  <2>2. /\ gateLine' \in Seq(Req) /\ Injective(gateLine')
        /\ ToSet(gateLine') = ToSet(gateLine) \cup {q}
    BY <1>1, <2>1, EnqueueEffect DEF Shapes, GateLine
  <2>3. Shapes' /\ Keyed' /\ Resets'
    BY <1>1, <2>1, <2>2 DEF Shapes, Keyed, Resets, PC
  <2>4. KeyLines' /\ GateLine'
    BY <1>1, <2>1, <2>2 DEF Shapes, KeyLines, GateLine
  <2>5. NoSlotLeaks' /\ GateBounded'
    BY <1>1, <2>1 DEF Shapes, NoSlotLeaks, GateBounded
  <2> QED BY <2>2, <2>3, <2>4, <2>5
<1> QED BY <1>2, <1>3

\* The gate lets the oldest in, within the limit.
LEMMA AdmitGateKeeps ==
    ASSUME IInv, AdmitGate
    PROVE  IInv'
<1> USE DEF IInv
<1> DEFINE h == Head(gateLine)
<1>1. /\ gateIn' = gateIn \cup {h} /\ gateLine' = Tail(gateLine)
      /\ UNCHANGED <<pc, key, lock, ended, current, inside, line, parent, resetting>>
  BY DEF AdmitGate
<1>2. /\ h \in ToSet(gateLine) /\ gateLine' \in Seq(Req) /\ Injective(gateLine')
      /\ ToSet(gateLine') = ToSet(gateLine) \ {h}
  BY <1>1, HeadLeaves DEF AdmitGate, Shapes, GateLine
<1>3. h \in Req /\ pc[h] = "waitGate" /\ h \notin gateIn
  <2>1. ToSet(gateLine) \subseteq Req
    BY ElementOfSeq DEF Shapes, ToSet
  <2> QED BY <1>2, <2>1 DEF GateLine
<1> HIDE DEF h
<1>4. Shapes' /\ Keyed' /\ Resets'
  BY <1>1, <1>2, <1>3 DEF Shapes, Keyed, Resets
<1>5. KeyLines' /\ GateLine'
  BY <1>1, <1>2, <1>3 DEF KeyLines, GateLine
<1>6. NoSlotLeaks'
  BY <1>1, <1>3 DEF Shapes, NoSlotLeaks
<1>7. GateBounded'
  <2>1. Cardinality(gateIn) < Limit
    BY DEF AdmitGate, GateFree
  <2> QED BY <1>1, <1>3, <2>1, OneMoreInside
<1> QED BY <1>4, <1>5, <1>6, <1>7

\* The grant is noticed.
LEMMA WakeGateKeeps ==
    ASSUME IInv, NEW q \in Req, WakeGate(q)
    PROVE  IInv'
<1> USE DEF IInv
<1>1. Shapes'
  BY DEF Shapes, PC, WakeGate, Goto
<1>2. Keyed'
  BY DEF Shapes, Keyed, WakeGate, Goto
<1>3. Resets'
  BY DEF Resets, WakeGate
<1>4. KeyLines'
  BY DEF Shapes, KeyLines, WakeGate, Goto
<1>5. GateLine'
  BY DEF Shapes, GateLine, WakeGate, Goto
<1>6. NoSlotLeaks'
  BY DEF Shapes, NoSlotLeaks, WakeGate, Goto
<1>7. GateBounded'
  BY DEF GateBounded, WakeGate, Req
<1> QED BY <1>1, <1>2, <1>3, <1>4, <1>5, <1>6, <1>7

\* Whoever gives up at the gate leaves its line, or gives the slot back.
LEMMA GiveUpGateKeeps ==
    ASSUME IInv, NEW q \in Req, GiveUpGate(q)
    PROVE  IInv'
<1> USE DEF IInv
<1>1. /\ pc[q] = "waitGate" /\ gateIn' = gateIn \ {q} /\ gateLine' = Dequeue(gateLine, q)
      /\ pc' = [pc EXCEPT ![q] = "freeKey"]
      /\ UNCHANGED <<key, lock, ended, current, inside, line, parent, resetting>>
  BY DEF GiveUpGate, Goto
<1>2. /\ gateLine' \in Seq(Req) /\ Injective(gateLine')
      /\ ToSet(gateLine') = ToSet(gateLine) \ {q}
  BY <1>1, DequeueEffect DEF Shapes, GateLine
<1>3. Shapes' /\ Keyed' /\ Resets'
  BY <1>1, <1>2 DEF Shapes, Keyed, Resets, PC
<1>4. KeyLines' /\ GateLine'
  BY <1>1, <1>2 DEF Shapes, KeyLines, GateLine
<1>5. NoSlotLeaks'
  BY <1>1 DEF Shapes, NoSlotLeaks
<1>6. GateBounded'
  BY <1>1, FewerInside
<1> QED BY <1>3, <1>4, <1>5, <1>6

\* A request done with the model has left the gate and keeps its conversation.
LEMMA FinishRunKeeps ==
    ASSUME IInv, NEW q \in Req, FinishRun(q)
    PROVE  IInv'
<1> USE DEF IInv
<1>1. Shapes'
  BY DEF Shapes, PC, FinishRun, Goto
<1>2. Keyed'
  BY DEF Shapes, Keyed, FinishRun, Goto
<1>3. Resets'
  BY DEF Resets, FinishRun
<1>4. KeyLines'
  BY DEF Shapes, KeyLines, FinishRun, Goto
<1>5. GateLine'
  BY DEF Shapes, GateLine, FinishRun, Goto
<1>6. NoSlotLeaks'
  BY DEF Shapes, NoSlotLeaks, FinishRun, Goto
<1>7. GateBounded'
  BY FewerInside DEF FinishRun
<1> QED BY <1>1, <1>2, <1>3, <1>4, <1>5, <1>6, <1>7

\* Then it leaves its conversation.
LEMMA FreeKeyKeeps ==
    ASSUME IInv, NEW q \in Req, FreeKey(q)
    PROVE  IInv'
<1> USE DEF IInv
<1>1. Shapes'
  BY DEF Shapes, PC, FreeKey, Goto
<1>2. Keyed'
  BY DEF Shapes, Keyed, FreeKey, Goto
<1>3. Resets'
  BY DEF Resets, FreeKey
<1>4. KeyLines'
  BY DEF Shapes, KeyLines, FreeKey, Goto
<1>5. GateLine'
  BY DEF Shapes, GateLine, FreeKey, Goto
<1>6. NoSlotLeaks'
  BY DEF Shapes, NoSlotLeaks, FreeKey, Goto
<1>7. GateBounded'
  BY DEF GateBounded, FreeKey, Req
<1> QED BY <1>1, <1>2, <1>3, <1>4, <1>5, <1>6, <1>7

\* And is forgotten.
LEMMA DepartKeeps ==
    ASSUME IInv, NEW q \in Req, Depart(q)
    PROVE  IInv'
<1> USE DEF IInv
<1>1. Shapes'
  BY DEF Shapes, PC, Depart, Goto
<1>2. Keyed'
  BY DEF Shapes, Keyed, Depart, Goto
<1>3. Resets'
  BY DEF Resets, Depart
<1>4. KeyLines'
  BY DEF Shapes, KeyLines, Depart, Goto
<1>5. GateLine'
  BY DEF Shapes, GateLine, Depart, Goto
<1>6. NoSlotLeaks'
  BY DEF Shapes, NoSlotLeaks, Depart, Goto
<1>7. GateBounded'
  BY DEF GateBounded, Depart, Req
<1> QED BY <1>1, <1>2, <1>3, <1>4, <1>5, <1>6, <1>7

\* A reset cancels, and moves nobody.
LEMMA CancelKeyKeeps ==
    ASSUME IInv, NEW ch \in Channel, CancelKey(ch)
    PROVE  IInv'
<1> USE DEF IInv
<1>1. Shapes'
  BY DEF Shapes, PC, CancelKey, EndContexts
<1>2. Keyed'
  BY DEF Shapes, Keyed, CancelKey
<1>3. Resets'
  BY DEF Resets, CancelKey
<1>4. KeyLines'
  BY DEF Shapes, KeyLines, CancelKey
<1>5. GateLine'
  BY DEF Shapes, GateLine, CancelKey
<1>6. NoSlotLeaks'
  BY DEF Shapes, NoSlotLeaks, CancelKey
<1>7. GateBounded'
  BY DEF GateBounded, CancelKey, Req
<1> QED BY <1>1, <1>2, <1>3, <1>4, <1>5, <1>6, <1>7

\* The new lock object is nobody's yet.
LEMMA ResetRequestLockKeeps ==
    ASSUME IInv, NEW ch \in Channel, ResetRequestLock(ch)
    PROVE  IInv'
<1> USE DEF IInv
<1>1. Shapes'
  BY LimitAssumption DEF Shapes, ResetRequestLock, Resets, Key
<1>2. Keyed'
  BY DEF Shapes, Keyed, ResetRequestLock
<1>3. Resets'
  BY DEF Resets, ResetRequestLock
<1>4. KeyLines'
  BY DEF Shapes, KeyLines, ResetRequestLock
<1>5. GateLine'
  BY DEF Shapes, GateLine, ResetRequestLock
<1>6. NoSlotLeaks'
  BY DEF Shapes, NoSlotLeaks, ResetRequestLock
<1>7. GateBounded'
  BY DEF GateBounded, ResetRequestLock, Req
<1> QED BY <1>1, <1>2, <1>3, <1>4, <1>5, <1>6, <1>7

-----------------------------------------------------------------------------
THEOREM InvHolds == Spec => []IInv
<1>1. IInv /\ [Next]_vars => IInv'
  <2> SUFFICES ASSUME IInv, [Next]_vars PROVE IInv'
    OBVIOUS
  <2>1. CASE UNCHANGED vars
    BY <2>1 DEF vars, IInv, Shapes, Keyed, Resets, KeyLines, GateLine, NoSlotLeaks, GateBounded
  <2>2. ASSUME NEW q \in Req, LockStep(q) PROVE IInv'
    BY <2>2, GetRequestLockKeeps, TakeKeyKeeps, WakeKeyKeeps, GiveUpKeyKeeps, TakeGateKeeps,
       WakeGateKeeps, GiveUpGateKeeps, FinishRunKeeps, FreeKeyKeeps, DepartKeeps DEF LockStep
  <2>3. CASE Next
    BY <2>2, <2>3, ArriveKeeps, BeginRoundKeeps, StartDelegateKeeps, ExpireKeeps, AdmitKeyKeeps,
       AdmitGateKeeps, CancelKeyKeeps, ResetRequestLockKeeps DEF Next
  <2> QED BY <2>1, <2>3
<1> QED BY <1>1, Initial, PTL DEF Spec

THEOREM TypeCorrect == Spec => []TypeOK
<1>1. IInv => TypeOK
  BY DEF IInv, Shapes, TypeOK
<1> QED BY <1>1, InvHolds, PTL

(***************************************************************************)
(* Every slot comes back on every path out of WithRequestLock.             *)
(***************************************************************************)
THEOREM SlotsComeBack == Spec => []NoSlotLeaks
<1>1. IInv => NoSlotLeaks
  BY DEF IInv
<1> QED BY <1>1, InvHolds, PTL

(***************************************************************************)
(* No more requests than the limit are at the model, whatever conversation *)
(* or network they are from and however many resets are under way.         *)
(***************************************************************************)
THEOREM GateBoundsTheModel == Spec => []ModelBounded
<1>1. IInv => ModelBounded
  <2> SUFFICES ASSUME IInv PROVE ModelBounded
    OBVIOUS
  <2> DEFINE R == {q \in Req : pc[q] = "running"}
  <2>1. R \subseteq gateIn
    BY DEF IInv, NoSlotLeaks
  <2>2. Cardinality(R) <= Cardinality(gateIn)
    BY <2>1, FS_Subset DEF IInv, GateBounded
  <2>3. Cardinality(gateIn) \in Nat /\ Cardinality(R) \in Nat
    BY <2>1, FS_Subset, FS_CardinalityType DEF IInv, GateBounded
  <2> QED BY <2>2, <2>3, LimitAssumption DEF IInv, GateBounded, ModelBounded
<1> QED BY <1>1, InvHolds, PTL
=============================================================================
