-------------------------- MODULE WithRequestLock --------------------------
(***************************************************************************)
(* How requests reach the model: core.WithRequestLock takes the lock of    *)
(* the conversation, then the process-wide gate.  Chat requests, rounds of *)
(* background work and the delegates a round starts all go through it,     *)
(* while +reset cancels a conversation's requests and swaps its lock.      *)
(*                                                                         *)
(* Both locks are the FIFO semaphore that RequestLock is proved to         *)
(* implement; the limit is fixed here (RequestLock moves it).  An admit    *)
(* that is still pending is the action AdmitKey or AdmitGate.              *)
(***************************************************************************)
EXTENDS Integers, Sequences, FiniteSets, Queues

CONSTANTS Chat,        \* goroutines of IRC event handlers
          Round,       \* one runner per network, each running at most one round
          Delegate,    \* goroutines of task__delegate calls
          Channel,     \* the conversations chat requests belong to
          Limit,       \* maxconcurrent
          MaxResets    \* resets per conversation (a bound of the model)

ASSUME LimitAssumption == Limit \in Nat \ {0} /\ MaxResets \in Nat

Req == Chat \cup Round \cup Delegate
\* Background work locks a key of its own: "task:<id>", "delegate:<...>".
Key == Channel \cup Round \cup Delegate
\* A conversation's lock object; the number counts the resets before it.
Lock == Key \X (0..MaxResets)
None == "none"
NoLock == <<None, 0>>

VARIABLES pc,          \* where each request is
          key,         \* the key it locks
          lock,        \* the lock object GetRequestLock returned to it
          ended,       \* its context is done: cancelled, or past its deadline
          current,     \* requestLocks: the number of each key's lock object
          inside,      \* who holds each lock object
          line,        \* who waits for each lock object, oldest first
          gateIn,      \* who holds the global gate
          gateLine,    \* who waits for the global gate
          parent,      \* the round a delegate works for
          resetting    \* conversations between the two halves of a +reset

vars == <<pc, key, lock, ended, current, inside, line, gateIn, gateLine, parent, resetting>>

(***************************************************************************)
(* idle      no request                                                    *)
(* arrived   before WithRequestLock; a chat request is in the in-flight    *)
(*           registry from here to its end                                 *)
(* keyed     holds the pointer GetRequestLock returned                     *)
(* waitKey, ownKey      queued for, and past, the conversation's lock      *)
(* waitGate, running    queued for, and past, the gate                     *)
(* freeKey   the deferred lock.Unlock is due                               *)
(* done      the request's own deferred clean-up is due                    *)
(***************************************************************************)
PC == {"idle", "arrived", "keyed", "waitKey", "ownKey", "waitGate", "running", "freeKey", "done"}

Init == /\ pc = [q \in Req |-> "idle"]
        /\ key = [q \in Req |-> None]
        /\ lock = [q \in Req |-> NoLock]
        /\ ended = [q \in Req |-> FALSE]
        /\ current = [k \in Key |-> 0]
        /\ inside = [l \in Lock |-> {}]
        /\ line = [l \in Lock |-> <<>>]
        /\ gateIn = {} /\ gateLine = <<>>
        /\ parent = [d \in Delegate |-> None]
        /\ resetting = {}

Goto(q, label) == pc' = [pc EXCEPT ![q] = label]

-----------------------------------------------------------------------------
(* Arrivals. *)

\* The event handler registers the request under its conversation.
Arrive(c, ch) ==
    /\ pc[c] = "idle"
    /\ Goto(c, "arrived")
    /\ key' = [key EXCEPT ![c] = ch]
    /\ UNCHANGED <<lock, ended, current, inside, line, gateIn, gateLine, parent, resetting>>

\* The runner starts a round; rounds are not in the in-flight registry.
BeginRound(r) ==
    /\ pc[r] = "idle"
    /\ Goto(r, "arrived")
    /\ key' = [key EXCEPT ![r] = r]
    /\ UNCHANGED <<lock, ended, current, inside, line, gateIn, gateLine, parent, resetting>>

DelegateSlotFree == \A d \in Delegate : pc[d] = "idle"

\* runDelegate, called by a tool of a running round: it takes the one delegate
\* slot, or answers that a helper is busy, which changes nothing.
StartDelegate(r, d) ==
    /\ pc[r] = "running"
    /\ DelegateSlotFree
    /\ Goto(d, "arrived")
    /\ key' = [key EXCEPT ![d] = d]
    /\ parent' = [parent EXCEPT ![d] = r]
    /\ ended' = [ended EXCEPT ![d] = ended[r]]
    /\ UNCHANGED <<lock, current, inside, line, gateIn, gateLine, resetting>>

WorksFor(d, r) == pc[d] # "idle" /\ parent[d] = r

\* A context ends, and the contexts derived from it.
EndContexts(S) ==
    ended' = [q \in Req |-> ended[q] \/ q \in S
                             \/ (q \in Delegate /\ \E r \in S : r \in Round /\ WorksFor(q, r))]

Expire(q) ==
    /\ pc[q] \notin {"idle", "done"} /\ ~ended[q]
    /\ EndContexts({q})
    /\ UNCHANGED <<pc, key, lock, current, inside, line, gateIn, gateLine, parent, resetting>>

-----------------------------------------------------------------------------
(* Faults of the code that the properties below must notice. *)

\* Store where LoadOrStore is: a new lock object for every request.
GetFreshLock(q) ==
    /\ pc[q] = "arrived"
    /\ current' = [current EXCEPT ![key[q]] = @ + 1]
    /\ lock' = [lock EXCEPT ![q] = <<key[q], current'[key[q]]>>]
    /\ Goto(q, "keyed")
    /\ UNCHANGED <<key, ended, inside, line, gateIn, gateLine, parent, resetting>>

GateFreeOffByOne == Cardinality(gateIn) <= Limit

\* The return on a gate timeout skips the deferred lock.Unlock.
GiveUpGateOnly(q) ==
    /\ pc[q] = "waitGate" /\ ended[q]
    /\ gateIn' = gateIn \ {q}
    /\ gateLine' = Dequeue(gateLine, q)
    /\ Goto(q, "done")
    /\ UNCHANGED <<key, lock, ended, current, inside, line, parent, resetting>>

\* The gate is waited for without the context.
NeverGiveUpGate(q) == FALSE

FinishRunKeepingGate(q) ==
    /\ pc[q] = "running"
    /\ ~\E d \in Delegate : WorksFor(d, q)
    /\ Goto(q, "freeKey")
    /\ UNCHANGED <<key, lock, ended, current, inside, line, gateIn, gateLine, parent, resetting>>

-----------------------------------------------------------------------------
(* WithRequestLock. *)

GetRequestLock(q) ==
    /\ pc[q] = "arrived"
    /\ lock' = [lock EXCEPT ![q] = <<key[q], current[key[q]]>>]
    /\ Goto(q, "keyed")
    /\ UNCHANGED <<key, ended, current, inside, line, gateIn, gateLine, parent, resetting>>

KeyFree(l) == Cardinality(inside[l]) < Limit
GateFree == Cardinality(gateIn) < Limit

\* lock.LockWithContext: the context is not looked at when a slot is free.
TakeKey(q) ==
    /\ pc[q] = "keyed"
    /\ IF KeyFree(lock[q]) /\ line[lock[q]] = <<>>
       THEN /\ inside' = [inside EXCEPT ![lock[q]] = @ \cup {q}]
            /\ Goto(q, "ownKey") /\ UNCHANGED line
       ELSE /\ line' = [line EXCEPT ![lock[q]] = Append(@, q)]
            /\ Goto(q, "waitKey") /\ UNCHANGED inside
    /\ UNCHANGED <<key, lock, ended, current, gateIn, gateLine, parent, resetting>>

AdmitKey(l) ==
    /\ line[l] # <<>> /\ KeyFree(l)
    /\ inside' = [inside EXCEPT ![l] = @ \cup {Head(line[l])}]
    /\ line' = [line EXCEPT ![l] = Tail(@)]
    /\ UNCHANGED <<pc, key, lock, ended, current, gateIn, gateLine, parent, resetting>>

WakeKey(q) ==
    /\ pc[q] = "waitKey" /\ q \in inside[lock[q]]
    /\ Goto(q, "ownKey")
    /\ UNCHANGED <<key, lock, ended, current, inside, line, gateIn, gateLine, parent, resetting>>

\* onTimeout: out of the queue, or the slot given back when it was granted.
GiveUpKey(q) ==
    /\ pc[q] = "waitKey" /\ ended[q]
    /\ inside' = [inside EXCEPT ![lock[q]] = @ \ {q}]
    /\ line' = [line EXCEPT ![lock[q]] = Dequeue(@, q)]
    /\ Goto(q, "done")
    /\ UNCHANGED <<key, lock, ended, current, gateIn, gateLine, parent, resetting>>

\* globalGate.LockWithContext.
TakeGate(q) ==
    /\ pc[q] = "ownKey"
    /\ IF GateFree /\ gateLine = <<>>
       THEN gateIn' = gateIn \cup {q} /\ Goto(q, "running") /\ UNCHANGED gateLine
       ELSE gateLine' = Append(gateLine, q) /\ Goto(q, "waitGate") /\ UNCHANGED gateIn
    /\ UNCHANGED <<key, lock, ended, current, inside, line, parent, resetting>>

AdmitGate ==
    /\ gateLine # <<>> /\ GateFree
    /\ gateIn' = gateIn \cup {Head(gateLine)}
    /\ gateLine' = Tail(gateLine)
    /\ UNCHANGED <<pc, key, lock, ended, current, inside, line, parent, resetting>>

WakeGate(q) ==
    /\ pc[q] = "waitGate" /\ q \in gateIn
    /\ Goto(q, "running")
    /\ UNCHANGED <<key, lock, ended, current, inside, line, gateIn, gateLine, parent, resetting>>

GiveUpGate(q) ==
    /\ pc[q] = "waitGate" /\ ended[q]
    /\ gateIn' = gateIn \ {q}
    /\ gateLine' = Dequeue(gateLine, q)
    /\ Goto(q, "freeKey")
    /\ UNCHANGED <<key, lock, ended, current, inside, line, parent, resetting>>

\* onSuccess returned; a round waits for the delegate it called.
FinishRun(q) ==
    /\ pc[q] = "running"
    /\ ~\E d \in Delegate : WorksFor(d, q)
    /\ gateIn' = gateIn \ {q}
    /\ Goto(q, "freeKey")
    /\ UNCHANGED <<key, lock, ended, current, inside, line, gateLine, parent, resetting>>

FreeKey(q) ==
    /\ pc[q] = "freeKey"
    /\ inside' = [inside EXCEPT ![lock[q]] = @ \ {q}]
    /\ Goto(q, "done")
    /\ UNCHANGED <<key, lock, ended, current, line, gateIn, gateLine, parent, resetting>>

\* The handler deregisters the request; a delegate frees the delegate slot.
Depart(q) ==
    /\ pc[q] = "done"
    /\ Goto(q, "idle")
    /\ key' = [key EXCEPT ![q] = None]
    /\ lock' = [lock EXCEPT ![q] = NoLock]
    /\ ended' = [ended EXCEPT ![q] = FALSE]
    /\ parent' = [d \in Delegate |-> IF d = q THEN None ELSE parent[d]]
    /\ UNCHANGED <<current, inside, line, gateIn, gateLine, resetting>>

-----------------------------------------------------------------------------
(* +reset: CancelKey on the registry, then ResetRequestLock. *)

Registered(c, ch) == pc[c] # "idle" /\ key[c] = ch

CancelKey(ch) ==
    /\ ch \notin resetting /\ current[ch] < MaxResets
    /\ EndContexts({c \in Chat : Registered(c, ch)})
    /\ resetting' = resetting \cup {ch}
    /\ UNCHANGED <<pc, key, lock, current, inside, line, gateIn, gateLine, parent>>

ResetRequestLock(ch) ==
    /\ ch \in resetting
    /\ current' = [current EXCEPT ![ch] = @ + 1]
    /\ resetting' = resetting \ {ch}
    /\ UNCHANGED <<pc, key, lock, ended, inside, line, gateIn, gateLine, parent>>

-----------------------------------------------------------------------------
LockStep(q) == \/ GetRequestLock(q) \/ TakeKey(q) \/ WakeKey(q) \/ GiveUpKey(q)
               \/ TakeGate(q) \/ WakeGate(q) \/ GiveUpGate(q)
               \/ FinishRun(q) \/ FreeKey(q) \/ Depart(q)

Next == \/ \E c \in Chat, ch \in Channel : Arrive(c, ch)
        \/ \E r \in Round : BeginRound(r)
        \/ \E r \in Round, d \in Delegate : StartDelegate(r, d)
        \/ \E q \in Req : Expire(q) \/ LockStep(q)
        \/ \E l \in Lock : AdmitKey(l)
        \/ AdmitGate
        \/ \E ch \in Channel : CancelKey(ch) \/ ResetRequestLock(ch)

(***************************************************************************)
(* Goroutines that can move do, pending admits run (RequestLock proves     *)
(* none is lost), a model call ends, and a delegate's five-minute deadline *)
(* passes.  A round's tool calls are numbered (maxiterations), so it does  *)
(* not start delegates for ever: strong fairness of its end.  Chat         *)
(* requests and rounds have deadlines too, but nobody needs them to pass   *)
(* for the rest to be served, so none is assumed.                          *)
(***************************************************************************)
Fairness == /\ \A q \in Req : WF_vars(LockStep(q))
            /\ \A l \in Lock : WF_vars(AdmitKey(l))
            /\ WF_vars(AdmitGate)
            /\ \A d \in Delegate : WF_vars(Expire(d))
            /\ \A r \in Round : SF_vars(FinishRun(r))

Spec == Init /\ [][Next]_vars
FairSpec == Spec /\ Fairness

-----------------------------------------------------------------------------
TypeOK == /\ pc \in [Req -> PC]
          /\ key \in [Req -> Key \cup {None}]
          /\ lock \in [Req -> Lock \cup {NoLock}]
          /\ ended \in [Req -> BOOLEAN]
          /\ current \in [Key -> 0..MaxResets]
          /\ inside \in [Lock -> SUBSET Req]
          /\ \A l \in Lock : line[l] \in Seq(Req)
          /\ gateIn \subseteq Req
          /\ gateLine \in Seq(Req)
          /\ parent \in [Delegate -> Round \cup {None}]
          /\ resetting \subseteq Channel

(***************************************************************************)
(* Every slot has a live owner and comes back on every path out of         *)
(* WithRequestLock, the one where the gate times out included: a request   *)
(* is counted by its lock object exactly while it is past it, and by the   *)
(* gate exactly while it is past the gate.                                 *)
(***************************************************************************)
NoSlotLeaks ==
    /\ \A q \in Req : pc[q] \in {"ownKey", "waitGate", "running", "freeKey"} => q \in inside[lock[q]]
    /\ \A l \in Lock : \A q \in inside[l] :
          /\ lock[q] = l
          /\ pc[q] \in {"waitKey", "ownKey", "waitGate", "running", "freeKey"}
    /\ \A q \in Req : pc[q] = "running" => q \in gateIn
    /\ \A q \in gateIn : pc[q] \in {"waitGate", "running"}

(***************************************************************************)
(* The gate bounds the requests at the model across every conversation and *)
(* network, also after resets have left several lock objects for one       *)
(* conversation in use (the comment of globalGate).                        *)
(***************************************************************************)
ModelBounded == Cardinality({q \in Req : pc[q] = "running"}) <= Limit

(***************************************************************************)
(* Whoever arrives reaches the model or has its context end, although a    *)
(* round that called a delegate holds its slot while the delegate queues   *)
(* for another.                                                            *)
(***************************************************************************)
EveryoneServed == \A q \in Req : pc[q] = "arrived" ~> (pc[q] = "running" \/ ended[q])

(***************************************************************************)
(* And every request leaves, its slots with it.                            *)
(***************************************************************************)
EveryoneLeaves == \A q \in Req : pc[q] # "idle" ~> pc[q] = "idle"
=============================================================================
