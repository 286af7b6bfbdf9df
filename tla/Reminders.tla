------------------------------ MODULE Reminders ------------------------------
(***************************************************************************)
(* The reminders (core/reminders.go): a map under a mutex, saved whole to  *)
(* a file after every change, and on each network a scheduler that takes   *)
(* the due ones out, sends them and puts back what could not be sent.      *)
(* Callers change the store and then save it in two critical sections; a   *)
(* save may fail, and the process may die between any two steps.           *)
(*                                                                         *)
(* Times are abstract: a reminder is early, then due, then too late.  What *)
(* a scheduler has in hand is sent in any order (the code goes by the due  *)
(* time), and an id is never drawn twice.                                  *)
(***************************************************************************)
EXTENDS Integers, FiniteSets

CONSTANTS Id, Network, Nick,
          Client,       \* tool calls and operator requests that change the store
          Boot,         \* the caller that adopts at the start
          First,        \* the first configured network
          Unscoped,     \* the network of a reminder saved without one
          None,         \* no reminder
          MaxPerNick, MaxTotal,
          MaxFailures,  \* saves that fail (a bound of the model)
          MaxCrashes    \* (a bound of the model)

ASSUME NamesAssumption == /\ First \in Network /\ Unscoped \notin Network
                          /\ Boot \notin Network \cup Client
                          /\ Network \cap Client = {}
ASSUME CapsAssumption == {MaxPerNick, MaxTotal, MaxFailures, MaxCrashes} \subseteq Nat

Caller == Client \cup Network \cup {Boot}
Entry == [network : Network \cup {Unscoped}, nick : Nick]
ASSUME NoneAssumption == None \notin Entry

VARIABLES entries,   \* ReminderStore.entries
          file,      \* reminders.json
          age,       \* where the time is, for each reminder
          hand,      \* what a scheduler has popped and not yet sent or put back
          pc,        \* where each caller is in its change
          put,       \* what the caller has put into the map, and
          taken,     \* has taken out of it, and not yet saved
          snapshot,  \* what save() is writing
          adopted,   \* AdoptUnscopedReminders has run since the start
          born,      \* ids that have been drawn
          failed,    \* the last save failed (history)
          failures, crashes,
          sent,      \* how often each reminder was sent (history)
          told,      \* reminders whose Cancel returned true (history)
          relapsed   \* the process died with its last save failed (history)

storeVars == <<entries, file, age, hand>>
callVars == <<pc, put, taken, snapshot, adopted>>
boundVars == <<born, failures, crashes>>
historyVars == <<failed, sent, told, relapsed>>
vars == <<storeVars, callVars, boundVars, historyVars>>

Empty == [id \in Id |-> None]
Idle == /\ pc = [c \in Caller |-> "free"]
        /\ put = [c \in Caller |-> {}] /\ taken = [c \in Caller |-> {}]
        /\ snapshot = [c \in Caller |-> Empty]

\* The file may be of a time before there were networks.
Init == /\ \E old \in SUBSET Id, nick \in Nick :
              entries = [id \in Id |-> IF id \in old
                                       THEN [network |-> Unscoped, nick |-> nick] ELSE None]
        /\ file = entries
        /\ age = [id \in Id |-> "early"]
        /\ hand = Empty
        /\ Idle /\ adopted = FALSE
        /\ born = {id \in Id : entries[id] # None}
        /\ failed = FALSE /\ failures = 0 /\ crashes = 0
        /\ sent = [id \in Id |-> 0] /\ told = {} /\ relapsed = FALSE

Pending == {id \in Id : entries[id] # None}
PendingOf(nick) == {id \in Pending : entries[id].nick = nick}
InHandOf(n) == {id \in Id : hand[id] # None /\ hand[id].network = n}

\* The networks' clients and schedulers start when adoption has been saved.
Serving == adopted /\ pc[Boot] = "free"

-----------------------------------------------------------------------------
(* A caller that has changed the store owes a save. *)

Owes(c, in, out) == /\ pc' = [pc EXCEPT ![c] = "save"]
                    /\ put' = [put EXCEPT ![c] = in]
                    /\ taken' = [taken EXCEPT ![c] = out]
Done(c) == /\ pc' = [pc EXCEPT ![c] = "free"]
           /\ put' = [put EXCEPT ![c] = {}]
           /\ taken' = [taken EXCEPT ![c] = {}]

Due(n) == {id \in Pending : entries[id].network = n /\ age[id] = "due"}
Stale(n) == {id \in Pending : entries[id].network = n /\ age[id] = "stale"}
Without(f, ids) == [id \in Id |-> IF id \in ids THEN None ELSE f[id]]
InHand(ids) == [id \in Id |-> IF id \in ids THEN entries[id] ELSE hand[id]]

(* Faults of the code that the properties below must notice. *)

\* Saves do not exclude each other.
StartSaveUnlocked(c) ==
    /\ pc[c] = "save"
    /\ pc' = [pc EXCEPT ![c] = "write"]
    /\ snapshot' = [snapshot EXCEPT ![c] = entries]
    /\ UNCHANGED <<storeVars, put, taken, adopted, boundVars, historyVars>>

\* What is popped is sent without a save, or stays in the map.
TickUnsaved(n) ==
    /\ Serving /\ pc[n] = "free" /\ InHandOf(n) = {}
    /\ Due(n) \cup Stale(n) # {}
    /\ entries' = Without(entries, Due(n) \cup Stale(n))
    /\ hand' = InHand(Due(n))
    /\ UNCHANGED <<file, age, callVars, boundVars, historyVars>>
TickKeeping(n) ==
    /\ Serving /\ pc[n] = "free" /\ InHandOf(n) = {}
    /\ Due(n) \cup Stale(n) # {}
    /\ hand' = InHand(Due(n))
    /\ Owes(n, {}, Due(n) \cup Stale(n))
    /\ UNCHANGED <<entries, file, age, snapshot, adopted, boundVars, historyVars>>

\* What could not be sent is not saved again.
SendFailsUnsaved(n, id) ==
    /\ pc[n] = "free" /\ id \in InHandOf(n)
    /\ entries' = [entries EXCEPT ![id] = hand[id]]
    /\ hand' = [hand EXCEPT ![id] = None]
    /\ UNCHANGED <<file, age, callVars, boundVars, historyVars>>

\* Reminders without a network stay that way.
LeftAlone(r) == r

-----------------------------------------------------------------------------
(* save: one at a time, under saveMu. *)

StartSave(c) ==
    /\ pc[c] = "save"
    /\ \A d \in Caller : pc[d] # "write"
    /\ pc' = [pc EXCEPT ![c] = "write"]
    /\ snapshot' = [snapshot EXCEPT ![c] = entries]
    /\ UNCHANGED <<storeVars, put, taken, adopted, boundVars, historyVars>>

\* The change is done when save() returns: a client that took one out is told so.
Return(c) == /\ Done(c)
             /\ told' = told \cup (IF c \in Client THEN taken[c] ELSE {})
             /\ snapshot' = [snapshot EXCEPT ![c] = Empty]

Saved(c) ==
    /\ pc[c] = "write"
    /\ file' = snapshot[c] /\ failed' = FALSE
    /\ Return(c)
    /\ UNCHANGED <<entries, age, hand, adopted, boundVars, sent, relapsed>>

\* An error is logged and the old file stays.
SaveFails(c) ==
    /\ pc[c] = "write"
    /\ failures < MaxFailures /\ failures' = failures + 1
    /\ failed' = TRUE
    /\ Return(c)
    /\ UNCHANGED <<storeVars, adopted, born, crashes, sent, relapsed>>

-----------------------------------------------------------------------------
(* The operations. *)

Adopted(r) == [r EXCEPT !.network = First]

AdoptUnscopedReminders ==
    LET found == {id \in Pending : entries[id].network = Unscoped}
    IN  /\ ~adopted /\ adopted' = TRUE
        /\ entries' = [id \in Id |-> IF id \in found THEN Adopted(entries[id]) ELSE entries[id]]
        /\ \/ found = {} /\ UNCHANGED <<pc, put, taken>>
           \/ found # {} /\ Owes(Boot, found, {})
        /\ UNCHANGED <<file, age, hand, snapshot, boundVars, historyVars>>

\* Both caps count the reminders of every network.
Add(c, id, r) ==
    /\ Serving /\ pc[c] = "free" /\ id \notin born
    /\ Cardinality(Pending) < MaxTotal
    /\ Cardinality(PendingOf(r.nick)) < MaxPerNick
    /\ entries' = [entries EXCEPT ![id] = r]
    /\ born' = born \cup {id}
    /\ Owes(c, {id}, {})
    /\ UNCHANGED <<file, age, hand, snapshot, adopted, failures, crashes, historyVars>>

\* The operator page may cancel before the networks are served.
Cancel(c, n, id) ==
    /\ pc[c] = "free"
    /\ id \in Pending /\ entries[id].network = n
    /\ entries' = Without(entries, {id})
    /\ Owes(c, {}, {id})
    /\ UNCHANGED <<file, age, hand, snapshot, adopted, boundVars, historyVars>>

\* A tick of the scheduler: PopDue; what is too late is dropped.
Tick(n) ==
    /\ Serving /\ pc[n] = "free" /\ InHandOf(n) = {}
    /\ Due(n) \cup Stale(n) # {}
    /\ entries' = Without(entries, Due(n) \cup Stale(n))
    /\ hand' = InHand(Due(n))
    /\ Owes(n, {}, Due(n) \cup Stale(n))
    /\ UNCHANGED <<file, age, snapshot, adopted, boundVars, historyVars>>

Send(n, id) ==
    /\ pc[n] = "free" /\ id \in InHandOf(n)
    /\ sent' = [sent EXCEPT ![id] = @ + 1]
    /\ hand' = [hand EXCEPT ![id] = None]
    /\ UNCHANGED <<entries, file, age, callVars, boundVars, failed, told, relapsed>>

\* The client is not connected.
SendFails(n, id) ==
    /\ pc[n] = "free" /\ id \in InHandOf(n)
    /\ entries' = [entries EXCEPT ![id] = hand[id]]
    /\ hand' = [hand EXCEPT ![id] = None]
    /\ Owes(n, {id}, {})
    /\ UNCHANGED <<file, age, snapshot, adopted, boundVars, historyVars>>

TimePasses(id) ==
    /\ id \in born /\ age[id] # "stale"
    /\ age' = [age EXCEPT ![id] = IF @ = "early" THEN "due" ELSE "stale"]
    /\ UNCHANGED <<entries, file, hand, callVars, boundVars, historyVars>>

\* The process dies and starts again: load().
Crash ==
    /\ crashes < MaxCrashes /\ crashes' = crashes + 1
    /\ entries' = file /\ hand' = Empty
    /\ pc' = [c \in Caller |-> "free"]
    /\ put' = [c \in Caller |-> {}] /\ taken' = [c \in Caller |-> {}]
    /\ snapshot' = [c \in Caller |-> Empty] /\ adopted' = FALSE
    /\ relapsed' = (relapsed \/ failed) /\ failed' = FALSE
    /\ UNCHANGED <<file, age, born, failures, sent, told>>

-----------------------------------------------------------------------------
Next == \/ AdoptUnscopedReminders
        \/ \E c \in Caller : StartSave(c) \/ Saved(c) \/ SaveFails(c)
        \/ \E c \in Client, id \in Id, n \in Network :
              \/ \E nick \in Nick : Add(c, id, [network |-> n, nick |-> nick])
              \/ Cancel(c, n, id)
        \/ \E n \in Network : Tick(n) \/ \E id \in Id : Send(n, id) \/ SendFails(n, id)
        \/ \E id \in Id : TimePasses(id)
        \/ Crash

Spec == Init /\ [][Next]_vars

(***************************************************************************)
(* Adoption comes first, the schedulers tick and get through what is in    *)
(* hand, time passes, a save that has begun ends, and saveMu serves who    *)
(* waits for it (Go's mutexes do not starve).  Nobody has to connect, add  *)
(* or cancel anything.                                                     *)
(***************************************************************************)
Fairness == /\ WF_vars(AdoptUnscopedReminders)
            /\ \A c \in Caller : SF_vars(StartSave(c)) /\ WF_vars(Saved(c) \/ SaveFails(c))
            /\ \A n \in Network :
                  /\ WF_vars(Tick(n))
                  /\ WF_vars(\E id \in Id : Send(n, id) \/ SendFails(n, id))
            /\ \A id \in Id : WF_vars(TimePasses(id))
FairSpec == Spec /\ Fairness

-----------------------------------------------------------------------------
Slot == Entry \cup {None}
Owed(id) == \E c \in Caller : pc[c] # "free" /\ id \in put[c] \cup taken[c]

(***************************************************************************)
(* The types of the variables; a reminder in hand has left the map.        *)
(***************************************************************************)
TypeOK ==
    /\ {entries, file, hand} \subseteq [Id -> Slot]
    /\ age \in [Id -> {"early", "due", "stale"}]
    /\ pc \in [Caller -> {"free", "save", "write"}]
    /\ {put, taken} \subseteq [Caller -> SUBSET Id]
    /\ snapshot \in [Caller -> [Id -> Slot]]
    /\ {adopted, failed, relapsed} \subseteq BOOLEAN
    /\ born \in SUBSET Id /\ told \in SUBSET Id
    /\ failures \in 0..MaxFailures /\ crashes \in 0..MaxCrashes
    /\ sent \in [Id -> Nat]
    /\ \A id \in Id : entries[id] = None \/ hand[id] = None

(***************************************************************************)
(* The file may differ from the map only in reminders whose change is      *)
(* still to be saved, or after a save that failed: so a crash can lose or  *)
(* bring back nothing else, however changes and saves interleave.          *)
(***************************************************************************)
FileFollows == \A id \in Id : file[id] # entries[id] => failed \/ Owed(id)

(***************************************************************************)
(* A reminder is sent at most once ("or an overlapping tick would deliver  *)
(* the same reminder twice", reminders_test.go), over put-backs, several   *)
(* savers and crashes, unless the process died with its last save failed.  *)
(***************************************************************************)
SentAtMostOnce == ~relapsed => \A id \in Id : sent[id] <= 1

(***************************************************************************)
(* Once Cancel has returned true the reminder is not sent any more, not    *)
(* even by a later life of the process, with the same exception.           *)
(***************************************************************************)
CancelledIsQuiet == [][~relapsed => \A id \in told : sent'[id] = sent[id]]_vars

(***************************************************************************)
(* Every reminder leaves the store in the end, also one of a file without  *)
(* networks and one that is put back time and again: it is sent,           *)
(* cancelled or dropped as too late.                                       *)
(***************************************************************************)
EveryReminderSettles ==
    \A id \in Id : entries[id] # None ~> entries[id] = None /\ hand[id] = None
=============================================================================
