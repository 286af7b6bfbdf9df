-------------------------- MODULE Reminders_proofs --------------------------
(***************************************************************************)
(* Theorems about Reminders: its types, that the file follows the map, and *)
(* that a reminder is sent at most once and never after Cancel returned    *)
(* true, for any reminders, networks, callers, failures and crashes.       *)
(*                                                                         *)
(* The inductive invariant says what the readable properties leave out:    *)
(* which caller still has to save a difference between the map and what is *)
(* being written (SnapshotLags) or lies in the file (FileLags), that a     *)
(* reminder is taken out by one caller only (Takers), and that what was    *)
(* sent, cancelled or is in hand has left every copy a crash could load    *)
(* or a save under way could still write (Gone).                           *)
(***************************************************************************)
EXTENDS Reminders, TLAPS

\* The caller whose change of id is still to be saved: it took it out, or put it in.
Changer(c, id) == IF entries[id] = None THEN id \in taken[c] ELSE id \in put[c]

Quiescent == /\ \A c \in Caller : pc[c] = "free" => put[c] = {} /\ taken[c] = {}
             /\ ~adopted => pc[Boot] = "free"

OneWriter == \A c, d \in Caller : pc[c] = "write" /\ pc[d] = "write" => c = d

SnapshotLags ==
    \A c \in Caller, id \in Id :
        pc[c] = "write" /\ snapshot[c][id] # entries[id] =>
            \E d \in Caller : pc[d] = "save" /\ Changer(d, id)

FileLags ==
    \A id \in Id : file[id] # entries[id] =>
        failed \/ \E d \in Caller : pc[d] # "free" /\ Changer(d, id)

Takers ==
    \A c \in Caller : \A id \in taken[c] :
        /\ entries[id] = None
        /\ hand[id] # None => hand[id].network = c
        /\ \A d \in Caller : id \in taken[d] => c = d

Hands == \A id \in Id : hand[id] # None => hand[id].network \in Network

\* An id that has not been drawn is nowhere.
Drawn ==
    \A id \in Id \ born :
        /\ entries[id] = None /\ file[id] = None /\ hand[id] = None
        /\ \A c \in Caller : id \notin taken[c]
        /\ \A c \in Caller : pc[c] = "write" => snapshot[c][id] = None

\* No copy of id is left that a crash could load or a save could write.
Out(id) == /\ failed \/ file[id] = None
           /\ \A c \in Caller : pc[c] = "write" => snapshot[c][id] = None

Over(id) == id \in told \/ sent[id] # 0

Gone ==
    ~relapsed => \A id \in Id :
        /\ Over(id) => /\ entries[id] = None /\ hand[id] = None /\ id \in born
                       /\ \A c \in Caller : id \notin taken[c]
                       /\ Out(id)
        /\ hand[id] # None => Out(id) \/ \E c \in Caller : id \in taken[c]
        /\ sent[id] <= 1

IInv == /\ TypeOK /\ Quiescent /\ OneWriter /\ SnapshotLags /\ FileLags
        /\ Takers /\ Hands /\ Drawn /\ Gone

-----------------------------------------------------------------------------
(* One lemma per action, one step per part of the invariant. *)

\* A save copies the map: what differs from its copy later is someone else's to save.
LEMMA StartSaveKeeps ==
    ASSUME IInv, NEW c \in Caller, StartSave(c)
    PROVE  IInv'
<1> USE DEF IInv
<1>1. TypeOK'
  BY DEF StartSave, TypeOK, boundVars, historyVars, storeVars
<1>2. Quiescent'
  BY DEF Quiescent, StartSave
<1>3. OneWriter'
  BY DEF OneWriter, StartSave
<1>4. SnapshotLags'
  BY DEF SnapshotLags, StartSave, TypeOK, storeVars
<1>5. FileLags'
  BY DEF Changer, FileLags, StartSave, historyVars, storeVars
<1>6. Takers'
  BY DEF StartSave, Takers, storeVars
<1>7. Hands'
  BY DEF Hands, StartSave, storeVars
<1>8. Drawn'
  BY DEF Drawn, StartSave, TypeOK, boundVars, storeVars
<1>9. Gone'
  BY DEF Gone, Out, Over, StartSave, TypeOK, boundVars, historyVars, storeVars
<1> QED BY <1>1, <1>2, <1>3, <1>4, <1>5, <1>6, <1>7, <1>8, <1>9

\* What the written copy lacks, another caller in "save" still has to write.
LEMMA SavedKeeps ==
    ASSUME IInv, NEW c \in Caller, Saved(c)
    PROVE  IInv'
<1> USE DEF IInv
<1>1. TypeOK'
  <2>1. pc' \in [Caller -> {"free", "save", "write"}]
        /\ put' \in [Caller -> SUBSET Id] /\ taken' \in [Caller -> SUBSET Id]
    BY DEF Saved, Return, Done, TypeOK
  <2>2. told' \in SUBSET Id
    BY DEF Saved, Return, TypeOK
  <2>3. file' \in [Id -> Slot] /\ snapshot' \in [Caller -> [Id -> Slot]]
    BY DEF Saved, Return, TypeOK, Empty, Slot
  <2> QED BY <2>1, <2>2, <2>3 DEF Saved, TypeOK, boundVars
<1>2. Quiescent'
  BY DEF Done, Quiescent, Return, Saved, TypeOK
<1>3. OneWriter'
  BY DEF Done, OneWriter, Return, Saved
<1>4. SnapshotLags'
  BY DEF Done, OneWriter, Return, Saved, SnapshotLags, TypeOK
<1>5. FileLags'
  BY DEF Changer, Done, FileLags, Return, Saved, SnapshotLags
<1>6. Takers'
  BY DEF Done, Return, Saved, Takers
<1>7. Hands'
  BY DEF Hands, Saved
<1>8. Drawn'
  BY DEF Done, Drawn, Empty, Return, Saved, boundVars
<1>9. Gone'
  BY NamesAssumption DEF Caller, Changer, Done, Drawn, Gone, Hands, Out, Over, Return, Saved,
                         SnapshotLags, Takers, TypeOK, boundVars
<1> QED BY <1>1, <1>2, <1>3, <1>4, <1>5, <1>6, <1>7, <1>8, <1>9

\* After a failed save the file may differ anywhere.
LEMMA SaveFailsKeeps ==
    ASSUME IInv, NEW c \in Caller, SaveFails(c)
    PROVE  IInv'
<1> USE DEF IInv
<1>1. TypeOK'
  BY CapsAssumption DEF Done, Empty, Return, SaveFails, TypeOK, storeVars
<1>2. Quiescent'
  BY DEF Done, Quiescent, Return, SaveFails, TypeOK
<1>3. OneWriter'
  BY DEF Done, OneWriter, Return, SaveFails
<1>4. SnapshotLags'
  BY DEF Done, OneWriter, Return, SaveFails, SnapshotLags, TypeOK
<1>5. FileLags'
  BY DEF FileLags, SaveFails
<1>6. Takers'
  BY DEF Done, Return, SaveFails, Takers, storeVars
<1>7. Hands'
  BY DEF Hands, SaveFails, storeVars
<1>8. Drawn'
  BY DEF Done, Drawn, Empty, Return, SaveFails, storeVars
<1>9. Gone'
  BY NamesAssumption DEF Done, Drawn, Gone, Hands, OneWriter, Out, Over, Return, SaveFails,
                         Takers, TypeOK, storeVars
<1> QED BY <1>1, <1>2, <1>3, <1>4, <1>5, <1>6, <1>7, <1>8, <1>9

\* Only reminders without a network change, and Boot saves them.
LEMMA AdoptKeeps ==
    ASSUME IInv, AdoptUnscopedReminders
    PROVE  IInv'
<1> USE DEF IInv
<1>1. TypeOK'
  BY NamesAssumption, CapsAssumption DEF AdoptUnscopedReminders, Adopted, Caller, Entry, Owes,
                                         Pending, Slot, TypeOK, boundVars, historyVars
<1>2. Quiescent'
  BY DEF AdoptUnscopedReminders, Owes, Quiescent, TypeOK
<1>3. OneWriter'
  BY DEF AdoptUnscopedReminders, OneWriter, Owes, TypeOK
<1>4. SnapshotLags'
  <2> DEFINE found == {id \in Pending : entries[id].network = Unscoped}
  <2>1. \A id \in Id : IF id \in found THEN entries'[id] # None ELSE entries'[id] = entries[id]
    BY NamesAssumption, NoneAssumption DEF AdoptUnscopedReminders, Adopted, Pending, TypeOK,
                                           Slot, Entry
  <2>2. found = {} \/ (pc'[Boot] = "save" /\ put'[Boot] = found)
    <3>1. pc \in [Caller -> {"free", "save", "write"}] /\ put \in [Caller -> SUBSET Id] /\ Boot \in Caller
      BY DEF TypeOK, Caller
    <3>2. \/ found = {}
          \/ pc' = [pc EXCEPT ![Boot] = "save"] /\ put' = [put EXCEPT ![Boot] = found]
      BY DEF AdoptUnscopedReminders, Owes
    <3> QED BY <3>1, <3>2
  <2>3. \A c \in Caller : c # Boot => pc'[c] = pc[c] /\ put'[c] = put[c] /\ taken'[c] = taken[c]
    BY DEF AdoptUnscopedReminders, Owes, TypeOK
  <2>4. pc[Boot] = "free" /\ (found = {} => UNCHANGED <<pc, put, taken>>)
    BY DEF AdoptUnscopedReminders, Owes, Quiescent, TypeOK, Caller
  <2>5. UNCHANGED <<file, failed, snapshot>>
    BY DEF AdoptUnscopedReminders, historyVars
  <2> HIDE DEF found
  <2> QED BY <2>1, <2>2, <2>3, <2>4, <2>5 DEF SnapshotLags, Changer, Caller
<1>5. FileLags'
  <2> DEFINE found == {id \in Pending : entries[id].network = Unscoped}
  <2>1. \A id \in Id : IF id \in found THEN entries'[id] # None ELSE entries'[id] = entries[id]
    BY NamesAssumption, NoneAssumption DEF AdoptUnscopedReminders, Adopted, Pending, TypeOK,
                                           Slot, Entry
  <2>2. found = {} \/ (pc'[Boot] = "save" /\ put'[Boot] = found)
    <3>1. pc \in [Caller -> {"free", "save", "write"}] /\ put \in [Caller -> SUBSET Id] /\ Boot \in Caller
      BY DEF TypeOK, Caller
    <3>2. \/ found = {}
          \/ pc' = [pc EXCEPT ![Boot] = "save"] /\ put' = [put EXCEPT ![Boot] = found]
      BY DEF AdoptUnscopedReminders, Owes
    <3> QED BY <3>1, <3>2
  <2>3. \A c \in Caller : c # Boot => pc'[c] = pc[c] /\ put'[c] = put[c] /\ taken'[c] = taken[c]
    BY DEF AdoptUnscopedReminders, Owes, TypeOK
  <2>4. pc[Boot] = "free" /\ (found = {} => UNCHANGED <<pc, put, taken>>)
    BY DEF AdoptUnscopedReminders, Owes, Quiescent, TypeOK, Caller
  <2>5. UNCHANGED <<file, failed, snapshot>>
    BY DEF AdoptUnscopedReminders, historyVars
  <2> HIDE DEF found
  <2> QED BY <2>1, <2>2, <2>3, <2>4, <2>5 DEF FileLags, Changer, Caller
<1>6. Takers'
  BY DEF AdoptUnscopedReminders, Caller, Owes, Pending, Takers, TypeOK
<1>7. Hands'
  BY DEF AdoptUnscopedReminders, Hands
<1>8. Drawn'
  BY DEF AdoptUnscopedReminders, Adopted, Drawn, Owes, Pending, TypeOK, boundVars
<1>9. Gone'
  BY DEF AdoptUnscopedReminders, Caller, Gone, Out, Over, Owes, Pending, Quiescent, TypeOK,
         boundVars, historyVars
<1> QED BY <1>1, <1>2, <1>3, <1>4, <1>5, <1>6, <1>7, <1>8, <1>9

\* A new id is in no copy yet.
LEMMA AddKeeps ==
    ASSUME IInv, NEW c \in Client, NEW id \in Id, NEW r \in Entry, r.network \in Network, Add(c, id, r)
    PROVE  IInv'
<1> USE DEF IInv
<1>1. TypeOK'
  BY DEF Add, Caller, Drawn, Entry, Owes, Slot, TypeOK, historyVars
<1>2. Quiescent'
  BY NamesAssumption DEF Add, Owes, Quiescent, TypeOK
<1>3. OneWriter'
  BY DEF Add, OneWriter, Owes
<1>4. SnapshotLags'
  BY NoneAssumption DEF Add, Caller, Changer, Owes, SnapshotLags, TypeOK
<1>5. FileLags'
  BY NoneAssumption DEF Add, Caller, Changer, FileLags, Owes, TypeOK, historyVars
<1>6. Takers'
  BY DEF Add, Drawn, Owes, Takers
<1>7. Hands'
  BY DEF Add, Hands
<1>8. Drawn'
  BY DEF Add, Drawn, Owes
<1>9. Gone'
  BY DEF Add, Gone, Out, Over, Owes, Quiescent, historyVars
<1> QED BY <1>1, <1>2, <1>3, <1>4, <1>5, <1>6, <1>7, <1>8, <1>9

\* What is in the map is in no hand, and only its taker tells of it.
LEMMA CancelKeeps ==
    ASSUME IInv, NEW c \in Client, NEW n \in Network, NEW id \in Id, Cancel(c, n, id)
    PROVE  IInv'
<1> USE DEF IInv
<1>1. TypeOK'
  BY DEF Caller, Cancel, Owes, TypeOK, Without, boundVars, historyVars
<1>2. Quiescent'
  BY NamesAssumption DEF Cancel, Owes, Quiescent, TypeOK
<1>3. OneWriter'
  BY DEF Cancel, OneWriter, Owes
<1>4. SnapshotLags'
  BY DEF Caller, Cancel, Changer, Owes, SnapshotLags, TypeOK, Without
<1>5. FileLags'
  BY DEF Caller, Cancel, Changer, FileLags, Owes, TypeOK, Without, historyVars
<1>6. Takers'
  BY DEF Cancel, Owes, Pending, Takers, TypeOK, Without
<1>7. Hands'
  BY DEF Cancel, Hands
<1>8. Drawn'
  BY DEF Cancel, Drawn, Owes, Pending, Without, boundVars
<1>9. Gone'
  BY DEF Cancel, Gone, Out, Over, Owes, Pending, Quiescent, Without, boundVars, historyVars
<1> QED BY <1>1, <1>2, <1>3, <1>4, <1>5, <1>6, <1>7, <1>8, <1>9

\* What is popped leaves the map, and its scheduler saves before it sends.
LEMMA TickKeeps ==
    ASSUME IInv, NEW n \in Network, Tick(n)
    PROVE  IInv'
<1> USE DEF IInv
<1>1. TypeOK'
  BY DEF Caller, Due, InHand, Owes, Pending, Stale, Tick, TypeOK, Without, boundVars,
         historyVars
<1>2. Quiescent'
  BY NamesAssumption DEF Owes, Quiescent, Tick, TypeOK
<1>3. OneWriter'
  BY DEF OneWriter, Owes, Tick
<1>4. SnapshotLags'
  BY DEF Caller, Changer, Owes, SnapshotLags, Tick, TypeOK, Without
<1>5. FileLags'
  BY DEF Caller, Changer, FileLags, Owes, Tick, TypeOK, Without, historyVars
<1>6. Takers'
  BY DEF Due, InHand, Owes, Pending, Stale, Takers, Tick, TypeOK, Without
<1>7. Hands'
  BY DEF Due, Hands, InHand, Tick
<1>8. Drawn'
  BY DEF Drawn, Due, InHand, Owes, Pending, Stale, Tick, Without, boundVars
<1>9. Gone'
  BY DEF Caller, Due, Gone, InHand, Out, Over, Owes, Pending, Quiescent, Stale, Tick, TypeOK,
         Without, boundVars, historyVars
<1> QED BY <1>1, <1>2, <1>3, <1>4, <1>5, <1>6, <1>7, <1>8, <1>9

\* What is in hand and has been saved is in no copy any more, so it is sent for the last time.
LEMMA SendKeeps ==
    ASSUME IInv, NEW n \in Network, NEW id \in Id, Send(n, id)
    PROVE  IInv'
<1> USE DEF IInv
<1>1. TypeOK'
  BY DEF Send, TypeOK, boundVars, callVars
<1>2. Quiescent'
  BY DEF Quiescent, Send, callVars
<1>3. OneWriter'
  BY DEF OneWriter, Send, callVars
<1>4. SnapshotLags'
  BY DEF Changer, Send, SnapshotLags, callVars
<1>5. FileLags'
  BY DEF Changer, FileLags, Send, callVars
<1>6. Takers'
  BY DEF Send, Takers, callVars
<1>7. Hands'
  BY DEF Hands, Send
<1>8. Drawn'
  BY DEF Drawn, Send, boundVars, callVars
<1>9. Gone'
  BY DEF Drawn, Gone, InHandOf, Out, Over, Quiescent, Send, Takers, TypeOK, boundVars, callVars
<1> QED BY <1>1, <1>2, <1>3, <1>4, <1>5, <1>6, <1>7, <1>8, <1>9

\* What could not be sent goes back, and its scheduler saves it again.
LEMMA SendFailsKeeps ==
    ASSUME IInv, NEW n \in Network, NEW id \in Id, SendFails(n, id)
    PROVE  IInv'
<1> USE DEF IInv
<1>1. TypeOK'
  BY DEF Caller, Owes, SendFails, TypeOK, boundVars, historyVars
<1>2. Quiescent'
  BY NamesAssumption DEF Owes, Quiescent, SendFails, TypeOK
<1>3. OneWriter'
  BY DEF OneWriter, Owes, SendFails
<1>4. SnapshotLags'
  BY DEF Caller, Changer, InHandOf, Owes, SendFails, SnapshotLags, TypeOK
<1>5. FileLags'
  BY DEF Caller, Changer, FileLags, InHandOf, Owes, SendFails, TypeOK, historyVars
<1>6. Takers'
  BY DEF InHandOf, Owes, Quiescent, SendFails, Takers
<1>7. Hands'
  BY DEF Hands, SendFails
<1>8. Drawn'
  BY DEF Drawn, Owes, SendFails, boundVars
<1>9. Gone'
  BY DEF Gone, Out, Over, Owes, Quiescent, SendFails, boundVars, historyVars
<1> QED BY <1>1, <1>2, <1>3, <1>4, <1>5, <1>6, <1>7, <1>8, <1>9

\* Time changes nothing the invariant speaks of.
LEMMA TimePassesKeeps ==
    ASSUME IInv, NEW id \in Id, TimePasses(id)
    PROVE  IInv'
<1> USE DEF IInv
<1>1. TypeOK'
  BY DEF TimePasses, TypeOK, boundVars, callVars, historyVars
<1>2. Quiescent'
  BY DEF Quiescent, TimePasses, callVars
<1>3. OneWriter'
  BY DEF OneWriter, TimePasses, callVars
<1>4. SnapshotLags'
  BY DEF Changer, SnapshotLags, TimePasses, callVars
<1>5. FileLags'
  BY DEF Changer, FileLags, TimePasses, callVars, historyVars
<1>6. Takers'
  BY DEF Takers, TimePasses, callVars
<1>7. Hands'
  BY DEF Hands, TimePasses
<1>8. Drawn'
  BY DEF Drawn, TimePasses, boundVars, callVars
<1>9. Gone'
  BY DEF Gone, Out, Over, TimePasses, boundVars, callVars, historyVars
<1> QED BY <1>1, <1>2, <1>3, <1>4, <1>5, <1>6, <1>7, <1>8, <1>9

\* The file becomes the map, and with it nothing that is over comes back.
LEMMA CrashKeeps ==
    ASSUME IInv, Crash
    PROVE  IInv'
<1> USE DEF IInv
<1>1. TypeOK'
  <2>1. relapsed' \in BOOLEAN
    <3>1. relapsed \in BOOLEAN /\ failed \in BOOLEAN
      BY DEF TypeOK
    <3> QED BY <3>1 DEF Crash
  <2>2. adopted' \in BOOLEAN /\ failed' \in BOOLEAN
    BY DEF Crash
  <2>3. crashes' \in 0..MaxCrashes
    BY CapsAssumption DEF Crash, TypeOK
  <2> QED BY <2>1, <2>2, <2>3 DEF Crash, TypeOK, Empty, Slot
<1>2. Quiescent'
  BY DEF Caller, Crash, Quiescent
<1>3. OneWriter'
  BY DEF Crash, OneWriter
<1>4. SnapshotLags'
  BY DEF Crash, SnapshotLags
<1>5. FileLags'
  BY DEF Crash, FileLags
<1>6. Takers'
  BY DEF Crash, Takers
<1>7. Hands'
  BY DEF Crash, Empty, Hands
<1>8. Drawn'
  BY DEF Crash, Drawn, Empty
<1>9. Gone'
  BY DEF Crash, Empty, Gone, Out, Over, TypeOK
<1> QED BY <1>1, <1>2, <1>3, <1>4, <1>5, <1>6, <1>7, <1>8, <1>9

-----------------------------------------------------------------------------
LEMMA Initial == Init => IInv
<1> SUFFICES ASSUME Init PROVE IInv
  OBVIOUS
<1>1. entries \in [Id -> Slot] /\ file = entries /\ \A id \in Id : entries[id] # None => id \in born
  BY DEF Init, Slot, Entry
<1>2. TypeOK
  <2>1. failures \in 0..MaxFailures /\ crashes \in 0..MaxCrashes
    BY CapsAssumption DEF Init
  <2>2. born \in SUBSET Id /\ told \in SUBSET Id
    BY DEF Init
  <2>3. {adopted, failed, relapsed} \subseteq BOOLEAN
    BY DEF Init
  <2>4. snapshot \in [Caller -> [Id -> Slot]] /\ hand \in [Id -> Slot]
        /\ \A id \in Id : hand[id] = None
    BY DEF Init, Idle, Empty, Slot
  <2>5. /\ pc \in [Caller -> {"free", "save", "write"}]
        /\ {put, taken} \subseteq [Caller -> SUBSET Id]
        /\ age \in [Id -> {"early", "due", "stale"}] /\ sent \in [Id -> Nat]
    BY DEF Init, Idle
  <2> QED BY <1>1, <2>1, <2>2, <2>3, <2>4, <2>5 DEF TypeOK
<1>3. Quiescent /\ OneWriter /\ SnapshotLags /\ FileLags /\ Takers
  BY <1>1, NamesAssumption DEF Init, Idle, Quiescent, OneWriter, SnapshotLags, FileLags,
                               Takers, Caller
<1>4. Hands /\ Drawn
  BY <1>1 DEF Init, Idle, Empty, Hands, Drawn
<1>5. Gone
  BY DEF Init, Idle, Empty, Gone, Over
<1> QED BY <1>2, <1>3, <1>4, <1>5 DEF IInv

LEMMA Step == IInv /\ [Next]_vars => IInv'
<1> SUFFICES ASSUME IInv, [Next]_vars PROVE IInv'
  OBVIOUS
<1>1. CASE AdoptUnscopedReminders
  BY <1>1, AdoptKeeps
<1>2. CASE \E c \in Caller : StartSave(c) \/ Saved(c) \/ SaveFails(c)
  BY <1>2, StartSaveKeeps, SavedKeeps, SaveFailsKeeps
<1>3. ASSUME NEW c \in Client, NEW id \in Id, NEW n \in Network,
             \/ \E nick \in Nick : Add(c, id, [network |-> n, nick |-> nick])
             \/ Cancel(c, n, id)
      PROVE  IInv'
  <2>1. ASSUME NEW nick \in Nick, Add(c, id, [network |-> n, nick |-> nick])
        PROVE  IInv'
    <3>1. [network |-> n, nick |-> nick] \in Entry /\ [network |-> n, nick |-> nick].network \in Network
      BY DEF Entry
    <3> QED BY <2>1, <3>1, AddKeeps
  <2> QED BY <1>3, <2>1, CancelKeeps
<1>4. ASSUME NEW n \in Network, Tick(n) \/ \E id \in Id : Send(n, id) \/ SendFails(n, id)
      PROVE  IInv'
  BY <1>4, TickKeeps, SendKeeps, SendFailsKeeps
<1>5. CASE \E id \in Id : TimePasses(id)
  BY <1>5, TimePassesKeeps
<1>6. CASE Crash
  BY <1>6, CrashKeeps
<1>7. CASE UNCHANGED vars
  BY <1>7 DEF vars, storeVars, callVars, boundVars, historyVars, IInv, TypeOK, Quiescent,
              OneWriter,
              SnapshotLags, Changer, FileLags, Takers, Hands, Drawn, Gone, Over, Out
<1> QED BY <1>1, <1>2, <1>3, <1>4, <1>5, <1>6, <1>7 DEF Next

LEMMA Invariant == Spec => []IInv
BY Initial, Step, PTL DEF Spec

(***************************************************************************)
(* The variables keep their types, and a reminder in hand is not in the    *)
(* map.                                                                    *)
(***************************************************************************)
THEOREM TypeCorrect == Spec => []TypeOK
<1>1. IInv => TypeOK
  BY DEF IInv
<1> QED BY <1>1, Invariant, PTL

(***************************************************************************)
(* However many callers change and save the store: the file differs from   *)
(* the map only where a change is still to be saved, or after a save that  *)
(* failed.                                                                 *)
(***************************************************************************)
THEOREM TheFileFollows == Spec => []FileFollows
<1>1. IInv => FileFollows
  BY DEF IInv, FileLags, Changer, FileFollows, Owed
<1> QED BY <1>1, Invariant, PTL

(***************************************************************************)
(* No reminder is sent twice, through any number of put-backs, savers and  *)
(* crashes, unless the process died with its last save failed.             *)
(***************************************************************************)
THEOREM NoneIsSentTwice == Spec => []SentAtMostOnce
<1>1. IInv => SentAtMostOnce
  BY DEF IInv, Gone, SentAtMostOnce
<1> QED BY <1>1, Invariant, PTL

(***************************************************************************)
(* A reminder whose Cancel returned true is not sent any more, with the    *)
(* same exception.                                                         *)
(***************************************************************************)
THEOREM CancelledStaysQuiet == Spec => CancelledIsQuiet
<1>1. IInv /\ [Next]_vars => [~relapsed => \A id \in told : sent'[id] = sent[id]]_vars
  <2> SUFFICES ASSUME IInv, Next, ~relapsed, NEW id \in told
               PROVE  sent'[id] = sent[id]
    BY DEF vars
  <2>1. ASSUME NEW n \in Network, NEW i \in Id, Send(n, i)
        PROVE  sent'[id] = sent[id]
    <3>1. hand[i] # None /\ sent' = [sent EXCEPT ![i] = @ + 1]
      BY <2>1 DEF Send, InHandOf
    <3>2. id \in Id /\ hand[id] = None
      BY DEF IInv, TypeOK, Gone, Over
    <3> QED BY <3>1, <3>2 DEF IInv, TypeOK
  <2>2. ASSUME ~ \E n \in Network, i \in Id : Send(n, i)
        PROVE  sent' = sent
    BY <2>2 DEF Next, AdoptUnscopedReminders, StartSave, Saved, SaveFails, Add, Cancel, Tick,
                SendFails,
                TimePasses, Crash, historyVars
  <2> QED BY <2>1, <2>2
<1> QED BY <1>1, Invariant, PTL DEF Spec, CancelledIsQuiet
=============================================================================
