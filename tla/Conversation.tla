---------------------------- MODULE Conversation ----------------------------
(***************************************************************************)
(* One channel's conversation: the requests that commit exchanges to its   *)
(* history, the folds that move its older turns to the recap, and the      *)
(* commands that reset it, screen a speaker or clear the recap.            *)
(*                                                                         *)
(* core.CommitLock serialises commits, folds and quarantines; holder has   *)
(* it, and todo is what its holder still has to write, one store call a    *)
(* step.  A fold looks at the history, asks the model without the lock,    *)
(* then looks again.  +reset clears the session without the lock.          *)
(*                                                                         *)
(* Every message has the size 1.  A recap is the set of requests it tells  *)
(* of: the model that writes it forgets nothing.                           *)
(***************************************************************************)
EXTENDS SessionStore, Queues

CONSTANTS MaxContext,  \* maxcontext
          Keep,        \* what a size fold leaves: maxcontext * recapKeepFraction
          Hard,        \* where hardTrim cuts: maxcontext * recapHardFactor
          KeepTurns,   \* idleKeepTurns
          MaxEvents    \* idle folds, resets, cleared recaps and restarts (a bound of the model)

ASSUME SizeAssumption == /\ {MaxContext, Keep, Hard} \subseteq Nat
                         /\ Keep <= MaxContext /\ MaxContext <= Hard
                         /\ KeepTurns \in Nat \ {0}
                         /\ MaxEvents \in Nat
ASSUME WriterAssumption == {"fold", "screen", "nobody"} \cap Request = {}

VARIABLES pc,          \* where each request is
          cancelled,   \* requests at the model whose context was cancelled
          holder,      \* who has the commit lock
          todo,        \* what each writer still has to write
          recap,       \* the row of the recaps table
          fold,        \* the fold in flight: folding has one entry for the key
          queued,      \* size folds that were started and have not run yet
          screening,   \* where +screen is
          events       \* how many of MaxEvents have been

convVars == <<pc, cancelled, holder, todo, recap, fold, queued, screening, events>>
vars == <<storeVars, convVars>>

Writer == Request \cup {"fold", "screen"}
Wipe == [of |-> "nobody", role |-> "wipe"]
Stage == {"idle", "asked", "answered", "failed", "writing", "noting",
          "convicted", "purging", "closing", "done"}
NoFold == [pc |-> "off", old |-> <<>>, draft |-> {}, rest |-> <<>>]

Says(r, role) == [of |-> r, role |-> role]
Question(r) == <<Says(r, "user")>>
Exchange(r) == Question(r)
                 \o (IF r \in ToolUser THEN <<Says(r, "tool")>> ELSE <<>>)
                 \o <<Says(r, "assistant")>>

Turns(s) == {m.of : m \in ToSet(s)}

\* The number of leading messages before the first user message at or after i.
NextTurnStart(s, i) ==
    Min({j \in i..(Len(s) - 1) : s[j + 1].role = "user"} \cup {Len(s)})

CutForSize(s, keep) == NextTurnStart(s, Max({0, Len(s) - keep}))

CutKeepTurns(s, n) ==
    LET starts == {i \in DOMAIN s : s[i].role = "user"}
    IN  IF Cardinality(starts) < n THEN 0
        ELSE (CHOOSE i \in starts : Cardinality({j \in starts : j >= i}) = n) - 1

\* The last user message up to the ith says whose turn the ith is part of.
BySuspect(s, i) == LET asked == {j \in 1..i : s[j].role = "user"}
                   IN  asked # {} /\ s[Max(asked)].of \in Suspect

Purged(s) == Sift(s, {i \in DOMAIN s : ~BySuspect(s, i)})

\* Whom the transcript of s tells of: nobody who is screened.
Transcript(s) ==
    {s[i].of : i \in {j \in DOMAIN s : ~(screening # "off" /\ BySuspect(s, j))}}

Stay(r, s) == pc' = [pc EXCEPT ![r] = s]

Event == events < MaxEvents /\ events' = events + 1

Acquire(w) == holder = "nobody" /\ holder' = w
Written(w) == holder = w /\ todo[w] = <<>>
Release(w) == Written(w) /\ holder' = "nobody"
WillWrite(w, s) == todo' = [todo EXCEPT ![w] = s]

\* What the history is once the holder of the lock has written the rest.
Kept == IF holder = "nobody" THEN history
        ELSE LET rest == todo[holder]
             IN  IF rest # <<>> /\ Head(rest) = Wipe THEN Tail(rest) ELSE history \o rest

Init == /\ StoreInit
        /\ pc = [r \in Request |-> "idle"]
        /\ cancelled = {}
        /\ holder = "nobody"
        /\ todo = [w \in Writer |-> <<>>]
        /\ recap = {}
        /\ fold = NoFold
        /\ queued = 0
        /\ screening = "off"
        /\ events = 0

-----------------------------------------------------------------------------
(* Faults of the code that the properties below must notice. *)

\* The rest is added to a history nobody cleared.
SaveRecapAppending ==
    /\ fold.pc = "checked"
    /\ recap' = fold.draft
    /\ WillWrite("fold", fold.rest)
    /\ fold' = [NoFold EXCEPT !.pc = "rewriting"]
    /\ UNCHANGED <<storeVars, pc, cancelled, holder, queued, screening, events>>

\* Every look at the size starts a fold for the size and one for the limit.
StartTwoFolds == queued' = IF Len(history) > MaxContext THEN queued + 2 ELSE queued

\* After the model call a fold only looks at the length of the history.
CheckLength ==
    /\ fold.pc = "asking"
    /\ holder = "nobody"
    /\ \/ /\ Len(history) >= Len(fold.old)
          /\ holder' = "fold"
          /\ fold' = [fold EXCEPT !.pc = "checked",
                                  !.rest = SubSeq(history, Len(fold.old) + 1, Len(history))]
       \/ /\ Len(history) < Len(fold.old)
          /\ fold' = NoFold
          /\ UNCHANGED holder
    /\ UNCHANGED <<storeVars, pc, cancelled, todo, recap, queued, screening, events>>

\* A failed SetRecap returns without the deferred unlock.
SaveRecapKeepingLock ==
    /\ fold.pc = "checked"
    /\ \/ /\ recap' = fold.draft
          /\ WillWrite("fold", <<Wipe>> \o fold.rest)
          /\ fold' = [NoFold EXCEPT !.pc = "rewriting"]
       \/ /\ fold' = NoFold
          /\ UNCHANGED <<recap, todo>>
    /\ UNCHANGED <<storeVars, pc, cancelled, holder, queued, screening, events>>

\* What is kept is added to a history nobody cleared.
FindTurnsAppending(w) ==
    /\ holder = "nobody"
    /\ \/ /\ Purged(history) = history
          /\ UNCHANGED <<holder, todo>>
       \/ /\ Purged(history) # history
          /\ Acquire(w)
          /\ WillWrite(w, Purged(history))
    /\ UNCHANGED <<storeVars, cancelled, recap, fold, queued, events>>

-----------------------------------------------------------------------------
(* A request (Complete and the stream it reads). *)

\* Complete, up to the request to the model; a screened speaker may be refused.
Ask(r) ==
    /\ pc[r] = "idle"
    /\ \/ Stay(r, "asked")
       \/ r \in Suspect /\ screening # "off" /\ Stay(r, "done")
    /\ UNCHANGED <<storeVars, cancelled, holder, todo, recap, fold, queued, screening, events>>

\* The agent returns.  A cancelled request forgets its question.
Answer(r) ==
    /\ pc[r] = "asked"
    /\ \/ r \in cancelled /\ Stay(r, "closing")
       \/ r \notin cancelled /\ (Stay(r, "answered") \/ Stay(r, "failed"))
    /\ cancelled' = cancelled \ {r}
    /\ UNCHANGED <<storeVars, holder, todo, recap, fold, queued, screening, events>>

\* commitExchange: the whole exchange, or the question a failed request leaves.
CommitExchange(r) ==
    /\ Acquire(r)
    /\ \/ pc[r] = "answered" /\ WillWrite(r, Exchange(r)) /\ Stay(r, "writing")
       \/ pc[r] = "failed" /\ WillWrite(r, Question(r)) /\ Stay(r, "noting")
    /\ UNCHANGED <<storeVars, cancelled, recap, fold, queued, screening, events>>

MaybeFold == queued' = IF Len(history) > MaxContext THEN queued + 1 ELSE queued

\* An answer is followed by a look at the size, unless it ran out of iterations; then the reply,
\* or the speaker's score, may have the exchange quarantined.
Committed(r) ==
    /\ Release(r)
    /\ \/ pc[r] = "writing" /\ MaybeFold
       \/ pc[r] \in {"writing", "noting"} /\ UNCHANGED queued
    /\ Stay(r, "closing") \/ (r \in Suspect /\ Stay(r, "convicted"))
    /\ UNCHANGED <<storeVars, cancelled, todo, recap, fold, screening, events>>

\* Complete looks once more when the stream has ended.
Close(r) ==
    /\ pc[r] = "closing"
    /\ MaybeFold
    /\ Stay(r, "done")
    /\ UNCHANGED <<storeVars, cancelled, holder, todo, recap, fold, screening, events>>

-----------------------------------------------------------------------------
(* The holder of the commit lock writes. *)

WriteNext(w) ==
    /\ holder = w
    /\ todo[w] # <<>>
    /\ \/ Head(todo[w]) = Wipe /\ Clear
       \/ Head(todo[w]) # Wipe /\ AddMessage(Head(todo[w]))
    /\ WillWrite(w, Tail(todo[w]))
    /\ UNCHANGED <<pc, cancelled, holder, recap, fold, queued, screening, events>>

Flush == /\ FlushTake \/ FlushWrite \/ FlushFails
         /\ UNCHANGED convVars

\* QuarantineSpeaker takes the lock and looks; nothing to drop ends it here.
FindTurns(w) ==
    /\ holder = "nobody"
    /\ \/ /\ Purged(history) = history
          /\ UNCHANGED <<holder, todo>>
       \/ /\ Purged(history) # history
          /\ Acquire(w)
          /\ WillWrite(w, <<Wipe>> \o Purged(history))
    /\ UNCHANGED <<storeVars, cancelled, recap, fold, queued, events>>

\* With the turns gone, so is the recap.
TurnsDropped(w) ==
    /\ Release(w)
    /\ recap' = {}
    /\ UNCHANGED <<storeVars, cancelled, todo, fold, queued, events>>

Quarantine(r) ==
    \/ /\ pc[r] = "convicted"
       /\ FindTurns(r)
       /\ Stay(r, IF Purged(history) = history THEN "closing" ELSE "purging")
       /\ UNCHANGED screening
    \/ /\ pc[r] = "purging"
       /\ TurnsDropped(r)
       /\ Stay(r, "closing")
       /\ UNCHANGED screening

-----------------------------------------------------------------------------
(* Folds. *)

\* The first n messages are shown to the model, with the recap there is.
BeginFold(n) ==
    LET old == SubSeq(history, 1, n)
    IN  fold' = IF n > 0
                THEN [NoFold EXCEPT !.pc = "asking", !.old = old,
                                    !.draft = recap \cup Transcript(old)]
                ELSE fold

\* A second fold of the key finds the entry in folding and returns.
SizeFold ==
    /\ queued > 0
    /\ queued' = queued - 1
    /\ \/ fold.pc = "off" /\ BeginFold(CutForSize(history, Keep))
       \/ fold.pc # "off" /\ UNCHANGED fold
    /\ UNCHANGED <<storeVars, pc, cancelled, holder, todo, recap, screening, events>>

IdleFold ==
    /\ Event
    /\ fold.pc = "off"
    /\ CutKeepTurns(history, KeepTurns) > 0
    /\ BeginFold(CutKeepTurns(history, KeepTurns))
    /\ UNCHANGED <<storeVars, pc, cancelled, holder, todo, recap, queued, screening>>

\* It answered: the turns are still there, or the summary is discarded.
CheckPrefix ==
    /\ fold.pc = "asking"
    /\ holder = "nobody"
    /\ \/ /\ IsPrefix(fold.old, history)
          /\ holder' = "fold"
          /\ fold' = [fold EXCEPT !.pc = "checked",
                                  !.rest = SubSeq(history, Len(fold.old) + 1, Len(history))]
       \/ /\ ~IsPrefix(fold.old, history)
          /\ fold' = NoFold
          /\ UNCHANGED holder
    /\ UNCHANGED <<storeVars, pc, cancelled, todo, recap, queued, screening, events>>

\* SetRecap, then the rest is written over the history; or the database fails.
SaveRecap ==
    /\ fold.pc = "checked"
    /\ \/ /\ recap' = fold.draft
          /\ WillWrite("fold", <<Wipe>> \o fold.rest)
          /\ fold' = [NoFold EXCEPT !.pc = "rewriting"]
          /\ UNCHANGED holder
       \/ /\ fold' = NoFold
          /\ holder' = "nobody"
          /\ UNCHANGED <<recap, todo>>
    /\ UNCHANGED <<storeVars, pc, cancelled, queued, screening, events>>

\* There is no summary: what is far too long is cut without one.
HardTrim ==
    /\ fold.pc = "asking"
    /\ holder = "nobody"
    /\ \/ /\ Len(history) > Hard
          /\ holder' = "fold"
          /\ WillWrite("fold", <<Wipe>> \o SubSeq(history, CutForSize(history, MaxContext) + 1,
                                                  Len(history)))
          /\ fold' = [NoFold EXCEPT !.pc = "rewriting"]
       \/ /\ Len(history) <= Hard
          /\ fold' = NoFold
          /\ UNCHANGED <<holder, todo>>
    /\ UNCHANGED <<storeVars, pc, cancelled, recap, queued, screening, events>>

FoldEnds ==
    /\ fold.pc = "rewriting"
    /\ Release("fold")
    /\ fold' = NoFold
    /\ UNCHANGED <<storeVars, pc, cancelled, todo, recap, queued, screening, events>>

FoldStep == SizeFold \/ CheckPrefix \/ SaveRecap \/ HardTrim \/ FoldEnds

-----------------------------------------------------------------------------
(* Commands, and the process. *)

\* +reset clears the session, without the commit lock, and cancels what is in flight; a request
\* that answers between the two ends as if it had answered before.
Reset ==
    /\ Event
    /\ Clear
    /\ cancelled' = {r \in Request : pc[r] = "asked"}
    /\ UNCHANGED <<pc, holder, todo, recap, fold, queued, screening>>

\* +screen lists the nick, then drops its turns.
Screen ==
    \/ /\ screening = "off"
       /\ screening' = "listed"
       /\ UNCHANGED <<storeVars, cancelled, holder, todo, recap, fold, queued, events>>
    \/ /\ screening = "listed"
       /\ FindTurns("screen")
       /\ screening' = IF Purged(history) = history THEN "done" ELSE "purging"
    \/ /\ screening = "purging"
       /\ TurnsDropped("screen")
       /\ screening' = "done"

RecapCommand ==
    /\ Event
    /\ recap # {}
    /\ recap' = {}
    /\ UNCHANGED <<storeVars, pc, cancelled, holder, todo, fold, queued, screening>>

\* The process ends at any step; the next one has the rows and the list of screened nicks.
Restart ==
    /\ Event
    /\ Restore
    /\ pc' = [r \in Request |-> IF pc[r] = "idle" THEN "idle" ELSE "done"]
    /\ holder' = "nobody"
    /\ todo' = [w \in Writer |-> <<>>]
    /\ fold' = NoFold
    /\ queued' = 0
    /\ cancelled' = {}
    /\ screening' = IF screening \in {"listed", "purging"} THEN "lost" ELSE screening
    /\ UNCHANGED recap

RequestStep(r) == CommitExchange(r) \/ Committed(r) \/ Close(r) \/ Quarantine(r)

Next == \/ \E r \in Request : Ask(r) \/ Answer(r) \/ RequestStep(r)
        \/ \E w \in Writer : WriteNext(w)
        \/ Flush
        \/ FoldStep \/ IdleFold
        \/ Reset \/ RecapCommand
        \/ Screen /\ UNCHANGED pc
        \/ Restart

Spec == Init /\ [][Next]_vars

-----------------------------------------------------------------------------
(***************************************************************************)
(* The types of the variables.                                             *)
(***************************************************************************)
TypeOK ==
    /\ {history, disk} \subseteq Seq(Message)
    /\ dirty \in BOOLEAN
    /\ flushing \in {"idle", "failed", "taken"}
    /\ pc \in [Request -> Stage]
    /\ cancelled \subseteq Request
    /\ holder \in Writer \cup {"nobody"}
    /\ todo \in [Writer -> Seq(Message \cup {Wipe})]
    /\ recap \subseteq Request
    /\ fold.pc \in {"off", "asking", "checked", "rewriting"}
    /\ {fold.old, fold.rest} \subseteq Seq(Message) /\ fold.draft \subseteq Request
    /\ queued \in 0..(2 * Cardinality(Request))
    /\ screening \in {"off", "listed", "purging", "done", "lost"}
    /\ events \in 0..MaxEvents

(***************************************************************************)
(* What is in the history of one exchange is together and in its order,    *)
(* and nothing is in it twice: requests that overlap, folds, quarantines   *)
(* and restarts never interleave (comments of commitExchange and           *)
(* CommitLock).                                                            *)
(***************************************************************************)
ExchangesStayTogether ==
    \A r \in Request :
        LET at == {i \in DOMAIN history : history[i].of = r}
        IN  at # {} => /\ at = Min(at)..Max(at)
                       /\ SubSeq(history, Min(at), Max(at)) \in SubSeqs(Exchange(r))

(***************************************************************************)
(* A turn leaves a conversation for its recap, because its speaker was     *)
(* quarantined or screened, by a reset, or when the history is far too     *)
(* long and no summary could be had; a fold that took minutes does not     *)
(* lose what was said meanwhile.  Only a crash forgets more.               *)
(***************************************************************************)
NothingLost ==
    [][~(Reset \/ Restart) =>
         \A m \in ToSet(Kept) \ ToSet(Kept') :
            \/ m.of \in recap'
            \/ m.of \in Suspect
            \/ fold.pc = "asking" /\ fold'.pc = "rewriting" /\ Len(history) > Hard]_vars

(***************************************************************************)
(* When nothing is being written, flushed or marked, the row is the        *)
(* history: no flush takes the mark of a change it does not write.         *)
(***************************************************************************)
SettledOnDisk == ~dirty /\ flushing = "idle" => disk = history

(***************************************************************************)
(* The commit lock is held only by someone who is about to write: no path  *)
(* of a fold or a quarantine returns with it, after which no exchange of   *)
(* the channel could ever be committed.                                    *)
(***************************************************************************)
LockIsReturned ==
    /\ holder \in Request => pc[holder] \in {"writing", "noting", "purging"}
    /\ holder = "fold" => fold.pc \in {"checked", "rewriting"}
    /\ holder = "screen" => screening = "purging"

(***************************************************************************)
(* When +screen has answered, no turn of the screened speaker is left in   *)
(* the history ("drop them so nothing already planted keeps steering the   *)
(* model", commands/screen.go), whatever exchanges, folds and resets came  *)
(* between its look and its writing.                                       *)
(***************************************************************************)
ScreenedLeaveTheHistory ==
    [][screening # "done" /\ screening' = "done" => Purged(history') = history']_vars

(***************************************************************************)
(* A recap that was cleared stays cleared ("recap cleared.",               *)
(* commands/recap.go): what a fold adds to it was still in the history.    *)
(***************************************************************************)
ClearedStaysCleared == [][recap' \ recap \subseteq Turns(history)]_vars
=============================================================================
