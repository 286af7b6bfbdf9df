--------------------------- MODULE BackgroundWork ---------------------------
(***************************************************************************)
(* One network's background work: the runner (llm.RunTaskRunner and        *)
(* runRound), the commands that start, cancel, nudge and pause work, and   *)
(* the process they live in, which shuts down, crashes and starts again.   *)
(* The commands run on goroutines of their own, between any two steps of   *)
(* the runner; the table survives the process.                             *)
(***************************************************************************)
EXTENDS TaskStore

CONSTANTS MaxRestarts, \* restarts of the process (a bound of the model)
          MaxCancels   \* cancels under way at one time (a bound of the model)

ASSUME RestartAssumption == {MaxRestarts, MaxCancels} \subseteq Nat

VARIABLES proc,        \* up; stopping, its context cancelled; or down
          restarts,
          paused,      \* TaskStore.paused, which is not in the table
          cancelling,  \* store.Cancel done, CancelTask and the reply to come
          rpc,         \* where the runner is
          cur,         \* the task of its round
          ctx,         \* the round's context: live, past its deadline, cancelled
          timedOut,    \* round.timedOut
          outcome,     \* what becomes of the task after the round
          snap,        \* of the row Claim returned and of the round's message, and
                       \* (history) whether the shutdown cut the round
          opened,      \* goals whose saved conversation holds an earlier round
          posted,      \* results posted for each task
          unrecorded,  \* history: ends of each task that could not be recorded
          promised     \* history: nudges acknowledged and not yet shown

runnerVars == <<rpc, cur, ctx, timedOut, outcome, snap>>
vars == <<storeVars, proc, restarts, paused, cancelling, runnerVars, opened, posted, unrecorded,
          promised>>

NoTask == "nothing"
NoSnap == [feedback |-> {}, due |-> {}, shown |-> {}, cut |-> FALSE]

(***************************************************************************)
(* off       not running                                                   *)
(* requeue   before Requeue                                                *)
(* idle      waiting for the ticker                                        *)
(* claiming  connected and not paused: about to claim                      *)
(* claimed   has a task, before it is in runningTasks                      *)
(* round     in runningTasks, waiting for the lock or at the model         *)
(* ended     the round is over, before the look at the row                 *)
(* review    a goal's round is with the reviewer                           *)
(* record    the outcome is known                                          *)
(* again     the feedback is written, Reschedule is due                    *)
(* post      the row is written, the result is to be posted                *)
(***************************************************************************)
RPC == {"off", "requeue", "idle", "claiming", "claimed", "round", "ended",
        "review", "record", "again", "post"}
Registered == {"round", "ended", "review", "record", "again", "post"}

RunnerInit == /\ cur = NoTask /\ ctx = "live" /\ timedOut = FALSE
              /\ outcome = "done" /\ snap = NoSnap

Init == /\ StoreInit
        /\ proc = "up" /\ restarts = 0 /\ paused = FALSE /\ cancelling = {}
        /\ rpc = "requeue" /\ RunnerInit
        /\ opened = {} /\ posted = [t \in Task |-> 0] /\ unrecorded = [t \in Task |-> 0]
        /\ promised = [t \in Goal |-> {}]

-----------------------------------------------------------------------------
(* Commands. *)

CommandFrame == UNCHANGED <<proc, restarts, runnerVars, opened, posted, unrecorded>>

StartWork(t, s, now) ==
    /\ proc # "down"
    /\ Start(t, s, now)
    /\ UNCHANGED <<paused, cancelling, promised>> /\ CommandFrame

AcceptGoal(t) ==
    /\ proc # "down"
    /\ Accept(t)
    /\ UNCHANGED <<paused, cancelling, promised>> /\ CommandFrame

CancelWork(t) ==
    /\ proc # "down" /\ Cardinality(cancelling) < MaxCancels
    /\ Cancel(t)
    /\ cancelling' = cancelling \cup {t}
    /\ UNCHANGED <<paused, promised>> /\ CommandFrame

\* CancelTask finds the round in runningTasks or does nothing; then the reply
\* "#id cancelled".
CancelTask(t) ==
    /\ t \in cancelling
    /\ cancelling' = cancelling \ {t}
    /\ ctx' = IF rpc \in Registered /\ cur = t /\ ctx = "live" THEN "cancelled" ELSE ctx
    /\ UNCHANGED <<storeVars, proc, restarts, paused, rpc, cur, timedOut, outcome, snap,
                   opened, posted, unrecorded, promised>>

\* +goal nudge looks at the kind of the work, not at its status.
Nudge(t, h) ==
    /\ proc # "down" /\ status[t] # "none" /\ h \notin feedback[t] \cup promised[t]
    /\ SetFeedback(t, feedback[t] \cup {h})
    /\ promised' = [promised EXCEPT ![t] = @ \cup {h}]
    /\ UNCHANGED <<paused, cancelling>> /\ CommandFrame

PauseWork(p) ==
    /\ proc # "down" /\ paused # p
    /\ paused' = p
    /\ UNCHANGED <<storeVars, cancelling, promised>> /\ CommandFrame

\* Time passes.
WorkComesDue(t) ==
    /\ ComesDue(t)
    /\ UNCHANGED <<paused, cancelling, promised>> /\ CommandFrame

-----------------------------------------------------------------------------
(* The runner's loop. *)

LoopFrame == UNCHANGED <<proc, restarts, paused, cancelling, posted, unrecorded>>
RoundFrame == LoopFrame /\ UNCHANGED <<cur, opened, promised>>
Goto(label) == rpc' = label

\* Fault: the runner starts without Requeue.
StartWithoutRequeue ==
    /\ rpc = "requeue"
    /\ Goto("idle")
    /\ UNCHANGED <<storeVars, cur, ctx, timedOut, outcome, snap, opened, promised>> /\ LoopFrame

RequeueWork ==
    /\ rpc = "requeue"
    /\ Requeue
    /\ Goto("idle")
    /\ UNCHANGED <<cur, ctx, timedOut, outcome, snap, opened, promised>> /\ LoopFrame

\* A tick lets old proposals lapse; it goes on when the client is connected,
\* which is the environment's to say, and work is not paused.
Tick(S) ==
    /\ rpc = "idle"
    /\ ExpireProposals(S)
    /\ Goto("idle") \/ (~paused /\ Goto("claiming"))
    /\ UNCHANGED <<cur, ctx, timedOut, outcome, snap, opened, promised>> /\ LoopFrame

RunnerReturns ==
    /\ rpc = "idle" /\ proc = "stopping"
    /\ Goto("off")
    /\ UNCHANGED <<storeVars, cur, ctx, timedOut, outcome, snap, opened, promised>> /\ LoopFrame

ClaimNext ==
    /\ rpc = "claiming"
    /\ \/ \E t \in Task :
            /\ Claim(t)
            /\ cur' = t
            /\ snap' = IF t \in Goal
                       THEN [NoSnap EXCEPT !.feedback = feedback[t], !.due = promised[t]]
                       ELSE NoSnap
            /\ Goto("claimed")
       \/ /\ \A t \in Task : ~IsNextDue(t)
          /\ Goto("idle")
          /\ UNCHANGED <<storeVars, cur, snap>>
    /\ UNCHANGED <<ctx, timedOut, outcome, opened, promised>> /\ LoopFrame

\* Its UPDATE failed: nothing is claimed until the next tick.
ClaimFails ==
    /\ rpc = "claiming" /\ \E t \in Task : IsNextDue(t)
    /\ Goto("idle")
    /\ UNCHANGED <<storeVars, cur, ctx, timedOut, outcome, snap, opened, promised>> /\ LoopFrame

BackToIdle == Goto("idle") /\ cur' = NoTask /\ snap' = NoSnap /\ ctx' = "live"
              /\ timedOut' = FALSE /\ outcome' = "done"

\* NewTaskContext failed: recorded, and nobody is told.
CannotStart ==
    /\ rpc = "claimed"
    /\ Finish(cur, "failed")
    /\ BackToIdle
    /\ UNCHANGED <<opened, promised>> /\ LoopFrame

\* The context descends from the process'.  The first round of a goal opens
\* with the goal, a later one with the feedback of the row that was claimed.
BeginRound ==
    /\ rpc = "claimed"
    /\ ctx' = IF proc = "up" THEN "live" ELSE "cancelled"
    /\ LET shown == IF cur \in opened THEN snap.feedback ELSE {}
       IN /\ snap' = [snap EXCEPT !.shown = shown, !.cut = (proc = "stopping")]
          /\ promised' = [t \in Goal |-> IF t = cur THEN promised[t] \ shown ELSE promised[t]]
    /\ Goto("round")
    /\ UNCHANGED <<storeVars, cur, timedOut, outcome, opened>> /\ LoopFrame

-----------------------------------------------------------------------------
(* A round and what follows it. *)

Deadline ==
    /\ rpc \in Registered /\ ctx = "live"
    /\ ctx' = "timeout"
    /\ UNCHANGED <<storeVars, rpc, timedOut, outcome, snap>> /\ RoundFrame

\* Complete returned.  A cancelled run commits nothing to the conversation;
\* another may have failed before it did.
EndRound ==
    /\ rpc = "round"
    /\ timedOut' = (ctx = "timeout")
    /\ opened' \in {opened} \cup (IF cur \in Goal /\ ctx # "cancelled" THEN {opened \cup {cur}} ELSE {})
    /\ Goto("ended")
    /\ UNCHANGED <<storeVars, cur, ctx, outcome, snap, promised>> /\ LoopFrame

RoundWasCancelled ==
    /\ rpc = "ended" /\ status[cur] = "cancelled"
    /\ BackToIdle
    /\ UNCHANGED <<storeVars, opened, promised>> /\ LoopFrame

\* Fault: no look at the row after the round.
RunEndsRegardless(o) ==
    /\ rpc = "ended" /\ cur \notin Goal
    /\ IF cur \in Repeat THEN o = "again" ELSE o \in {"done", "failed"}
    /\ outcome' = o
    /\ Goto("record")
    /\ UNCHANGED <<storeVars, ctx, timedOut, snap>> /\ RoundFrame

\* endTask and endScheduleRun: a run that timed out or said nothing failed.
RunEnds(o) ==
    /\ rpc = "ended" /\ status[cur] # "cancelled" /\ cur \notin Goal
    /\ IF cur \in Repeat THEN o = "again" ELSE o \in {"done", "failed"}
    /\ timedOut => o # "done"
    /\ outcome' = o
    /\ Goto("record")
    /\ UNCHANGED <<storeVars, ctx, timedOut, snap>> /\ RoundFrame

\* endGoalRound: a round that timed out is not reviewed.
GoalRoundEnds ==
    /\ rpc = "ended" /\ status[cur] # "cancelled" /\ cur \in Goal
    /\ Goto("review")
    /\ UNCHANGED <<storeVars, ctx, timedOut, outcome, snap>> /\ RoundFrame

\* Fault: one round too many.
OutOfRoundsTooLate(t) == runs[t] + 1 > MaxRuns

OutOfRounds(t) == runs[t] + 1 >= MaxRuns

\* The verdict and the budget together.  "failed" also stands for the time
\* budget and the deadline, which may run out after any round.
Review(o) ==
    /\ rpc = "review"
    /\ timedOut => o # "done"
    /\ o = "again" => ~OutOfRounds(cur)
    /\ outcome' = o
    /\ Goto("record")
    /\ UNCHANGED <<storeVars, ctx, timedOut, snap>> /\ RoundFrame

\* The result is posted whether or not its row was written.
RecordAs(s) ==
    /\ Finish(cur, s)
    /\ unrecorded' = IF status'[cur] = "running" THEN [unrecorded EXCEPT ![cur] = @ + 1]
                                                 ELSE unrecorded
    /\ Goto("post")
    /\ UNCHANGED <<proc, restarts, paused, cancelling, cur, ctx, timedOut, outcome, snap,
                   opened, posted, promised>>

\* Fault: every outcome is written as a status.
RecordAnyOutcome == rpc = "record" /\ RecordAs(outcome)

RecordEnd == rpc = "record" /\ outcome # "again" /\ RecordAs(outcome)

RecordRepeat ==
    /\ rpc = "record" /\ outcome = "again" /\ cur \in Repeat
    /\ Reschedule(cur)
    /\ Goto("post")
    /\ UNCHANGED <<ctx, timedOut, outcome, snap>> /\ RoundFrame

\* The reviewer's word replaces the feedback, unless it cannot be written.
RecordFeedback ==
    /\ rpc = "record" /\ outcome = "again" /\ cur \in Goal
    /\ SetFeedback(cur, {"review"}) \/ UNCHANGED storeVars
    /\ Goto("again")
    /\ UNCHANGED <<ctx, timedOut, outcome, snap>> /\ RoundFrame

\* And the progress line, which no property here is about.
NextRound ==
    /\ rpc = "again"
    /\ Reschedule(cur)
    /\ BackToIdle
    /\ UNCHANGED <<opened, promised>> /\ LoopFrame

\* Reply is silenced when the context was cancelled, not when its deadline
\* passed; a disconnected client loses what it is given.
Delivers == ctx # "cancelled"

PostResult ==
    /\ rpc = "post"
    /\ \/ Delivers /\ cur \notin Repeat /\ posted' = [posted EXCEPT ![cur] = @ + 1]
       \/ UNCHANGED posted
    /\ BackToIdle
    /\ UNCHANGED <<storeVars, proc, restarts, paused, cancelling, opened, unrecorded, promised>>

-----------------------------------------------------------------------------
(* The process. *)

\* A signal cancels the context everything descends from.
Shutdown ==
    /\ proc = "up"
    /\ proc' = "stopping"
    /\ LET cuts == rpc \in Registered /\ ctx = "live"
       IN /\ ctx' = IF cuts THEN "cancelled" ELSE ctx
          /\ snap' = IF cuts /\ rpc = "round" THEN [snap EXCEPT !.cut = TRUE] ELSE snap
    /\ UNCHANGED <<storeVars, restarts, paused, cancelling, rpc, cur, timedOut, outcome,
                   opened, posted, unrecorded, promised>>

\* main returned, without waiting for the runner, or the process crashed.
\* A conversation is written to disk by a ticker and may not have been.
Exit(lost) ==
    /\ proc # "down" /\ lost \subseteq opened
    /\ proc' = "down"
    /\ rpc' = "off"
    /\ cur' = NoTask /\ snap' = NoSnap /\ ctx' = "live" /\ timedOut' = FALSE /\ outcome' = "done"
    /\ cancelling' = {} /\ paused' = FALSE
    /\ opened' = opened \ lost
    /\ UNCHANGED <<storeVars, restarts, posted, unrecorded, promised>>

Restart ==
    /\ proc = "down" /\ restarts < MaxRestarts
    /\ proc' = "up" /\ restarts' = restarts + 1
    /\ Goto("requeue")
    /\ UNCHANGED <<storeVars, paused, cancelling, cur, ctx, timedOut, outcome, snap,
                   opened, posted, unrecorded, promised>>

-----------------------------------------------------------------------------
LoopStep == \/ RequeueWork \/ RunnerReturns \/ ClaimNext \/ ClaimFails \/ CannotStart \/ BeginRound
            \/ \E S \in SUBSET Goal : Tick(S)

RoundStep == \/ EndRound \/ RoundWasCancelled \/ GoalRoundEnds
             \/ \E o \in {"done", "failed", "again"} : RunEnds(o) \/ Review(o)
             \/ RecordEnd \/ RecordRepeat \/ RecordFeedback \/ NextRound \/ PostResult

Next == \/ \E t \in Task, s \in {"queued", "proposed"}, now \in BOOLEAN : StartWork(t, s, now)
        \/ \E t \in Task : \/ AcceptGoal(t) \/ CancelWork(t) \/ CancelTask(t)
                           \/ WorkComesDue(t)
        \/ \E t \in Goal, h \in Hint : Nudge(t, h)
        \/ \E p \in BOOLEAN : PauseWork(p)
        \/ LoopStep \/ RoundStep \/ Deadline
        \/ Shutdown \/ Restart
        \/ \E lost \in SUBSET Goal : Exit(lost)

Spec == Init /\ [][Next]_vars

(***************************************************************************)
(* The runner keeps moving while its process lives, the model's calls and  *)
(* the reviewer's end (both have deadlines), and a tick finds the client   *)
(* connected again and again.  A claim that is tried again and again is    *)
(* written at last.  Nothing makes anyone shut the process down, keep it   *)
(* up, resume paused work or start it again.                               *)
(***************************************************************************)
Fairness == WF_vars(RoundStep) /\ WF_vars(LoopStep) /\ SF_vars(ClaimNext)
FairSpec == Spec /\ Fairness

-----------------------------------------------------------------------------
TypeOK == /\ status \in [Task -> Status]
          /\ order \in Seq(Task)
          /\ runs \in [Goal -> Nat]
          /\ feedback \in [Goal -> SUBSET Remark] /\ unwritten \subseteq Task
          /\ proc \in {"up", "stopping", "down"} /\ restarts \in 0..MaxRestarts
          /\ paused \in BOOLEAN /\ cancelling \subseteq Task
          /\ rpc \in RPC /\ cur \in Task \cup {NoTask}
          /\ ctx \in {"live", "timeout", "cancelled"} /\ timedOut \in BOOLEAN
          /\ outcome \in {"done", "failed", "again"}
          /\ snap \in [feedback : SUBSET Remark, due : SUBSET Hint, shown : SUBSET Remark,
                      cut : BOOLEAN]
          /\ opened \subseteq Goal /\ posted \in [Task -> Nat] /\ unrecorded \in [Task -> Nat]
          /\ promised \in [Goal -> SUBSET Hint]

(***************************************************************************)
(* Every piece of work lives the life TaskLifecycle promises, whatever the *)
(* commands, the runner, restarts and failed writes do to each other: an   *)
(* end is final, so a cancelled task never runs again and a finished one   *)
(* is not cancelled, and a result is posted at most once and only after    *)
(* its end is recorded; an end whose write failed (core/tasks.go ignores   *)
(* the error) is posted as well, and once more after it has run again.     *)
(***************************************************************************)
Lifecycle == INSTANCE TaskLifecycle
ImplementsLifecycle == Lifecycle!Spec

(***************************************************************************)
(* No work is stranded: a row says running only while the runner has that  *)
(* task in hand or Requeue is still to come, after a crash at any point.   *)
(* Only a failed write leaves one behind, until the next Requeue that does *)
(* not fail.                                                               *)
(***************************************************************************)
NoOrphanRunning ==
    \A t \in Task : status[t] = "running" =>
        \/ cur = t /\ rpc \in {"claimed"} \cup Registered
        \/ rpc \in {"off", "requeue"}
        \/ t \in unwritten

(***************************************************************************)
(* A goal never completes more rounds than it was given, restarts and      *)
(* cancellations between its rounds included.  A round whose end was not   *)
(* written is not counted.                                                 *)
(***************************************************************************)
RoundsBounded == \A t \in Goal : /\ runs[t] <= MaxRuns
                                 /\ status[t] \in Unfinished => runs[t] < MaxRuns

(***************************************************************************)
(* Once "#id cancelled" was said, the result of that work is not posted,   *)
(* unless the round's deadline had passed before the cancel: a context     *)
(* past its deadline is no longer cancelled by CancelTask, and Reply only  *)
(* drops what a cancelled context says.                                    *)
(***************************************************************************)
QuietAfterCancel ==
    [][\A t \in Task : posted'[t] > posted[t] /\ status[t] = "cancelled" /\ t \notin cancelling
            => ctx = "timeout"]_vars

(***************************************************************************)
(* Work that is due gets its turn: FIFO by time, so neither a goal between *)
(* its rounds nor a schedule that repeats starves the rest.                *)
(***************************************************************************)
DueWorkRuns == \A t \in Task :
    (status[t] = "queued" /\ t \in ToSet(order)) ~>
        (status[t] # "queued" \/ paused \/ proc # "up")

(***************************************************************************)
(* Work a restart interrupted is queued again (comment of RunTaskRunner,   *)
(* README: background work "resumes after a restart"): a round cut by the  *)
(* shutdown is not the end of its task.                                    *)
(***************************************************************************)
InterruptedWorkResumes == snap.cut => status[cur] \notin {"done", "failed"}

(***************************************************************************)
(* A nudge that was acknowledged ("goal #id will see that next round")     *)
(* before a round began is part of what that round is told.                *)
(***************************************************************************)
NudgesAreKept == rpc = "round" => snap.due \subseteq snap.shown
=============================================================================
