----------------------- MODULE BackgroundWork_proofs -----------------------
(***************************************************************************)
(* Theorems about BackgroundWork: that no work is stranded, that a goal    *)
(* ends within its rounds, that what was cancelled stays unsaid, and that  *)
(* the table and the posts are those of TaskLifecycle, for any number of   *)
(* tasks, nudges, rounds and restarts.                                     *)
(*                                                                         *)
(* The inductive invariant says, for each place of the runner, what the    *)
(* row of its task can be by then (commands may have written it since),    *)
(* that a running row has a runner or is one a failed write has left, and  *)
(* that a task has not been posted more often than it has ended.  Nothing  *)
(* in that depends on the order of the queue, except that what is claimed  *)
(* was queued; the table's own invariant, which gives the type of the      *)
(* queue, is at the end of the module.                                     *)
(***************************************************************************)
EXTENDS BackgroundWork, Queues_proofs

InHand == {"claimed"} \cup Registered

Shapes == /\ status \in [Task -> Status] /\ runs \in [Goal -> Nat]
          /\ posted \in [Task -> Nat] /\ unrecorded \in [Task -> Nat]
          /\ rpc \in RPC /\ ctx \in {"live", "timeout", "cancelled"}
          /\ outcome \in {"done", "failed", "again"}
          /\ rpc \in InHand => cur \in Task

\* What the row of the task in hand can be.
Rows == /\ rpc \in InHand \ {"post"} => status[cur] \in {"running", "cancelled"}
        /\ rpc = "post" => \/ status[cur] \in {"done", "failed", "cancelled"}
                           \/ status[cur] = "queued" /\ cur \in Repeat
                           \/ status[cur] = "running" /\ cur \in unwritten
        /\ NoOrphanRunning

\* Work that can still run has a round left; a goal that goes on has two.
Budget == /\ RoundsBounded
          /\ \A t \in Goal : status[t] = "none" => runs[t] < MaxRuns
          /\ rpc \in {"record", "again"} /\ outcome = "again" /\ cur \in Goal =>
                runs[cur] + 1 < MaxRuns
          /\ rpc = "again" => outcome = "again" /\ cur \in Goal

\* A task in hand has been posted for its earlier ends at most, and what is
\* about to be posted has an end that was not.
Posts == /\ \A t \in Task : posted[t] <= Lifecycle!EndsOf(t)
         /\ rpc \in InHand \ {"post"} => posted[cur] <= unrecorded[cur]
         /\ rpc = "post" /\ cur \notin Repeat => posted[cur] < Lifecycle!EndsOf(cur)

\* From the look at the row on, only a cancel under way or done stops its post.
Stopped == rpc \in {"review", "record", "again", "post"} /\ status[cur] = "cancelled"
              /\ cur \notin cancelling => ctx # "live"

IInv == Shapes /\ Rows /\ Budget /\ Posts /\ Stopped

\* Only a row that is not there yet is written, and it has all its rounds.
LEMMA StartWorkKeeps ==
    ASSUME IInv, NEW t \in Task, NEW s \in {"queued", "proposed"}, NEW now \in BOOLEAN,
           StartWork(t, s, now)
    PROVE  IInv'
<1> USE DEF IInv
<1>1. Shapes'
  BY DEF Shapes, Status, StartWork, Start, SetStatus, CommandFrame, runnerVars
<1>2. Rows'
  BY DEF Rows, NoOrphanRunning, StartWork, Start, SetStatus, CommandFrame, runnerVars
<1>3. Budget'
  BY DEF Budget, RoundsBounded, StartWork, Start, SetStatus, CommandFrame, runnerVars
<1>4. Posts'
  BY DEF Posts, Lifecycle!EndsOf, Lifecycle!Ended, Shapes, Rows, StartWork, Start, SetStatus,
     CommandFrame, runnerVars
<1>5. Stopped'
  BY DEF Stopped, StartWork, Start, SetStatus, CommandFrame, runnerVars
<1> QED BY <1>1, <1>2, <1>3, <1>4, <1>5

\* A proposal becomes queued work; what runs is not touched.
LEMMA AcceptGoalKeeps ==
    ASSUME IInv, NEW t \in Task, AcceptGoal(t)
    PROVE  IInv'
<1> USE DEF IInv
<1>1. Shapes'
  BY DEF Shapes, Status, AcceptGoal, Accept, SetStatus, CommandFrame, runnerVars
<1>2. Rows'
  BY DEF Rows, NoOrphanRunning, AcceptGoal, Accept, SetStatus, CommandFrame, runnerVars
<1>3. Budget'
  BY DEF Budget, RoundsBounded, Unfinished, AcceptGoal, Accept, SetStatus, CommandFrame,
         runnerVars
<1>4. Posts'
  BY DEF Posts, Lifecycle!EndsOf, Lifecycle!Ended, Shapes, Rows, AcceptGoal, Accept, SetStatus,
     CommandFrame, runnerVars
<1>5. Stopped'
  BY DEF Stopped, AcceptGoal, Accept, SetStatus, CommandFrame, runnerVars
<1> QED BY <1>1, <1>2, <1>3, <1>4, <1>5

\* The row in hand may become cancelled here; its cancel is then under way.
LEMMA CancelWorkKeeps ==
    ASSUME IInv, NEW t \in Task, CancelWork(t)
    PROVE  IInv'
<1> USE DEF IInv
<1>1. Shapes'
  BY DEF Shapes, Status, CancelWork, Cancel, SetStatus, CommandFrame, runnerVars
<1>2. Rows'
  BY DEF Shapes, Rows, NoOrphanRunning, CancelWork, Cancel, SetStatus, CommandFrame, runnerVars
<1>3. Budget'
  BY DEF Budget, RoundsBounded, CancelWork, Cancel, SetStatus, CommandFrame, runnerVars
<1>4. Posts'
  BY DEF Posts, Lifecycle!EndsOf, Lifecycle!Ended, Shapes, Rows, CancelWork, Cancel, SetStatus,
     CommandFrame, runnerVars
<1>5. Stopped'
  BY DEF Stopped, CancelWork, Cancel, SetStatus, CommandFrame, runnerVars
<1> QED BY <1>1, <1>2, <1>3, <1>4, <1>5

\* The second half of a cancel stops the round before it leaves cancelling.
LEMMA CancelTaskKeeps ==
    ASSUME IInv, NEW t \in Task, CancelTask(t)
    PROVE  IInv'
<1> USE DEF IInv
<1>1. Shapes'
  BY DEF Shapes, CancelTask, storeVars
<1>2. Rows'
  BY DEF Rows, NoOrphanRunning, CancelTask, storeVars
<1>3. Budget'
  BY DEF Budget, RoundsBounded, CancelTask, storeVars
<1>4. Posts'
  BY DEF Posts, Lifecycle!EndsOf, Lifecycle!Ended, Shapes, Rows, CancelTask, storeVars
<1>5. Stopped'
  BY DEF Stopped, CancelTask, storeVars, Registered
<1> QED BY <1>1, <1>2, <1>3, <1>4, <1>5

\* A nudge writes the remarks only.
LEMMA NudgeKeeps ==
    ASSUME IInv, NEW t \in Goal, NEW h \in Hint, Nudge(t, h)
    PROVE  IInv'
<1> USE DEF IInv
<1>1. Shapes'
  BY DEF Shapes, Nudge, SetFeedback, CommandFrame, runnerVars
<1>2. Rows'
  BY DEF Rows, NoOrphanRunning, Nudge, SetFeedback, CommandFrame, runnerVars
<1>3. Budget'
  BY DEF Budget, RoundsBounded, Nudge, SetFeedback, CommandFrame, runnerVars
<1>4. Posts'
  BY DEF Posts, Lifecycle!EndsOf, Lifecycle!Ended, Shapes, Rows, Nudge, SetFeedback,
     CommandFrame, runnerVars
<1>5. Stopped'
  BY DEF Stopped, Nudge, SetFeedback, CommandFrame, runnerVars
<1> QED BY <1>1, <1>2, <1>3, <1>4, <1>5

\* The pause flag is not read by the invariant.
LEMMA PauseWorkKeeps ==
    ASSUME IInv, NEW p \in BOOLEAN, PauseWork(p)
    PROVE  IInv'
<1> USE DEF IInv
<1>1. Shapes'
  BY DEF Shapes, PauseWork, storeVars, CommandFrame, runnerVars
<1>2. Rows'
  BY DEF Rows, NoOrphanRunning, PauseWork, storeVars, CommandFrame, runnerVars
<1>3. Budget'
  BY DEF Budget, RoundsBounded, PauseWork, storeVars, CommandFrame, runnerVars
<1>4. Posts'
  BY DEF Posts, Lifecycle!EndsOf, Lifecycle!Ended, Shapes, Rows, PauseWork, storeVars,
     CommandFrame, runnerVars
<1>5. Stopped'
  BY DEF Stopped, PauseWork, storeVars, CommandFrame, runnerVars
<1> QED BY <1>1, <1>2, <1>3, <1>4, <1>5

\* At the start nothing is in hand, so every running row is requeued.
LEMMA RequeueWorkKeeps ==
    ASSUME IInv, RequeueWork
    PROVE  IInv'
<1> USE DEF IInv
<1>1. Shapes'
  BY DEF Shapes, Status, Registered, RequeueWork, Requeue, WriteFails, Goto, LoopFrame, RPC,
     InHand
<1>2. Rows'
  BY DEF Rows, NoOrphanRunning, Registered, RequeueWork, Requeue, WriteFails, Goto, InHand
<1>3. Budget'
  BY TaskAssumption DEF Budget, RoundsBounded, Unfinished, RequeueWork, Requeue, WriteFails, Goto
<1>4. Posts'
  BY DEF Posts, Lifecycle!EndsOf, Lifecycle!Ended, Shapes, Rows, RequeueWork, Requeue,
     WriteFails, Goto, LoopFrame, InHand, Registered
<1>5. Stopped'
  BY DEF Stopped, RequeueWork, Requeue, WriteFails, Goto
<1> QED BY <1>1, <1>2, <1>3, <1>4, <1>5

\* Proposals that expire have not run and are not in hand.
LEMMA TickKeeps ==
    ASSUME IInv, NEW S \in SUBSET Goal, Tick(S)
    PROVE  IInv'
<1> USE DEF IInv
<1>1. Shapes'
  BY DEF Shapes, Status, Registered, Tick, ExpireProposals, Goto, LoopFrame, RPC, InHand
<1>2. Rows'
  BY DEF Rows, NoOrphanRunning, Registered, Tick, ExpireProposals, Goto, InHand
<1>3. Budget'
  BY TaskAssumption DEF Budget, RoundsBounded, Unfinished, Tick, ExpireProposals, Goto
<1>4. Posts'
  BY DEF Posts, Lifecycle!EndsOf, Lifecycle!Ended, Shapes, Rows, Tick, ExpireProposals, Goto,
     LoopFrame, InHand, Registered
<1>5. Stopped'
  BY DEF Stopped, Tick, Goto
<1> QED BY <1>1, <1>2, <1>3, <1>4, <1>5

\* The runner returns between two pieces of work only.
LEMMA RunnerReturnsKeeps ==
    ASSUME IInv, RunnerReturns
    PROVE  IInv'
<1> USE DEF IInv
<1>1. Shapes'
  BY DEF Shapes, Registered, RunnerReturns, Goto, LoopFrame, storeVars, RPC, InHand
<1>2. Rows'
  BY DEF Rows, NoOrphanRunning, Registered, RunnerReturns, Goto, storeVars, InHand
<1>3. Budget'
  BY DEF Budget, RoundsBounded, RunnerReturns, Goto, storeVars
<1>4. Posts'
  BY DEF Posts, Lifecycle!EndsOf, Lifecycle!Ended, Shapes, Rows, RunnerReturns, Goto,
     LoopFrame, storeVars, InHand, Registered
<1>5. Stopped'
  BY DEF Stopped, RunnerReturns, Goto
<1> QED BY <1>1, <1>2, <1>3, <1>4, <1>5

\* The row was queued, so all posts of its task are of ends not recorded.
LEMMA ClaimNextKeeps ==
    ASSUME IInv, ClaimNext
    PROVE  IInv'
<1> USE DEF IInv
<1>1. Shapes'
  BY DEF Shapes, Status, Registered, ClaimNext, Claim, SetStatus, Goto, LoopFrame, storeVars,
         RPC, InHand
<1>2. Rows'
  BY DEF Rows, NoOrphanRunning, Registered, Shapes, ClaimNext, Claim, SetStatus, Goto,
         storeVars, InHand
<1>3. Budget'
  BY TaskAssumption DEF Budget, RoundsBounded, Unfinished, Shapes, ClaimNext, Claim, IsNextDue,
                        SetStatus, Goto, storeVars
<1>4. Posts'
  <2>1. ASSUME NEW t \in Task, Claim(t), cur' = t, rpc' = "claimed" PROVE Posts'
    <3>1. /\ status[t] = "queued" /\ status' = [status EXCEPT ![t] = "running"]
          /\ UNCHANGED <<posted, unrecorded>>
      BY <2>1 DEF Claim, IsNextDue, SetStatus, ClaimNext, LoopFrame
    <3>2. posted[t] <= unrecorded[t]
      BY <3>1 DEF Shapes, Posts, Lifecycle!EndsOf, Lifecycle!Ended
    <3>3. \A u \in Task : Lifecycle!EndsOf(u)' = Lifecycle!EndsOf(u)
      BY <3>1 DEF Shapes, Lifecycle!EndsOf, Lifecycle!Ended
    <3> QED BY <2>1, <3>1, <3>2, <3>3 DEF Posts
  <2>2. ASSUME rpc' = "idle", UNCHANGED storeVars PROVE Posts'
    BY <2>2 DEF Posts, Lifecycle!EndsOf, ClaimNext, LoopFrame, storeVars, InHand, Registered
  <2> QED BY <2>1, <2>2 DEF ClaimNext, Goto
<1>5. Stopped'
  BY DEF Stopped, ClaimNext, Claim, Goto
<1> QED BY <1>1, <1>2, <1>3, <1>4, <1>5

\* The claim is not written, and the tick is over.
LEMMA ClaimFailsKeeps ==
    ASSUME IInv, ClaimFails
    PROVE  IInv'
<1> USE DEF IInv
<1>1. Shapes'
  BY DEF Shapes, Registered, ClaimFails, Goto, LoopFrame, storeVars, RPC, InHand
<1>2. Rows'
  BY DEF Rows, NoOrphanRunning, Registered, ClaimFails, Goto, storeVars, InHand
<1>3. Budget'
  BY DEF Budget, RoundsBounded, ClaimFails, Goto, storeVars
<1>4. Posts'
  BY DEF Posts, Lifecycle!EndsOf, Lifecycle!Ended, ClaimFails, Goto, LoopFrame, storeVars,
         InHand, Registered
<1>5. Stopped'
  BY DEF Stopped, ClaimFails, Goto
<1> QED BY <1>1, <1>2, <1>3, <1>4, <1>5

\* The failed row was running or cancelled, and a cancelled one stays cancelled.
LEMMA CannotStartKeeps ==
    ASSUME IInv, CannotStart
    PROVE  IInv'
<1> USE DEF IInv
<1>1. Shapes'
  BY DEF Shapes, Status, Registered, CannotStart, Finish, EndRun, WriteFails, SetStatus,
     CountRun, BackToIdle, Goto, LoopFrame, RPC, InHand, storeVars
<1>2. Rows'
  BY DEF Rows, NoOrphanRunning, Registered, Shapes, CannotStart, Finish, EndRun, WriteFails,
     SetStatus, BackToIdle, Goto, InHand, storeVars
<1>3. Budget'
  BY TaskAssumption DEF Budget, RoundsBounded, Unfinished, Shapes, Rows, CannotStart, Finish,
     EndRun, WriteFails, SetStatus, CountRun, BackToIdle, Goto, InHand, storeVars
<1>4. Posts'
  BY DEF Posts, Lifecycle!EndsOf, Lifecycle!Ended, Shapes, Rows, CannotStart, Finish, EndRun,
     WriteFails, SetStatus, BackToIdle, Goto, LoopFrame, InHand, Registered, storeVars
<1>5. Stopped'
  BY DEF Stopped, CannotStart, BackToIdle, Goto, storeVars
<1> QED BY <1>1, <1>2, <1>3, <1>4, <1>5

\* The round gets its context; the row stays as it was claimed.
LEMMA BeginRoundKeeps ==
    ASSUME IInv, BeginRound
    PROVE  IInv'
<1> USE DEF IInv
<1>1. Shapes'
  BY DEF Shapes, BeginRound, Goto, LoopFrame, storeVars, RPC, InHand
<1>2. Rows'
  BY DEF Rows, NoOrphanRunning, Registered, BeginRound, Goto, storeVars, InHand
<1>3. Budget'
  BY DEF Budget, RoundsBounded, BeginRound, Goto, storeVars
<1>4. Posts'
  BY DEF Posts, Lifecycle!EndsOf, Lifecycle!Ended, Shapes, Rows, BeginRound, LoopFrame,
     storeVars, InHand, Goto
<1>5. Stopped'
  BY DEF Stopped, BeginRound, Goto
<1> QED BY <1>1, <1>2, <1>3, <1>4, <1>5

\* A deadline leaves a context that is no longer live.
LEMMA DeadlineKeeps ==
    ASSUME IInv, Deadline
    PROVE  IInv'
<1> USE DEF IInv
<1>1. Shapes'
  BY DEF Shapes, Deadline, RoundFrame, LoopFrame, storeVars
<1>2. Rows'
  BY DEF Rows, NoOrphanRunning, Deadline, RoundFrame, storeVars
<1>3. Budget'
  BY DEF Budget, RoundsBounded, Deadline, RoundFrame, storeVars
<1>4. Posts'
  BY DEF Posts, Lifecycle!EndsOf, Lifecycle!Ended, Shapes, Rows, Deadline, RoundFrame,
     LoopFrame, storeVars
<1>5. Stopped'
  BY DEF Stopped, Deadline
<1> QED BY <1>1, <1>2, <1>3, <1>4, <1>5

\* The end of a round writes nothing to the table.
LEMMA EndRoundKeeps ==
    ASSUME IInv, EndRound
    PROVE  IInv'
<1> USE DEF IInv
<1>1. Shapes'
  BY DEF Shapes, Registered, EndRound, Goto, LoopFrame, storeVars, RPC, InHand
<1>2. Rows'
  BY DEF Rows, NoOrphanRunning, Registered, EndRound, Goto, storeVars, InHand
<1>3. Budget'
  BY DEF Budget, RoundsBounded, EndRound, Goto, storeVars
<1>4. Posts'
  BY DEF Posts, Lifecycle!EndsOf, Lifecycle!Ended, Shapes, Rows, EndRound, LoopFrame,
     storeVars, InHand, Registered, Goto
<1>5. Stopped'
  BY DEF Stopped, EndRound, Goto
<1> QED BY <1>1, <1>2, <1>3, <1>4, <1>5

\* A cancelled row that is seen here is dropped without a post.
LEMMA RoundWasCancelledKeeps ==
    ASSUME IInv, RoundWasCancelled
    PROVE  IInv'
<1> USE DEF IInv
<1>1. Shapes'
  BY DEF Shapes, Registered, RoundWasCancelled, BackToIdle, Goto, LoopFrame, storeVars, RPC,
         InHand
<1>2. Rows'
  BY DEF Rows, NoOrphanRunning, Registered, RoundWasCancelled, BackToIdle, Goto, storeVars,
         InHand
<1>3. Budget'
  BY DEF Budget, RoundsBounded, RoundWasCancelled, BackToIdle, Goto, storeVars
<1>4. Posts'
  BY DEF Posts, Lifecycle!EndsOf, Lifecycle!Ended, Shapes, Rows, RoundWasCancelled, BackToIdle,
     Goto, LoopFrame, storeVars, InHand, Registered
<1>5. Stopped'
  BY DEF Stopped, RoundWasCancelled, BackToIdle, Goto
<1> QED BY <1>1, <1>2, <1>3, <1>4, <1>5

\* The row was looked at and was not cancelled; a task or schedule has its verdict.
LEMMA RunEndsKeeps ==
    ASSUME IInv, NEW o \in {"done", "failed", "again"}, RunEnds(o)
    PROVE  IInv'
<1> USE DEF IInv
<1>1. Shapes'
  BY DEF Shapes, Registered, RunEnds, Goto, RoundFrame, LoopFrame, storeVars, RPC, InHand
<1>2. Rows'
  BY DEF Rows, NoOrphanRunning, Registered, RunEnds, Goto, RoundFrame, storeVars, InHand
<1>3. Budget'
  BY DEF Budget, RoundsBounded, RunEnds, Goto, RoundFrame, storeVars
<1>4. Posts'
  BY DEF Posts, Lifecycle!EndsOf, Lifecycle!Ended, Shapes, Rows, RunEnds, RoundFrame,
     LoopFrame, storeVars, InHand, Registered, Goto
<1>5. Stopped'
  BY DEF Stopped, RunEnds, RoundFrame, storeVars
<1> QED BY <1>1, <1>2, <1>3, <1>4, <1>5

\* The row was looked at and was not cancelled; the goal goes to its review.
LEMMA GoalRoundEndsKeeps ==
    ASSUME IInv, GoalRoundEnds
    PROVE  IInv'
<1> USE DEF IInv
<1>1. Shapes'
  BY DEF Shapes, Registered, GoalRoundEnds, Goto, RoundFrame, LoopFrame, storeVars, RPC, InHand
<1>2. Rows'
  BY DEF Rows, NoOrphanRunning, Registered, GoalRoundEnds, Goto, RoundFrame, storeVars, InHand
<1>3. Budget'
  BY DEF Budget, RoundsBounded, GoalRoundEnds, Goto, storeVars
<1>4. Posts'
  BY DEF Posts, Lifecycle!EndsOf, Lifecycle!Ended, Shapes, Rows, GoalRoundEnds, RoundFrame,
     LoopFrame, storeVars, InHand, Registered, Goto
<1>5. Stopped'
  BY DEF Stopped, GoalRoundEnds, RoundFrame, storeVars
<1> QED BY <1>1, <1>2, <1>3, <1>4, <1>5

\* A review asks for another round only if one is left.
LEMMA ReviewKeeps ==
    ASSUME IInv, NEW o \in {"done", "failed", "again"}, Review(o)
    PROVE  IInv'
<1> USE DEF IInv
<1>1. Shapes'
  BY DEF Shapes, Registered, Review, Goto, RoundFrame, LoopFrame, storeVars, RPC, InHand
<1>2. Rows'
  BY DEF Rows, NoOrphanRunning, Registered, Review, Goto, RoundFrame, storeVars, InHand
<1>3. Budget'
  BY TaskAssumption DEF Budget, RoundsBounded, Shapes, Review, OutOfRounds, Goto, RoundFrame,
                        storeVars
<1>4. Posts'
  BY DEF Posts, Lifecycle!EndsOf, Lifecycle!Ended, Shapes, Rows, Review, RoundFrame, LoopFrame,
     storeVars, InHand, Registered, Goto
<1>5. Stopped'
  BY DEF Stopped, Review, RoundFrame, LoopFrame, storeVars
<1> QED BY <1>1, <1>2, <1>3, <1>4, <1>5

\* The end is written unless a cancel was faster, and the round is counted.
LEMMA RecordEndKeeps ==
    ASSUME IInv, RecordEnd
    PROVE  IInv'
<1> USE DEF IInv
<1>1. Shapes'
  BY DEF Shapes, Status, Registered, RecordEnd, RecordAs, Finish, EndRun, WriteFails,
     SetStatus, CountRun, Goto, RoundFrame, LoopFrame, RPC, InHand, storeVars
<1>2. Rows'
  BY DEF Rows, NoOrphanRunning, Registered, Shapes, RecordEnd, RecordAs, Finish, EndRun,
     WriteFails, SetStatus, Goto, RoundFrame, InHand, storeVars
<1>3. Budget'
  BY TaskAssumption DEF Budget, RoundsBounded, Unfinished, Shapes, Rows, RecordEnd, RecordAs,
     Finish, EndRun, WriteFails, SetStatus, CountRun, Goto, InHand, Registered, storeVars
<1>4. Posts'
  BY DEF Posts, Lifecycle!EndsOf, Lifecycle!Ended, Shapes, Rows, RecordEnd, RecordAs, Finish,
     EndRun, WriteFails, SetStatus, RoundFrame, LoopFrame, InHand, Registered, Goto, storeVars
<1>5. Stopped'
  BY DEF Stopped, Shapes, RecordEnd, RecordAs, Finish, EndRun, WriteFails, SetStatus,
     RoundFrame, LoopFrame, storeVars, Goto
<1> QED BY <1>1, <1>2, <1>3, <1>4, <1>5

\* A schedule is queued again, or stays cancelled.
LEMMA RecordRepeatKeeps ==
    ASSUME IInv, RecordRepeat
    PROVE  IInv'
<1> USE DEF IInv
<1>1. Shapes'
  BY DEF Shapes, Status, Registered, RecordRepeat, Reschedule, EndRun, WriteFails, SetStatus,
     CountRun, Goto, RoundFrame, LoopFrame, RPC, InHand, storeVars
<1>2. Rows'
  BY DEF Rows, NoOrphanRunning, Registered, Shapes, RecordRepeat, Reschedule, EndRun,
     WriteFails, SetStatus, Goto, RoundFrame, InHand, storeVars
<1>3. Budget'
  BY TaskAssumption DEF Budget, RoundsBounded, Shapes, RecordRepeat, Reschedule, EndRun,
     WriteFails, SetStatus, CountRun, Goto, storeVars
<1>4. Posts'
  <2>1. /\ cur \in Task \cap Repeat /\ cur' = cur /\ rpc' = "post"
        /\ UNCHANGED <<posted, unrecorded>> /\ status[cur] \in {"running", "cancelled"}
    BY DEF RecordRepeat, Goto, RoundFrame, LoopFrame, Shapes, Rows, InHand, Registered
  <2>2. \/ status' = status
        \/ status[cur] = "running" /\ status' = [status EXCEPT ![cur] = "queued"]
    BY <2>1 DEF RecordRepeat, Reschedule, EndRun, WriteFails, SetStatus, storeVars
  <2>3. \A u \in Task : Lifecycle!EndsOf(u)' = Lifecycle!EndsOf(u)
    BY <2>1, <2>2 DEF Shapes, Lifecycle!EndsOf, Lifecycle!Ended
  <2> QED BY <2>1, <2>3 DEF Posts, InHand
<1>5. Stopped'
  BY DEF Stopped, Shapes, RecordRepeat, Reschedule, EndRun, WriteFails, SetStatus, RoundFrame,
     LoopFrame, storeVars
<1> QED BY <1>1, <1>2, <1>3, <1>4, <1>5

\* The remarks are written before the row goes back to the queue.
LEMMA RecordFeedbackKeeps ==
    ASSUME IInv, RecordFeedback
    PROVE  IInv'
<1> USE DEF IInv
<1>1. Shapes'
  BY DEF Shapes, Registered, RecordFeedback, SetFeedback, Goto, RoundFrame, LoopFrame, RPC,
         InHand, storeVars
<1>2. Rows'
  BY DEF Rows, NoOrphanRunning, Registered, RecordFeedback, SetFeedback, Goto, RoundFrame,
         InHand, storeVars
<1>3. Budget'
  BY DEF Budget, RoundsBounded, RecordFeedback, SetFeedback, RoundFrame, storeVars
<1>4. Posts'
  BY DEF Posts, Lifecycle!EndsOf, Lifecycle!Ended, Shapes, Rows, RecordFeedback, SetFeedback,
     RoundFrame, LoopFrame, InHand, Registered, Goto, storeVars
<1>5. Stopped'
  BY DEF Stopped, RecordFeedback, SetFeedback, RoundFrame, LoopFrame, storeVars
<1> QED BY <1>1, <1>2, <1>3, <1>4, <1>5

\* The goal is queued again with a round left: Review saw to it.
LEMMA NextRoundKeeps ==
    ASSUME IInv, NextRound
    PROVE  IInv'
<1> USE DEF IInv
<1>1. Shapes'
  BY DEF Shapes, Status, Registered, NextRound, Reschedule, EndRun, WriteFails, SetStatus,
     CountRun, BackToIdle, Goto, LoopFrame, RPC, InHand, storeVars
<1>2. Rows'
  BY DEF Rows, NoOrphanRunning, Registered, Shapes, NextRound, Reschedule, EndRun, WriteFails,
     SetStatus, BackToIdle, Goto, InHand, storeVars
<1>3. Budget'
  BY TaskAssumption DEF Budget, RoundsBounded, Shapes, NextRound, Reschedule, EndRun,
     WriteFails, SetStatus, CountRun, BackToIdle, Goto, storeVars
<1>4. Posts'
  BY DEF Posts, Lifecycle!EndsOf, Lifecycle!Ended, Shapes, Rows, NextRound, Reschedule, EndRun,
     WriteFails, SetStatus, BackToIdle, Goto, LoopFrame, InHand, Registered, storeVars
<1>5. Stopped'
  BY DEF Stopped, NextRound, BackToIdle, Goto, storeVars
<1> QED BY <1>1, <1>2, <1>3, <1>4, <1>5

\* What is said is at an end, and the runner lets go of it.
LEMMA PostResultKeeps ==
    ASSUME IInv, PostResult
    PROVE  IInv'
<1> USE DEF IInv
<1>1. Shapes'
  BY DEF Shapes, Registered, PostResult, BackToIdle, Goto, storeVars, RPC, InHand
<1>2. Rows'
  BY DEF Rows, NoOrphanRunning, Registered, PostResult, BackToIdle, Goto, storeVars, InHand
<1>3. Budget'
  BY DEF Budget, RoundsBounded, PostResult, BackToIdle, Goto, storeVars
<1>4. Posts'
  BY DEF Posts, Lifecycle!EndsOf, Lifecycle!Ended, Shapes, Rows, PostResult, BackToIdle, Goto,
     storeVars, InHand, Registered
<1>5. Stopped'
  BY DEF Stopped, PostResult, BackToIdle, Goto
<1> QED BY <1>1, <1>2, <1>3, <1>4, <1>5

\* The context ends; the table is as it was.
LEMMA ShutdownKeeps ==
    ASSUME IInv, Shutdown
    PROVE  IInv'
<1> USE DEF IInv
<1>1. Shapes'
  BY DEF Shapes, Shutdown, storeVars
<1>2. Rows'
  BY DEF Rows, NoOrphanRunning, Shutdown, storeVars
<1>3. Budget'
  BY DEF Budget, RoundsBounded, Shutdown, storeVars
<1>4. Posts'
  BY DEF Posts, Lifecycle!EndsOf, Lifecycle!Ended, Shapes, Rows, Shutdown, storeVars
<1>5. Stopped'
  BY DEF Stopped, Shutdown, storeVars
<1> QED BY <1>1, <1>2, <1>3, <1>4, <1>5

\* The process is gone, and with it whatever was in hand.
LEMMA ExitKeeps ==
    ASSUME IInv, NEW lost \in SUBSET Goal, Exit(lost)
    PROVE  IInv'
<1> USE DEF IInv
<1>1. Shapes'
  BY DEF Shapes, Registered, Exit, storeVars, RPC, InHand
<1>2. Rows'
  BY DEF Rows, NoOrphanRunning, Registered, Exit, storeVars, InHand
<1>3. Budget'
  BY DEF Budget, RoundsBounded, Exit, storeVars
<1>4. Posts'
  BY DEF Posts, Lifecycle!EndsOf, Lifecycle!Ended, Shapes, Rows, Exit, storeVars, InHand,
     Registered
<1>5. Stopped'
  BY DEF Stopped, Exit
<1> QED BY <1>1, <1>2, <1>3, <1>4, <1>5

\* The new process has nothing in hand and has not requeued yet.
LEMMA RestartKeeps ==
    ASSUME IInv, Restart
    PROVE  IInv'
<1> USE DEF IInv
<1>1. Shapes'
  BY DEF Shapes, Registered, Restart, Goto, storeVars, RPC, InHand
<1>2. Rows'
  BY DEF Rows, NoOrphanRunning, Registered, Restart, Goto, storeVars, InHand
<1>3. Budget'
  BY DEF Budget, RoundsBounded, Restart, Goto, storeVars
<1>4. Posts'
  BY DEF Posts, Lifecycle!EndsOf, Lifecycle!Ended, Shapes, Rows, Restart, Goto, storeVars,
     InHand, Registered
<1>5. Stopped'
  BY DEF Stopped, Restart, Goto
<1> QED BY <1>1, <1>2, <1>3, <1>4, <1>5

\* Only the queue changes.
LEMMA WorkComesDueKeeps ==
    ASSUME IInv, NEW t \in Task, WorkComesDue(t)
    PROVE  IInv'
  BY DEF WorkComesDue, ComesDue, CommandFrame, runnerVars, IInv, Shapes, Rows, NoOrphanRunning,
     Budget, RoundsBounded, Posts, Lifecycle!EndsOf, Lifecycle!Ended, Stopped

-----------------------------------------------------------------------------
LEMMA Initial == Init => IInv
  BY TaskAssumption DEF Init, StoreInit, RunnerInit, IInv, Shapes, Rows, NoOrphanRunning,
     Budget, RoundsBounded, Posts, Lifecycle!EndsOf, Lifecycle!Ended, Stopped, InHand,
     Registered, RPC, Status

LEMMA Step == IInv /\ [Next]_vars => IInv'
<1> SUFFICES ASSUME IInv, [Next]_vars PROVE IInv'
  OBVIOUS
<1>1. CASE \E t \in Task, s \in {"queued", "proposed"}, now \in BOOLEAN : StartWork(t, s, now)
  BY <1>1, StartWorkKeeps
<1>2. CASE \E t \in Task : \/ AcceptGoal(t) \/ CancelWork(t) \/ CancelTask(t)
                           \/ WorkComesDue(t)
  BY <1>2, AcceptGoalKeeps, CancelWorkKeeps, CancelTaskKeeps, WorkComesDueKeeps
<1>3. CASE \/ \E t \in Goal, h \in Hint : Nudge(t, h)
           \/ \E p \in BOOLEAN : PauseWork(p)
  BY <1>3, NudgeKeeps, PauseWorkKeeps
<1>4. CASE LoopStep
  BY <1>4, RequeueWorkKeeps, RunnerReturnsKeeps, ClaimNextKeeps, ClaimFailsKeeps,
     CannotStartKeeps, BeginRoundKeeps, TickKeeps DEF LoopStep
<1>5. CASE RoundStep \/ Deadline
  BY <1>5, DeadlineKeeps, EndRoundKeeps, RoundWasCancelledKeeps, GoalRoundEndsKeeps,
     RunEndsKeeps,
     ReviewKeeps, RecordEndKeeps, RecordRepeatKeeps, RecordFeedbackKeeps, NextRoundKeeps,
     PostResultKeeps DEF RoundStep
<1>6. CASE Shutdown \/ Restart \/ \E lost \in SUBSET Goal : Exit(lost)
  BY <1>6, ShutdownKeeps, RestartKeeps, ExitKeeps
<1>7. CASE UNCHANGED vars
  BY <1>7 DEF vars, storeVars, runnerVars, IInv, Shapes, Rows, NoOrphanRunning, Budget,
              RoundsBounded,
              Posts, Lifecycle!EndsOf, Lifecycle!Ended, Stopped
<1> QED BY <1>1, <1>2, <1>3, <1>4, <1>5, <1>6, <1>7 DEF Next

LEMMA Invariant == Spec => []IInv
BY Initial, Step, PTL DEF Spec

(***************************************************************************)
(* A row says running only while the runner has that task in hand or has   *)
(* still to requeue it, or after a write that failed: no crash, cancel,    *)
(* pause or shutdown strands work.                                         *)
(***************************************************************************)
THEOREM NothingIsStranded == Spec => []NoOrphanRunning
<1>1. IInv => NoOrphanRunning
  BY DEF IInv, Rows
<1> QED BY <1>1, Invariant, PTL

(***************************************************************************)
(* A goal completes at most goalmaxruns rounds, and is finished when it    *)
(* has, over any number of nudges, cancels and restarts.                   *)
(***************************************************************************)
THEOREM GoalsEnd == Spec => []RoundsBounded
<1>1. IInv => RoundsBounded
  BY DEF IInv, Budget
<1> QED BY <1>1, Invariant, PTL

\* Only PostResult posts.
LEMMA PostsOnlyThere ==
    ASSUME Next, posted' # posted
    PROVE  PostResult
<1>1. CASE \/ \E t \in Task, s \in {"queued", "proposed"}, now \in BOOLEAN : StartWork(t, s, now)
           \/ \E t \in Task : \/ AcceptGoal(t) \/ CancelWork(t) \/ CancelTask(t)
                              \/ WorkComesDue(t)
           \/ \E t \in Goal, h \in Hint : Nudge(t, h)
           \/ \E p \in BOOLEAN : PauseWork(p)
  BY <1>1 DEF StartWork, AcceptGoal, CancelWork, CancelTask, WorkComesDue, Nudge, PauseWork,
              CommandFrame
<1>2. CASE LoopStep
  BY <1>2 DEF LoopStep, RequeueWork, RunnerReturns, ClaimNext, ClaimFails, CannotStart,
              BeginRound, Tick, LoopFrame
<1>3. CASE Deadline \/ RoundStep
  BY <1>3 DEF Deadline, RoundStep, EndRound, RoundWasCancelled, GoalRoundEnds, RunEnds, Review,
              RecordEnd, RecordAs, RecordRepeat, RecordFeedback, NextRound, RoundFrame, LoopFrame
<1>4. CASE Shutdown \/ Restart \/ \E lost \in SUBSET Goal : Exit(lost)
  BY <1>4 DEF Shutdown, Restart, Exit
<1> QED BY <1>1, <1>2, <1>3, <1>4 DEF Next

(***************************************************************************)
(* After "#id cancelled" the result of that work is not posted, unless the *)
(* deadline of its round had passed before.                                *)
(***************************************************************************)
THEOREM CancelledWorkIsQuiet == Spec => QuietAfterCancel
<1> DEFINE Quiet == \A t \in Task :
               posted'[t] > posted[t] /\ status[t] = "cancelled" /\ t \notin cancelling
                 => ctx = "timeout"
<1>1. IInv /\ [Next]_vars => [Quiet]_vars
  <2> SUFFICES ASSUME IInv, Next, NEW t \in Task, posted'[t] > posted[t],
                      status[t] = "cancelled", t \notin cancelling
               PROVE  ctx = "timeout"
    OBVIOUS
  <2>1. posted' # posted
    BY DEF IInv, Shapes
  <2>2. PostResult
    BY <2>1, PostsOnlyThere
  <2>3. rpc = "post" /\ t = cur /\ ctx # "cancelled"
    BY <2>2 DEF PostResult, Delivers, IInv, Shapes, InHand, Registered
  <2> QED BY <2>3 DEF IInv, Stopped, Shapes
<1> QED BY <1>1, Invariant, PTL DEF Spec, QuietAfterCancel

-----------------------------------------------------------------------------
(* The refinement: each step of the table is one of TaskLifecycle's. *)

LEMMA CommandsImplement ==
    ASSUME IInv, NEW t \in Task,
           \/ \E s \in {"queued", "proposed"}, now \in BOOLEAN : StartWork(t, s, now)
           \/ AcceptGoal(t) \/ CancelWork(t)
    PROVE  Lifecycle!Next
<1>1. CASE \E s \in {"queued", "proposed"}, now \in BOOLEAN : StartWork(t, s, now)
  <2>1. Lifecycle!Ask(t)
    BY <1>1 DEF StartWork, Start, SetStatus, CommandFrame, Lifecycle!Ask, Lifecycle!Become
  <2> QED BY <2>1 DEF Lifecycle!Next
<1>2. CASE AcceptGoal(t)
  <2>1. Lifecycle!Accept(t)
    BY <1>2 DEF AcceptGoal, Accept, SetStatus, CommandFrame, Lifecycle!Accept, Lifecycle!Become
  <2> QED BY <2>1 DEF Lifecycle!Next
<1>3. CASE CancelWork(t)
  <2>1. Lifecycle!Cancel(t)
    BY <1>3 DEF CancelWork, Cancel, SetStatus, Unfinished, CommandFrame, Lifecycle!Cancel,
                Lifecycle!Become
  <2> QED BY <2>1 DEF Lifecycle!Next
<1> QED BY <1>1, <1>2, <1>3

\* Either all that runs is queued again or nothing is.
LEMMA RequeueImplements ==
    ASSUME RequeueWork
    PROVE  Lifecycle!Next \/ UNCHANGED <<status, posted, unrecorded>>
<1>1. UNCHANGED <<posted, unrecorded>>
  BY DEF RequeueWork, LoopFrame
<1>2. CASE status' = [t \in Task |-> IF status[t] = "running" THEN "queued" ELSE status[t]]
  BY <1>1, <1>2 DEF Lifecycle!Next, Lifecycle!Resume
<1>3. CASE status' = status
  BY <1>1, <1>3
<1>4. \/ status' = [t \in Task |-> IF status[t] = "running" THEN "queued" ELSE status[t]]
      \/ status' = status
  BY DEF RequeueWork, Requeue, WriteFails
<1> QED BY <1>2, <1>3, <1>4

LEMMA TickImplements ==
    ASSUME NEW S \in SUBSET Goal, Tick(S)
    PROVE  Lifecycle!Lapse
  BY TaskAssumption DEF Tick, ExpireProposals, LoopFrame, Lifecycle!Lapse

LEMMA ClaimImplements ==
    ASSUME IInv, ClaimNext
    PROVE  Lifecycle!Next \/ UNCHANGED <<status, posted, unrecorded>>
<1>1. UNCHANGED <<posted, unrecorded>>
  BY DEF ClaimNext, LoopFrame
<1>2. CASE \E t \in Task : Claim(t)
  <2>1. PICK t \in Task : Claim(t)
    BY <1>2
  <2>2. Lifecycle!Run(t)
    BY <1>1, <2>1 DEF Claim, IsNextDue, SetStatus, Lifecycle!Run, Lifecycle!Become
  <2> QED BY <2>2 DEF Lifecycle!Next
<1>3. CASE status' = status
  BY <1>1, <1>3
<1> QED BY <1>2, <1>3 DEF ClaimNext, storeVars

\* A row that was cancelled meanwhile keeps its end.
LEMMA StatementImplements ==
    ASSUME IInv, cur \in Task, status[cur] \in {"running", "cancelled"},
           NEW s \in {"done", "failed", "queued"}, EndRun(cur, s)
    PROVE  \/ status' = status
           \/ /\ status[cur] = "running" /\ status' = [status EXCEPT ![cur] = s]
              /\ (UNCHANGED <<posted, unrecorded>> => Lifecycle!Next)
<1>1. \/ status' = status
      \/ status[cur] = "running" /\ status' = [status EXCEPT ![cur] = s]
  BY DEF EndRun, WriteFails, SetStatus, storeVars
<1>2. ASSUME status[cur] = "running", status' = [status EXCEPT ![cur] = s],
             UNCHANGED <<posted, unrecorded>>
      PROVE  Lifecycle!Next
  <2>1. Lifecycle!Finish(cur) \/ Lifecycle!RunAgainLater(cur)
    BY <1>2 DEF Lifecycle!Finish, Lifecycle!RunAgainLater, Lifecycle!Become
  <2> QED BY <2>1 DEF Lifecycle!Next
<1> QED BY <1>1, <1>2

LEMMA EndsImplement ==
    ASSUME IInv, CannotStart \/ RecordRepeat \/ NextRound
    PROVE  Lifecycle!Next \/ UNCHANGED <<status, posted, unrecorded>>
<1>1. /\ cur \in Task /\ status[cur] \in {"running", "cancelled"}
      /\ UNCHANGED <<posted, unrecorded>>
  BY DEF CannotStart, RecordRepeat, NextRound, RoundFrame, LoopFrame,
         IInv, Shapes, Rows, InHand, Registered
<1>2. EndRun(cur, "failed") \/ EndRun(cur, "queued")
  BY DEF CannotStart, RecordRepeat, NextRound, Finish, Reschedule
<1> QED BY <1>1, <1>2, StatementImplements

\* An end that could not be written is counted, and the row goes on.
LEMMA RecordEndImplements ==
    ASSUME IInv, RecordEnd
    PROVE  Lifecycle!Next \/ UNCHANGED <<status, posted, unrecorded>>
<1>1. /\ cur \in Task /\ status[cur] \in {"running", "cancelled"}
      /\ posted' = posted /\ outcome \in {"done", "failed"} /\ EndRun(cur, outcome)
      /\ unrecorded' = IF status'[cur] = "running" THEN [unrecorded EXCEPT ![cur] = @ + 1]
                                                   ELSE unrecorded
  BY DEF RecordEnd, RecordAs, Finish, IInv, Shapes, Rows, InHand, Registered
<1>2. CASE status' = status /\ status[cur] = "cancelled"
  BY <1>1, <1>2
<1>3. CASE status' = status /\ status[cur] = "running"
  <2>1. Lifecycle!EndUnrecorded(cur)
    BY <1>1, <1>3 DEF Lifecycle!EndUnrecorded
  <2> QED BY <1>1, <2>1 DEF Lifecycle!Next
<1>4. CASE status' = [status EXCEPT ![cur] = outcome]
  <2>1. status'[cur] = outcome
    BY <1>1, <1>4 DEF IInv, Shapes
  <2>2. unrecorded' = unrecorded
    BY <1>1, <2>1
  <2> QED BY <1>1, <2>2, StatementImplements
<1> QED BY <1>1, <1>2, <1>3, <1>4, StatementImplements

LEMMA PostImplements ==
    ASSUME IInv, PostResult
    PROVE  Lifecycle!Next \/ UNCHANGED <<status, posted, unrecorded>>
<1>1. UNCHANGED <<status, unrecorded>>
  BY DEF PostResult, storeVars
<1>2. ASSUME posted' # posted PROVE Lifecycle!Next
  <2>1. cur \in Task \ Repeat /\ posted' = [posted EXCEPT ![cur] = @ + 1] /\ rpc = "post"
    BY <1>2 DEF PostResult, IInv, Shapes, InHand, Registered
  <2>2. posted[cur] < Lifecycle!EndsOf(cur)
    BY <2>1 DEF IInv, Posts
  <2>3. Lifecycle!Post(cur)
    BY <1>1, <2>1, <2>2 DEF Lifecycle!Post
  <2> QED BY <2>1, <2>3 DEF Lifecycle!Next
<1> QED BY <1>1, <1>2

\* Nothing else touches the status or the posts.
LEMMA OthersStutter ==
    ASSUME \/ \E t \in Task : \/ CancelTask(t)
                              \/ WorkComesDue(t)
           \/ \E t \in Goal, h \in Hint : Nudge(t, h)
           \/ \E p \in BOOLEAN : PauseWork(p)
           \/ RunnerReturns \/ ClaimFails \/ BeginRound \/ Deadline
           \/ EndRound \/ RoundWasCancelled \/ GoalRoundEnds \/ RecordFeedback
           \/ \E o \in {"done", "failed", "again"} : RunEnds(o) \/ Review(o)
           \/ Shutdown \/ Restart \/ \E lost \in SUBSET Goal : Exit(lost)
    PROVE  UNCHANGED <<status, posted, unrecorded>>
  BY DEF CancelTask, WorkComesDue, ComesDue, Nudge, SetFeedback, PauseWork, CommandFrame,
     RunnerReturns, ClaimFails, BeginRound, Deadline, EndRound, RoundWasCancelled,
     GoalRoundEnds, RecordFeedback, RunEnds, Review, RoundFrame, LoopFrame, Shutdown, Restart,
     Exit, storeVars

LEMMA StepImplements == IInv /\ [Next]_vars => [Lifecycle!Next]_<<status, posted, unrecorded>>
<1> SUFFICES ASSUME IInv, Next PROVE Lifecycle!Next \/ UNCHANGED <<status, posted, unrecorded>>
  BY DEF vars, storeVars
<1>1. CASE LoopStep
  <2>1. ASSUME NEW S \in SUBSET Goal, Tick(S) PROVE Lifecycle!Next
    BY <2>1, TickImplements DEF Lifecycle!Next
  <2> QED BY <1>1, <2>1, RequeueImplements, ClaimImplements, EndsImplement,
             OthersStutter DEF LoopStep
<1>2. CASE RoundStep
  BY <1>2, EndsImplement, RecordEndImplements, PostImplements, OthersStutter DEF RoundStep
<1>3. CASE \E t \in Task, s \in {"queued", "proposed"}, now \in BOOLEAN : StartWork(t, s, now)
  BY <1>3, CommandsImplement
<1>4. CASE \E t \in Task : \/ AcceptGoal(t) \/ CancelWork(t) \/ CancelTask(t)
                           \/ WorkComesDue(t)
  BY <1>4, CommandsImplement, OthersStutter
<1> QED BY <1>1, <1>2, <1>3, <1>4, OthersStutter DEF Next

(***************************************************************************)
(* The table and the posts live the life TaskLifecycle promises: ends are  *)
(* final, a result is posted at most once and after its end is recorded,   *)
(* except for one post for each end that could not be; what was cut short  *)
(* is started again.                                                       *)
(***************************************************************************)
THEOREM WorkLivesItsLife == Spec => ImplementsLifecycle
<1>1. Init => Lifecycle!Init
  BY DEF Init, StoreInit, Lifecycle!Init
<1> QED BY <1>1, StepImplements, Invariant, PTL DEF Spec, ImplementsLifecycle, Lifecycle!Spec

-----------------------------------------------------------------------------
(***************************************************************************)
(* The table, for its type: each statement of the store keeps it, and      *)
(* every step is at most one statement.                                    *)
(***************************************************************************)
TableOK == /\ status \in [Task -> Status]
           /\ order \in Seq(Task)
           /\ Injective(order)
           /\ \A t \in ToSet(order) : status[t] \in {"queued", "running"}
           /\ \A t \in Task : status[t] = "running" => t \in ToSet(order)

\* What a statement may do to a row and to the queue.
Enters(t) == status[t] \in {"none", "queued", "proposed"} /\ t \notin ToSet(order)
             /\ status' = [status EXCEPT ![t] = "queued"]
             /\ order' = Append(order, t)
Leaves(t) == \E s \in Status \ {"running"} : /\ status' = [status EXCEPT ![t] = s]
                                             /\ order' = Dequeue(order, t)

LEMMA EntersKeeps == ASSUME TableOK, NEW t \in Task, Enters(t) PROVE TableOK'
<1>1. /\ order' \in Seq(Task) /\ Injective(order')
      /\ ToSet(order') = ToSet(order) \cup {t}
  BY EnqueueEffect DEF TableOK, Enters
<1> QED BY <1>1 DEF TableOK, Enters, Status

LEMMA LeavesKeeps == ASSUME TableOK, NEW t \in Task, Leaves(t) PROVE TableOK'
<1>1. /\ order' \in Seq(Task) /\ Injective(order')
      /\ ToSet(order') = ToSet(order) \ {t}
  BY DequeueEffect DEF TableOK, Leaves
<1>2. PICK s \in Status \ {"running"} : status' = [status EXCEPT ![t] = s]
  BY DEF Leaves
<1> QED BY <1>1, <1>2 DEF TableOK

\* A row outside the queue that stays outside it.
LEMMA AsideKeeps ==
    ASSUME TableOK, NEW t \in Task, status[t] \notin {"queued", "running"},
           NEW s \in Status \ {"running"}, status' = [status EXCEPT ![t] = s], order' = order
    PROVE  TableOK'
BY DEF TableOK

-----------------------------------------------------------------------------
(* The statements of the store. *)

LEMMA StartKeepsTable ==
    ASSUME TableOK, NEW t \in Task, NEW s \in {"queued", "proposed"}, NEW now \in BOOLEAN,
           Start(t, s, now)
    PROVE  TableOK'
<1>1. CASE s = "queued" /\ now
  BY <1>1, EntersKeeps DEF Start, SetStatus, Enters, TableOK
<1>2. CASE ~(s = "queued" /\ now)
  BY <1>2, AsideKeeps DEF Start, SetStatus, Status
<1> QED BY <1>1, <1>2

LEMMA ComesDueKeepsTable == ASSUME TableOK, NEW t \in Task, ComesDue(t) PROVE TableOK'
<1>1. status' = [status EXCEPT ![t] = "queued"]
  BY DEF ComesDue, TableOK
<1> QED BY <1>1, EntersKeeps DEF ComesDue, Enters

LEMMA AcceptKeepsTable == ASSUME TableOK, NEW t \in Task, Accept(t) PROVE TableOK'
BY EntersKeeps DEF Accept, SetStatus, Enters, TableOK

LEMMA CancelKeepsTable == ASSUME TableOK, NEW t \in Task, Cancel(t) PROVE TableOK'
BY LeavesKeeps DEF Cancel, SetStatus, Leaves, Status

LEMMA ExpireKeepsTable ==
    ASSUME TableOK, NEW S \in SUBSET Goal, ExpireProposals(S) PROVE TableOK'
<1>1. \A t \in Task : status'[t] # status[t] => status[t] = "proposed" /\ status'[t] = "cancelled"
  BY DEF ExpireProposals, TableOK
<1>2. status' \in [Task -> Status] /\ order' = order
  BY DEF ExpireProposals, TableOK, Status
<1>3. ToSet(order) \subseteq Task
  BY ElementOfSeq DEF TableOK, ToSet
<1> QED BY <1>1, <1>2, <1>3 DEF TableOK

LEMMA ClaimKeepsTable == ASSUME TableOK, NEW t \in Task, Claim(t) PROVE TableOK'
<1>1. t \in ToSet(order)
  BY DEF Claim, IsNextDue, ToSet
<1> QED BY <1>1 DEF Claim, SetStatus, TableOK, Status

LEMMA EndRunKeepsTable ==
    ASSUME TableOK, NEW t \in Task, NEW s \in {"done", "failed", "queued"}, EndRun(t, s)
    PROVE  TableOK'
<1>1. CASE UNCHANGED <<status, order>>
  BY <1>1 DEF TableOK
<1>2. CASE SetStatus(t, s) /\ order' = Dequeue(order, t)
  BY <1>2, LeavesKeeps DEF SetStatus, Leaves, Status
<1> QED BY <1>1, <1>2 DEF EndRun, WriteFails, storeVars

LEMMA RequeueKeepsTable == ASSUME TableOK, Requeue PROVE TableOK'
<1>1. ToSet(order) \subseteq Task
  BY ElementOfSeq DEF TableOK, ToSet
<1>2. CASE UNCHANGED <<status, order>>
  BY <1>2 DEF TableOK
<1>3. CASE /\ status' = [t \in Task |-> IF status[t] = "running" THEN "queued" ELSE status[t]]
           /\ order' = order
  <2>1. /\ status' \in [Task -> Status]
        /\ \A t \in Task : status'[t] = (IF status[t] = "running" THEN "queued" ELSE status[t])
    BY <1>3 DEF TableOK, Status
  <2> QED BY <1>1, <1>3, <2>1 DEF TableOK
<1> QED BY <1>2, <1>3 DEF Requeue, WriteFails

-----------------------------------------------------------------------------
\* Which statement each step is.
LEMMA StepKeepsTable == ASSUME IInv, TableOK, [Next]_vars PROVE TableOK'
<1>0. ASSUME UNCHANGED <<status, order>> PROVE TableOK'
  BY <1>0 DEF TableOK
<1>1. ASSUME NEW t \in Task, NEW s \in {"queued", "proposed"}, NEW now \in BOOLEAN,
             StartWork(t, s, now)
      PROVE  TableOK'
  BY <1>1, StartKeepsTable DEF StartWork
<1>2. ASSUME NEW t \in Task, AcceptGoal(t) \/ CancelWork(t) \/ WorkComesDue(t) PROVE TableOK'
  BY <1>2, AcceptKeepsTable, CancelKeepsTable, ComesDueKeepsTable
  DEF AcceptGoal, CancelWork, WorkComesDue
<1>3. CASE RequeueWork
  BY <1>3, RequeueKeepsTable DEF RequeueWork
<1>4. ASSUME NEW S \in SUBSET Goal, Tick(S) PROVE TableOK'
  BY <1>4, ExpireKeepsTable DEF Tick
<1>5. CASE ClaimNext
  BY <1>0, <1>5, ClaimKeepsTable DEF ClaimNext, storeVars
<1>6. CASE CannotStart \/ RecordEnd \/ RecordRepeat \/ NextRound
  <2>1. cur \in Task
    BY <1>6 DEF CannotStart, RecordEnd, RecordRepeat, NextRound, IInv, Shapes, InHand,
                Registered
  <2>2. \E s \in {"done", "failed", "queued"} : EndRun(cur, s)
    BY <1>6 DEF CannotStart, RecordEnd, RecordAs, RecordRepeat, NextRound, Finish, Reschedule,
                IInv, Shapes
  <2> QED BY <2>1, <2>2, EndRunKeepsTable
<1>7. ASSUME NEW t \in Task, CancelTask(t) PROVE TableOK'
  BY <1>0, <1>7 DEF CancelTask, storeVars
<1>8. ASSUME NEW t \in Goal, NEW h \in Hint, Nudge(t, h) PROVE TableOK'
  BY <1>0, <1>8 DEF Nudge, SetFeedback
<1>9. ASSUME NEW p \in BOOLEAN, PauseWork(p) PROVE TableOK'
  BY <1>0, <1>9 DEF PauseWork, storeVars
<1>10. CASE RunnerReturns \/ ClaimFails \/ BeginRound
  BY <1>0, <1>10 DEF RunnerReturns, ClaimFails, BeginRound, storeVars
<1>11. CASE \/ EndRound \/ RoundWasCancelled \/ GoalRoundEnds \/ RecordFeedback \/ PostResult
            \/ Deadline \/ \E o \in {"done", "failed", "again"} : RunEnds(o) \/ Review(o)
  BY <1>0, <1>11 DEF EndRound, RoundWasCancelled, GoalRoundEnds, RecordFeedback, SetFeedback,
     PostResult, Deadline, RunEnds, Review, storeVars
<1>12. CASE Shutdown \/ Restart \/ \E lost \in SUBSET Goal : Exit(lost)
  BY <1>0, <1>12 DEF Shutdown, Restart, Exit, storeVars
<1>13. CASE UNCHANGED vars
  BY <1>0, <1>13 DEF vars, storeVars
<1> QED BY <1>1, <1>2, <1>3, <1>4, <1>5, <1>6, <1>7, <1>8, <1>9, <1>10, <1>11, <1>12, <1>13
        DEF Next, LoopStep, RoundStep

LEMMA TableHolds == Spec => []TableOK
<1>1. Init => TableOK
  BY DEF Init, StoreInit, TableOK, Injective, ToSet, Status
<1> QED BY <1>1, StepKeepsTable, Invariant, PTL DEF Spec

-----------------------------------------------------------------------------
\* The rest of the types; the runner's IInv has the others.
Types == /\ feedback \in [Goal -> SUBSET Remark] /\ unwritten \subseteq Task
         /\ proc \in {"up", "stopping", "down"} /\ restarts \in 0..MaxRestarts
         /\ paused \in BOOLEAN /\ cancelling \subseteq Task
         /\ cur \in Task \cup {NoTask} /\ timedOut \in BOOLEAN
         /\ snap \in [feedback : SUBSET Remark, due : SUBSET Hint, shown : SUBSET Remark,
                     cut : BOOLEAN]
         /\ opened \subseteq Goal
         /\ promised \in [Goal -> SUBSET Hint]

LEMMA StepKeepsTypes == ASSUME IInv, Types, [Next]_vars PROVE Types'
<1> USE DEF Types
<1>1. ASSUME NEW t \in Task, NEW s \in {"queued", "proposed"}, NEW now \in BOOLEAN,
             StartWork(t, s, now)
      PROVE  Types'
  BY <1>1 DEF StartWork, Start, CommandFrame, runnerVars
<1>2. ASSUME NEW t \in Task, AcceptGoal(t) \/ CancelWork(t) \/ CancelTask(t) PROVE Types'
  BY <1>2 DEF AcceptGoal, Accept, CancelWork, Cancel, CancelTask, CommandFrame, runnerVars,
              storeVars
<1>3. ASSUME NEW t \in Task, WorkComesDue(t)
      PROVE  Types'
  BY <1>3 DEF WorkComesDue, ComesDue, CommandFrame, runnerVars
<1>4. ASSUME NEW t \in Goal, NEW h \in Hint, Nudge(t, h) PROVE Types'
  BY <1>4 DEF Nudge, SetFeedback, Remark, CommandFrame, runnerVars
<1>5. ASSUME NEW p \in BOOLEAN, PauseWork(p) PROVE Types'
  BY <1>5 DEF PauseWork, CommandFrame, runnerVars, storeVars
<1>6. CASE RequeueWork \/ RunnerReturns \/ ClaimFails \/ \E S \in SUBSET Goal : Tick(S)
  BY <1>6 DEF RequeueWork, Requeue, WriteFails, RunnerReturns, ClaimFails, Tick, ExpireProposals,
              LoopFrame, storeVars
<1>7. CASE ClaimNext
  <2>1. ASSUME NEW t \in Task, Claim(t), cur' = t,
               snap' = IF t \in Goal
                       THEN [NoSnap EXCEPT !.feedback = feedback[t], !.due = promised[t]]
                       ELSE NoSnap
        PROVE  Types'
    <3>1. snap' \in [feedback : SUBSET Remark, due : SUBSET Hint, shown : SUBSET Remark,
                     cut : BOOLEAN]
      BY <2>1 DEF NoSnap
    <3> QED BY <1>7, <2>1, <3>1 DEF ClaimNext, Claim, LoopFrame
  <2>2. ASSUME UNCHANGED <<storeVars, cur, snap>> PROVE Types'
    BY <1>7, <2>2 DEF ClaimNext, LoopFrame, storeVars
  <2> QED BY <1>7, <2>1, <2>2 DEF ClaimNext
<1>8. CASE BeginRound
  <2>1. cur \in Task /\ cur' = cur
    BY <1>8 DEF BeginRound, IInv, Shapes, InHand
  <2>2. snap' \in [feedback : SUBSET Remark, due : SUBSET Hint, shown : SUBSET Remark,
                     cut : BOOLEAN]
    BY <1>8, <2>1 DEF BeginRound
  <2>3. promised' \in [Goal -> SUBSET Hint]
    BY <1>8 DEF BeginRound
  <2> QED BY <1>8, <2>1, <2>2, <2>3 DEF BeginRound, LoopFrame, storeVars
<1>9. CASE CannotStart \/ RoundWasCancelled \/ NextRound \/ PostResult
  <2>1. UNCHANGED feedback /\ unwritten' \subseteq unwritten \cup {cur}
    BY <1>9 DEF CannotStart, Finish, EndRun, WriteFails, RoundWasCancelled, NextRound,
       Reschedule, PostResult, storeVars
  <2>2. UNCHANGED <<proc, restarts, paused, cancelling, opened, promised>> /\ BackToIdle
    BY <1>9 DEF CannotStart, RoundWasCancelled, NextRound, PostResult, LoopFrame
  <2>3. unwritten' \subseteq Task
    BY <1>9, <2>1 DEF CannotStart, RoundWasCancelled, NextRound, PostResult, storeVars, IInv,
                      Shapes, InHand, Registered
  <2> QED BY <2>1, <2>2, <2>3 DEF BackToIdle, NoSnap
<1>10. CASE EndRound
  BY <1>10 DEF EndRound, LoopFrame, storeVars
<1>11. CASE \/ GoalRoundEnds \/ Deadline
            \/ \E o \in {"done", "failed", "again"} : RunEnds(o) \/ Review(o)
  BY <1>11 DEF GoalRoundEnds, Deadline, RunEnds, Review, RoundFrame, LoopFrame,
               storeVars
<1>12. CASE RecordEnd \/ RecordRepeat
  <2>1. cur \in Task
    BY <1>12 DEF RecordEnd, RecordRepeat, IInv, Shapes, InHand, Registered
  <2> QED BY <1>12, <2>1 DEF RecordEnd, RecordAs, Finish, EndRun, WriteFails, RecordRepeat,
                             Reschedule, RoundFrame, LoopFrame, storeVars
<1>13. CASE RecordFeedback
  BY <1>13 DEF RecordFeedback, SetFeedback, Remark, RoundFrame, LoopFrame, storeVars
<1>14. CASE Shutdown
  <2>1. snap' \in [feedback : SUBSET Remark, due : SUBSET Hint, shown : SUBSET Remark,
                     cut : BOOLEAN]
    BY <1>14 DEF Shutdown
  <2> QED BY <1>14, <2>1 DEF Shutdown, storeVars
<1>15. ASSUME NEW lost \in SUBSET Goal, Exit(lost) PROVE Types'
  BY <1>15 DEF Exit, NoSnap, storeVars
<1>16. CASE Restart
  BY <1>16, RestartAssumption DEF Restart, storeVars
<1>17. CASE UNCHANGED vars
  BY <1>17 DEF vars, storeVars, runnerVars
<1> QED BY <1>1, <1>2, <1>3, <1>4, <1>5, <1>6, <1>7, <1>8, <1>9, <1>10, <1>11, <1>12, <1>13,
           <1>14, <1>15, <1>16, <1>17 DEF Next, LoopStep, RoundStep

(***************************************************************************)
(* Type correctness, the bounds on rounds and restarts included.           *)
(***************************************************************************)
THEOREM TypeCorrect == Spec => []TypeOK
<1>1. Init => Types
  <2> SUFFICES ASSUME Init PROVE Types
    OBVIOUS
  <2>1. 0 \in 0..MaxRestarts
    BY RestartAssumption
  <2>2. NoSnap \in [feedback : SUBSET Remark, due : SUBSET Hint, shown : SUBSET Remark,
                     cut : BOOLEAN]
    BY DEF NoSnap
  <2> QED BY <2>1, <2>2 DEF Init, StoreInit, RunnerInit, Types
<1>2. IInv /\ TableOK /\ Types => TypeOK
  BY DEF IInv, Shapes, TableOK, Types, TypeOK
<1> QED BY <1>1, <1>2, StepKeepsTypes, Invariant, TableHolds, PTL DEF Spec
=============================================================================
