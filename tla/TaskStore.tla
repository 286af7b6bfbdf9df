------------------------------ MODULE TaskStore ------------------------------
(***************************************************************************)
(* The table of background work of one network (core.TaskStore).  Each     *)
(* operation is one statement, or several under the database mutex, and is *)
(* one formula here; it leaves the process' own state to its caller.       *)
(*                                                                         *)
(* A write may fail.  Where the caller is told, that is a command which    *)
(* does nothing; Finish, Reschedule and Requeue do not tell, and each has  *)
(* a disjunct for it, as RecordFeedback has.  Failed reads are left out.   *)
(*                                                                         *)
(* A due piece of work is in order, oldest next_run first; the rest wait   *)
(* for their time.  Texts are reduced to what the properties tell apart:   *)
(* feedback is the set of remarks it holds; a goal's checklist and notes   *)
(* are left out, no statement on the rest of the row reads them.           *)
(***************************************************************************)
EXTENDS Naturals, Sequences, FiniteSets, Queues

CONSTANTS Task,        \* the rows, each inserted at most once
          Goal,        \* the goals among them
          Repeat,      \* the schedules with an interval; the rest run once
          Visitor,     \* the work of one nick that is not an admin
          Hint,        \* nudges for goals
          MaxActive,   \* taskmaxactive
          MaxRuns,     \* goalmaxruns
          MaxUnwritten \* rows left by failed writes at one time (a bound of the model)

ASSUME TaskAssumption ==
    /\ Goal \subseteq Task /\ Repeat \subseteq Task /\ Goal \cap Repeat = {}
    /\ Visitor \subseteq Task
    /\ "review" \notin Hint
    /\ {MaxActive, MaxUnwritten} \subseteq Nat /\ MaxRuns \in Nat \ {0}

VARIABLES status,      \* the status column
          order,       \* what is due and queued or running, by next_run
          runs,        \* rounds a goal has completed
          feedback,    \* what a goal's next round is told
          unwritten    \* history: rows a failed write has left running

storeVars == <<status, order, runs, feedback, unwritten>>

Status == {"none", "proposed", "queued", "running", "done", "failed", "cancelled"}
Unfinished == {"proposed", "queued", "running"}
Remark == Hint \cup {"review"}

StoreInit == /\ status = [t \in Task |-> "none"]
             /\ order = <<>>
             /\ runs = [t \in Goal |-> 0]
             /\ feedback = [t \in Goal |-> {}]
             /\ unwritten = {}

SetStatus(t, s) == status' = [status EXCEPT ![t] = s]

-----------------------------------------------------------------------------
(* Faults of the code that the properties of BackgroundWork must notice. *)

\* Finish without its "status != cancelled".
FinishAnyway(t, s) ==
    /\ SetStatus(t, s)
    /\ order' = Dequeue(order, t)
    /\ runs' = IF t \in Goal THEN [runs EXCEPT ![t] = @ + 1] ELSE runs
    /\ UNCHANGED <<feedback, unwritten>>

\* A next run that is not after now, and so before everyone else's.
RescheduleInThePast(t) ==
    /\ SetStatus(t, "queued")
    /\ order' = <<t>> \o Dequeue(order, t)
    /\ UNCHANGED <<runs, feedback, unwritten>>

-----------------------------------------------------------------------------
Active == {t \in Visitor : status[t] \in Unfinished}

\* The quota; the daily one only refuses more, and a start that is refused
\* changes nothing.  What repeats is for admins.
Allowed(t) == t \in Visitor => /\ t \notin Repeat
                               /\ MaxActive > 0 => Cardinality(Active) < MaxActive

\* Due at once, proposed, or (schedules) due later.
Start(t, s, now) ==
    /\ status[t] = "none" /\ Allowed(t)
    /\ s = "proposed" => t \in Goal
    /\ t \in Goal => now
    /\ t \in Repeat => ~now
    /\ SetStatus(t, s)
    /\ order' = IF s = "queued" /\ now THEN Append(order, t) ELSE order
    /\ UNCHANGED <<runs, feedback, unwritten>>

ComesDue(t) ==
    /\ status[t] = "queued" /\ t \notin ToSet(order)
    /\ order' = Append(order, t)
    /\ UNCHANGED <<status, runs, feedback, unwritten>>

Accept(t) ==
    /\ status[t] = "proposed"
    /\ SetStatus(t, "queued")
    /\ order' = Append(order, t)
    /\ UNCHANGED <<runs, feedback, unwritten>>

\* Cancel reports whether it did; when it did not, nothing changed.
Cancel(t) ==
    /\ status[t] \in Unfinished
    /\ SetStatus(t, "cancelled")
    /\ order' = Dequeue(order, t)
    /\ unwritten' = unwritten \ {t}
    /\ UNCHANGED <<runs, feedback>>

\* S: the proposals older than the time to live.
ExpireProposals(S) ==
    /\ \A t \in S : status[t] = "proposed"
    /\ status' = [t \in Task |-> IF t \in S THEN "cancelled" ELSE status[t]]
    /\ UNCHANGED <<order, runs, feedback, unwritten>>

\* ORDER BY next_run, id LIMIT 1.
IsNextDue(t) == \E i \in DOMAIN order :
                   /\ order[i] = t /\ status[t] = "queued"
                   /\ \A j \in 1..(i - 1) : status[order[j]] # "queued"

Claim(t) ==
    /\ IsNextDue(t)
    /\ SetStatus(t, "running")
    /\ UNCHANGED <<order, runs, feedback, unwritten>>

CountRun(t) == runs' = IF t \in Goal THEN [runs EXCEPT ![t] = @ + 1] ELSE runs

\* The statement failed, and the error is ignored.
WriteFails(S) ==
    /\ Cardinality(unwritten \cup S) <= MaxUnwritten
    /\ unwritten' = unwritten \cup S
    /\ UNCHANGED <<status, order, runs, feedback>>

\* WHERE status != cancelled.
EndRun(t, s) ==
    \/ /\ status[t] = "cancelled"
       /\ UNCHANGED storeVars
    \/ /\ status[t] # "cancelled"
       /\ SetStatus(t, s) /\ order' = Dequeue(order, t) /\ CountRun(t)
       /\ UNCHANGED <<feedback, unwritten>>
    \/ /\ status[t] # "cancelled"
       /\ WriteFails({t})

Finish(t, s) == EndRun(t, s)

Reschedule(t) == EndRun(t, "queued")

SetFeedback(t, S) ==
    /\ feedback' = [feedback EXCEPT ![t] = S]
    /\ UNCHANGED <<status, order, runs, unwritten>>

\* A task a restart interrupted keeps its next_run, and so its place.
Requeue ==
    LET cut == {t \in Task : status[t] = "running"}
    IN  \/ /\ status' = [t \in Task |-> IF t \in cut THEN "queued" ELSE status[t]]
           /\ unwritten' = {}
           /\ UNCHANGED <<order, runs, feedback>>
        \/ WriteFails(cut)
=============================================================================
