--------------------------- MODULE TaskLifecycle ---------------------------
(***************************************************************************)
(* What background work promises the people who ask for it: a piece of     *)
(* work is asked for once, never leaves an end it has reached, can be      *)
(* stopped until then, and its result is posted at most once, after its    *)
(* end was recorded.  A run that was cut short is started again, and so is *)
(* one whose end could not be recorded: its result may have been posted    *)
(* already, once for every such end.                                       *)
(***************************************************************************)
EXTENDS Naturals

CONSTANTS Task, Repeat

VARIABLES status, posted,
          unrecorded  \* ends of a piece of work that could not be recorded

Ended == {"done", "failed", "cancelled"}

Init == /\ status = [t \in Task |-> "none"]
        /\ posted = [t \in Task |-> 0] /\ unrecorded = [t \in Task |-> 0]

Become(t, from, to) ==
    /\ status[t] \in from
    /\ status' = [status EXCEPT ![t] = to]
    /\ UNCHANGED <<posted, unrecorded>>

Ask(t) == Become(t, {"none"}, "queued") \/ Become(t, {"none"}, "proposed")
Accept(t) == Become(t, {"proposed"}, "queued")
Run(t) == Become(t, {"queued"}, "running")
\* Another round, or the next repeat.
RunAgainLater(t) == Become(t, {"running"}, "queued")
Finish(t) == Become(t, {"running"}, "done") \/ Become(t, {"running"}, "failed")
Cancel(t) == Become(t, {"proposed", "queued", "running"}, "cancelled")

\* A fresh start of all that was running.
Resume ==
    /\ status' = [t \in Task |-> IF status[t] = "running" THEN "queued" ELSE status[t]]
    /\ UNCHANGED <<posted, unrecorded>>

Lapse == \E S \in SUBSET {t \in Task : status[t] = "proposed"} :
            /\ status' = [t \in Task |-> IF t \in S THEN "cancelled" ELSE status[t]]
            /\ UNCHANGED <<posted, unrecorded>>

EndUnrecorded(t) ==
    /\ status[t] = "running"
    /\ unrecorded' = [unrecorded EXCEPT ![t] = @ + 1]
    /\ UNCHANGED <<status, posted>>

\* What repeats has no last result; the posts of its runs are not counted.
EndsOf(t) == unrecorded[t] + (IF status[t] \in Ended THEN 1 ELSE 0)
Post(t) ==
    /\ t \notin Repeat /\ posted[t] < EndsOf(t)
    /\ posted' = [posted EXCEPT ![t] = @ + 1]
    /\ UNCHANGED <<status, unrecorded>>

Next == \/ Lapse \/ Resume
        \/ \E t \in Task : \/ Ask(t) \/ Accept(t) \/ Run(t) \/ RunAgainLater(t)
                           \/ Finish(t) \/ Cancel(t) \/ EndUnrecorded(t) \/ Post(t)

Spec == Init /\ [][Next]_<<status, posted, unrecorded>>
=============================================================================
