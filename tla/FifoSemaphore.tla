--------------------------- MODULE FifoSemaphore ---------------------------
(***************************************************************************)
(* What core/lock.go's RequestLock promises its callers: slots handed out  *)
(* in order of arrival, each to one request, never more at once than the   *)
(* highest limit that was ever set, and each request let in, or gone, or   *)
(* still in line behind everyone who came before it.                       *)
(***************************************************************************)
EXTENDS Integers, Sequences, FiniteSets, SequencesExt

CONSTANTS Request, MaxLimit

VARIABLES inside,     \* the requests that own a slot
          line        \* the requests that wait for one, oldest first

vars == <<inside, line>>

Init == inside = {} /\ line = <<>>

Outside(r) == r \notin inside /\ r \notin ToSet(line)

\* Past an empty line only.
Enter(r) == /\ Outside(r)
            /\ line = <<>> /\ Cardinality(inside) < MaxLimit
            /\ inside' = inside \cup {r}
            /\ UNCHANGED line

Join(r) == /\ Outside(r)
           /\ line' = Append(line, r)
           /\ UNCHANGED inside

\* The oldest k go in together.
Grant(k) == /\ Cardinality(inside) + k <= MaxLimit
            /\ inside' = inside \cup ToSet(SubSeq(line, 1, k))
            /\ line' = SubSeq(line, k + 1, Len(line))

GiveUp(i) == /\ line' = RemoveAt(line, i)
             /\ UNCHANGED inside

Leave(r) == /\ inside' = inside \ {r}
            /\ UNCHANGED line

Next == \/ \E r \in Request : Enter(r) \/ Join(r)
        \/ \E r \in inside : Leave(r)
        \/ \E k \in 1..Len(line) : Grant(k)
        \/ \E i \in 1..Len(line) : GiveUp(i)

Spec == Init /\ [][Next]_vars
=============================================================================
