------------------------------- MODULE Queues -------------------------------
(* Sequences that are kept oldest first. *)
EXTENDS Naturals, Sequences, SequencesExt

\* A queue whose members occur once, without q; the others keep their order.
Dequeue(s, q) == IF q \in ToSet(s)
                 THEN RemoveAt(s, CHOOSE i \in DOMAIN s : s[i] = q)
                 ELSE s

\* The members of s at the positions in P, in their order: what filter leaves.
Sift(s, P) ==
    LET kept[i \in 0..Len(s)] ==
            IF i = 0 THEN <<>>
            ELSE IF i \in P THEN Append(kept[i - 1], s[i]) ELSE kept[i - 1]
    IN  kept[Len(s)]
=============================================================================
