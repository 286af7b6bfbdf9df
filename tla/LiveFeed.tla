------------------------------ MODULE LiveFeed ------------------------------
(***************************************************************************)
(* The bot's log on the operator page.  The hub keeps the latest records   *)
(* in a ring (core/live.go), the stream hands a page the ring and then     *)
(* what is new (admin/stream.go), the page follows it through lost         *)
(* connections (stream.ts) and shows each record once, or holds records    *)
(* back while it is paused (LogFeed, live.svelte.ts).                      *)
(*                                                                         *)
(* A record is its number and the life of the bot that numbered it; the    *)
(* page sees only the number.  What the handler has written and the page   *)
(* has not read is still in backlog or channel.                            *)
(***************************************************************************)
EXTENDS Integers, Sequences, Queues

CONSTANTS Ring,         \* records the hub keeps
          Channel,      \* records a subscriber may be behind
          KeepLogs,     \* records the page keeps
          MaxSeq,       \* records of one life (a bound of the model)
          MaxLives,     \* lives of the bot (a bound of the model)
          MaxConnects   \* connections that are answered (a bound of the model)

ASSUME RingAssumption == {Ring, Channel, KeepLogs} \subseteq Nat \ {0}
ASSUME FeedBoundAssumption == /\ MaxSeq \in Nat /\ MaxLives \in Nat \ {0}
                              /\ MaxConnects \in Nat

VARIABLES life,      \* which process the bot is
          seq,       \* LiveHub.seq
          ring,      \* LiveHub.ring, oldest first
          backlog,   \* what the handler has still to send of the ring it was given
          channel,   \* the subscriber's channel
          pc,        \* where follow is
          connects,  \* how many of MaxConnects have been
          entries,   \* LogFeed.entries
          paused,    \* LogFeed.paused
          pending,   \* LogFeed.pending
          missed,    \* records no connection could carry (history)
          heldOver   \* a reconnection came while records were held back (history)

hubVars == <<life, seq, ring>>
streamVars == <<backlog, channel, pc, connects>>
pageVars == <<entries, paused, pending>>
vars == <<hubVars, streamVars, pageVars, missed, heldOver>>

Record == [life : 1..MaxLives, seq : 1..MaxSeq]

\* fetching  the request is under way      reading  its body is being read
\* waiting   for the delay to pass         ended    refused, or the page was left
Place == {"fetching", "reading", "waiting", "ended"}

Subscribed == pc = "reading"

Init == /\ life = 1 /\ seq = 0 /\ ring = <<>>
        /\ backlog = <<>> /\ channel = <<>>
        /\ pc = "fetching" /\ connects = 0
        /\ entries = <<>> /\ paused = FALSE /\ pending = <<>>
        /\ missed = {} /\ heldOver = FALSE

LastN(s, n) == SubSeq(s, Len(s) - n + 1, Len(s))

\* Fault: nothing is ever trimmed.
Everything(s, n) == s

Latest(s, n) == IF Len(s) > n THEN LastN(s, n) ELSE s

-----------------------------------------------------------------------------
(* Faults of the code that the properties below must notice. *)

\* What is already shown is not skipped.
ShowAll(list) == Latest(entries \o list, KeepLogs)

\* Subscribe hands over no backlog.
ConnectWithoutBacklog ==
    /\ pc = "fetching" /\ connects < MaxConnects
    /\ connects' = connects + 1
    /\ pc' = "reading"
    /\ backlog' = <<>> /\ channel' = <<>>
    /\ UNCHANGED <<hubVars, pageVars, missed, heldOver>>

\* A stream that was dropped, not refused or failed, is not asked for again.
RetryUntilConnected ==
    /\ pc = "waiting" /\ connects = 0
    /\ pc' = "fetching"
    /\ UNCHANGED <<hubVars, backlog, channel, connects, pageVars, missed, heldOver>>

-----------------------------------------------------------------------------
(* The hub. *)

\* A full channel misses the record; a page that is not connected misses what leaves the ring.
Publish ==
    /\ seq < MaxSeq
    /\ seq' = seq + 1
    /\ LET e == [life |-> life, seq |-> seq + 1]
           fits == Len(channel) < Channel
       IN  /\ ring' = Latest(Append(ring, e), Ring)
           /\ channel' = IF Subscribed /\ fits THEN Append(channel, e) ELSE channel
           /\ missed' = missed \cup (IF Subscribed /\ ~fits THEN {e} ELSE {})
                               \cup (IF Subscribed THEN {} ELSE ToSet(ring) \ ToSet(ring'))
    /\ UNCHANGED <<life, backlog, pc, connects, pageVars, heldOver>>

\* What was on its way may be gone from the ring by the time the page is back.
Drop == /\ backlog' = <<>> /\ channel' = <<>>
        /\ missed' = missed \cup (ToSet(backlog \o channel) \ ToSet(ring))

Restart ==
    /\ life < MaxLives
    /\ life' = life + 1 /\ seq' = 0 /\ ring' = <<>>
    /\ backlog' = <<>> /\ channel' = <<>>
    /\ pc' = IF Subscribed THEN "waiting" ELSE pc
    /\ UNCHANGED <<connects, pageVars, missed, heldOver>>

-----------------------------------------------------------------------------
(* follow. *)

\* The request is answered: the handler subscribes, which copies the ring and
\* registers the channel in one critical section.
Connect ==
    /\ pc = "fetching" /\ connects < MaxConnects
    /\ connects' = connects + 1
    /\ pc' = "reading"
    /\ backlog' = ring /\ channel' = <<>>
    /\ UNCHANGED <<hubVars, pageVars, missed, heldOver>>

\* The bot or the network is away.
ConnectFails ==
    /\ pc = "fetching"
    /\ pc' = "waiting"
    /\ UNCHANGED <<hubVars, backlog, channel, connects, pageVars, missed, heldOver>>

\* The stream breaks; a connection that cannot be replaced any more holds.
Disconnect ==
    /\ Subscribed /\ connects < MaxConnects
    /\ pc' = "waiting"
    /\ Drop
    /\ UNCHANGED <<hubVars, connects, pageVars, heldOver>>

Retry ==
    /\ pc = "waiting"
    /\ pc' = "fetching"
    /\ UNCHANGED <<hubVars, backlog, channel, connects, pageVars, missed, heldOver>>

\* A 401 ends follow for good, and so does stop().
End ==
    /\ pc # "ended"
    /\ pc' = "ended"
    /\ Drop
    /\ UNCHANGED <<hubVars, connects, pageVars, heldOver>>

-----------------------------------------------------------------------------
(* LogFeed. *)

LastShown == IF entries = <<>> THEN 0 ELSE Last(entries).seq

\* push: the numbers say what is already shown.
Push(list) ==
    LET fresh == Sift(list, {i \in DOMAIN list : list[i].seq > LastShown})
    IN  IF fresh = <<>> THEN entries ELSE Latest(entries \o fresh, KeepLogs)

Show(e) ==
    \/ /\ paused
       /\ pending' = Append(pending, e)
       /\ heldOver' = (heldOver \/ (pending # <<>> /\ e.seq <= Last(pending).seq))
       /\ UNCHANGED entries
    \/ /\ ~paused
       /\ entries' = Push(<<e>>)
       /\ UNCHANGED <<pending, heldOver>>

\* The backlog is sent before the handler looks at the channel.
Receive ==
    /\ Subscribed
    /\ \/ /\ backlog # <<>>
          /\ Show(Head(backlog))
          /\ backlog' = Tail(backlog)
          /\ UNCHANGED channel
       \/ /\ backlog = <<>> /\ channel # <<>>
          /\ Show(Head(channel))
          /\ channel' = Tail(channel)
          /\ UNCHANGED backlog
    /\ UNCHANGED <<hubVars, pc, connects, paused, missed>>

Pause ==
    /\ ~paused
    /\ paused' = TRUE
    /\ UNCHANGED <<hubVars, streamVars, entries, pending, missed, heldOver>>

Resume ==
    /\ paused
    /\ paused' = FALSE
    /\ entries' = Push(pending)
    /\ pending' = <<>>
    /\ UNCHANGED <<hubVars, streamVars, missed, heldOver>>

-----------------------------------------------------------------------------
Next == \/ Publish \/ Restart
        \/ Connect \/ ConnectFails \/ Disconnect \/ Retry \/ End
        \/ Receive \/ Pause \/ Resume

Spec == Init /\ [][Next]_vars

(***************************************************************************)
(* The page's loop runs, the handler sends what it has, and a bot that     *)
(* stays up is reached in the end.  Nobody has to resume a paused page,    *)
(* and nothing makes the bot log or restart.                               *)
(***************************************************************************)
Fairness == WF_vars(Retry) /\ SF_vars(Connect) /\ WF_vars(Receive)
FairSpec == Spec /\ Fairness

-----------------------------------------------------------------------------
Increasing(s) == \A i \in 1..(Len(s) - 1) : s[i].seq < s[i + 1].seq

(***************************************************************************)
(* The types of the variables.                                             *)
(***************************************************************************)
TypeOK ==
    /\ life \in 1..MaxLives /\ seq \in 0..MaxSeq
    /\ {ring, backlog, channel, entries, pending} \subseteq Seq(Record)
    /\ Len(ring) <= Ring /\ Len(channel) <= Channel /\ Len(entries) <= KeepLogs
    /\ pc \in Place /\ connects \in 0..MaxConnects
    /\ paused \in BOOLEAN /\ heldOver \in BOOLEAN
    /\ missed \subseteq Record

(***************************************************************************)
(* The page shows records in their order and each once, through replayed   *)
(* backlogs, restarts of the bot, pauses and trimming ("A reconnect        *)
(* replays the backlog; skip what is already shown"), as long as no        *)
(* reconnection came while records were held back.                         *)
(***************************************************************************)
ShownInOrder == ~heldOver => Increasing(entries)

(***************************************************************************)
(* Within one life of the bot the page has no holes: a record older than   *)
(* the last one shown is shown too, unless no connection could carry it or *)
(* it was pushed out by KEEP_LOGS newer ones.                              *)
(***************************************************************************)
NoHoles ==
    life = 1 /\ ~heldOver /\ entries # <<>> =>
        \A s \in entries[1].seq..Last(entries).seq :
            LET e == [life |-> 1, seq |-> s]
            IN  e \in ToSet(entries) \/ e \in missed

(***************************************************************************)
(* And it catches up: a record of the first life is shown in the end, if   *)
(* a connection could carry it, the bot lives on, and the page is neither  *)
(* paused nor left.                                                        *)
(***************************************************************************)
FirstLifeIsShown ==
    \A s \in 1..MaxSeq :
        (life = 1 /\ seq >= s) ~>
            \/ LastShown >= s \/ [life |-> 1, seq |-> s] \in missed
            \/ life > 1 \/ paused \/ pc = "ended"

(***************************************************************************)
(* "The bot's log, live" (LogFeed): a page that is connected, not paused,  *)
(* and has been sent everything shows the newest record.                   *)
(***************************************************************************)
LiveIsCurrent ==
    /\ Subscribed /\ ~paused /\ backlog = <<>> /\ channel = <<>>
    /\ seq > 0 /\ [life |-> life, seq |-> seq] \notin missed
    => entries # <<>> /\ Last(entries) = [life |-> life, seq |-> seq]
=============================================================================
