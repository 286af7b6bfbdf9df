------------------------------ MODULE Playout -------------------------------
(***************************************************************************)
(* contrib/radio/radio.liq: the stream is cut into segments, and beside    *)
(* them stamps.json says, as each segment ends and wherever a track        *)
(* starts, which track that is and how far into it, counted from the end   *)
(* of the last finished segment.  Segments are numbered from 1; 0 and      *)
(* Silence stand for the two empty strings.                                *)
(***************************************************************************)
EXTENDS Integers, Sequences

CONSTANTS Track,       \* what can be queued
          Silence,     \* the id of no track
          SegmentTime, \* the length of a segment
          MarkCap,     \* how many marks are kept
          MaxClock,    \* how long the stream runs (a bound of the model)
          MaxStarts    \* how many tracks start (a bound of the model)

ASSUME PlayoutAssumption == /\ Silence \notin Track
                            /\ {SegmentTime, MarkCap} \subseteq Nat \ {0}
                            /\ {MaxClock, MaxStarts} \subseteq Nat

VARIABLES clock,    \* radio.time()
          track,    \* the track, or Silence
          since,    \* when it started
          segment,  \* the last finished segment
          ended,    \* when it finished
          marks,    \* the marks, which is what stamps.json holds
          log       \* what was on the stream since when (history)

playoutVars == <<clock, track, since, segment, ended, marks, log>>

Tick == 2
ASSUME TickAssumption == SegmentTime % Tick = 0

PlayoutInit == /\ clock = 0
               /\ track = Silence /\ since = 0
               /\ segment = 0 /\ ended = 0
               /\ marks = <<>> /\ log = <<>>

Mark(of, offset, id, pos) == [after |-> of, offset |-> offset, id |-> id, pos |-> pos]

\* Fault: a track's mark counts from the end of the segment it is in.
FromSegmentStart(id, pos) == Mark(segment, (clock - ended) - SegmentTime, id, pos)

FromSegmentEnd(id, pos) == Mark(segment, clock - ended, id, pos)

\* add_mark; before the first segment has ended there is nothing to count from.
AddMark(m) ==
    LET l == Append(marks, m)
    IN  marks' = IF m.after = 0 THEN marks
                 ELSE IF Len(l) > MarkCap THEN Tail(l) ELSE l

SegmentDue == clock >= ended + SegmentTime

StreamRuns ==
    /\ clock + Tick <= MaxClock /\ ~SegmentDue
    /\ clock' = clock + Tick
    /\ UNCHANGED <<track, since, segment, ended, marks, log>>

SegmentEnds ==
    /\ SegmentDue
    /\ segment' = segment + 1
    /\ ended' = clock
    /\ IF track # Silence THEN AddMark(Mark(segment + 1, 0, track, clock - since))
                          ELSE UNCHANGED marks
    /\ UNCHANGED <<clock, track, since, log>>

\* A track that follows itself has the name there is already, and is not noticed.
TrackStarts(id) ==
    /\ Len(log) < MaxStarts
    /\ id # track
    /\ track' = id
    /\ since' = clock
    /\ AddMark(FromSegmentEnd(id, 0))
    /\ log' = Append(log, [at |-> clock, id |-> id])
    /\ UNCHANGED <<clock, segment, ended>>

\* Looked for once a second: silence counts from when it is noticed.
QueueRunsOut ==
    /\ track # Silence
    /\ Len(log) < MaxStarts
    /\ track' = Silence
    /\ AddMark(FromSegmentEnd(Silence, clock - since))
    /\ log' = Append(log, [at |-> clock, id |-> Silence])
    /\ UNCHANGED <<clock, since, segment, ended>>

PlayoutEvent == SegmentEnds \/ QueueRunsOut \/ \E id \in Track : TrackStarts(id)
=============================================================================
