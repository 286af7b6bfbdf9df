------------------------------- MODULE Stamps -------------------------------
(***************************************************************************)
(* web/radio/src/lib/live/stamps.ts: which track is heard at a time of the *)
(* audio element, from the marks of the playout and the ends of the        *)
(* buffered segments.  Times are integers, with Step for the hundredth of  *)
(* a second shownAt steps back; positionAt's millisecond of slack only     *)
(* absorbs rounding and is left out.                                       *)
(***************************************************************************)
EXTENDS Integers, Sequences

CONSTANT Nothing   \* null: no track is known

Step == 1

\* Faults the properties of LivePlayer must notice: the first of two stamps
\* at one time counts; the step back stays inside the new track.
EarlierOfEquals(stamps, i, j) ==
    stamps[i].at > stamps[j].at \/ (stamps[i].at = stamps[j].at /\ i <= j)

StepIntoTheTrack(position) == position

LaterOfEquals(stamps, i, j) ==
    stamps[i].at > stamps[j].at \/ (stamps[i].at = stamps[j].at /\ i >= j)

StepBack(position) == position + Step

\* The stamps keep the numbers of their marks, hence the order; the rest is not placed.
PlaceMarks(marks, ends) ==
    [i \in {j \in DOMAIN marks : marks[j].after \in DOMAIN ends} |->
        LET m == marks[i] IN [at |-> ends[m.after] + m.offset, id |-> m.id, pos |-> m.pos]]

PositionAt(stamps, t) ==
    LET due == {i \in DOMAIN stamps : stamps[i].at <= t}
        best == stamps[CHOOSE i \in due : \A j \in due : LaterOfEquals(stamps, i, j)]
    IN  IF due = {} THEN Nothing
        ELSE [id |-> best.id, position |-> best.pos + (t - best.at)]

ShownAt(stamps, t, fade, Clip) ==
    LET now == PositionAt(stamps, t)
        back == StepBack(now.position)
        before == PositionAt(stamps, t - back)
    IN  IF \/ now = Nothing
           \/ now.position >= fade
           \/ now.id \in Clip
           \/ before = Nothing
           \/ before.id = now.id
           \/ before.id \in Clip
        THEN now
        ELSE [id |-> before.id, position |-> before.position + back]
=============================================================================
