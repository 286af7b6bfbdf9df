----------------------------- MODULE LivePlayer -----------------------------
(***************************************************************************)
(* The listening page's player (web/radio/src/lib/live/player.svelte.ts)   *)
(* on the stream of a playout: Play, Stop, media keys, the restart after   *)
(* network trouble, the polling of the playout's marks, and what it says   *)
(* is heard.                                                               *)
(*                                                                         *)
(* hls.js is external: it buffers the segments of the playlist one after   *)
(* the other, or goes on at the live edge when it has fallen out of the    *)
(* playlist, and places them on a timeline of its own.  An engine is what  *)
(* start() makes: an Hls and the interval that polls.  One that is no      *)
(* longer the player's own has lost the audio element, so only its polling *)
(* and its errors are left.                                                *)
(***************************************************************************)
EXTENDS Playout, Stamps, FiniteSetsExt, SequencesExt

CONSTANTS Clip,        \* the tracks that are DJ clips
          Fade,        \* FADE, the length of the crossfade
          Window,      \* segments in the playlist
          EndsCap,     \* segment ends the player keeps
          MaxSessions, \* starts of the player (a bound of the model)
          MaxRetries   \* timers of recover() at one time (a bound of the model)

ASSUME PlayerAssumption == /\ Clip \subseteq Track /\ Fade \in Nat
                           /\ {Window, EndsCap, MaxSessions, MaxRetries} \subseteq Nat \ {0}
ASSUME NothingAssumption ==
    Nothing \notin Int \cup [id : Track \cup {Silence}, position : Int]

VARIABLES playing,   \* LivePlayer.playing; this.hls and this.polling exist while it is TRUE
          engines,   \* how many Hls and intervals exist
          sessions,  \* starts so far
          retries,   \* timers of recover()
          ends,      \* LivePlayer.ends
          base,      \* where hls.js put the stream's beginning on its timeline
          at,        \* audio.currentTime
          copy       \* LivePlayer.marks, and when the server read them

sessionVars == <<playing, engines, sessions, retries>>
mediaVars == <<ends, base, at>>
playerVars == <<sessionVars, mediaVars, copy>>
vars == <<playoutVars, playerVars>>

Init == /\ PlayoutInit
        /\ playing = FALSE /\ engines = 0 /\ sessions = 0 /\ retries = 0
        /\ ends = <<>> /\ base = Nothing /\ at = 0
        /\ copy = [list |-> <<>>, asOf |-> 0]

Answer == [list |-> marks, asOf |-> clock]
Newest == Max(DOMAIN ends)
InPlaylist(s) == s \in (segment - Window + 1)..segment /\ s > 0

-----------------------------------------------------------------------------
(* Faults of the code that the properties below must notice. *)

\* start() keeps the segments of the last session.
StartKeepingEnds ==
    /\ sessions < MaxSessions /\ sessions' = sessions + 1
    /\ playing' = TRUE
    /\ engines' = engines + 1
    /\ base' = Nothing
    /\ UNCHANGED <<ends, at, copy>>

\* stop() leaves the interval.
StopPollingOn ==
    /\ playing' = FALSE
    /\ UNCHANGED engines
    /\ ends' = ends /\ base' = Nothing /\ at' = 0
    /\ UNCHANGED <<sessions, copy>>

\* The ends are never trimmed.
Uncapped(files) == files

-----------------------------------------------------------------------------
(* start() and stop(), and who calls them. *)

Start ==
    /\ sessions < MaxSessions /\ sessions' = sessions + 1
    /\ playing' = TRUE
    /\ engines' = engines + 1
    /\ ends' = <<>> /\ base' = Nothing
    /\ UNCHANGED <<at, copy>>

\* Only the engine the player knows is destroyed.
Stop ==
    /\ playing' = FALSE
    /\ engines' = IF playing THEN engines - 1 ELSE engines
    /\ ends' = ends /\ base' = Nothing /\ at' = 0
    /\ UNCHANGED <<sessions, copy>>

\* The page's button toggles; a media key's "play" does not look.  A play()
\* that the browser refuses or a stop() interrupts stops the player as well.
PressPlay == Start /\ UNCHANGED <<retries, playoutVars>>
PressStop == engines > 0 /\ Stop /\ UNCHANGED <<retries, playoutVars>>

\* A fatal network error of any engine: stop, and start again in three seconds.
Recover ==
    /\ engines > 0 /\ retries < MaxRetries
    /\ Stop
    /\ retries' = retries + 1
    /\ UNCHANGED playoutVars

\* Nothing cancels the timer.
RetryFires ==
    /\ retries > 0
    /\ Start
    /\ retries' = retries - 1
    /\ UNCHANGED playoutVars

-----------------------------------------------------------------------------
(* hls.js and the audio element. *)

\* FRAG_BUFFERED, with the stream's beginning at b.
Capped(files) == IF Cardinality(files) > EndsCap THEN files \ {Min(files)} ELSE files

Place(s, b) ==
    /\ ends' = [x \in Capped(DOMAIN ends \cup {s}) |-> IF x = s THEN s * SegmentTime + b ELSE ends[x]]
    /\ base' = b
    /\ UNCHANGED <<sessionVars, copy, playoutVars>>

FirstBuffered(s, start) ==
    /\ playing /\ base = Nothing /\ InPlaylist(s)
    /\ Place(s, start - (s - 1) * SegmentTime)
    /\ at' = start

NextBuffered ==
    /\ playing /\ base # Nothing /\ InPlaylist(Newest + 1)
    /\ Place(Newest + 1, base)
    /\ UNCHANGED at

\* The next segment has left the playlist: on to the oldest that has not.
SkipAhead(s) ==
    /\ playing /\ base # Nothing /\ InPlaylist(s)
    /\ Newest + 1 < s /\ ~InPlaylist(s - 1)
    /\ Place(s, base)
    /\ at' = base + (s - 1) * SegmentTime

\* The audio plays in step with the clock, as far as it is buffered.
TimePasses ==
    /\ StreamRuns
    /\ at' = IF playing /\ base # Nothing /\ at < ends[Newest] THEN at + Tick ELSE at
    /\ UNCHANGED <<sessionVars, ends, base, copy>>

-----------------------------------------------------------------------------
(* fetchMarks: a poll that fails or is late is one made earlier or not at  *)
(* all; that an answer may overtake a newer one is left out.               *)

Poll ==
    /\ engines > 0
    /\ copy' = Answer
    /\ UNCHANGED <<sessionVars, mediaVars, playoutVars>>

-----------------------------------------------------------------------------
Next == \/ PlayoutEvent /\ UNCHANGED playerVars
        \/ TimePasses
        \/ PressPlay \/ PressStop \/ Recover \/ RetryFires
        \/ NextBuffered
        \/ \E s \in 1..segment : SkipAhead(s) \/ \E start \in {0, SegmentTime} : FirstBuffered(s, start)
        \/ Poll

Spec == Init /\ [][Next]_vars

Songs == Permutations(Track \ Clip)

-----------------------------------------------------------------------------
\* now(fade): an empty id is the radio gone quiet.
Audible(heard) == IF heard # Nothing /\ heard.id = Silence THEN Nothing ELSE heard
Now(fade) == IF ~playing \/ base = Nothing THEN Nothing
             ELSE Audible(ShownAt(PlaceMarks(copy.list, ends), at, fade, Clip))

\* What the playout had on the stream at time t, and how far into it.
Index(t) == Max({i \in DOMAIN log : log[i].at <= t} \cup {0})
OnStream(i, t) == IF i = 0 \/ log[i].id = Silence THEN Nothing
                  ELSE [id |-> log[i].id, position |-> t - log[i].at]

\* The listener's time on the stream, and whether the marks for time t are at
\* hand: the segment that ended last before t is buffered, and the copy is newer
\* than t and reaches back to the end of that segment.
Heard == at - base
Before(t) == t \div SegmentTime
Known(t) == /\ Before(t) \in DOMAIN ends
            /\ copy.asOf > t
            /\ \/ Len(copy.list) < MarkCap
               \/ copy.list[1].after * SegmentTime + copy.list[1].offset
                    <= Before(t) * SegmentTime

\* The mark of the silence at t counts from the end of a segment hls.js went
\* over, and an older end is still kept.  A track has a mark at every later end
\* as well, silence has only the one where it begins: positionAt finds a mark of
\* the song before it and counts on.
SilenceSkipped(t) ==
    /\ Index(t) # 0 /\ log[Index(t)].id = Silence
    /\ \E m \in ToSet(copy.list) :
          /\ m.id = Silence /\ m.after * SegmentTime + m.offset = log[Index(t)].at
          /\ m.after \notin DOMAIN ends
          /\ \E older \in DOMAIN ends : older < m.after

(***************************************************************************)
(* The types of the variables.                                             *)
(***************************************************************************)
TypeOK ==
    /\ clock \in 0..MaxClock /\ track \in Track \cup {Silence}
    /\ segment * SegmentTime = ended /\ ended <= clock
    /\ Len(marks) <= MarkCap
    /\ playing \in BOOLEAN /\ (playing => engines > 0)
    /\ engines \in 0..sessions /\ sessions <= MaxSessions /\ retries \in 0..MaxRetries
    /\ DOMAIN ends \subseteq 1..segment /\ Cardinality(DOMAIN ends) <= EndsCap
    /\ copy.asOf <= clock

(***************************************************************************)
(* "Segment end + offset is an exact track position whatever the latency"  *)
(* (edge.liq, the same marks): whenever the marks for it are at hand, the  *)
(* player names the track that is heard and the exact position in it, or   *)
(* nothing when the radio is quiet, through restarts of the player on new  *)
(* timelines, gaps in what hls.js buffered, polls that fail or come late,  *)
(* and tracks that start as a segment ends.  A silence that began in a gap *)
(* is the exception (SilenceSkipped): there positionAt goes on with the    *)
(* song before it, as long as an older segment end is kept.                *)
(***************************************************************************)
HeardIsExact ==
    playing /\ base # Nothing /\ Known(Heard) /\ ~SilenceSkipped(Heard)
        => Now(0) = OnStream(Index(Heard), Heard)

(***************************************************************************)
(* While a song fades in over the last one, the last one stays on the page *)
(* and its position runs on; into and out of a DJ clip there is no fade    *)
(* (comment of shownAt), and after silence no song is held.  A song that   *)
(* was cut off before its own fade was over may come back for a moment     *)
(* when the queue runs out, which is left out here.  As in HeardIsExact    *)
(* the marks are at hand, for what is heard and for the end of the track   *)
(* before, and neither is a silence that began in a gap.                   *)
(***************************************************************************)
FadeHoldsTheLastSong ==
    LET i == Index(Heard)
        start == log[i].at
        fading == /\ Heard - start < Fade
                  /\ {log[i].id, log[i - 1].id} \cap Clip = {}
                  /\ log[i].id # Silence
    IN  /\ playing /\ base # Nothing /\ i > 1 /\ log[i - 1].at < start
        /\ \A t \in {Heard, start - Step} : Known(t) /\ ~SilenceSkipped(t)
        /\ log[i].id = Silence => Heard - log[i - 1].at >= Fade
        => \/ ~fading /\ Now(Fade) = OnStream(i, Heard)
           \/ fading /\ log[i - 1].id # Silence /\ Now(Fade) = OnStream(i - 1, Heard)
           \/ fading /\ log[i - 1].id = Silence /\ Now(Fade) \in {Nothing, OnStream(i, Heard)}

(***************************************************************************)
(* An engine is lost, to poll for as long as the page is open, only when a *)
(* start finds the player playing already (Play during the three seconds   *)
(* of recover, or a media key): no other order of presses, errors, timers  *)
(* and refused plays leaves one behind.                                    *)
(***************************************************************************)
Lost == engines - (IF playing THEN 1 ELSE 0)
LostOnlyByDoubleStart == [][Lost' > Lost => playing /\ playing']_vars
=============================================================================
