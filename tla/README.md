# A formal model of metald

metald is an IRC bot that answers through a language model.  Its Go process
serves one or more networks; every IRC event, every piece of background work,
every flusher and every timer is a goroutine, and they meet in a handful of
small stores and locks under `internal/`.  Beside it run an operator page and a
radio, whose pages follow streams that break, restart and run late.  What goes
wrong in such a program goes wrong between two goroutines, between the process
and its next start, or between a page and what it follows.  That is what this
directory models, checks with TLC and, for the core, proves with TLAPS.

Paths below are relative to the repository's root.

## The system

| part | state | operations | who calls it | what is hard |
|---|---|---|---|---|
| request lock (`internal/core/lock.go`) | limit, slots held, FIFO of waiters | `LockWithContext`, `Unlock`, `SetConcurrency` | every model request, `+set maxconcurrent` | grants that race with cancellation, a limit that moves, wakeups outside the mutex |
| admission (`WithRequestLock`, `internal/core/cancel.go`, `internal/llm/delegate.go`) | a lock per conversation, the global gate, requests in flight, the delegate slot | acquire both locks, `+reset` | event handlers, runner, delegates | two levels of waiting, hold and wait by delegates, a reset that swaps the lock under its users |
| work store (`internal/core/tasks.go`) | the `tasks` table: status, next run, rounds, feedback | `Start`, `Accept`, `Cancel`, `Claim`, `Finish`, `Reschedule`, `SetFeedback`, `Requeue` | commands, tools, runner, admin page | ends must be final while commands and the runner write the same row; survives crashes |
| work runner (`internal/llm/tasks.go`, `goal.go`) | the round in hand, its context, `runningTasks` | claim, run a round, review it, record, post | one goroutine per network | cancel, deadline, pause, shutdown and crash between any two of its steps |
| conversations (`internal/llm/completion.go`, `recap.go`, `internal/core/recap.go`, `quarantine.go`) | history, recap, commit locks | commit an exchange, fold old turns, quarantine, reset | chat requests, idle folder, commands | a fold takes a model call during which the history moves |
| session store (`internal/core/sessionstore.go`, `contextdb.go`) | sessions in memory, rows on disk, dirty marks | first `Get` restores, a ticker flushes, `Delete` | everything | writes, flushes and failed statements in any order, crashes |
| reminders (`internal/core/reminders.go`) | a map, a file | add, cancel, pop what is due, send or put back, adopt, save | tool, operator page, a scheduler per network | change and save are two critical sections; saves fail; the process dies in between |
| operator's log (`internal/core/live.go`, `internal/admin/stream.go`, `web/admin/src/lib/stream.ts`, `live.svelte.ts`) | a ring of records, a channel per page, what the page shows | publish, subscribe, follow, show, pause | the logger, a browser | lost connections, full channels, replayed backlogs, a restarted bot |
| playout and listening page (`contrib/radio/radio.liq`, `web/radio/src/lib/live/`) | segments and marks; an HLS engine, a poll, a timeline | start, stop, recover, poll, say what is heard | listeners, timers, the audio element | three clocks that agree only through marks that come late |
| ignores, flood control, suspicion (`internal/core/ignore.go`, `flood.go`, `suspicion.go`) | expiring lists, windows, decaying scores | add, check | every event | expiry; saves that overlap |
| screening, tool views, link guard (`internal/llm/gatekeeper.go`, `replyscreen.go`, `toolview.go`, `linkguard.go`) | a list of screened nicks | classify, filter | a request | order of the checks |
| memory, chat log (`internal/core/memory.go`, `chatlog.go`) | SQLite tables | insert, search | tools | text search |
| dispatch, IRC text, configuration | small | | | little state of their own |
| agent library, plugins, station programs, visualizers | external | | | reached over calls, or built bundles |

How they meet: an event handler registers its request (`core.Requests().Track`),
takes the conversation's lock and then the global gate, runs the model, commits
the exchange to the session and replies.  The runner claims a row of the work
store, takes the same two locks, runs a round and writes the row.  Commands
write the same rows and locks from their own goroutines.  A signal cancels the
one context everything descends from, and `main` returns without waiting for
the runner.  The reminders' schedulers, one per network, share one map and one
file.  The operator page reads the stores over HTTP and the log over a stream;
the listening page reads segments from a playlist and marks from a JSON file,
and nothing ties the two but the number of a segment.

## Modules

| module | models | checked by |
|---|---|---|
| `FifoSemaphore` | what a lock promises: at most so many inside, first come first served | refined by `RequestLock` |
| `RequestLock` | `core/lock.go` lines 13-104, one action per critical section | run `lock` |
| `WithRequestLock` | conversation lock, gate, resets, rounds and delegates | run `gate` |
| `Queues` | taking a member out of a queue, filtering a list | used by `TaskStore`, `WithRequestLock`, `Conversation` and `LiveFeed` |
| `TaskLifecycle` | what the life of a piece of work promises its owner | refined by `BackgroundWork` |
| `TaskStore` | the statements of `core/tasks.go` | through `BackgroundWork` |
| `BackgroundWork` | runner, commands and process, EXTENDS `TaskStore` | runs `background*` |
| `SessionStore` | one conversation of `core/sessionstore.go`: memory, row, flusher, crash | through `Conversation` |
| `Conversation` | requests, folds, quarantines and commands on one history, EXTENDS `SessionStore` | runs `conversation*` |
| `Reminders` | map, file, schedulers, callers, crashes | run `reminders` |
| `LiveFeed` | hub, stream handler, follower and log page | runs `feed*` |
| `Playout` | segments, tracks and marks of `radio.liq` | through `LivePlayer` |
| `Stamps` | the pure functions of `stamps.ts` | through `LivePlayer` |
| `LivePlayer` | the player on a playout, EXTENDS both | run `player`, `LivePlayer_proofs` |
| `Queues_proofs`, `RequestLock_proofs`, `WithRequestLock_proofs`, `BackgroundWork_proofs`, `Conversation_proofs`, `Reminders_proofs`, `LiveFeed_proofs`, `LivePlayer_proofs` | the theorems | TLAPS |

The configurations instantiate these modules directly: their constants are model
values and small numbers.

### RequestLock and FifoSemaphore

`held`, `waiters` and `limit` are the fields of the Go struct and the package
variable `concurrency`; a waiter's channel is named by the request that waits on
it, so a closed channel is a request that is `waiting` and not in `waiters`.
`admit` is two actions (`ReadLimit`, `Admit`), because it reads the limit before
it takes the mutex.  `FifoSemaphore` knows who is inside and who is in line;
`Owner`, the refinement mapping, counts a request as inside from the moment
`admit` counts its slot, before its goroutine has noticed.

### WithRequestLock

Composes two levels of the semaphore, with the limit fixed.  A lock object is a
pair of a conversation and the number of resets before it, because requests
keep using the object `GetRequestLock` gave them after `ResetRequestLock` stored
another.  `+reset` is two actions, `CancelKey` and `ResetRequestLock`, so a request may
register between them, escape the cancel and queue on the discarded object; what
`+reset` does to the history is in `Conversation`.  A delegate is started by a
running round, which cannot finish before it.

### TaskStore, TaskLifecycle and BackgroundWork

`TaskStore` has one formula per method that changes the table, each atomic under
the database mutex.  `order` stands for the `next_run` column: the due rows that
are queued or running, oldest first; it decides what is claimed next, and nothing is
stated about it for its own sake.  Requeued work keeps its `next_run`, hence
its place.  Feedback is reduced to the set of remarks in it; a goal's checklist
and notes are left out, because no other statement reads them.

A write of the table may fail.  A command that is told so does nothing, and `ClaimFails`
is the claim that does.  `Finish`, `Reschedule`, `SetFeedback` at the end of a round and `Requeue`
do not tell: the code goes on (`internal/core/tasks.go:314`, `:323`, `:438`, `internal/llm/tasks.go:267`), and so does the
model.  `unwritten` remembers the rows that such a failure left running, and `unrecorded` counts, for
each task, the ends that could not be written; the result is posted all the same.  `TaskLifecycle` promises
one post for the recorded end and one for each that was not.  Reads are taken to succeed.

`BackgroundWork` adds the runner's program counter and local variables, the
round's context, the two halves of a cancel (the row, then the context and the
reply), the pause flag and the process.  `Exit` happens at any step, from a crash
or because `main` does not wait; it clears everything but the table and the
saved conversations.  The client's connection is the environment's choice at each
tick and at each post.  `promised` and the `cut` of `snap` are history, read by
`NudgesAreKept` and `InterruptedWorkResumes` (and `promised` by a guard that bounds how
often the same nudge is given).

### SessionStore and Conversation

`history` is what the in-memory session holds after its system prompt, `disk` the
row, `dirty` the key's mark.  The flusher takes the mark and then copies the
history, without the commit lock.  A message is the request it belongs to and
its role, and every message has the size 1, so `MaxContext`, `Keep` and `Hard`
are counted in messages.  A recap is the set of requests it tells of.

`holder` is who has `core.CommitLock` of the session, and `todo` the store calls
its holder still has to make: a commit appends its messages one by one, and a
fold, a hard trim or a quarantine clears (`Wipe`) and then adds what it keeps.
The flusher, a reset and a fold's first look see every state between.  `fold` is
the fold in flight with what it saw of the history and of the recap before its
model call (`BeginFold`), which it checks again when the call returns
(`CheckPrefix`); a fold whose call fails goes on to `HardTrim`.  `Restart` is a crash
at any step; a graceful shutdown is a last flush and then the same.

The speaker whose requests are `Suspect` can be screened, and at most one
quarantine follows each of their requests.  A request that a reset finds at the
model is cancelled and forgets its question; `Reset` is one step here, its parts
being independent but for requests that answer between them, which is the same as
answering before it.

### Reminders

`entries` is the map, `file` what `reminders.json` holds, `hand` what a scheduler has
popped and not yet sent or put back.  Whoever changes the map owes a save
(`put` and `taken` say for which reminders), and a save copies the map and writes the
copy under `saveMu`, as two steps, the second of which may fail.  Times are
abstract: a reminder is early, then due, then too late.  A file from before there
were networks has reminders without one, which belong to no scheduler until the
start adopts them.  `Crash` loses everything but the file, at any step.

### LiveFeed

`seq` and `ring` are the hub's; `backlog` and `channel` are what a page's handler has still
to send, `connects` counts connections, and `entries`, `paused` and `pending` are the page's.
A record is its number and the life of the bot that numbered it; the page sees only
the number, and `LiveIsCurrent` turns on that.  `missed` remembers the records that no
connection could carry (the channel was full, or the ring had turned), and
`heldOver` that a reconnection came while records were held back.

### Playout, Stamps and LivePlayer

`Playout` has one action per callback of `radio.liq`; `log` remembers what was really on
the stream.  `Stamps` translates the functions of `stamps.ts` with integer times.
`LivePlayer` adds `start`, `stop`, the recovery timer and the poll.  hls.js is external
and modelled by what the page relies on: it buffers the segments of the playlist in
order, or skips to the live edge when it has fallen out, on a timeline whose origin is
its own choice at each start (`base`).  `Known` says when the marks for a moment are at hand
at all: the end of the segment before it was seen, and the polled copy is newer than the
moment and reaches back to it.  `HeardIsExact` and `FadeHoldsTheLastSong` compare what the page
says with `log` then, also after hls.js has skipped and old ends are kept on the other side of the gap.
They exempt one case, `SilenceSkipped`: a silence that began in the gap has a mark that has no place
(`stamps.ts` places a mark after a segment whose end was seen), and the page names the old
song while nothing plays.  A track that began in the gap is not exempt: the playout marks it again
at every segment's end, silence only where it begins.

## Runs

| run | instance | shows |
|---|---|---|
| `lock` | 3 requests, 2 operators, limits 0..2 (0 is raised to 1) | accounting, FIFO refinement, no lost wakeup, bound, waiters leave |
| `gate` | 2 chat requests of one conversation, a round, a delegate, limit 1, one reset | no slot leaks, the model is bounded, everyone is served or leaves |
| `background` | a goal of 2 rounds, a task, a repeating schedule; quota 1; one restart, one row left by a failed write, one cancel under way at a time | lifecycle refinement, no stranded row, rounds, quiet after cancel |
| `background_live` | a goal with a nudge and a repeating schedule, no restart | due work is claimed |
| `background_interrupted` | one task, one restart | *violated*: a round cut by shutdown is its task's end |
| `background_nudge` | one goal | *violated*: an acknowledged nudge is not shown |
| `conversation` | a friend with a tool, a suspect, context of 2, hard limit 3, two events | whole exchanges, nothing lost, the lock returned, a screened speaker's turns gone, settled means saved |
| `conversation_clear` | two friends, a suspect, one event | *violated*: a fold restores a cleared recap |
| `reminders` | 2 reminders, 2 networks, a tool, one failed save, one crash | the file follows the map, sent at most once, quiet after cancel, every reminder settles |
| `feed` | a ring of 2, a channel of 1, a page of 3, 4 records in each of 2 lives, 3 connections | order, no holes, the page catches up |
| `feed_restart` | the same, 2 connections | *violated*: after a restart the live page shows nothing new |
| `player` | 2 songs and a clip, 4 marks, 3 ends, a window of 1, 2 starts | exact positions, the held song, engines lost only by a double start |

Why the bounds are enough.  Three requests are the least with one inside, one
granted and one queued, which is where a wakeup can be lost; two operators are
the least that leave two overlapping `admit`s with different limits, and a
highest limit below the number of requests makes the bound bite.  At the gate a
limit of 1 makes every pair of requests contend and is the hardest case for
delegates, which need a second slot.  One reset gives two lock objects, and
nothing tells a second replaced object from the first.  One goal, one task and one
schedule cover the three ways a round ends; two rounds are the least with a
"next round"; one restart is the least that separates the table from the
process, and what a second would start from is again a table any first run
could leave.  One row left running by a failed write (`MaxUnwritten`) is the least that runs twice after
the restart and is posted twice; one cancel under way at a time (`MaxCancels`) is enough, because the runner has
one task in hand and the second half of any other cancel changes nothing.  In `conversation` an exchange of three messages outgrows the context
and the hard limit is passed when the second one is added, so every kind of cut
happens; two events (idle folds, resets, cleared recaps, crashes) put one between
any two steps of the others and a second after it.  Two reminders on two networks
let two schedulers, a tool call and the adoption be between change and save at once; one
failed save followed by one crash is the least that brings back what was sent.  In
`feed` the ring is smaller than the records of a life and the channel smaller than the
ring, so a record can be lost each way; three connections allow a break while the
first backlog is under way and another after it.  In `player` the stream is as long as
four segments and the playlist is one long, so hls.js skips while older ends are still
kept (a silence can begin in that gap: without the exemption TLC finds the old song named),
a start can meet a trimmed playlist, trimmed ends and a list of marks at its cap,
and two starts are the least with two timelines and with one engine lost.  Two tracks have
no song, silence and song in a row, which three have: that case is in the proof, and the
configuration with `MaxStarts = 3` and `MaxSessions = 1` passes as well, in a longer run.

Deadlock is checked in the lock and gate runs.  In the others the program may
really stop: the process is down with no restart left, every request was
answered, every reminder left, the page was closed, the bounded clock ran out.

## Fairness

Only what the code's scheduling gives.  Goroutines that can move do: pending
`admit`s run, a granted request notices, deferred unlocks run.  Model calls and
reviews end, since each runs under a deadline; the runner's ticker keeps ticking
and finds the client connected again and again, and a claim that is tried again and again
is written at last (strong fairness of `ClaimNext`; a database that never takes a write serves nobody).  A round's end is strongly fair
at the gate because its delegate calls are limited by `maxiterations`.  The reminders'
adoption runs, schedulers tick and get through their hands, time passes, a save that
has begun ends; to begin one is strongly fair, for a Go mutex does not starve who
waits.  The page's `follow` loop runs and what is written to an open stream arrives;
a connection is strongly fair, because a bot that is up is reached in the end.
Nothing is assumed of people: nobody has to arrive, cancel, reset, resume a paused
page or paused work, lower a limit or restart the process, and no chat request has
to time out.  The player claims no liveness and has no fairness.

## Proofs

Each theorem holds for every value of the constants that the named assumptions
allow; TLC evaluates the assumptions in the runs.

`Queues_proofs` has what the others need to know of queues without duplicates: what a
cut, a dequeue, an append and a tail do to the members (`SplitQueue`, `DequeueEffect`,
`EnqueueEffect`, `HeadLeaves`), and how many a prefix has.  It also has what is left of a
sequence that was filtered: `Sift(s, P)` is the members of `s` at the positions in `P` along the one
increasing list of those positions (`Picks`), so order, members and runs of neighbours carry
over (`SiftIs`), and a filter that drops nothing changes nothing (`SiftAll`).  `LeastExists` and
`GreatestExists` give a set of positions its ends without induction, from the well-ordering of
the naturals.

`RequestLock_proofs`: `TypeCorrect`, `QueueHoldsWaiters`, `SlotAccounting`, `HeldBounded`,
`WakeupNotLost`, `LockImplementsSemaphore`.  The inductive invariant joins the types,
`QueueOK` (without it a removal from the queue could take two entries), the accounting
`held = Cardinality(Owner)` and the bound.  The counting lemmas say how `Owner`
changes; `AdmitEffect` says that the loop of `admit` moves a prefix of the queue, which
becomes owners in the same step.  `seen` may hold any limit ever set, so only the highest is a
bound.  The refinement maps `Admit` to granting that prefix at once.  Assumes finitely many requests,
operators that are not requests, and a positive highest limit.

`WithRequestLock_proofs`: `TypeCorrect`, `SlotsComeBack`, `GateBoundsTheModel`.  `NoSlotLeaks`
alone is not inductive: the invariant adds that each line holds, once, requests that
wait for that very lock object and are not past it (`KeyLines`, `GateLine`), that a request
has the key and lock object its place needs (`Keyed`), and that those past the gate are
finitely many within the limit (`GateBounded`), from which the bound on the running
ones follows.

`BackgroundWork_proofs`: `NothingIsStranded`, `GoalsEnd`, `CancelledWorkIsQuiet`, `WorkLivesItsLife`, `TypeCorrect`.  The
invariant says, place by place of the runner, what the row of its task can be by
then, with commands writing in between and a row that a failed write left running
being known (`Rows`), that work which can still run has a round
left (`Budget`), that no task has been posted more often than it has ended, the ends that could not be
recorded included, with one to spare when a post is due (`Posts`), and
that from the look at the row on, only a cancel under way or done can have ended it
(`Stopped`).  The refinement has one lemma per kind of step.  For the type of the queue in
`TypeCorrect`, each statement of the store is an entry, a departure or neither (`Enters`,
`Leaves`, `AsideKeeps`), and each step is at most one statement.

`Conversation_proofs`: `LockComesBack`, `SettledIsSaved`, `TypeCorrect`, `ExchangesAreWhole`,
`NothingIsLost`, `ScreenedAreGone`.  The first is inductive once the
program counters are functions on the requests and `fold` has a program counter;
it needs that a fold is not a request.  The second is inductive as it
stands: a writer sets the mark it leaves, a flush takes the mark before it copies.
The others need two invariants.

- `StateInv` has the types, which depend on the lock: only the holder has anything to
  write, what it has is at most one clear and then messages, and a fold that has
  checked the history holds the lock (`PenInv`).  `queued` is bounded because a request
  looks at the size when it commits and when it ends, and never again (`QueueInv`): at most
  once for each request past its commit and once more for each that has ended.
- `TalkInv` is about what the history will be when the holder has written the rest, `Kept`.
  `ExchangesStayTogether` of `history` alone is not inductive: the rest of a rewrite, the row
  a restart loads and the tail a fold put aside can each split an exchange later, so all of
  them must be whole (`Wholes`), and no message of a request may be anywhere
  before that request commits (`Fresh`), or its commit would start a second part.  `NothingLost`
  needs that the recap under way tells of every turn the fold saw but the suspect's
  (`DraftTells`) and that the history, when the lock is had, is what it saw and a rest
  (`CheckedIsAll`); `ScreenedLeaveTheHistory` that a quarantine with the lock has nothing of
  its speaker in `Kept` (`ScreenInv`).

`Whole` says more than `ExchangesStayTogether`: the neighbours of a message are its
neighbours in the exchange, and where a request's messages begin and end.  A cut at the place where a fold may cut, and a
filter that drops whole requests, keep it (`PartIsWhole`, `PurgedIs`), a write leaves `Kept` as it is
(`WriteKeepsKept`), and `WholeIsTogether` turns it back into the property.  Assumes what the
module does: finitely many requests, each a friend's or a suspect's, none of them named as the fold,
`+screen` or nobody, limits in their order, and at least one turn kept by an idle fold.

`LiveFeed_proofs`: `TypeCorrect`, `RecordsInOrder`, `PageHasNoHoles`.  The page's order follows from its own two
lists being in order, whatever arrives: `Push` skips what is not newer than the last shown (`PageInv`).
That it skips nothing else does not: `FeedInv` adds that backlog and channel are in order, the
backlog before the channel, and belong to the present life (`StreamInv`), and it accounts for
every number of the first life (`NothingSkipped`).  Up to the last shown, a record is on the
page, was missed or is older than all that is; from there to the last held back it is held back or missed;
and every newer one is still on its way, in the backlog, the channel or, between connections, the
ring, or was missed.  A step moves a record from one of these places to the next.

`Reminders_proofs`: `TypeCorrect`, `TheFileFollows`, `NoneIsSentTwice`, `CancelledStaysQuiet`.  `FileFollows` says that
somebody owes a save; the invariant has to say who: of a difference between map and
file, or map and the copy being written, the caller whose change it is
(`FileLags`, `SnapshotLags`).  A reminder is taken out by one caller only (`Takers`), and what was
sent, cancelled or is in hand has left every copy that a crash could load or a save
could still write (`Gone`).

`LivePlayer_proofs`: `TypeCorrect`, `HeardExactly`, `FadeHolds`, `EnginesAreLostByDoubleStart`.  A list of
marks is `Truthful` up to a time when, of every moment before it, the last mark that is not
later says what was on the stream; a list that never lost a mark is silent only about
silence.  The playout's own list stays truthful up to the clock: `TruthLasts` (time passes
within a segment), `TruthfulAppend` (an event marks the present), `TruthfulTail` (the oldest mark
may go), `TruthIsKept` (the log only grows).  The player's copy is one of those lists, as of
its poll.  `PositionIsRight` shows that placing a truthful list by segments of one
timeline keeps its order, and that a mark for `t` from before the last segment's end is silence's
(`EarlierIsSilent`): where it is not placed, nothing is named, or it is the exempted case (`SkippedIn`).  Assumes that a segment is a whole number of ticks and
that `Nothing` is neither a number nor a position.

Only model-checked: the liveness properties, which are out of the prover's reach
(`WaitersLeaveTheQueue`, `EveryoneServed`, `EveryoneLeaves`, `DueWorkRuns`, `EveryReminderSettles`,
`FirstLifeIsShown`).  Every invariant, action property and refinement of a passing run is a theorem.

## Where code and words differ

Four runs show behaviour the code has and its comments, replies or README deny;
`PROJECT.json` quotes each line.  They are kept as runs so that a fix shows: the
property then holds.

- `background_interrupted`: a shutdown records the interrupted round as the end of its task.
- `background_nudge`: a nudge before the first round, or during any, is answered "will see that next round" and is not seen.
- `conversation_clear`: a fold under way writes a cleared recap back.
- `feed_restart`: a restarted bot numbers its records from 1 and the page skips them.

Seen while modelling, in the models or noted, without a run of their own:

- A cancel between `Claim` and the entry in `runningTasks` (`internal/llm/tasks.go:150`) does not stop the round; its result is still unsaid, which is proved.
- Errors of `Finish` and `Reschedule` are ignored (`internal/core/tasks.go:314`, `:323`): the row says running until a start requeues it, the round is not counted, and the result is posted, and posted again after the next run.
- The reviewer reads the row that was claimed, not the checklist the round left (`internal/llm/goal.go:108`).
- A screened speaker whose turns were all folded stays in the recap (`internal/core/quarantine.go:63`).
- A flush in the middle of a rewrite saves the cut history (`internal/llm/recap.go:304`); a crash before the next flush loses turns that were saved.
- The caps on reminders count every network's (`internal/core/reminders.go:94`), though networks are otherwise kept apart, and reminders that are put back may exceed them; a reminder in a scheduler's hand cannot be cancelled and still fires.
- Saves of the ignore list (`internal/core/ignore.go:165`) overlap: an older list can replace a newer one, and both write the same temporary file, so the rename is not the protection its comment describes.  The reminders hold a lock over the same work.
- A track that follows itself is not noticed by the playout (`contrib/radio/radio.liq:51`), so its position runs on.
- When the queue runs out less than a fade after the last song began, the page shows the song before that one until the fade is over (`web/radio/src/lib/live/stamps.ts:38`): silence's mark counts from that song's start.  `FadeHoldsTheLastSong` leaves the case out.
- A silence that began in a stretch hls.js skipped is not noticed while an end from before it is kept (`web/radio/src/lib/live/stamps.ts:25`, `player.svelte.ts:102`): the page names the old song and counts on.  `HeardIsExact` and `FadeHoldsTheLastSong` leave the case out (`SilenceSkipped`).
- Starting a player that plays leaves the first engine and its poll behind (`LostOnlyByDoubleStart` says it is the only way).
- Records held by a paused page are shown twice when a reconnection replays them (`web/admin/src/lib/live.svelte.ts:19`).
- A fold may cut between a question and its answer when it read the history in the middle of a commit (`internal/llm/recap.go:269`), and a `+reset` in the middle of one leaves the tail (`internal/commands/reset.go:71`); `ExchangesStayTogether` allows parts of an exchange.
- A failed flush has taken the mark and is not retried until the conversation changes (`internal/core/sessionstore.go:164`); `SettledOnDisk` exempts it.
- `admit` may use a limit that was lowered after it read it, and a request may register between the two halves of `+reset`.

## What could come next

1. `Conversation`: an abstract history that loses no committed turn but by folding,
   trimming, quarantine or reset, as a refinement; the backlog, and what a prompt shows
   while the history is rewritten.
2. `SessionStore`: a first `Get` that restores while a second one writes, `Delete`
   against a flush.
3. The ignore list's file, and the ignore that cancels a speaker's requests (`CancelSource`).
4. Pure operators: schedule arithmetic (`endScheduleRun`, `parseSchedule`), tool views,
   link guard, each against a reference definition on bounded inputs.
5. A second network in `WithRequestLock` for the claim of two model slots.
6. Proofs: what `NoHoles` says within each later life of the bot, once the page tells lives apart.

## Not modelled, and why

Most of the repository's JavaScript is the minified visualizer library butterchurn with
its presets, shipped twice under `contrib/*/www/assets`; it is generated and third-party,
and the map, which covers the program's own sources, leaves it out.  IRC parsing and
formatting, configuration files, dispatch, memory and chat-log search have little
state or are text processing; the vendored agent library, the plugins and the
station's programs are other programs.  Flood windows and suspicion scores are one
critical section each on a map entry.  Of the operator page the thinking feed is the
same stream with another fold, and the dashboard polls; one that is slower than its interval may
show an older answer over a newer one (`web/admin/src/lib/dashboard.svelte.ts:22`).  Of the listening page native HLS has
no marks, the muted shadow copy, volume and visualizers do not say what is heard, and an
answer to a poll that overtakes a newer one is left out.  Networks do not leave the configuration in `Reminders`: what happens to reminders of one that did is
left out.  Progress lines and the choice of
lines posted inline change no state.  The daily quota only refuses more starts.  Rows
inserted in the same second are ordered by `id`; the model lets either come first.  Failed reads of the
work table, after which a round goes on as if it had not been cancelled, are left out.
