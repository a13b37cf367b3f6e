# A TLA+ model of RLToolkit

RLToolkit reads the statistics socket of Rocket League, derives events and
states from it, and hands them to browser overlays and plugins.  This directory
holds TLA+ modules for the parts of its Go backend where concurrency, order and
failure matter, the TLC runs that check them on small instances, and proofs,
checked by TLAPS, that hold for every instance.

## 1. The system

One backend process, started by a desktop launcher.  Events flow one way:

    game socket -> source.RL -> pipeline -> state processors, then emit processors
                                   |               |
                                   v               v
                                   bus  <---- synthetic events, REST handlers
                                   |
                                   v
                  one SSE handler per connection -> browser SDK -> plugins

| Component | State | Operations | Talks to |
|---|---|---|---|
| `source/rl.go` | connection status, bounded outbox | connect, read, reconnect, enqueue or drop | pipeline through a channel |
| `pipeline/pipeline.go` | the ordered processors | for each event: Observe, broadcast, Process, derived events depth first | processors, bus |
| `state/match.go` | phase, activity, guid, latches, staged broadcasts, last tick | Observe, Process, Snapshot, watchdog | bus (from two goroutines) |
| `roster/*.go` | players of the match, name resolution | Observe, Process, Snapshot | match state, bus |
| `tick/store.go`, `correlation/buffer.go` | last player ticks; recent hits, shots, goals | Observe, add, take | emit processors |
| `emit/*.go` | what each derived event remembers of earlier ones | Process | correlation, tick store, roster |
| `bus/*.go` | subscribers with bounded channels, counters | Subscribe, cancel, Broadcast | SSE handlers |
| `server/server.go` (`handleSSE`) | one subscription per connection | replay of states, forward, hang up | bus, owners of state |
| `datastore/datastore.go` | per plugin: cache, JSON file | Get, LoadAll, Set, Delete | REST handlers |
| `overrides`, `surface`, `identity`, `replaywatch/store.go` | a value, its JSON file | Set, Get, notify | main.go hooks, bus |
| `replaywatch/watcher.go` | watched directory, pending files | debounce, announce, reload | bus, file system |
| `tracker/*.go` | limiter, circuit breaker, cache | Acquire, fetch | remote service |
| `plugins`, `install`, `plugincatalog`, `pack` | plugin directories, manifests | scan, install, update | REST, overrides |
| SDK (`server/web/sdk/src`) | handler registry, EventSource | subscribe, reconnect | SSE handler |
| launcher (`overlay/src-tauri`) | backend process handle, windows | start, stop, restart, hide, show | backend |

What is hard here:

* **Two writers of the match state.**  The pipeline goroutine and the watchdog
  change it under a mutex, but each decides what to do outside the mutex and
  broadcasts outside it.
* **Events in any order.**  The outbox of the source drops events when the
  pipeline is slow; the client may connect in the middle of a match.
* **A fan-out that must never block** and yet must not give anyone a stream with
  holes; subscribers come and go during every broadcast.
* **A snapshot and a stream to be joined** by every connection, without a gap.
* **Files that must survive a crash** between any two system calls, and caches
  that must not keep what could not be written.
* **Events derived from earlier events.**  Ten emitters remember hits, shots,
  goals, ticks and demolitions, and join them in an order the game decides,
  across replays and the ends of matches.
* **A game that blocks when it is not read**, falls silent without closing, and a
  pipeline that may be slower than it.
* **Directories and files that change while they are watched**, with timers and
  three channels between the file system and the announcement.
* **A remote service that must not be asked too often**, by callers that wait,
  give up and get late answers.

What makes each component correct: the phase machine has one story to tell (phase,
activity and frames agree), announces a match once and in order, ends when the
game falls silent; the bus hands every kept subscriber every event in order and
never waits; a connection converges to the states of the owners, as far as their
frames keep their order; a data file can always be loaded and stores what
succeeded, nothing else; what the emitters publish adds up for a plugin that keeps
books; the reader never makes the game wait and never waits for it for ever; a
finished replay is announced if the file system told of it; the remote service
sees neither more requests than the bucket allows nor any while the circuit is
open.

## 2. Modules

| Module | Models | Code |
|---|---|---|
| `MatchState` | the phase machine and its two goroutines | `state/match.go`, `pipeline/pipeline.go` |
| `MatchWire` | `MatchState` with a subscriber that listens | the broadcasts of `Process` |
| `MatchProofs` | theorems about the two | |
| `Fanout` | what the bus promises, abstractly | the doc comments of `bus/bus.go` |
| `Bus` | the bus, one send at a time | `bus/bus.go`, `bus/metrics.go` |
| `SSE` | connections on the bus (extends `Bus`) | `handleSSE` in `server/server.go` |
| `StreamProofs` | theorems about `Bus`, `SSE` and the refinement of `Fanout` | |
| `DataStore` | one plugin's shard, with crashes | `datastore/datastore.go` |
| `Settings` | overrides, surface and identity, their hooks and restarts | `overrides/overrides.go`, `surface/surface.go`, `identity/identity.go`, `main.go` |
| `DataStoreProofs`, `SettingsProofs` | theorems about the two | |
| `Correlation` | the window of recent events | `correlation/buffer.go` |
| `Ticks` (extends `Correlation`) | roster, tick store, boost, joins and leaves | `roster/*.go`, `tick/store.go`, `emit/tick_diff.go` |
| `Scoring` (extends `Ticks`) | goals, touches, statistics, milestones | `emit/goal.go`, `statfeed.go`, `ball_hit.go`, `own_goal.go`, `fastest_shot.go`, `first_blood.go` |
| `Emit` (extends `Scoring`) | the whole pipeline, one action per event of the game | `pipeline/pipeline.go`, `emit/demos.go`, `crossbar.go`, `match_ended.go`, `main.go` |
| `EmitBooks` (extends `Emit`) | a subscriber that keeps the books, and the properties of both | what the processors publish |
| `EmitProofs` | theorems about the two | |
| `Source` | the socket reader, its channel and its status | `source/rl.go` |
| `ReplayWatch` | override, sessions and debouncer of the replay watcher | `replaywatch/store.go`, `watcher.go` |
| `Tracker` | cache, circuit breaker and token bucket | `tracker/*.go` |
| `SourceProofs`, `ReplayWatchProofs`, `TrackerProofs` | theorems about the three | |
| `MC...` | instances for TLC | |

An action is a critical section, an atomic load, a channel operation or a
system call: what another goroutine or a crash can come between is a boundary
of actions.  Names are the code's where it has one.

**MatchState.**  `cur`, `pending`, `emit`, the latches and the flags are the
fields of `MatchState`; `matchActive` is an atomic written in the same critical
section as `cur`, so it is `cur.active`.  `pc` says where each goroutine is;
`batch` is what `Process` took under the lock and still has to send.  An event
runs Observe, then Process, then the sends, and Process runs again for events
the roster tracker derived from it, with the watchdog between any two steps.  The
flags an event sets before its first transition are set in one step with it:
the watchdog reads none of them but the time of the tick, whose update comes
first.  The age of the last tick is one of never, fresh and stale: all the
watchdog tells apart.

**MatchWire.**  Adds an observer: the last frame broadcast, the last match
announced and whether it is open.  `overlap` becomes true once a timeout and an
event were handled at the same time.  The two goroutines then publish without
a common lock, so their frames can swap: the code promises no order
there, and properties about order are claimed for executions with no overlap.
TLC's constraint `Separate` of the run `match_wire` does not explore states after
an overlap; the proofs do without it.

**Bus.**  `broadcastRaw` is split at each send, for the subscriber set is copied
under the lock and served without it.  A `select` with two ready cases takes
either.  A send on a closed channel panics, and the model stops there; the `bus`
and `sse` runs therefore speak of executions up to a panic, and `bus_closed`
shows that one exists.  `Fanout` has no channels, closing or
snapshots; the refinement maps its attached subscriptions to `subs`, and keeps
`sent` and `handed`, which `Bus` maintains as observers.

**SSE.**  The state of an owner (connection status, match state, identity, roster)
is the number of its last change; a change and the broadcast of its frame are
steps apart, with other goroutines in between.  Match state and roster stage a
frame in `slot` under the lock; a later Process takes it (`held`), for the match
state that of the pipeline or of the watchdog, whichever comes first, and
broadcasts it after unlocking.  A status is stored (`SetStatus`) and then queued
for the pipeline (`Push`) or given up (`GiveUp`).  A publisher other than
`Pipeline` stands for goroutines that broadcast one after the other: REST requests,
which change the identity and then run the hook that broadcasts it, with nothing to
order two hooks, and in one of the publishers the watchdog.  `Pipeline` also logs demolitions before it broadcasts
them and forgets them with the match; `seen` is what a client has of them, from the
log or from its channel.  A change is one that stages a frame: a guid that is
backfilled into the match state with none does not count.  `carried` (what an event
tells), `queued` and `late` are observers.  The boot id is constant, and a heartbeat
is a write that may fail, which `Leave` covers.

**DataStore.**  The shard's lock serialises operations, so one `op` is under
way; it is a series of steps because the process can die between any two, and each
file operation may fail.  A value that is not JSON is stored in the cache and
makes the marshalling fail, as in the code.

**Settings.**  A request of the REST interface is a writer: it takes the mutex of
its store, changes the value in memory, writes a temporary file, renames it (or
removes the file of a cleared size), unlocks, and then runs the hook, which
takes the mutex again to read what it broadcasts.  Waiting for the mutex is not
a state: a request begins when it gets it.  An override is the set of fields it
has, by whether an update of the plugin keeps them.  Identity is modelled at
the level of its file handle: opening empties the file, the write goes over
whatever another request wrote meanwhile, a removal detaches the handle.  At a
start a damaged file is moved away (or not, if that fails) and the store is
empty; a damaged identity ends the start, so the model stops there.

**Correlation, Ticks, Scoring, Emit.**  The pipeline is one goroutine, so an event
of the game is one action of `Emit`: the state processors see it, then every
emitter in the order `main.go` registers them, each on what those before it
published.  `Ticks` and `Scoring` give, for each emitter, an operator `...Out` for
what it publishes and one that sets its variables; `published` is the union of the
outputs of the last event.  `roster`, `prevTick`/`tick`, `buffer`, `streaks`,
`suppress`, `lastGoal`, `realGoals`, `flipArmed`, `chains` and the rest are fields
of the code's types, named in the modules.  `audit` of `EmitBooks` is an observer:
it reads what was published and the snapshots, and nothing reads it.  An id is the
name of its player: bots have a common id on the wire, which `CanonicalizeBotID`
takes apart as the code does.  The phase a match is in is an input of an event:
`MatchState` produces it, and joining the two would multiply their states and show
neither more.  Of the seven statistics of a player, which the code compares one by
one, one is kept; a statistic may come without its main target; positions, speeds
of cars and colours are payload.

**Source.**  `pc` is where `Run` is.  A status event that does not fit waits
(`push`) until there is room or the timeout gives it up.  The game and the kernel's
buffers are external: `peer` says whether the game still sends, is mute, or has
closed or reset the connection; `kernel` holds what it sent and nobody read.
`heard` and `lost` are observers.

**ReplayWatch.**  `session` is where `Run` is between taking the reload channel,
reading the directory, resolving and watching it.  Each directory has one replay
file, so a channel of paths is a count.  A timer that was stopped too late leaves
an expiry on its way (`expired`), which the code cannot tell from the one that
counts; neither does the model.  The file system is external and may fail the
watcher: fsnotify's queue has room for `Queue` notifications and loses what comes
after, with an error in its place that `Run` only logs, and `os.Stat` may fail on a
file that is there, after which the debouncer forgets it.  `fresh` and `announced`
are observers: what became of the watched file, and the size last announced.

**Tracker.**  `at` is where a lookup is: cache, breaker, bucket, upstream, cache
again, and the two steps of writing its file; each of the three parts has a mutex,
held for one action only, except the cache's, which is held while the file is
written.  Tokens are counted in ticks: what refills in one is the unit.  `spent`,
`run` and `blocked` are observers.  The answer of the service is a choice.

Definitions named `Bug...` are faulty variants, each placed before the
definition it varies: substituting one must break the property it is paired
with in `PROJECT.json`.  They are used nowhere else.

## 3. Runs

| Run | Question | Bounds |
|---|---|---|
| `match_state` | Do phase and activity agree, can a replay be left, does silence end a match? | 1 guid, roster sizes {0} |
| `match_wire` | Do subscribers learn every state, and starts and abandons once and in order? | 2 guids (symmetric) |
| `bus` | Does the bus implement `Fanout`? | 2 publishers, 2 subscribers, channel of 1, 2 events each |
| `sse` | Does a connection converge, do publishers and handlers end? | pipeline and one other publisher, 1 connection, channel of 1, 1 event each, 2 changes of any owners |
| `data_store` | Does the file survive crashes and failures? | 2 keys, 2 values |
| `settings` | Do memory and files agree, are files replaced atomically, do hooks end? | 2 requests, 1 plugin, 1 size, 1 identity |
| `emit` | Do derived events add up, across replays, own goals and matches? | 9 feeds of 4 to 7 events, 3 players (2 of them bots), buffer of 4, clock of 3 instants |
| `source` | Does the reader serve the game, the pipeline and a shutdown? | channel of 2, kernel buffer of 2, 2 kinds of packets |
| `replay_watch` | Is no reload lost, is a finished replay announced that the watcher could learn of? | 1 directory, 1 requester, channels of 2, room for 2 notifications, files of 2 chunks |
| `tracker` | Do rate and cooldown hold? | 2 callers (symmetric), 1 key, burst of 2 tokens, threshold 2, 6 instants |
| `bus_closed` | *violated*: is no closed channel sent on? | 1 subscriber |
| `overtime_score` | *violated*: does `_OvertimeStarted` report the score? | the feed of milestones |

Why the bounds are enough.  The phase machine compares guids only with the
empty one and with one remembered: a second guid covers a match following
another.  Roster sizes matter through `<= 1` only, and only for a field the
properties do not look at, so one size per run suffices.  A channel of one
message reaches every case of the `select` (room, full, closed); two events per
publisher make the second find the first unread.  Two publishers are the
smallest number whose broadcasts overlap.  Two keys are needed for a write of one to
save what a failed write of the other left behind.  Two requests are
enough for one to write while the hook of the other reads; a value is a set of
fields, so one plugin has entries that are missing, empty, kept or stripped.

A feed of `emit` is the set of events one concern depends on, and a behaviour is
any sequence of them, as long as the feed's bound: seven events are enough for
three goals with a statistic, an own goal and the end of a match between them, or
for a pickup that a respawn, a missing value and a kickoff interrupt.  A buffer of
four evicts within a feed. The roster of three has two bots that share an id and
both teams.  `source` fills its channel with a packet and a status and the kernel
behind it.  A file of two chunks grows once while its timer runs, channels of two
let a removal overtake a creation, and a third change of the file before `Run`
looks finds fsnotify's queue full.  One requester sets the override as often as it
likes, at any point of a session, to the directory, which may not exist yet, or to
none, which leaves the detected one; a session knows one directory at a time.
A token of `tracker` takes two ticks, so the bucket holds
parts of one; five ticks let a cooldown of three pass after two blocked answers;
the proofs lift all of its bounds.

Connections meet only in the bus, so one is enough for `sse`.  Two changes are two
of one owner, so that the frame of an older match state can overtake that of the
newer, or one each of two; one event of each publisher fills the channel, finds it
full, or follows the eviction.  The second publisher is the watchdog in one turn
and a request in another, so hooks of two requests do not overlap here; the proof
covers any number of publishers, changes and events.

`bus` and `sse` switch deadlock detection off: all publishers reach
`MaxSent`, and a panicked process stops.  So does `settings`: a process that
cannot read its identity does not start again.  `emit`, `overtime_score` and
`tracker` end with their feed or clock, `source` when `Run` has returned, and
`replay_watch` where a behaviour has used up its bounded file.  `match_*` and
`data_store` never stop.

`WireTypeOK` and `SSETypeOK` contain the type invariants of the modules they
extend (`TypeOK`, `BusTypeOK`).

### Properties

* `NoneIffInactive`: consumers use phase and `matchActive` interchangeably.
* `ReplayHasAnExit`: between events, phase replay implies the replay flag.
  Otherwise no falling edge would come and the replay would never be left.
* `SilenceEndsMatch` (liveness): if ticks stop for good the match ends, and its
  end is taken for broadcast.
* `SubscribersAgree`: with nothing staged, the last frame tells the current phase.
  The code has a single pending slot, so a lost transition is a real risk.
* `StartFollowsItsFrame`, `NoSecondStart`, `AbandonsTheOpenMatch`: the order and
  number of `_MatchStarted` and `_MatchAbandoned`.
* `FanoutSpec`: the bus implements the abstract fan-out.
* `NeverBlocks` (liveness): a broadcast ends whatever the subscribers do.
* `ViewConverges`: whenever a client connected, once it has read all frames of an
  owner it shows the owner's newest state, or one whose frame another goroutine was
  about to broadcast, or was broadcasting, when the newest came about; the roster,
  which the pipeline alone broadcasts, is the present one.  Of the connection status
  it shows nothing older than the last one that was not given up.  It has every
  demolition of this match if it wants those.
* `DroppedStreamEnds` (liveness): an evicted connection ends.
* `FileIsWhole`, `OnlyCommitted`: the data file always loads, and neither it
  nor the cache has a value whose operation failed.
* `MemoryMatchesFile`: a settings store and its file agree when nobody writes,
  whatever failed, except over a damaged file that could not be moved away.
* `OnlyEditsCorrupt`: only a user damages a settings file.
* `RequestsEnd` (liveness): no request waits for the mutex for ever.
* `CreditedOnce`: a goal modifier is credited to one goal, a shot to one stolen goal,
  whatever the buffer evicts.
* `HatTrickEarned`: one `_HatTrick` a match and player, on three goals that
  subscribers saw as honest.
* `FlipResetNeedsFlight`: a flip-reset goal needs a flip reset of this match and no
  landing a live tick showed since.
* `ReplayShowsThisMatchsGoal`: a goal replay shows the last goal of this match.
* `BooksBalance`: the boost published as picked up and spent adds up to what the
  player has, through respawns, kickoffs and phase changes.
* `RostersAgree`: the roster announced is the one a late client is sent, and joins
  and leaves add up to the players of the last tick.
* `ChainMatchesLog`: the victims of a demolition chain are the last enemies its
  attacker has in the log, of those demolished while the roster knew the attacker.
* `StatusArrives`: unless one was given up, the last status queued or heard is the
  present one, and packets are read under "connected" only.
* `GameIsRead`, `SilenceIsLeft`, `RunReturns` (liveness): the game is always read, a
  mute connection is left, a shutdown ends `Run`; the pipeline may be dead.
* `PendingIsTimed`: a file the debouncer holds has a timer or an expiry coming.
* `ReloadSeen` (liveness): an override that stays is the one that is watched.
* `SavesAnnounced` (liveness): a replay written in a session is announced with its
  final size, if the notification of its last write was not lost and no `os.Stat` of
  it has failed since.
* `RateHolds`: from any moment on, no more requests than burst and refill.
* `CircuitHolds`: nobody passes the breaker within a cooldown of the last of enough
  blocked answers.

### Fairness

`FairSpec` of `MatchState` is fair to the pipeline's steps once an event has
arrived, and to the watchdog, whose ticker runs until shutdown: the Go
scheduler is preemptive, and no step waits for anything but a mutex held for a
few assignments, or the bus, which `NeverBlocks` shows not to block.  The
arrival of events is not fair.  `SSEFairSpec` is fair to publishers and, once a
connection's channel is closed, to its handler, which has a write deadline on
every frame; a client that simply does not read is never forced to.
`FairSpec` of `Settings` is weakly fair to every handler and strongly fair to the
hook's read: the runtime's mutexes hand themselves to a waiter that has waited
too long, so a stream of other requests cannot starve it.  `Source` is fair to
`Run`'s goroutine, whose timers fire, and to nothing of the game or the pipeline.
`ReplayWatch` is fair to the session, the debouncer and the timers, and to ending
a session apart from the rest, because Go's `select` picks among ready channels
at random and passes none over for ever; a request that has set the override goes
on to `Reload`, as its handler does.

### Disagreements found

1. `bus_closed`: a subscriber that goes away during a broadcast can make the
   publisher send on a closed channel, although `closed` is there to prevent it.
2. `overtime_score`: `_OvertimeStarted` should carry the tied score
   (`docs/PLUGINS.md`), but `emitOvertime` looks for the teams in the wrong place
   and reports 0:0.

Known differences and oddities that no run checks.  The first six have a
definition in the module named, which TLC finds violated when it is checked:

* `OneStartPerMatch` (`MatchWire`): a watchdog timeout clears the latch that makes
  `_MatchStarted` fire once, so a long stall makes the same match start twice;
  `docs/PLUGINS.md` says the latch is cleared on `MatchDestroyed`.
* `EvictionsAreUnique` (`Bus`): overlapping broadcasts count one eviction twice,
  although `metrics.go` says a subscriber adds one.
* `CacheMatchesDisk` (`DataStore`): a failed overwrite deletes the key in the cache
  instead of restoring it, although the comment says they stay in sync.
* `IdentityIsBacked` (`Settings`): `identity.json` is rewritten in place and outside
  the lock, so a failed write or two overlapping requests leave it different from
  the identity in use, or unreadable at the next start.
* `NoGuidOutsideMatch` (`MatchWire`): `Observe` loads `matchActive` outside the lock
  and then backfills the guid.  When the watchdog ends the match in between, the guid is
  put back on the inactive state, although a teardown clears it by `transitionTo`'s
  comment.  Subscribers see it in the next frame that tells of no match, a next
  `MatchCreated` that has no guid keeps it, and the backfill, which fills an empty guid
  only, does not correct it.
* `IdentityIsCurrent` (`SSE`): `catalog.go` lets clients rely on `_IdentityChanged` to keep
  the identity, but the hooks of two requests broadcast outside the lock, and the last
  frame may be the older one.
* An `UpdateState` without teams leaves the pair of snapshots as it was, and the
  diffs compare it again.
* A pickup whose player has no boost value at a kickoff is kept, and can end as a
  negative one; `BooksBalance` starts a new ledger there.
* Players the roster does not know have an empty id, and compare equal.
* The last snapshot outlives its match: `InReplay` and the scores of `_MatchEnded`
  are read from it until the next `UpdateState`.
* The hook of the replay override broadcasts the watcher's state before the watcher
  got to the new directory.  A directory that does not exist is not tried again
  until the next override.  A file removed and made again within a session may not
  be announced, as its removal can be handled last.
* A replay is not announced until it is written again when fsnotify's queue was full at
  its last write (the error is logged, the directory not read again), or when one
  `os.Stat` of it failed (any error, a passing one included, drops it).
* With the rate and burst of the program no single wait exceeds the budget, so
  `ErrRateLimited` cannot occur: `Acquire` compares each wait, not their sum.  The
  cache's loader keeps an entry of exactly the TTL, which `Get` then drops.

## 4. Proofs

Every invariant and every action property the passing runs check holds for all values of
the constants, and so does the refinement of the bus.  The assumptions are the
named `ASSUME`s of the modules: markers such as the empty guid, `Nothing`,
`Absent` and `None` are not among the values they mark the absence of; capacities,
costs and the threshold are positive; other bounds are naturals.  Where a proof
takes more than that, its paragraph says so.

**`MatchProofs`** shows `TypeOK`, `NoneIffInactive` and `ReplayHasAnExit` of
`MatchState`.  Neither of the last two is inductive.  The invariant `StateInv` adds:
`AppliesEvent` (a goroutine about to apply has an event to apply),
`ReplayBacked` (a replay phase without the flag exists only while the
step of Observe that leaves it is due) and `FramesDue` (a goroutine is about to
announce a match only if it took one).

It goes on to `WireTypeOK`, `SubscribersAgree`, `StartFollowsItsFrame`,
`NoSecondStart` and `AbandonsTheOpenMatch` of `MatchWire`.  Every step of
`WireSpec` is one of `Spec` (`WireIsState`), so `StateInv` carries over.
`WireInv` adds `PendingIsCur` (what is staged is the current state) and, as long
as there was no overlap, `Separately`: only one of the goroutines is past its
decision (`Exclusive`, `EmitHasOwner`), the last frame and the taken batch say
what they should (`FrameAgrees`, `NothingWhenInactive`), and the latches agree
with what was heard (`StartsInOrder`, `HeardIsLast`, `AbandonedIsOpen`).  Each
theorem about a step follows from `WireInv` before the step.

**`StreamProofs`** is about `Bus` and `SSE`.  `BusInv` says who is registered
(`Registered`), what a broadcast under way still has to do (`InTurn`) and,
the core, that a registered subscriber was handed everything of a publisher but
the event that is due (`KeepsPace`).  With it, each send to a full or a free
channel, each eviction and each cancellation is a step of `Fanout` or a stutter:
`BusImplementsFanout`.  A connection only makes steps the bus allows
(`SSEUsesBus`).  `ViewConverges` speaks of a client that has nothing left to
read; `SSEInv` says what holds until then.  What goroutines hold or are broadcasting
of an owner is fresh, newest state and overtaken versions together (`FlightIsFresh`),
and what is staged or pushed is the newest (`NewestIsStaged`).  So, with no frame of an
owner still to reach a client, the last one in its channel is fresh, and with none
there the client was told a fresh version (`Told`); each logged demolition was seen, is
queued, is being broadcast or is about to be (`LogReaches`).  `Holders` (who may
broadcast what) and `SentBefore` (a channel holds only events that were sent) carry
the bookkeeping.  This is where the order of `handleSSE` matters: it subscribes before
it reads the states.

**`EmitProofs`** is about `EmitBooks`.  It assumes of the events of the game
(`InputsAssumption`) only the types of the fields that are compared or counted,
and each player has a team of the two.  The lemmas `...Publishes` say what each
kind of event makes the pipeline publish, and each invariant relates a field of
the code to what a subscriber heard: `GoalIsHeard` (the goal kept for a replay is
the last one published), `HatsAreCounted` (no goal is counted that was not heard
as an honest one), `ArmedAreAloft` (who is armed got a flip reset and was not seen
to land), `RosterKnown` (roster and players of the last tick are those announced),
and `LedgerBalanced` (the ledger, and with it where a pickup under way has
arrived). `CreditedOnce` needs `Credited`: of each modifier statistic and each
shot there are no more in the buffer than were heard and not yet credited.  That
rests on what the buffer's operations do to the number of entries of a kind:
recording adds one at most (`RecordAddsOne`), taking out adds none
(`KeptAddsNone`), a goal takes the statistics it is credited with out of the
buffer (`ModifiersAreConsumed`, `ShotIsConsumed`), and it is credited only with
those that are there (`ModifiersAreThere`).  They hold for every capacity, so for
whatever is evicted. `ChainMatchesLog` needs `ChainsMatch`: the chain kept for a
player is the end of the player's kills in the log, and its times never go back,
so that what the window leaves is an end of it again (`SuffixNth`).  Trimming
happens in the next demolition only; nothing is said of the age of a kept entry.

**`SourceProofs`** shows `SourceTypeOK` and `StatusArrives`.  `Queues` adds that a
push which waits for room is of the present status.

**`ReplayWatchProofs`** shows `ReplayTypeOK` and `PendingIsTimed`, with
`WatchesADir`: a session watches only a directory that exists.

**`SettingsProofs`** shows `SettingsTypeOK`, `MemoryMatchesFile` and
`OnlyEditsCorrupt`.  `MemoryMatchesFile` says nothing of the time a
request holds the mutex, when memory and file differ; `SettingsInv` adds
`CanUndo` (the value a request would go back to is what the file holds) and
`DownIsIdle` (requests end with the process).

**`DataStoreProofs`** shows `DataTypeOK`, `FileIsWhole` and `OnlyCommitted`.
`OnlyCommitted` does not see what is under way; `DataInv` adds
`OperationIsLocal` (only the cell of the operation under way differs from what
was stored, and its old value is kept to undo it) and `WritesAreWhole` (only
values that were marshalled get to a file, and only a file written to its end
is renamed).

**`TrackerProofs`** shows `TrackerTypeOK` (which no run repeats), `RateHolds` and
`CircuitHolds`, for burst, budget, cooldown and TTL in any relation.  That little
was spent does not say how much is left to spend, so `RateHolds` needs `Ledger`:
what was handed out since a moment and what the bucket holds now are together at
most the burst and the refill.  `CircuitHolds` needs `Opened`: the breaker's count
is the number of blocked answers in a row, and once it is at the threshold the
circuit was opened by the last of them, or someone found the cooldown over.
`Stamped` (an answer on its way to the cache has a time) completes the types.

The step lemmas have one step per action, or per kind of event.

Two things came out of the proofs.  The runs had shown chains and log to agree
while every attacker was on the roster; an attacker demolished by a player whom a
lost connection had taken off it is in the log and in no chain, so
`ChainMatchesLog` counts the kills the roster knew the attacker of, and the feed
of the run has a `_ConnectionStatus`.  And `SubscribersAgree`, as the other
properties of order, does not survive an overlap of the goroutines, for which
`Separately` is the weakest condition found.

Only model-checked: the liveness properties (`SilenceEndsMatch`, `NeverBlocks`,
`DroppedStreamEnds`, `RequestsEnd`, `GameIsRead`, `SilenceIsLeft`, `RunReturns`,
`ReloadSeen`, `SavesAnnounced`), because fairness is beyond the prover.

## 5. Plan

Done: the match state, the bus and its streams, the stores, the emitters, the
replay watcher, the tracker client and the source, with the proofs of section 4.

Worth adding, in this order:

1. Proofs: that a data store implements a store whose operations happen at once
   or not at all; what `WalkRecent` and `RemoveByName` of `Correlation` return, and
   with it that a stolen goal names the shot it finished; the steps the liveness
   properties rest on (that a broadcast under way loses a subscriber with each send).
2. `Plugins`: the steps of an install and an update, with failures.
3. `Launcher`: the life of the backend process and the delayed hide.
4. The reconnect logic of the SDK.

No module declares a RECURSIVE operator.

## 6. Not modelled

Wording and layout of messages, JSON encoding, HTTP routing and static files, the
web pages and bundled plugins, logging, path lookup, generators and packaging:
they are input, output or constants of the parts above.  The discoveries file is a
developer's log of event names whose loss costs nothing.  Plugins, launcher and
SDK are not modelled.  `PROJECT.json` lists every component with its status and the
hazards still without a property.
