----------------------------- MODULE ReplayWatch -----------------------------
(***************************************************************************)
(* The replay watcher of backend/internal/replaywatch: the stored override *)
(* of the directory, the Run loop that watches one directory per session,  *)
(* and the debouncer, a goroutine with three channels that announces a     *)
(* file once its size has been the same for a while.                       *)
(*                                                                         *)
(* Each directory has one replay file.  The channels of the debouncer hold *)
(* paths of that one file, so how many they hold is all there is to know;  *)
(* a select takes from any that is not empty, in no order.                 *)
(***************************************************************************)
EXTENDS Naturals, Sequences, FiniteSets

CONSTANTS
  Dirs,       \* directories
  AutoDir,    \* the one auto-detection would find
  Unset,      \* no override, no directory
  MaxSize,    \* bound: chunks of a file
  Cap,        \* bound: what a channel holds
  Queue,      \* bound: notifications that wait for Run
  Requests    \* requests that set the override, one after the other each

ASSUME DirsAssumption == AutoDir \in Dirs /\ Unset \notin Dirs
ASSUME BoundsAssumption == {MaxSize, Cap, Queue} \subseteq Nat \ {0}

Absent == 0  \* the size of no file, and of no pending entry

VARIABLES
  stored,     \* Store.dir
  request,    \* what each request still has to do
  reloaded,   \* the reload channel the session holds has been closed
  session,    \* where Run is
  dir,        \* what the session read from the store
  state,      \* Watcher.state
  exists,     \* the directories there are
  file,       \* the size of the file in each
  notes,      \* what fsnotify has queued for this session
  touches,    \* touchC
  drops,      \* dropC
  pending,    \* the size the debouncer last saw
  timer,      \* the timer of the pending file runs
  expired,    \* expiredC, and the timers left running that will send on it
  announced,  \* the _SavedReplay sent since the file of a directory changed
  fresh       \* what became of the watched file in this session, and whether the
              \* watcher could learn of it

disk == <<exists, file>>
debouncer == <<touches, drops, pending, timer, expired>>
seen == <<announced, fresh>>
vars == <<stored, request, reloaded, session, dir, state, disk, notes, debouncer, seen>>

NoState == [configured |-> Unset, effective |-> Unset, active |-> FALSE]

Init ==
  /\ stored \in Dirs \cup {Unset}
  /\ request = [r \in Requests |-> "idle"]
  /\ reloaded = FALSE
  /\ session = "start" /\ dir = Unset /\ state = NoState
  /\ exists \in SUBSET Dirs
  /\ file \in {f \in [Dirs -> {Absent, 1}] : \A d \in Dirs \ exists : f[d] = Absent}
  /\ notes = <<>> /\ touches = 0 /\ drops = 0
  /\ pending = Absent /\ timer = FALSE /\ expired = 0
  /\ announced = [d \in Dirs |-> Absent]
  /\ fresh = "untouched"
-----------------------------------------------------------------------------
(***************************************************************************)
(* Set, and the hook main.go hangs on it                                   *)
(***************************************************************************)
\* A value that cannot be written is taken back, and the hook is not called.
\* After Reload the hook broadcasts the state, which no part of this reads.
Set(r, d) ==
  /\ request[r] = "idle"
  /\ stored' = d /\ request' = [request EXCEPT ![r] = "reload"]
  /\ UNCHANGED <<reloaded, session, dir, state, disk, notes, debouncer, seen>>

Reload(r) ==
  /\ request[r] = "reload"
  /\ reloaded' = TRUE
  /\ request' = [request EXCEPT ![r] = "idle"]
  /\ UNCHANGED <<stored, session, dir, state, disk, notes, debouncer, seen>>
-----------------------------------------------------------------------------
(***************************************************************************)
(* Run                                                                     *)
(***************************************************************************)
ResolveDir(configured) ==
  IF configured # Unset THEN configured ELSE IF AutoDir \in exists THEN AutoDir ELSE Unset

\* The session takes the channel that the next Reload will close ...
StartSession ==
  /\ session = "start"
  /\ reloaded' = FALSE
  /\ session' = "read"
  /\ UNCHANGED <<stored, request, dir, state, disk, notes, debouncer, seen>>

\* ... and then reads the directory.
ReadDir ==
  /\ session = "read"
  /\ dir' = stored
  /\ session' = "resolve"
  /\ UNCHANGED <<stored, request, reloaded, state, disk, notes, debouncer, seen>>

\* The directory is watched, unless there is none or the watch fails.
Watch ==
  \E active \in {FALSE, ResolveDir(dir) \in exists} :
    /\ state' = [configured |-> dir, effective |-> ResolveDir(dir), active |-> active]
    /\ session' = IF active THEN "watch" ELSE "wait"

\* The channel is taken after the directory is read.
BugResolve ==
  /\ session = "resolve"
  /\ Watch
  /\ reloaded' = FALSE
  /\ UNCHANGED <<stored, request, dir, disk, notes, debouncer, seen>>

Resolve ==
  /\ session = "resolve"
  /\ Watch
  /\ UNCHANGED <<stored, request, reloaded, dir, disk, notes, debouncer, seen>>

\* The debouncer is stopped and waited for before the next session; a session
\* that watches nothing has neither debouncer nor notifications.
EndSession ==
  /\ session \in {"watch", "wait"} /\ reloaded
  /\ session' = "start"
  /\ notes' = <<>> /\ fresh' = "untouched"
  /\ touches' = 0 /\ drops' = 0 /\ pending' = Absent /\ timer' = FALSE /\ expired' = 0
  /\ UNCHANGED <<stored, request, reloaded, dir, state, disk, announced>>

\* Only new files are looked at.
BugInteresting == {"create"}

Interesting == {"create", "write"}

\* The loop does not wait for room in touchC.
BugNote ==
  /\ session = "watch" /\ notes # <<>>
  /\ notes' = Tail(notes)
  /\ \/ Head(notes) \in Interesting /\ touches' = touches + 1 /\ UNCHANGED drops
     \/ Head(notes) = "remove" /\ drops' = drops + 1 /\ UNCHANGED touches
  /\ UNCHANGED <<stored, request, reloaded, session, dir, state, disk,
                 pending, timer, expired, seen>>

\* The loop may have to wait for room in touchC or dropC.  An error of fsnotify
\* is logged, and nothing is done about what it lost.
Note ==
  /\ session = "watch" /\ notes # <<>>
  /\ notes' = Tail(notes)
  /\ \/ Head(notes) \in Interesting /\ touches < Cap
        /\ touches' = touches + 1 /\ UNCHANGED drops
     \/ Head(notes) = "remove" /\ drops < Cap
        /\ drops' = drops + 1 /\ UNCHANGED touches
     \/ Head(notes) \notin Interesting \cup {"remove"} /\ UNCHANGED <<touches, drops>>
  /\ UNCHANGED <<stored, request, reloaded, session, dir, state, disk,
                 pending, timer, expired, seen>>
-----------------------------------------------------------------------------
(***************************************************************************)
(* The debouncer                                                           *)
(***************************************************************************)
Watched == state.effective
Size == file[Watched]

\* A file that has grown is noted, and its timer is not started again.
BugArm == pending' = Size /\ UNCHANGED timer

\* The size is noted and the timer started, in place of the one that ran.
Arm == pending' = Size /\ timer' = TRUE

\* Deleting the entry does not stop its timer (bound: one on its way more than
\* the channel holds).
Forget(others) ==
  /\ pending' = Absent /\ timer' = FALSE
  /\ expired' = others + (IF timer THEN 1 ELSE 0) /\ expired' <= Cap + 1

\* os.Stat may fail on a file that is there, and always fails on one that is not.
StatFails == fresh' = IF Size # Absent /\ fresh = "written" THEN "lost" ELSE fresh

Touched ==
  /\ touches > 0
  /\ touches' = touches - 1
  /\ \/ StatFails /\ Forget(expired)
     \/ Size # Absent /\ Arm /\ UNCHANGED <<expired, fresh>>
  /\ UNCHANGED <<drops, announced>>

Dropped ==
  /\ drops > 0
  /\ drops' = drops - 1
  /\ pending' = Absent /\ timer' = FALSE
  /\ UNCHANGED <<touches, expired, seen>>

\* An expiry that was on its way when its timer was started again or its
\* entry deleted is not told from the one that counts.
Expired ==
  /\ expired > 0
  /\ \/ pending = Absent
        /\ expired' = expired - 1 /\ UNCHANGED <<pending, timer, seen>>
     \/ pending # Absent /\ StatFails
        /\ Forget(expired - 1) /\ UNCHANGED announced
     \/ pending # Absent /\ Size = pending
        /\ Forget(expired - 1)
        /\ announced' = [announced EXCEPT ![Watched] = Size] /\ UNCHANGED fresh
     \/ pending # Absent /\ Size \notin {Absent, pending}
        /\ Arm /\ expired' = expired - 1 /\ UNCHANGED seen
  /\ UNCHANGED <<touches, drops>>

\* DefaultStableDelay is over.
TimerFires ==
  /\ timer /\ expired < Cap
  /\ timer' = FALSE /\ expired' = expired + 1
  /\ UNCHANGED <<touches, drops, pending, seen>>

Debounce ==
  /\ session = "watch"
  /\ Touched \/ Dropped \/ Expired
  /\ UNCHANGED <<stored, request, reloaded, session, dir, state, disk, notes>>

Elapse ==
  /\ session = "watch"
  /\ TimerFires
  /\ UNCHANGED <<stored, request, reloaded, session, dir, state, disk, notes>>
-----------------------------------------------------------------------------
(***************************************************************************)
(* The disk                                                                *)
(***************************************************************************)
Watches(d) == session = "watch" /\ d = Watched

\* fsnotify tells the session of the directory it watches.  It makes nobody
\* wait: what its queue has no room for is lost, and an error takes its place.
Tell(d, op) ==
  \/ /\ ~Watches(d)
     /\ UNCHANGED <<notes, fresh>>
  \/ /\ Watches(d) /\ Len(notes) < Queue
     /\ notes' = Append(notes, op)
     /\ fresh' = IF op = "remove" \/ fresh = "removed" THEN "removed" ELSE "written"
  \/ /\ Watches(d) /\ Len(notes) >= Queue
     /\ notes' = IF Len(notes) = Queue THEN Append(notes, "error") ELSE notes
     /\ fresh' = IF fresh = "removed" THEN fresh ELSE "lost"

Write(d) ==
  /\ d \in exists /\ file[d] < MaxSize
  /\ file' = [file EXCEPT ![d] = @ + 1]
  /\ announced' = [announced EXCEPT ![d] = Absent]
  /\ Tell(d, IF file[d] = Absent THEN "create" ELSE "write")
  /\ UNCHANGED <<stored, request, reloaded, session, dir, state, exists, debouncer>>

Remove(d) ==
  /\ d \in exists /\ file[d] # Absent
  /\ file' = [file EXCEPT ![d] = Absent]
  /\ announced' = [announced EXCEPT ![d] = Absent]
  /\ Tell(d, "remove")
  /\ UNCHANGED <<stored, request, reloaded, session, dir, state, exists, debouncer>>

MakeDir(d) ==
  /\ d \notin exists
  /\ exists' = exists \cup {d}
  /\ UNCHANGED <<stored, request, reloaded, session, dir, state, file, fresh,
                 notes, debouncer, seen>>
-----------------------------------------------------------------------------
RunSession == StartSession \/ ReadDir \/ Resolve \/ EndSession \/ Note

Disk == \E d \in Dirs : Write(d) \/ Remove(d) \/ MakeDir(d)

Next ==
  \/ \E r \in Requests, d \in Dirs \cup {Unset} : Set(r, d)
  \/ \E r \in Requests : Reload(r)
  \/ RunSession \/ Debounce \/ Elapse \/ Disk

\* The two goroutines run, a timer ends, and a request is carried through.  A
\* select takes one of the ready channels at random: none is passed over for ever.
Fairness ==
  /\ WF_vars(RunSession) /\ WF_vars(EndSession) /\ WF_vars(Debounce) /\ WF_vars(Elapse)
  /\ \A r \in Requests : WF_vars(Reload(r))

Spec == Init /\ [][Next]_vars /\ Fairness
-----------------------------------------------------------------------------
\* Every variable keeps its type and every channel its capacity; one expiry
\* more than expiredC holds can be on its way (watcher.go:343).
ReplayTypeOK ==
  /\ stored \in Dirs \cup {Unset} /\ dir \in Dirs \cup {Unset}
  /\ request \in [Requests -> {"idle", "reload"}]
  /\ state \in [configured : Dirs \cup {Unset},
                effective : Dirs \cup {Unset}, active : BOOLEAN]
  /\ session \in {"start", "read", "resolve", "wait", "watch"}
  /\ exists \subseteq Dirs /\ file \in [Dirs -> 0..MaxSize]
  /\ Len(notes) <= Queue + 1 /\ touches \in 0..Cap /\ drops \in 0..Cap
  /\ expired \in 0..(Cap + 1) /\ pending \in 0..MaxSize
  /\ {timer, reloaded} \subseteq BOOLEAN
  /\ announced \in [Dirs -> 0..MaxSize]

\* A file the debouncer holds is always one that something will still look at:
\* its timer runs, or an expiry is on its way, however touches, removals and
\* expiries of earlier timers interleave (watcher.go:357).
PendingIsTimed == pending # Absent => timer \/ expired > 0

\* An override that stays is the one Run ends up with, whatever requests and
\* sessions met on the way: no Reload is lost between the channel and the
\* directory a session reads (watcher.go:134).
ReloadSeen ==
  \A d \in Dirs \cup {Unset} :
    <>[](stored = d /\ \A r \in Requests : request[r] = "idle") => <>[](state.configured = d)

\* A replay written while its directory is watched is announced with the size
\* it ends up with, if fsnotify had room for the notification of its last write
\* and no os.Stat of it has failed since, unless it was removed in that session
\* or the session ends (watcher.go:222).  A replay of which either is not true
\* is not looked at again until it is written again (watcher.go:234, 358).
SavesAnnounced ==
  \A n \in 1..MaxSize :
    (session = "watch" /\ fresh = "written" /\ Size = n)
      ~> (session # "watch" \/ Size # n \/ announced[Watched] = n
          \/ fresh \in {"removed", "lost"})
=============================================================================
