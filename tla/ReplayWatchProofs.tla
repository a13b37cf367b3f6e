-------------------------- MODULE ReplayWatchProofs --------------------------
(***************************************************************************)
(* Theorems of ReplayWatch, for any directories, requests and bounds: the  *)
(* session that watches has a directory, and the debouncer never forgets a *)
(* file it holds.                                                          *)
(***************************************************************************)
EXTENDS ReplayWatch, SequenceTheorems, TLAPS

Ops == {"create", "write", "remove", "error"}

\* A session watches only a directory that exists, and the notifications are
\* of the one file in it.
WatchesADir ==
  /\ session = "watch" => Watched \in exists
  /\ notes \in Seq(Ops)

ReplayInv == ReplayTypeOK /\ WatchesADir /\ PendingIsTimed
-----------------------------------------------------------------------------
LEMMA Bounds ==
  /\ MaxSize \in Nat /\ MaxSize > 0
  /\ Cap \in Nat /\ Cap > 0
  /\ Queue \in Nat /\ Queue > 0
<1>1. MaxSize \in Nat \ {0} /\ Cap \in Nat \ {0} /\ Queue \in Nat \ {0}
  BY BoundsAssumption
<1>. QED
  BY <1>1

LEMMA InitReplay == Init => ReplayInv
<1> SUFFICES ASSUME Init PROVE ReplayInv
  OBVIOUS
<1> USE DirsAssumption, Bounds
<1>1. Len(notes) = 0 /\ notes \in Seq(Ops) /\ Len(notes) <= Queue + 1
  BY DEF Init
<1>2. /\ exists \subseteq Dirs /\ file \in [Dirs -> 0..MaxSize]
      /\ announced \in [Dirs -> 0..MaxSize]
      /\ request \in [Requests -> {"idle", "reload"}]
  BY DEF Init, Absent
<1>3. state \in [configured : Dirs \cup {Unset}, effective : Dirs \cup {Unset}, active : BOOLEAN]
  BY DEF Init, NoState
<1>4. /\ touches \in 0..Cap /\ drops \in 0..Cap /\ expired \in 0..(Cap + 1)
      /\ pending \in 0..MaxSize
  BY DEF Init, Absent
<1>5. ReplayTypeOK
  BY <1>1, <1>2, <1>3, <1>4 DEF Init, ReplayTypeOK
<1>. QED
  BY <1>1, <1>5 DEF Init, ReplayInv, WatchesADir, PendingIsTimed

\* A step that leaves the debouncer and the watched directory alone.
LEMMA ElsewhereStep ==
  ASSUME ReplayInv, UNCHANGED debouncer, UNCHANGED <<notes, exists, file, announced>>,
         state' = state, session' = "watch" => session = "watch",
         stored' \in Dirs \cup {Unset}, dir' \in Dirs \cup {Unset},
         request' \in [Requests -> {"idle", "reload"}],
         session' \in {"start", "read", "resolve", "wait", "watch"}, reloaded' \in BOOLEAN
  PROVE  ReplayInv'
<1>1. ReplayTypeOK'
  BY DEF ReplayInv, ReplayTypeOK, debouncer
<1>. QED
  BY <1>1 DEF ReplayInv, WatchesADir, Watched, PendingIsTimed, debouncer

LEMMA DebounceStep == ASSUME ReplayInv, Debounce \/ Elapse PROVE ReplayInv'
<1> USE DirsAssumption, Bounds
<1>1. /\ UNCHANGED <<stored, request, reloaded, session, dir, state, disk, notes>>
      /\ session = "watch" /\ Watched \in exists /\ Size \in 0..MaxSize
      /\ ReplayTypeOK /\ WatchesADir /\ PendingIsTimed
  BY DEF Debounce, Elapse, ReplayInv, WatchesADir, ReplayTypeOK, Size
<1>2. ASSUME touches' \in 0..Cap, drops' \in 0..Cap, expired' \in 0..(Cap + 1),
             pending' \in 0..MaxSize, timer' \in BOOLEAN, announced' \in [Dirs -> 0..MaxSize],
             pending' # Absent => timer' \/ expired' > 0
      PROVE  ReplayInv'
  <2>1. ReplayTypeOK'
    BY <1>1, <1>2 DEF ReplayTypeOK, disk
  <2>. QED
    BY <1>1, <1>2, <2>1 DEF ReplayInv, WatchesADir, Watched, PendingIsTimed, disk
<1>3. /\ touches \in Nat /\ touches \in 0..Cap /\ drops \in Nat /\ drops \in 0..Cap
      /\ expired \in Nat /\ expired \in 0..(Cap + 1) /\ pending \in 0..MaxSize
      /\ timer \in BOOLEAN /\ announced \in [Dirs -> 0..MaxSize] /\ Absent = 0
      /\ MaxSize \in Nat /\ Cap \in Nat
  BY <1>1 DEF ReplayTypeOK, Absent
<1>4. ASSUME NEW others \in Nat, Forget(others)
      PROVE  /\ pending' = Absent /\ pending' \in 0..MaxSize /\ timer' \in BOOLEAN
             /\ expired' \in 0..(Cap + 1)
  <2>1. pending' = Absent /\ timer' = FALSE /\ expired' <= Cap + 1
    BY <1>4 DEF Forget
  <2>2. expired' \in Nat
    BY <1>3, <1>4 DEF Forget
  <2>3. expired' \in 0..(Cap + 1) /\ pending' \in 0..MaxSize
    BY <1>3, <2>1, <2>2
  <2>4. timer' \in BOOLEAN
    BY <2>1
  <2>. QED
    BY <2>1, <2>3, <2>4
<1>5. ASSUME Arm PROVE pending' \in 0..MaxSize /\ timer' \in BOOLEAN /\ timer'
  BY <1>1, <1>5 DEF Arm
<1>6. CASE Touched
  <2>1. touches' \in 0..Cap /\ UNCHANGED <<drops, announced>>
    BY <1>3, <1>6 DEF Touched
  <2>2. CASE Forget(expired)
    BY <1>2, <1>3, <1>4, <2>1, <2>2
  <2>3. CASE Arm /\ UNCHANGED expired
    BY <1>2, <1>3, <1>5, <2>1, <2>3
  <2>. QED
    BY <1>6, <2>2, <2>3 DEF Touched
<1>7. CASE Dropped
  <2>1. drops' \in 0..Cap /\ pending' \in 0..MaxSize
    BY <1>3, <1>7 DEF Dropped
  <2>. QED
    BY <1>2, <1>3, <1>7, <2>1 DEF Dropped, seen
<1>8. CASE Expired
  <2>1. expired - 1 \in Nat /\ expired - 1 \in 0..(Cap + 1) /\ UNCHANGED <<touches, drops>>
    BY <1>3, <1>8 DEF Expired
  <2>2. CASE pending = Absent /\ expired' = expired - 1 /\ UNCHANGED <<pending, timer, seen>>
    BY <1>2, <1>3, <2>1, <2>2 DEF seen
  <2>3. CASE Forget(expired - 1) /\ UNCHANGED announced
    BY <1>2, <1>3, <1>4, <2>1, <2>3
  <2>4. CASE Forget(expired - 1) /\ announced' = [announced EXCEPT ![Watched] = Size]
    <3>1. announced' \in [Dirs -> 0..MaxSize]
      BY <1>1, <1>3, <2>4
    <3>. QED
      BY <1>2, <1>3, <1>4, <2>1, <2>4, <3>1
  <2>5. CASE Arm /\ expired' = expired - 1 /\ UNCHANGED seen
    BY <1>2, <1>3, <1>5, <2>1, <2>5 DEF seen
  <2>. QED
    BY <1>8, <2>2, <2>3, <2>4, <2>5 DEF Expired
<1>9. CASE TimerFires
  <2>1. expired' \in 0..(Cap + 1) /\ expired' > 0
    BY <1>3, <1>9 DEF TimerFires
  <2>. QED
    BY <1>2, <1>3, <1>9, <2>1 DEF TimerFires, seen
<1>. QED
  BY <1>6, <1>7, <1>8, <1>9 DEF Debounce, Elapse

\* What fsnotify tells or loses changes the notifications only.
LEMMA DiskStep ==
  ASSUME ReplayInv, NEW d \in Dirs, NEW op \in Ops, Tell(d, op), UNCHANGED debouncer,
         UNCHANGED <<stored, request, reloaded, session, dir, state, exists>>,
         file' \in [Dirs -> 0..MaxSize], announced' \in [Dirs -> 0..MaxSize]
  PROVE  ReplayInv'
<1> USE Bounds
<1>1. notes \in Seq(Ops) /\ Len(notes) \in Nat /\ Len(notes) <= Queue + 1 /\ Queue \in Nat
  BY LenProperties DEF ReplayInv, WatchesADir, ReplayTypeOK
<1>2. \A x \in Ops : Len(Append(notes, x)) = Len(notes) + 1 /\ Append(notes, x) \in Seq(Ops)
  BY <1>1, AppendProperties
<1>3. notes' \in Seq(Ops) /\ Len(notes') <= Queue + 1
  <2>1. CASE notes' = notes
    BY <1>1, <2>1
  <2>2. CASE notes' = Append(notes, op) /\ Len(notes) < Queue
    BY <1>1, <1>2, <2>2
  <2>3. CASE notes' = Append(notes, "error") /\ Len(notes) = Queue
    <3>1. "error" \in Ops
      BY DEF Ops
    <3>. QED
      BY <1>1, <1>2, <2>3, <3>1
  <2>. QED
    BY <2>1, <2>2, <2>3 DEF Tell
<1>4. ReplayTypeOK'
  BY <1>3 DEF ReplayInv, ReplayTypeOK, debouncer
<1>. QED
  BY <1>3, <1>4 DEF ReplayInv, WatchesADir, Watched, PendingIsTimed, debouncer

LEMMA ReplayStep == ReplayInv /\ [Next]_vars => ReplayInv'
<1> SUFFICES ASSUME ReplayInv, [Next]_vars PROVE ReplayInv'
  OBVIOUS
<1> USE DirsAssumption, Bounds
<1>0. ReplayTypeOK /\ WatchesADir /\ PendingIsTimed
  BY DEF ReplayInv
<1>1. ASSUME NEW r \in Requests, NEW d \in Dirs \cup {Unset}, Set(r, d) PROVE ReplayInv'
  BY <1>0, <1>1, ElsewhereStep DEF Set, disk, seen, ReplayTypeOK
<1>2. ASSUME NEW r \in Requests, Reload(r) PROVE ReplayInv'
  BY <1>0, <1>2, ElsewhereStep DEF Reload, disk, seen, ReplayTypeOK
<1>3. CASE StartSession
  BY <1>0, <1>3, ElsewhereStep DEF StartSession, disk, seen, ReplayTypeOK
<1>4. CASE ReadDir
  BY <1>0, <1>4, ElsewhereStep DEF ReadDir, disk, seen, ReplayTypeOK
<1>5. CASE Resolve
  <2>1. PICK active \in {FALSE, ResolveDir(dir) \in exists} :
          /\ state' = [configured |-> dir, effective |-> ResolveDir(dir), active |-> active]
          /\ session' = IF active THEN "watch" ELSE "wait"
    BY <1>5 DEF Resolve, Watch
  <2>2. ResolveDir(dir) \in Dirs \cup {Unset} /\ active \in BOOLEAN
    <3>1. active \in BOOLEAN
      <4>1. \A x \in {FALSE, ResolveDir(dir) \in exists} : x \in BOOLEAN
        <5>1. (ResolveDir(dir) \in exists) \in BOOLEAN
          OBVIOUS
        <5>. QED
          BY <5>1
      <4>. QED
        BY <4>1
    <3>2. dir \in Dirs \cup {Unset}
      BY <1>0 DEF ReplayTypeOK
    <3>. QED
      BY <3>1, <3>2 DEF ResolveDir
  <2>3. /\ state' \in [configured : Dirs \cup {Unset}, effective : Dirs \cup {Unset}, active : BOOLEAN]
        /\ session' \in {"watch", "wait"}
        /\ session' = "watch" => state'.effective \in exists
    BY <1>0, <2>1, <2>2 DEF ReplayTypeOK
  <2>4. ReplayTypeOK'
    BY <1>0, <1>5, <2>3 DEF Resolve, disk, seen, debouncer, ReplayTypeOK
  <2>. QED
    BY <1>0, <1>5, <2>3, <2>4
       DEF Resolve, disk, seen, debouncer, ReplayInv, WatchesADir, Watched, PendingIsTimed
<1>6. CASE EndSession
  <2>1. /\ notes' \in Seq(Ops) /\ Len(notes') = 0 /\ touches' \in 0..Cap /\ drops' \in 0..Cap
        /\ expired' \in 0..(Cap + 1) /\ pending' \in 0..MaxSize /\ pending' = Absent
    BY <1>6 DEF EndSession, Absent
  <2>2. timer' \in BOOLEAN /\ reloaded' \in BOOLEAN
    BY <1>0, <1>6 DEF EndSession, ReplayTypeOK
  <2>3. 0 <= Queue + 1 /\ session' \in {"start", "read", "resolve", "wait", "watch"}
    BY <1>6 DEF EndSession
  <2>4. ReplayTypeOK'
    BY <1>0, <1>6, <2>1, <2>2, <2>3 DEF EndSession, disk, ReplayTypeOK
  <2>. QED
    BY <1>6, <2>1, <2>4 DEF EndSession, disk, ReplayInv, WatchesADir, PendingIsTimed
<1>7. CASE Note
  <2>1. notes' \in Seq(Ops) /\ Len(notes') = Len(notes) - 1 /\ Len(notes) \in Nat
    BY <1>0, <1>7, HeadTailProperties, LenProperties DEF Note, WatchesADir
  <2>2. touches' \in 0..Cap /\ drops' \in 0..Cap
    BY <1>0, <1>7 DEF Note, ReplayTypeOK
  <2>3. Len(notes') <= Queue + 1
    BY <1>0, <2>1 DEF ReplayTypeOK
  <2>4. ReplayTypeOK'
    BY <1>0, <1>7, <2>2, <2>3, SMTT(30) DEF Note, disk, seen, ReplayTypeOK
  <2>. QED
    BY <1>0, <1>7, <2>1, <2>4, SMTT(30) DEF Note, disk, seen, ReplayInv, WatchesADir, Watched, PendingIsTimed
<1>8. CASE Debounce \/ Elapse
  BY <1>8, DebounceStep
<1>9. ASSUME NEW d \in Dirs, Write(d) PROVE ReplayInv'
  <2>1. file[d] + 1 \in 0..MaxSize
    BY <1>0, <1>9 DEF Write, ReplayTypeOK
  <2>2. file' \in [Dirs -> 0..MaxSize] /\ announced' \in [Dirs -> 0..MaxSize]
    BY <1>0, <1>9, <2>1 DEF Write, ReplayTypeOK, Absent
  <2>. QED
    BY <1>9, <2>2, DiskStep DEF Write, Ops
<1>10. ASSUME NEW d \in Dirs, Remove(d) PROVE ReplayInv'
  <2>1. file' \in [Dirs -> 0..MaxSize] /\ announced' \in [Dirs -> 0..MaxSize]
    BY <1>0, <1>10 DEF Remove, ReplayTypeOK, Absent
  <2>. QED
    BY <1>10, <2>1, DiskStep DEF Remove, Ops
<1>11. ASSUME NEW d \in Dirs, MakeDir(d) PROVE ReplayInv'
  BY <1>0, <1>11
     DEF MakeDir, seen, debouncer, ReplayInv, ReplayTypeOK, WatchesADir, Watched, PendingIsTimed
<1>12. CASE UNCHANGED vars
  BY <1>0, <1>12, ElsewhereStep DEF vars, disk, seen, ReplayTypeOK
<1>. QED
  BY <1>1, <1>2, <1>3, <1>4, <1>5, <1>6, <1>7, <1>8, <1>9, <1>10, <1>11, <1>12
     DEF Next, RunSession, Disk
-----------------------------------------------------------------------------
\* Watched directory, notifications and debouncer fit together in every
\* reachable state.
THEOREM ReplayInvariant == Spec => []ReplayInv
<1>1. Init => ReplayInv
  BY InitReplay
<1>2. ReplayInv /\ [Next]_vars => ReplayInv'
  BY ReplayStep
<1>. QED
  BY <1>1, <1>2, PTL DEF Spec

\* Every channel of the debouncer keeps its capacity and every variable its
\* type, for any capacities, directories and requests.
THEOREM ReplayTypeCorrect == Spec => []ReplayTypeOK
<1>1. ReplayInv => ReplayTypeOK
  BY DEF ReplayInv
<1>. QED
  BY <1>1, ReplayInvariant, PTL

\* A file the debouncer holds has a timer running or an expiry on its way, in
\* any order of touches, removals and expiries of earlier timers.
THEOREM NoFileIsForgotten == Spec => []PendingIsTimed
<1>1. ReplayInv => PendingIsTimed
  BY DEF ReplayInv
<1>. QED
  BY <1>1, ReplayInvariant, PTL
=============================================================================
