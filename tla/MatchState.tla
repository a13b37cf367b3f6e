----------------------------- MODULE MatchState -----------------------------
(***************************************************************************)
(* The gameplay-phase machine of backend/internal/state/match.go.          *)
(*                                                                         *)
(* Two goroutines share it: the pipeline, which hands every event first to *)
(* Observe and then to Process and broadcasts what Process returns, and    *)
(* the watchdog, which ends a match after a silent UpdateState stream and  *)
(* then calls Process and broadcasts itself.  A step is a critical section *)
(* of m.mu or an atomic load; between two steps the other goroutine may    *)
(* run.  The flags an event sets before its first transition (lastTick,    *)
(* inReplay, matchCreatedSeen, rosterSize) are set in one step with it.    *)
(* Events arrive in any order and with any guid: the socket outbox drops   *)
(* under load, and the client may connect in the middle of a match.        *)
(***************************************************************************)
EXTENDS Naturals

CONSTANTS Guids,   \* match guids the game may report
          NoGuid,  \* the empty string
          Rosters  \* player counts an UpdateState may show

ASSUME GuidAssumption == NoGuid \notin Guids
ASSUME RosterAssumption == Rosters \subseteq Nat

Phases == {"none", "lobby", "countdown", "live", "paused", "replay",
           "ended", "podium"}
MaybeGuid == Guids \cup {NoGuid}
Snapshots == [phase : Phases, active : BOOLEAN, guid : MaybeGuid]

(***************************************************************************)
(* An event, as far as Observe looks into it.  "Other" is any event        *)
(* Observe ignores, _ConnectionStatus "connected" included.                *)
(***************************************************************************)
PhaseAfter ==
  [MatchCreated   |-> "lobby",  CountdownBegin |-> "countdown",
   RoundStarted   |-> "live",   MatchPaused    |-> "paused",
   MatchUnpaused  |-> "live",   MatchEnded     |-> "ended",
   PodiumStart    |-> "podium", MatchDestroyed |-> "none",
   ConnectionLost |-> "none"]

Lifecycle == DOMAIN PhaseAfter

\* A Bug... is a faulty variant of the definition after it, by which the runs
\* check that a property notices such a fault.  Here: a lost connection keeps
\* the match active.
BugTeardowns == {"MatchDestroyed"}
Teardowns == {"MatchDestroyed", "ConnectionLost"}
EventNames == Lifecycle \cup {"UpdateState", "Other"}

Event(name, guid) == [name |-> name, guid |-> guid]
Events == [name : EventNames, guid : MaybeGuid]
NoEvent == Event("Other", NoGuid)

Goroutines == {"pipeline", "watchdog"}

VARIABLES
  cur,               \* m.cur; m.matchActive is stored with it
  pending,           \* m.pending
  emit,              \* m.emit
  lastStarted, lastEnded, pendingStarted, pendingAbandoned,
  created,           \* m.matchCreatedSeen
  rosterSize,        \* m.rosterSize
  inReplay,          \* m.inReplay
  age,               \* age of m.lastTick: "never", "fresh", "stale" (>= timeout)
  pc,                \* what each goroutine does next
  evt,               \* the event Observe is handling
  batch              \* what each goroutine took in Process and still has to send

locked == <<cur, pending, emit, lastStarted, lastEnded, pendingStarted,
            pendingAbandoned>>
flags == <<created, rosterSize, inReplay, age>>
vars == <<locked, flags, pc, evt, batch>>

LiveIsh == {"countdown", "live"}
Replayable == {"live", "countdown", "paused"}

Batches == [snap : Snapshots, freeplay : BOOLEAN, abandoned : MaybeGuid,
            started : MaybeGuid]
NoBatch == [snap |-> [phase |-> "none", active |-> FALSE, guid |-> NoGuid],
            freeplay |-> FALSE, abandoned |-> NoGuid, started |-> NoGuid]

Init ==
  /\ cur = [phase |-> "none", active |-> FALSE, guid |-> NoGuid]
  /\ pending = cur
  /\ emit = FALSE
  /\ lastStarted = NoGuid /\ lastEnded = NoGuid
  /\ pendingStarted = NoGuid /\ pendingAbandoned = NoGuid
  /\ created = FALSE /\ rosterSize = 0 /\ inReplay = FALSE /\ age = "never"
  /\ pc = [g \in Goroutines |-> "idle"]
  /\ evt = NoEvent
  /\ batch = [g \in Goroutines |-> NoBatch]

-----------------------------------------------------------------------------
(***************************************************************************)
(* Critical sections of m.mu.                                              *)
(***************************************************************************)

BugStartsAnyPhase(snap, announced) == snap.guid # NoGuid /\ announced # snap.guid
BugStartsAgain(snap, announced) == snap.phase \in LiveIsh /\ snap.guid # NoGuid

\* Does a snapshot announce a match that was not announced before?
Starts(snap, announced) ==
  snap.phase \in LiveIsh /\ snap.guid # NoGuid /\ announced # snap.guid

\* The guid "clear" is not told from a guid of the game.
BugTransitionTo(phase, guid, active) ==
  LET next == [phase  |-> phase,
               active |-> active,
               guid   |-> IF ~active THEN "clear"
                          ELSE IF guid # NoGuid THEN guid ELSE cur.guid]
      starts == next # cur /\ Starts(next, lastStarted)
  IN  /\ cur' = next
      /\ pending' = IF next = cur THEN pending ELSE next
      /\ emit' = (emit \/ next # cur)
      /\ lastStarted' = IF starts THEN next.guid ELSE lastStarted
      /\ pendingStarted' = IF starts THEN next.guid ELSE pendingStarted
      /\ UNCHANGED <<lastEnded, pendingAbandoned>>

\* transitionTo; every caller with active = FALSE passes the guid "clear".
TransitionTo(phase, guid, active) ==
  LET next == [phase  |-> phase,
               active |-> active,
               guid   |-> IF ~active THEN NoGuid
                          ELSE IF guid # NoGuid THEN guid ELSE cur.guid]
      announced == IF active THEN lastStarted ELSE NoGuid
      starts == next # cur /\ Starts(next, announced)
  IN  /\ cur' = next
      /\ pending' = IF next = cur THEN pending ELSE next
      /\ emit' = (emit \/ next # cur)
      /\ lastStarted' = IF starts THEN next.guid ELSE announced
      /\ pendingStarted' = IF starts THEN next.guid ELSE pendingStarted
      /\ UNCHANGED <<lastEnded, pendingAbandoned>>

\* The phase moves and nothing is staged.
BugTransitionIf(phase, allowed) ==
  /\ cur' = [cur EXCEPT !.phase = IF @ \in allowed THEN phase ELSE @]
  /\ UNCHANGED <<pending, emit, lastStarted, lastEnded, pendingStarted, pendingAbandoned>>

\* transitionIf, whose callers pass no guid.
TransitionIf(phase, allowed) ==
  LET next == [cur EXCEPT !.phase = phase]
  IN  /\ cur' = IF cur.phase \in allowed THEN next ELSE cur
      /\ pending' = IF cur' = cur THEN pending ELSE cur'
      /\ emit' = (emit \/ cur' # cur)
      /\ UNCHANGED <<lastStarted, lastEnded, pendingStarted, pendingAbandoned>>

\* backfillMatchGuid: only an empty guid is filled in.
Backfill(guid) ==
  IF guid = NoGuid \/ cur.guid # NoGuid
  THEN UNCHANGED locked
  ELSE /\ cur' = [cur EXCEPT !.guid = guid]
       /\ pending' = [pending EXCEPT !.guid = guid]
       /\ IF Starts(cur', lastStarted)
          THEN lastStarted' = guid /\ pendingStarted' = guid /\ emit' = TRUE
          ELSE UNCHANGED <<lastStarted, pendingStarted, emit>>
       /\ UNCHANGED <<lastEnded, pendingAbandoned>>

\* stampMatchEnded
StampEnded ==
  /\ lastEnded' = IF cur.guid # NoGuid THEN cur.guid ELSE lastEnded
  /\ UNCHANGED <<cur, pending, emit, lastStarted, pendingStarted, pendingAbandoned>>

\* Any match left unended counts, announced or not.
BugArmAbandoned ==
  LET unended == cur.guid # NoGuid /\ lastEnded # cur.guid
  IN  /\ pendingAbandoned' = IF unended THEN cur.guid ELSE pendingAbandoned
      /\ emit' = (emit \/ unended)
      /\ UNCHANGED <<cur, pending, lastStarted, lastEnded, pendingStarted>>

\* armAbandonedIfUnended
ArmAbandoned ==
  LET unended == /\ cur.guid # NoGuid
                 /\ lastStarted = cur.guid
                 /\ lastEnded # cur.guid
  IN  /\ pendingAbandoned' = IF unended THEN cur.guid ELSE pendingAbandoned
      /\ emit' = (emit \/ unended)
      /\ UNCHANGED <<cur, pending, lastStarted, lastEnded, pendingStarted>>

IsFreeplay == ~created /\ rosterSize <= 1

-----------------------------------------------------------------------------
(***************************************************************************)
(* The pipeline goroutine: Observe, then Process, then the broadcasts.     *)
(***************************************************************************)
Goto(g, label) == pc' = [pc EXCEPT ![g] = label]

Receive(e) ==
  /\ pc["pipeline"] = "idle"
  /\ evt' = e
  /\ UNCHANGED batch

\* The head of the UpdateState branch: the tick's time, the roster size, the
\* replay flag.  The watchdog reads only the first of these.
ObserveUpdate(guid, replay, size) ==
  /\ Receive(Event("UpdateState", guid))
  /\ age' = "fresh"
  /\ rosterSize' = size
  /\ inReplay' = replay
  /\ Goto("pipeline", IF replay # inReplay THEN "edge" ELSE "load")
  /\ UNCHANGED <<locked, created>>

\* Only the rising edge is handled.
BugReplayEdge ==
  /\ pc["pipeline"] = "edge"
  /\ IF inReplay THEN TransitionIf("replay", Replayable) ELSE UNCHANGED locked
  /\ Goto("pipeline", "load")
  /\ UNCHANGED <<flags, evt, batch>>

\* A rising or a falling bReplay edge.
ReplayEdge ==
  /\ pc["pipeline"] = "edge"
  /\ IF inReplay THEN TransitionIf("replay", Replayable)
                 ELSE TransitionIf("live", {"replay"})
  /\ Goto("pipeline", "load")
  /\ UNCHANGED <<flags, evt, batch>>

\* m.matchActive.Load(): the branch is chosen outside the lock.
LoadActive ==
  /\ pc["pipeline"] = "load"
  /\ Goto("pipeline", IF cur.active THEN "backfill" ELSE "apply")
  /\ UNCHANGED <<locked, flags, evt, batch>>

BackfillGuid ==
  /\ pc["pipeline"] = "backfill"
  /\ Backfill(evt.guid)
  /\ evt' = NoEvent
  /\ Goto("pipeline", "process")
  /\ UNCHANGED <<flags, batch>>

\* What a lifecycle event does before its transitionTo; only MatchCreated has a
\* guid in its payload.
ObserveLifecycle(name, guid) ==
  /\ guid # NoGuid => name = "MatchCreated"
  /\ Receive(Event(name, guid))
  /\ created' = IF name = "MatchCreated" THEN TRUE ELSE created /\ name \notin Teardowns
  /\ rosterSize' = IF name \in Teardowns THEN 0 ELSE rosterSize
  /\ inReplay' = (inReplay /\ name \notin Teardowns \cup {"MatchEnded", "PodiumStart"})
  /\ \/ name = "MatchEnded" /\ StampEnded
     \/ name = "MatchDestroyed" /\ ArmAbandoned
     \/ name \notin {"MatchEnded", "MatchDestroyed"} /\ UNCHANGED locked
  /\ Goto("pipeline", "apply")
  /\ UNCHANGED age

\* The transitionTo every branch of Observe ends with.
Apply ==
  /\ pc["pipeline"] = "apply"
  /\ IF evt.name = "UpdateState"
     THEN TransitionTo("live", evt.guid, TRUE)
     ELSE TransitionTo(PhaseAfter[evt.name], evt.guid, evt.name \notin Teardowns)
  /\ evt' = NoEvent
  /\ Goto("pipeline", "process")
  /\ UNCHANGED <<flags, batch>>

ObserveOther ==
  /\ Receive(NoEvent)
  /\ Goto("pipeline", "process")
  /\ UNCHANGED <<locked, flags>>

-----------------------------------------------------------------------------
(***************************************************************************)
(* Process and the broadcasts that follow it, in either goroutine.         *)
(***************************************************************************)
Process(g) ==
  /\ pc[g] = "process"
  /\ IF emit
     THEN /\ batch' = [batch EXCEPT ![g] =
                         [snap |-> pending, freeplay |-> IsFreeplay,
                          abandoned |-> pendingAbandoned, started |-> pendingStarted]]
          /\ emit' = FALSE
          /\ pendingStarted' = NoGuid /\ pendingAbandoned' = NoGuid
          /\ Goto(g, "state")
     ELSE /\ Goto(g, "idle")
          /\ UNCHANGED <<batch, emit, pendingStarted, pendingAbandoned>>
  /\ UNCHANGED <<cur, pending, lastStarted, lastEnded, flags, evt>>

\* The pipeline calls Process for the event and again for each event the roster
\* tracker, registered before MatchState, derived from it.
Rest(g) == IF g = "pipeline" THEN {"idle", "process"} ELSE {"idle"}
AfterAbandoned(g) == IF batch[g].started # NoGuid THEN {"started"} ELSE Rest(g)
AfterState(g) == IF batch[g].abandoned # NoGuid THEN {"abandoned"} ELSE AfterAbandoned(g)

BroadcastState(g) ==
  /\ pc[g] = "state"
  /\ batch' = [batch EXCEPT ![g].snap = NoBatch.snap, ![g].freeplay = FALSE]
  /\ \E label \in AfterState(g) : Goto(g, label)
  /\ UNCHANGED <<locked, flags, evt>>

BroadcastAbandoned(g) ==
  /\ pc[g] = "abandoned"
  /\ batch' = [batch EXCEPT ![g].abandoned = NoGuid]
  /\ \E label \in AfterAbandoned(g) : Goto(g, label)
  /\ UNCHANGED <<locked, flags, evt>>

BroadcastStarted(g) ==
  /\ pc[g] = "started"
  /\ batch' = [batch EXCEPT ![g].started = NoGuid]
  /\ \E label \in Rest(g) : Goto(g, label)
  /\ UNCHANGED <<locked, flags, evt>>

-----------------------------------------------------------------------------
(***************************************************************************)
(* The watchdog goroutine (checkTimeout) and time.                         *)
(***************************************************************************)
CheckActive ==
  /\ pc["watchdog"] = "idle"
  /\ cur.active
  /\ Goto("watchdog", "check")
  /\ UNCHANGED <<locked, flags, evt, batch>>

\* The comparison with the timeout is reversed.
BugCheckTick ==
  /\ pc["watchdog"] = "check"
  /\ Goto("watchdog", IF age = "fresh" THEN "fire" ELSE "idle")
  /\ UNCHANGED <<locked, flags, evt, batch>>

CheckTick ==
  /\ pc["watchdog"] = "check"
  /\ Goto("watchdog", IF age = "stale" THEN "fire" ELSE "idle")
  /\ UNCHANGED <<locked, flags, evt, batch>>

Fire ==
  /\ pc["watchdog"] = "fire"
  /\ TransitionTo("none", NoGuid, FALSE)
  /\ Goto("watchdog", "process")
  /\ UNCHANGED <<flags, evt, batch>>

\* The last tick becomes matchActiveTimeout old.
Elapse ==
  /\ age = "fresh"
  /\ age' = "stale"
  /\ UNCHANGED <<locked, created, rosterSize, inReplay, pc, evt, batch>>

-----------------------------------------------------------------------------
Observe ==
  \/ \E guid \in MaybeGuid, replay \in BOOLEAN, size \in Rosters :
       ObserveUpdate(guid, replay, size)
  \/ \E name \in Lifecycle, guid \in MaybeGuid : ObserveLifecycle(name, guid)
  \/ ObserveOther

Broadcasts(g) ==
  BroadcastState(g) \/ BroadcastAbandoned(g) \/ BroadcastStarted(g)

\* An event under way runs to its end; the arrival of the next one is not
\* promised.
PipelineStep ==
  \/ ReplayEdge \/ LoadActive \/ BackfillGuid \/ Apply
  \/ Process("pipeline") \/ Broadcasts("pipeline")

WatchdogStep ==
  CheckActive \/ CheckTick \/ Fire \/ Process("watchdog") \/ Broadcasts("watchdog")

Next == Observe \/ PipelineStep \/ WatchdogStep \/ Elapse

Spec == Init /\ [][Next]_vars

\* The watchdog's ticker keeps running, and the Go scheduler lets a
\* goroutine that can run do so.
Fairness == WF_vars(PipelineStep) /\ WF_vars(WatchdogStep)
FairSpec == Spec /\ Fairness
-----------------------------------------------------------------------------
(***************************************************************************)
(* Properties.                                                             *)
(***************************************************************************)

\* Every variable has the shape the Go declarations give it.
TypeOK ==
  /\ cur \in Snapshots /\ pending \in Snapshots
  /\ emit \in BOOLEAN
  /\ lastStarted \in MaybeGuid /\ lastEnded \in MaybeGuid
  /\ pendingStarted \in MaybeGuid /\ pendingAbandoned \in MaybeGuid
  /\ created \in BOOLEAN /\ rosterSize \in Nat /\ inReplay \in BOOLEAN
  /\ age \in {"never", "fresh", "stale"}
  /\ pc \in [Goroutines -> {"idle", "edge", "load", "backfill", "apply", "check", "fire",
                            "process", "state", "abandoned", "started"}]
  /\ evt \in Events
  /\ batch \in [Goroutines -> Batches]

\* Consumers read either the phase or matchActive; the two must never tell
\* different stories, whichever goroutine wrote last.
NoneIffInactive == (cur.phase = "none") <=> ~cur.active

\* Between two events the phase "replay" is backed by the replay flag: a
\* replay phase whose flag was lost would have no falling edge to leave it
\* by, and would outlive the replay.
ReplayHasAnExit ==
  pc["pipeline"] = "idle" /\ cur.phase = "replay" => inReplay

\* A match whose ticks stop for good ends: the watchdog gets to it however the
\* late events and their broadcasts interleave with it.
SilenceEndsMatch ==
  <>[](age = "stale" /\ pc["pipeline"] = "idle") => <>[](~cur.active /\ ~emit)
=============================================================================
