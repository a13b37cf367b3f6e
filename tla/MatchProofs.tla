----------------------------- MODULE MatchProofs -----------------------------
(***************************************************************************)
(* Theorems of MatchState and of MatchWire.  Of the first: its variables   *)
(* keep their types, the phase and the active flag agree, and a replay     *)
(* phase can always be left, however the two goroutines interleave.  Of    *)
(* the second: what subscribers were told agrees with the state and the    *)
(* order of the frames is as promised, for every set of guids and rosters, *)
(* as long as no timeout is handled while an event is.                     *)
(***************************************************************************)
EXTENDS MatchWire, TLAPS

\* The event an unfinished Observe still has to apply is one that transitions.
AppliesEvent ==
  /\ pc["pipeline"] \in {"edge", "load"} => evt.name = "UpdateState"
  /\ pc["pipeline"] = "apply" => evt.name \in Lifecycle \cup {"UpdateState"}

\* ReplayHasAnExit, with the steps of Observe after which it holds again.
ReplayBacked ==
  cur.phase = "replay" =>
    \/ inReplay
    \/ pc["pipeline"] = "edge"
    \/ pc["pipeline"] = "apply" /\ evt.name \in Lifecycle

\* A goroutine is about to send a frame only if it took one.
FramesDue ==
  \A g \in Goroutines :
    /\ pc[g] = "abandoned" => batch[g].abandoned # NoGuid
    /\ pc[g] = "started" => batch[g].started # NoGuid

StateInv == TypeOK /\ AppliesEvent /\ NoneIffInactive /\ ReplayBacked /\ FramesDue

-----------------------------------------------------------------------------
(***************************************************************************)
(* The operators under m.mu.                                               *)
(***************************************************************************)

\* The phases a lifecycle event leads to: none for a teardown, never replay.
LEMMA PhaseAfterFacts ==
  ASSUME NEW name \in Lifecycle
  PROVE  /\ PhaseAfter[name] \in Phases \ {"replay"}
         /\ (PhaseAfter[name] = "none") <=> name \in Teardowns
BY DEF Lifecycle, PhaseAfter, Phases, Teardowns

\* The part of TypeOK that the lock protects.
LockedTypeOK ==
  /\ cur \in Snapshots /\ pending \in Snapshots
  /\ emit \in BOOLEAN
  /\ lastStarted \in MaybeGuid /\ lastEnded \in MaybeGuid
  /\ pendingStarted \in MaybeGuid /\ pendingAbandoned \in MaybeGuid

\* transitionTo keeps the types and lands in the phase and flag it is given.
LEMMA TransitionToFacts ==
  ASSUME LockedTypeOK, NEW phase \in Phases, NEW guid \in MaybeGuid,
         NEW active \in BOOLEAN, TransitionTo(phase, guid, active)
  PROVE  /\ LockedTypeOK'
         /\ cur'.phase = phase /\ cur'.active = active
BY DEF LockedTypeOK, TransitionTo, Snapshots, MaybeGuid, Starts

\* transitionIf keeps the types and the active flag, and changes the phase
\* only from an allowed one to the given one.
LEMMA TransitionIfFacts ==
  ASSUME LockedTypeOK, NEW phase \in Phases, NEW allowed,
         TransitionIf(phase, allowed)
  PROVE  /\ LockedTypeOK'
         /\ cur'.active = cur.active
         /\ cur'.phase = IF cur.phase \in allowed THEN phase ELSE cur.phase
BY DEF LockedTypeOK, TransitionIf, Snapshots

\* The remaining sections under the lock leave phase and flag alone.
LEMMA OtherSections ==
  ASSUME LockedTypeOK, NEW guid \in MaybeGuid,
         Backfill(guid) \/ StampEnded \/ ArmAbandoned \/ UNCHANGED locked
  PROVE  LockedTypeOK' /\ cur'.phase = cur.phase /\ cur'.active = cur.active
BY DEF LockedTypeOK, Backfill, StampEnded, ArmAbandoned, locked, Snapshots,
       MaybeGuid, Starts

-----------------------------------------------------------------------------
\* The state a new MatchState starts in satisfies the invariant.
LEMMA StateInit == Init => StateInv
<1> SUFFICES ASSUME Init PROVE StateInv
    OBVIOUS
<1>1. LockedTypeOK
  BY DEF Init, LockedTypeOK, Snapshots, Phases, MaybeGuid
<1>2. NoBatch \in Batches
  BY DEF NoBatch, Batches, Snapshots, Phases, MaybeGuid
<1>3. NoEvent \in Events
  BY DEF NoEvent, Event, Events, EventNames, MaybeGuid
<1>4. TypeOK
  BY <1>1, <1>2, <1>3 DEF Init, LockedTypeOK, TypeOK
<1>5. AppliesEvent /\ NoneIffInactive /\ ReplayBacked /\ FramesDue
  BY DEF Init, AppliesEvent, NoneIffInactive, ReplayBacked, FramesDue, Goroutines
<1> QED BY <1>4, <1>5 DEF StateInv

\* Every step of either goroutine keeps it.
LEMMA StateStep == StateInv /\ [Next]_vars => StateInv'
<1> SUFFICES ASSUME StateInv, [Next]_vars
             PROVE  StateInv'
    OBVIOUS
<1> USE DEF StateInv, Goroutines
<1>1. LockedTypeOK
  BY DEF TypeOK, LockedTypeOK
<1>2. ASSUME NEW guid \in MaybeGuid, NEW replay \in BOOLEAN, NEW size \in Rosters,
             ObserveUpdate(guid, replay, size)
      PROVE  StateInv'
  BY <1>2, RosterAssumption
     DEF ObserveUpdate, Receive, Event, Events, EventNames, Goto, locked, TypeOK,
         AppliesEvent, NoneIffInactive, ReplayBacked, FramesDue
<1>3. CASE ReplayEdge
  <2>1. LockedTypeOK' /\ cur'.active = cur.active
    BY <1>1, <1>3, TransitionIfFacts DEF ReplayEdge, Phases
  <2>2. cur'.phase = IF inReplay
                     THEN IF cur.phase \in Replayable THEN "replay" ELSE cur.phase
                     ELSE IF cur.phase = "replay" THEN "live" ELSE cur.phase
    BY <1>1, <1>3, TransitionIfFacts DEF ReplayEdge, Phases
  <2>3. TypeOK'
    BY <1>3, <2>1 DEF ReplayEdge, flags, Goto, LockedTypeOK, TypeOK
  <2>4. (AppliesEvent /\ NoneIffInactive /\ ReplayBacked /\ FramesDue)'
    BY <1>3, <2>1, <2>2 DEF ReplayEdge, flags, Goto, TypeOK, AppliesEvent,
       NoneIffInactive, ReplayBacked, FramesDue, Replayable
  <2> QED BY <2>3, <2>4
<1>4. CASE LoadActive
  BY <1>4 DEF LoadActive, Goto, locked, flags, TypeOK, AppliesEvent,
              NoneIffInactive, ReplayBacked, FramesDue, Lifecycle
<1>5. CASE BackfillGuid
  <2>1. LockedTypeOK' /\ cur'.phase = cur.phase /\ cur'.active = cur.active
    BY <1>1, <1>5, OtherSections DEF BackfillGuid, TypeOK, Events
  <2> QED
    BY <1>5, <2>1 DEF BackfillGuid, Goto, flags, NoEvent, Event, Events, EventNames,
       MaybeGuid, LockedTypeOK, TypeOK, AppliesEvent, NoneIffInactive, ReplayBacked, FramesDue
<1>6. ASSUME NEW name \in Lifecycle, NEW guid \in MaybeGuid,
             ObserveLifecycle(name, guid)
      PROVE  StateInv'
  <2>1. LockedTypeOK' /\ cur'.phase = cur.phase /\ cur'.active = cur.active
    BY <1>1, <1>6, OtherSections DEF ObserveLifecycle
  <2> QED
    BY <1>6, <2>1 DEF ObserveLifecycle, Receive, Goto, Event, Events, EventNames,
       LockedTypeOK, TypeOK, AppliesEvent, NoneIffInactive, ReplayBacked, FramesDue
<1>7. CASE Apply
  <2> DEFINE active == evt.name \notin Teardowns
             phase == IF evt.name = "UpdateState" THEN "live" ELSE PhaseAfter[evt.name]
  <2>1. evt.name \in Lifecycle \cup {"UpdateState"} /\ evt.guid \in MaybeGuid
    BY <1>7 DEF Apply, AppliesEvent, TypeOK, Events
  <2>2. /\ phase \in Phases \ {"replay"}
        /\ (phase = "none") <=> ~active
    BY <2>1, PhaseAfterFacts DEF Phases, Teardowns
  <2>3. TransitionTo(phase, evt.guid, active)
    BY <1>7 DEF Apply, Teardowns
  <2>4. LockedTypeOK' /\ cur'.phase = phase /\ cur'.active = active
    <3> HIDE DEF active, phase
    <3> QED BY <1>1, <2>1, <2>2, <2>3, TransitionToFacts DEF active
  <2>5. (AppliesEvent /\ NoneIffInactive /\ ReplayBacked /\ FramesDue)'
    <3> HIDE DEF active, phase
    <3> QED BY <1>7, <2>2, <2>4 DEF Apply, Goto, TypeOK, AppliesEvent,
               NoneIffInactive, ReplayBacked, FramesDue
  <2>6. TypeOK'
    BY <1>7, <2>4 DEF Apply, Goto, flags, NoEvent, Event, Events, EventNames,
       MaybeGuid, LockedTypeOK, TypeOK
  <2> QED BY <2>5, <2>6
<1>8. CASE ObserveOther
  BY <1>8 DEF ObserveOther, Receive, Goto, NoEvent, Event, Events, EventNames,
     MaybeGuid, locked, flags, TypeOK, AppliesEvent, NoneIffInactive, ReplayBacked, FramesDue
<1>9. ASSUME NEW g \in Goroutines, Process(g)
      PROVE  StateInv'
  <2>1. IsFreeplay \in BOOLEAN
    BY DEF IsFreeplay
  <2>2. [snap |-> pending, freeplay |-> IsFreeplay, abandoned |-> pendingAbandoned,
         started |-> pendingStarted] \in Batches
    BY <2>1 DEF Batches, TypeOK
  <2>3. batch' \in [Goroutines -> Batches]
    BY <1>9, <2>2 DEF Process, TypeOK
  <2>4. TypeOK'
    BY <1>9, <2>3 DEF Process, Goto, flags, MaybeGuid, TypeOK
  <2>5. (AppliesEvent /\ NoneIffInactive /\ ReplayBacked /\ FramesDue)'
    BY <1>9 DEF Process, Goto, flags, TypeOK, AppliesEvent, NoneIffInactive,
       ReplayBacked, FramesDue
  <2> QED BY <2>4, <2>5
<1>10. ASSUME NEW g \in Goroutines, Broadcasts(g)
       PROVE  StateInv'
  <2>1. NoBatch.snap \in Snapshots
    BY DEF NoBatch, Snapshots, Phases, MaybeGuid
  <2>2. batch' \in [Goroutines -> Batches]
    <3> HIDE DEF Goroutines
    <3>1. CASE BroadcastState(g)
      BY <2>1, <3>1 DEF BroadcastState, TypeOK, Batches
    <3>2. CASE BroadcastAbandoned(g)
      BY <3>2 DEF BroadcastAbandoned, TypeOK, Batches, MaybeGuid
    <3>3. CASE BroadcastStarted(g)
      BY <3>3 DEF BroadcastStarted, TypeOK, Batches, MaybeGuid
    <3> QED BY <1>10, <3>1, <3>2, <3>3 DEF Broadcasts
  <2>3. TypeOK'
    BY <1>10, <2>2 DEF Broadcasts, BroadcastState, BroadcastAbandoned, BroadcastStarted,
       AfterState, AfterAbandoned, Rest, Goto, locked, flags, TypeOK
  <2>4. (AppliesEvent /\ NoneIffInactive /\ ReplayBacked)'
    BY <1>10 DEF Broadcasts, BroadcastState, BroadcastAbandoned, BroadcastStarted,
       AfterState, AfterAbandoned, Rest, Goto, locked, flags, TypeOK, AppliesEvent,
       NoneIffInactive, ReplayBacked
  <2>5. FramesDue'
    <3> HIDE DEF Goroutines
    <3>1. \A h \in Goroutines \ {g} : pc'[h] = pc[h] /\ batch'[h] = batch[h]
      BY <1>10 DEF Broadcasts, BroadcastState, BroadcastAbandoned, BroadcastStarted,
         Goto, TypeOK
    <3>2. CASE BroadcastState(g)
      <4>1. /\ pc'[g] \in AfterState(g)
            /\ batch'[g].abandoned = batch[g].abandoned
            /\ batch'[g].started = batch[g].started
        BY <2>1, <3>2 DEF BroadcastState, Goto, TypeOK, Batches
      <4> QED BY <3>1, <4>1 DEF FramesDue, AfterState, AfterAbandoned, Rest
    <3>3. CASE BroadcastAbandoned(g)
      <4>1. pc'[g] \in AfterAbandoned(g) /\ batch'[g].started = batch[g].started
        BY <3>3 DEF BroadcastAbandoned, Goto, TypeOK, Batches
      <4> QED BY <3>1, <4>1 DEF FramesDue, AfterAbandoned, Rest
    <3>4. CASE BroadcastStarted(g)
      <4>1. pc'[g] \in {"idle", "process"}
        BY <3>4 DEF Rest, BroadcastStarted, Goto, TypeOK
      <4> QED BY <3>1, <4>1 DEF FramesDue
    <3> QED BY <1>10, <3>2, <3>3, <3>4 DEF Broadcasts
  <2> QED BY <2>3, <2>4, <2>5
<1>11. CASE CheckActive \/ CheckTick
  BY <1>11 DEF CheckActive, CheckTick, Goto, locked, flags, TypeOK, AppliesEvent,
     NoneIffInactive, ReplayBacked, FramesDue
<1>12. CASE Fire
  <2>1. LockedTypeOK' /\ cur'.phase = "none" /\ cur'.active = FALSE
    BY <1>1, <1>12, TransitionToFacts DEF Fire, Phases, MaybeGuid
  <2> QED
    BY <1>12, <2>1 DEF Fire, Goto, flags, LockedTypeOK, TypeOK, AppliesEvent,
       NoneIffInactive, ReplayBacked, FramesDue
<1>13. CASE Elapse
  BY <1>13 DEF Elapse, locked, TypeOK, AppliesEvent, NoneIffInactive, ReplayBacked, FramesDue
<1>14. CASE UNCHANGED vars
  BY <1>14 DEF vars, locked, flags, TypeOK, AppliesEvent, NoneIffInactive, ReplayBacked, FramesDue
<1> QED
  BY <1>2, <1>3, <1>4, <1>5, <1>6, <1>7, <1>8, <1>9, <1>10, <1>11, <1>12, <1>13, <1>14
     DEF Next, Observe, PipelineStep, WatchdogStep

LEMMA StateInvariant == Spec => []StateInv
<1>1. Init => StateInv BY StateInit
<1>2. StateInv /\ [Next]_vars => StateInv' BY StateStep
<1> QED BY <1>1, <1>2, PTL DEF Spec

-----------------------------------------------------------------------------
\* Every variable of MatchState keeps its type.
THEOREM TypeCorrect == Spec => []TypeOK
<1>1. StateInv => TypeOK BY DEF StateInv
<1> QED BY <1>1, StateInvariant, PTL

\* The phase is "none" exactly when no match is active, whichever of the
\* pipeline and the watchdog wrote last.
THEOREM PhaseAgreesWithActive == Spec => []NoneIffInactive
<1>1. StateInv => NoneIffInactive BY DEF StateInv
<1> QED BY <1>1, StateInvariant, PTL

\* Between two events, a replay phase has the replay flag whose falling edge
\* ends it.
THEOREM ReplayCanEnd == Spec => []ReplayHasAnExit
<1>1. StateInv => ReplayHasAnExit BY DEF StateInv, ReplayBacked, ReplayHasAnExit
<1> QED BY <1>1, StateInvariant, PTL

-----------------------------------------------------------------------------
(***************************************************************************)
(* What subscribers hear                                                   *)
(***************************************************************************)
Sending == {"state", "abandoned", "started"}
Observing == {"edge", "load", "backfill", "apply"}

\* A timeout is handled with the pipeline at rest.
Exclusive == Firing => pc["pipeline"] = "idle"

\* What is staged is the present state.
PendingIsCur == pending = cur

\* Something is staged only while an event or a timeout is being handled, and
\* an inactive state stages nothing before it changes.
EmitHasOwner ==
  /\ emit => pc["pipeline"] \in Observing \cup {"process"} \/ pc["watchdog"] = "process"
  /\ emit /\ ~cur.active => pc["pipeline"] \notin Observing

SameStory(a, b) == a.phase = b.phase /\ a.active = b.active

\* The last frame, or the one about to be sent, tells the present state.
FrameAgrees ==
  /\ ~emit /\ (\A g \in Goroutines : pc[g] # "state") => SameStory(frame.snap, cur)
  /\ \A g \in Goroutines : pc[g] = "state" => ~emit /\ SameStory(batch[g].snap, cur)

\* Without an active match there is no guid and no announced match.
NothingWhenInactive ==
  /\ ~cur.active => cur.guid = NoGuid /\ lastStarted = NoGuid
  /\ pc["pipeline"] = "backfill" => cur.active

Opens(snap, guid) == snap.phase \in LiveIsh /\ snap.active /\ snap.guid = guid

\* On its way from lastStarted to the bus, a start stays with its state.
StartsInOrder ==
  /\ pendingStarted # NoGuid =>
       /\ emit /\ pc["pipeline"] = "process"
       /\ Opens(cur, pendingStarted)
       /\ lastStarted = pendingStarted
  /\ \A g \in Goroutines : batch[g].started # NoGuid =>
       /\ pc[g] \in Sending
       /\ lastStarted = batch[g].started
       /\ Opens(IF pc[g] = "state" THEN batch[g].snap ELSE frame.snap, batch[g].started)

Underway == pendingStarted # NoGuid \/ \E g \in Goroutines : batch[g].started # NoGuid

\* What was heard last is lastStarted, or it was torn down, or its successor
\* is underway.
HeardIsLast ==
  /\ ~frame.snap.active => heard.torn
  /\ lastStarted = NoGuid /\ cur.active => heard.torn
  /\ lastStarted # NoGuid /\ ~Underway => heard.guid = lastStarted /\ heard.open
  /\ Underway => heard.torn \/ heard.guid # lastStarted

\* An abandonment underway names the open match, whose successor cannot start
\* before it was sent.
AbandonedIsOpen ==
  /\ pendingAbandoned # NoGuid =>
       /\ emit
       /\ heard.open /\ heard.guid = pendingAbandoned
       /\ \/ pc["pipeline"] = "apply" /\ evt.name = "MatchDestroyed"
          \/ pc["pipeline"] = "process" /\ ~cur.active
  /\ \A g \in Goroutines : batch[g].abandoned # NoGuid =>
       /\ heard.open /\ heard.guid = batch[g].abandoned
       /\ pc[g] \in {"state", "abandoned"} /\ ~cur.active

Separately ==
  /\ Exclusive /\ EmitHasOwner /\ FrameAgrees /\ NothingWhenInactive
  /\ StartsInOrder /\ HeardIsLast /\ AbandonedIsOpen

WireInv == StateInv /\ WireTypeOK /\ PendingIsCur /\ (~overlap => Separately)

-----------------------------------------------------------------------------
(***************************************************************************)
(* The effects of the sections under the lock, as far as the frames depend *)
(* on them.                                                                *)
(***************************************************************************)

\* A section under the lock may stage the start of the match it moves into.
StagesStart ==
  /\ lastStarted' # lastStarted /\ lastStarted' # NoGuid
  /\ pendingStarted' = lastStarted'
  /\ emit' = TRUE
  /\ Opens(cur', lastStarted')

\* transitionTo to an active state stages a start or leaves the announced
\* match alone; to "none", it forgets it.
LEMMA TransitionToEffect ==
  ASSUME LockedTypeOK, PendingIsCur, NEW phase \in Phases, NEW guid \in MaybeGuid,
         NEW active \in BOOLEAN, phase = "none" <=> ~active,
         TransitionTo(phase, guid, active)
  PROVE  /\ PendingIsCur'
         /\ cur'.phase = phase /\ cur'.active = active
         /\ emit' = (emit \/ cur' # cur)
         /\ pendingAbandoned' = pendingAbandoned
         /\ ~active => /\ cur'.guid = NoGuid /\ lastStarted' = NoGuid
                       /\ pendingStarted' = pendingStarted
         /\ active => StagesStart \/ UNCHANGED <<lastStarted, pendingStarted>>
BY GuidAssumption
   DEF LockedTypeOK, PendingIsCur, TransitionTo, Snapshots, MaybeGuid, Phases,
       Starts, LiveIsh, StagesStart, Opens

\* transitionIf announces nothing.
LEMMA TransitionIfEffect ==
  ASSUME LockedTypeOK, PendingIsCur, NEW phase \in Phases, NEW allowed,
         TransitionIf(phase, allowed)
  PROVE  /\ PendingIsCur'
         /\ cur'.active = cur.active /\ cur'.guid = cur.guid
         /\ emit' = (emit \/ cur' # cur)
         /\ cur.phase \notin allowed => cur' = cur
         /\ UNCHANGED <<lastStarted, pendingStarted, pendingAbandoned>>
BY DEF LockedTypeOK, PendingIsCur, TransitionIf, Snapshots

\* The backfill keeps phase and flag, and stages a start or leaves the
\* announced match and the staged frame alone.
LEMMA BackfillEffect ==
  ASSUME LockedTypeOK, PendingIsCur, cur.active, NEW guid \in MaybeGuid, Backfill(guid)
  PROVE  /\ PendingIsCur'
         /\ SameStory(cur', cur)
         /\ pendingAbandoned' = pendingAbandoned
         /\ StagesStart \/ UNCHANGED <<lastStarted, pendingStarted, emit>>
BY GuidAssumption
   DEF LockedTypeOK, PendingIsCur, Backfill, locked, SameStory, Snapshots, MaybeGuid,
       Starts, StagesStart, Opens

\* While the pipeline is observing or idle and no timeout is being handled,
\* nothing is on its way to the bus.
LEMMA Quiet ==
  ASSUME WireInv, Separately, pc["pipeline"] \in Observing \cup {"idle"}, ~Firing
  PROVE  /\ ~Underway /\ pendingStarted = NoGuid
         /\ \A g \in Goroutines : /\ pc[g] \notin Sending
                                  /\ batch[g].started = NoGuid
                                  /\ batch[g].abandoned = NoGuid
BY DEF WireInv, Separately, StartsInOrder, AbandonedIsOpen, Underway, Firing,
       Sending, Observing, Goroutines, TypeOK, StateInv

-----------------------------------------------------------------------------
(***************************************************************************)
(* One lemma per kind of step: without overlap, it keeps Separately.       *)
(***************************************************************************)
LockedStep == UNCHANGED <<batch, frame, heard, overlap>>

\* A replay edge moves the phase of an active state.
LEMMA EdgeStep ==
  ASSUME WireInv, Separately, ReplayEdge, LockedStep
  PROVE  Separately'
<1>1. LockedTypeOK /\ PendingIsCur /\ TypeOK
  BY DEF WireInv, StateInv, TypeOK, LockedTypeOK
<1>2. /\ cur'.active = cur.active /\ cur'.guid = cur.guid
      /\ emit' = (emit \/ cur' # cur)
      /\ UNCHANGED <<lastStarted, pendingStarted, pendingAbandoned>>
  BY <1>1, TransitionIfEffect DEF ReplayEdge, Phases
<1>3. ~cur.active => cur' = cur
  <2>1. ~cur.active => cur.phase = "none"
    BY DEF WireInv, StateInv, NoneIffInactive
  <2>2. "none" \notin Replayable /\ "none" \notin {"replay"}
    BY DEF Replayable
  <2> QED BY <1>1, <2>1, <2>2, TransitionIfEffect DEF ReplayEdge, Phases
<1>4. ~Firing /\ pc["pipeline"] = "edge"
  BY DEF ReplayEdge, Separately, Exclusive
<1>5. /\ ~Underway /\ pendingStarted = NoGuid
      /\ \A g \in Goroutines : /\ pc[g] \notin Sending
                               /\ batch[g].started = NoGuid
                               /\ batch[g].abandoned = NoGuid
  BY <1>4, Quiet DEF Observing
<1>6. pc' = [pc EXCEPT !["pipeline"] = "load"]
  BY DEF ReplayEdge, Goto
<1>7. Exclusive'
  BY <1>1, <1>4, <1>6 DEF Exclusive, Firing, TypeOK, Goroutines
<1>8. EmitHasOwner'
  BY <1>1, <1>2, <1>3, <1>4, <1>6 DEF Separately, EmitHasOwner, TypeOK, Goroutines, Observing
<1>9. FrameAgrees'
  <2>1. \A g \in Goroutines : pc'[g] # "state"
    BY <1>1, <1>5, <1>6 DEF TypeOK, Goroutines, Sending
  <2>2. ~emit' => SameStory(frame.snap, cur')
    BY <1>2, <1>5 DEF Separately, FrameAgrees, Sending
  <2> QED BY <2>1, <2>2 DEF FrameAgrees, LockedStep
<1>10. NothingWhenInactive'
  BY <1>1, <1>2, <1>6 DEF Separately, NothingWhenInactive, TypeOK, Goroutines
<1>11. StartsInOrder'
  BY <1>2, <1>5 DEF StartsInOrder, LockedStep
<1>12. HeardIsLast'
  BY <1>2, <1>5 DEF Separately, HeardIsLast, Underway, LockedStep
<1>13. AbandonedIsOpen'
  BY <1>2, <1>4, <1>5 DEF Separately, AbandonedIsOpen, LockedStep
<1> QED BY <1>7, <1>8, <1>9, <1>10, <1>11, <1>12, <1>13 DEF Separately

\* The branch the pipeline takes depends on the active flag, which nobody
\* else changes before the branch is over.
LEMMA LoadStep ==
  ASSUME WireInv, Separately, LoadActive, LockedStep
  PROVE  Separately'
<1>1. TypeOK /\ ~Firing /\ pc["pipeline"] = "load"
  BY DEF LoadActive, Separately, Exclusive, WireInv, StateInv
<1>2. pc' = [pc EXCEPT !["pipeline"] = IF cur.active THEN "backfill" ELSE "apply"]
  BY DEF LoadActive, Goto
<1>3. \A g \in Goroutines : pc[g] \notin Sending
  BY <1>1, Quiet DEF Observing
<1>4. \A g \in Goroutines : pc'[g] \notin Sending
  BY <1>1, <1>2, <1>3 DEF TypeOK, Goroutines, Sending
<1>5. (Exclusive /\ EmitHasOwner /\ NothingWhenInactive)'
  BY <1>1, <1>2 DEF LoadActive, locked, Separately, Exclusive, EmitHasOwner,
     NothingWhenInactive, Firing, TypeOK, Goroutines, Observing
<1>6. FrameAgrees'
  BY <1>3, <1>4 DEF LoadActive, locked, LockedStep, Separately, FrameAgrees, Sending
<1>7. (StartsInOrder /\ HeardIsLast /\ AbandonedIsOpen)'
  BY <1>1, Quiet DEF LoadActive, locked, LockedStep, Separately, StartsInOrder,
     HeardIsLast, AbandonedIsOpen, Underway, Observing
<1> QED BY <1>5, <1>6, <1>7 DEF Separately

\* A stage of "process" is reached with everything told, or with emit set.
LEMMA StagedStep ==
  ASSUME WireInv, Separately, LockedStep, TypeOK',
         pc["pipeline"] \in {"backfill", "apply"},
         pc' = [pc EXCEPT !["pipeline"] = "process"],
         emit => emit', ~emit' => SameStory(cur', cur),
         ~cur'.active => cur'.guid = NoGuid /\ lastStarted' = NoGuid,
         pendingAbandoned' = pendingAbandoned,
         pendingAbandoned # NoGuid => ~cur'.active,
         \/ StagesStart
         \/ /\ pendingStarted' = pendingStarted
            /\ lastStarted' = IF cur'.active THEN lastStarted ELSE NoGuid
  PROVE  Separately'
<1>1. TypeOK /\ ~Firing /\ pc["pipeline"] \in Observing \cup {"idle"}
  BY DEF Separately, Exclusive, WireInv, StateInv, Observing
<1>2. /\ ~Underway /\ pendingStarted = NoGuid
      /\ \A g \in Goroutines : /\ pc[g] \notin Sending
                               /\ batch[g].started = NoGuid
                               /\ batch[g].abandoned = NoGuid
  BY <1>1, Quiet
<1>3. \A g \in Goroutines : pc'[g] \notin Sending
  BY <1>1, <1>2 DEF TypeOK, Goroutines, Sending
<1>4. pc'["pipeline"] = "process" /\ ~Firing'
  BY <1>1 DEF TypeOK, Goroutines, Firing
<1>5. (Exclusive /\ EmitHasOwner /\ NothingWhenInactive)'
  BY <1>4 DEF Exclusive, EmitHasOwner, NothingWhenInactive, Observing
<1>6. FrameAgrees'
  BY <1>2, <1>3 DEF LockedStep, Separately, FrameAgrees, Sending, SameStory
<1>7. StartsInOrder'
  BY <1>2, <1>4 DEF StartsInOrder, StagesStart, LockedStep
<1>8. HeardIsLast'
  <2>1. ~frame'.snap.active => heard'.torn
    BY DEF Separately, HeardIsLast, LockedStep
  <2>2. ~cur.active /\ ~emit => heard.torn
    BY <1>2 DEF Separately, HeardIsLast, FrameAgrees, Sending, SameStory
  <2>3. emit /\ ~cur.active => FALSE
    BY DEF Separately, EmitHasOwner, Observing
  <2>4. lastStarted = NoGuid => heard.torn
    BY <2>2, <2>3 DEF Separately, HeardIsLast
  <2>5. lastStarted # NoGuid => heard.guid = lastStarted /\ heard.open
    BY <1>2 DEF Separately, HeardIsLast
  <2>6. CASE StagesStart
    <3>1. Underway'
      BY <2>6 DEF StagesStart, Underway
    <3>2. heard'.torn \/ heard'.guid # lastStarted'
      BY <2>4, <2>5, <2>6 DEF StagesStart, LockedStep
    <3> QED BY <2>1, <2>6, <3>1, <3>2 DEF StagesStart, HeardIsLast
  <2>7. CASE /\ pendingStarted' = pendingStarted
             /\ lastStarted' = IF cur'.active THEN lastStarted ELSE NoGuid
    <3>1. ~Underway'
      BY <1>2, <2>7 DEF Underway, LockedStep
    <3> QED BY <2>1, <2>4, <2>5, <2>7, <3>1 DEF HeardIsLast, LockedStep
  <2> QED BY <2>6, <2>7
<1>9. AbandonedIsOpen'
  BY <1>2, <1>4 DEF Separately, AbandonedIsOpen, LockedStep
<1> QED BY <1>5, <1>6, <1>7, <1>8, <1>9 DEF Separately

\* The backfill ends Observe.
LEMMA BackfillStep ==
  ASSUME WireInv, Separately, BackfillGuid, LockedStep, TypeOK'
  PROVE  Separately'
<1>1. LockedTypeOK /\ PendingIsCur /\ cur.active /\ evt.guid \in MaybeGuid
  BY DEF BackfillGuid, WireInv, StateInv, TypeOK, LockedTypeOK, Events, Separately,
         NothingWhenInactive
<1>2. /\ SameStory(cur', cur)
      /\ pendingAbandoned' = pendingAbandoned
      /\ StagesStart \/ UNCHANGED <<lastStarted, pendingStarted, emit>>
  BY <1>1, BackfillEffect DEF BackfillGuid
<1>3. pendingAbandoned = NoGuid
  BY DEF BackfillGuid, Separately, AbandonedIsOpen
<1>4. cur'.active
  BY <1>1, <1>2 DEF SameStory
<1>5. emit => emit'
  BY <1>2 DEF StagesStart
<1>6. \/ StagesStart
      \/ /\ pendingStarted' = pendingStarted
         /\ lastStarted' = IF cur'.active THEN lastStarted ELSE NoGuid
  BY <1>2, <1>4
<1>7. pc["pipeline"] = "backfill" /\ pc' = [pc EXCEPT !["pipeline"] = "process"]
  BY DEF BackfillGuid, Goto
<1> QED BY <1>2, <1>3, <1>4, <1>5, <1>6, <1>7, StagedStep

\* The transition ends Observe.
LEMMA ApplyStep ==
  ASSUME WireInv, Separately, Apply, LockedStep, TypeOK'
  PROVE  Separately'
<1> DEFINE active == evt.name \notin Teardowns
           phase == IF evt.name = "UpdateState" THEN "live" ELSE PhaseAfter[evt.name]
<1>1. LockedTypeOK /\ PendingIsCur /\ evt.guid \in MaybeGuid
  BY DEF WireInv, StateInv, TypeOK, LockedTypeOK, Events
<1>2. evt.name \in Lifecycle \cup {"UpdateState"}
  BY DEF Apply, WireInv, StateInv, AppliesEvent
<1>3. /\ phase \in Phases /\ active \in BOOLEAN
      /\ phase = "none" <=> ~active
  BY <1>2, PhaseAfterFacts DEF Phases, Teardowns
<1>4. TransitionTo(phase, evt.guid, active)
  BY DEF Apply, Teardowns
<1>5. evt.name = "MatchDestroyed" => ~active
  BY DEF Teardowns
<1> HIDE DEF active, phase
<1>6. /\ cur'.phase = phase /\ cur'.active = active
      /\ emit' = (emit \/ cur' # cur)
      /\ pendingAbandoned' = pendingAbandoned
      /\ ~active => /\ cur'.guid = NoGuid /\ lastStarted' = NoGuid
                    /\ pendingStarted' = pendingStarted
      /\ active => StagesStart \/ UNCHANGED <<lastStarted, pendingStarted>>
  BY <1>1, <1>3, <1>4, TransitionToEffect
<1>7. pendingAbandoned # NoGuid => ~active
  BY <1>5 DEF Apply, Separately, AbandonedIsOpen
<1>8. emit \in BOOLEAN
  BY DEF WireInv, StateInv, TypeOK
<1>9. /\ emit => emit'
      /\ ~emit' => SameStory(cur', cur)
      /\ ~cur'.active => cur'.guid = NoGuid /\ lastStarted' = NoGuid
      /\ pendingAbandoned # NoGuid => ~cur'.active
  BY <1>6, <1>7, <1>8 DEF SameStory
<1>10. \/ StagesStart
       \/ /\ pendingStarted' = pendingStarted
          /\ lastStarted' = IF cur'.active THEN lastStarted ELSE NoGuid
  BY <1>3, <1>6
<1>11. pc["pipeline"] = "apply" /\ pc' = [pc EXCEPT !["pipeline"] = "process"]
  BY DEF Apply, Goto
<1> QED BY <1>6, <1>9, <1>10, <1>11, StagedStep

\* An event arrives.  If it arrives while a timeout is handled, that overlaps.
LEMMA ObserveStep ==
  ASSUME WireInv, Separately, Observe, ~Firing, TypeOK',
         heard' = [heard EXCEPT !.over = @ \/ evt'.name \in Teardowns],
         UNCHANGED frame
  PROVE  Separately'
<1>1. /\ TypeOK /\ pc["pipeline"] = "idle" /\ UNCHANGED batch
      /\ cur' = cur /\ UNCHANGED <<lastStarted, pendingStarted>>
      /\ \E label \in Observing \cup {"process"} : pc' = [pc EXCEPT !["pipeline"] = label]
  BY DEF Observe, ObserveUpdate, ObserveLifecycle, ObserveOther, Receive, Goto, locked,
         StampEnded, ArmAbandoned, WireInv, StateInv, Observing
<1>2. heard'.torn = heard.torn /\ heard'.open = heard.open /\ heard'.guid = heard.guid
  BY DEF WireInv, WireTypeOK
<1>3. /\ ~Underway /\ pendingStarted = NoGuid
      /\ \A g \in Goroutines : /\ pc[g] \notin Sending
                               /\ batch[g].started = NoGuid
                               /\ batch[g].abandoned = NoGuid
  BY <1>1, Quiet
<1>4. /\ ~Firing' /\ pc'["pipeline"] \in Observing \cup {"process"}
      /\ \A g \in Goroutines : pc'[g] \notin Sending
  BY <1>1, <1>3 DEF TypeOK, Goroutines, Firing, Sending, Observing
<1>5. ~emit /\ pendingAbandoned = NoGuid
  BY <1>1 DEF Separately, EmitHasOwner, AbandonedIsOpen, Firing, Observing
<1>6. \/ emit' = emit /\ pendingAbandoned' = pendingAbandoned
      \/ /\ emit' /\ cur.guid # NoGuid /\ lastStarted = cur.guid
         /\ pendingAbandoned' = cur.guid
         /\ pc'["pipeline"] = "apply" /\ evt'.name = "MatchDestroyed"
  <2>1. CASE \E guid \in MaybeGuid, replay \in BOOLEAN, size \in Rosters :
               ObserveUpdate(guid, replay, size)
    BY <2>1 DEF ObserveUpdate, locked
  <2>2. CASE ObserveOther
    BY <2>2 DEF ObserveOther, locked
  <2>3. ASSUME NEW name \in Lifecycle, NEW guid \in MaybeGuid, ObserveLifecycle(name, guid)
        PROVE  <1>6!1 \/ <1>6!2
    <3>1. CASE name = "MatchDestroyed"
      BY <1>1, <2>3, <3>1 DEF ObserveLifecycle, ArmAbandoned, Receive, Event, Goto, TypeOK,
         Goroutines
    <3>2. CASE name # "MatchDestroyed"
      BY <2>3, <3>2 DEF ObserveLifecycle, StampEnded, locked
    <3> QED BY <3>1, <3>2
  <2> QED BY <2>1, <2>2, <2>3 DEF Observe
<1>7. cur.guid # NoGuid => cur.active
  BY DEF Separately, NothingWhenInactive
<1>8. Exclusive'
  BY <1>4 DEF Exclusive
<1>9. EmitHasOwner'
  BY <1>1, <1>4, <1>5, <1>6, <1>7 DEF EmitHasOwner
<1>10. FrameAgrees'
  BY <1>1, <1>3, <1>4, <1>5 DEF Separately, FrameAgrees, Sending
<1>11. NothingWhenInactive'
  <2>1. pc'["pipeline"] # "backfill"
    BY <1>1 DEF Observe, ObserveUpdate, ObserveLifecycle, ObserveOther, Goto, TypeOK,
                Goroutines
  <2> QED BY <1>1, <2>1 DEF Separately, NothingWhenInactive
<1>12. StartsInOrder'
  BY <1>1, <1>3 DEF StartsInOrder
<1>13. HeardIsLast'
  BY <1>1, <1>2, <1>3 DEF Separately, HeardIsLast, Underway
<1>14. AbandonedIsOpen'
  BY <1>1, <1>2, <1>3, <1>5, <1>6 DEF Separately, AbandonedIsOpen, HeardIsLast
<1> QED BY <1>8, <1>9, <1>10, <1>11, <1>12, <1>13, <1>14 DEF Separately

\* The timeout's transition, with the pipeline idle.
LEMMA FireStep ==
  ASSUME WireInv, Separately, Fire, pc["pipeline"] = "idle", UNCHANGED <<frame, heard>>
  PROVE  Separately'
<1>1. LockedTypeOK /\ PendingIsCur /\ TypeOK /\ ~Firing
  BY DEF WireInv, StateInv, TypeOK, LockedTypeOK, Firing, Fire
<1>2. /\ cur'.phase = "none" /\ cur'.active = FALSE
      /\ emit' = (emit \/ cur' # cur)
      /\ pendingAbandoned' = pendingAbandoned
      /\ cur'.guid = NoGuid /\ lastStarted' = NoGuid
      /\ pendingStarted' = pendingStarted
  BY <1>1, TransitionToEffect DEF Fire, Phases, MaybeGuid
<1>3. /\ ~Underway /\ pendingStarted = NoGuid
      /\ \A g \in Goroutines : /\ pc[g] \notin Sending
                               /\ batch[g].started = NoGuid
                               /\ batch[g].abandoned = NoGuid
  BY <1>1, Quiet
<1>4. ~emit /\ pendingAbandoned = NoGuid
  BY <1>1 DEF Separately, EmitHasOwner, AbandonedIsOpen, Firing, Observing
<1>5. /\ UNCHANGED batch /\ pc'["pipeline"] = "idle" /\ pc'["watchdog"] = "process"
      /\ \A g \in Goroutines : pc'[g] \notin Sending
  BY <1>1, <1>3 DEF Fire, Goto, TypeOK, Goroutines, Sending
<1>6. (Exclusive /\ EmitHasOwner /\ NothingWhenInactive)'
  BY <1>2, <1>5 DEF Exclusive, EmitHasOwner, NothingWhenInactive, Observing
<1>7. FrameAgrees'
  BY <1>2, <1>3, <1>4, <1>5 DEF Separately, FrameAgrees, Sending, SameStory
<1>8. (StartsInOrder /\ AbandonedIsOpen)'
  BY <1>2, <1>3, <1>4, <1>5 DEF StartsInOrder, AbandonedIsOpen
<1>9. HeardIsLast'
  BY <1>2, <1>3, <1>5 DEF Separately, HeardIsLast, Underway
<1> QED BY <1>6, <1>7, <1>8, <1>9 DEF Separately

\* When one goroutine is about to process or to send, the other does neither.
LEMMA Alone ==
  ASSUME WireInv, Separately, NEW g \in Goroutines, pc[g] \in Sending \cup {"process"}
  PROVE  \A h \in Goroutines \ {g} :
           /\ pc[h] \notin Sending \cup {"process"}
           /\ batch[h].started = NoGuid /\ batch[h].abandoned = NoGuid
BY DEF WireInv, StateInv, TypeOK, Separately, Exclusive, Firing, StartsInOrder,
       AbandonedIsOpen, Sending, Goroutines

\* Process takes what is staged and owes a frame that tells the present state.
LEMMA ProcessStep ==
  ASSUME WireInv, Separately, NEW g \in Goroutines, Process(g), UNCHANGED <<frame, heard>>
  PROVE  Separately'
<1>1. TypeOK /\ PendingIsCur /\ pc[g] = "process"
  BY DEF Process, WireInv, StateInv
<1>2. \A h \in Goroutines \ {g} :
        /\ pc[h] \notin Sending \cup {"process"}
        /\ batch[h].started = NoGuid /\ batch[h].abandoned = NoGuid
  BY <1>1, Alone
<1>3. batch[g].started = NoGuid /\ batch[g].abandoned = NoGuid
  BY <1>1 DEF Separately, StartsInOrder, AbandonedIsOpen, Sending
<1>4. \A h \in Goroutines \ {g} : pc'[h] = pc[h] /\ batch'[h] = batch[h]
  BY DEF Process, Goto, WireInv, StateInv, TypeOK
<1>5. pc["pipeline"] \notin Observing
  BY <1>1 DEF Separately, Exclusive, Firing, Goroutines, Observing
<1>6. Exclusive'
  BY <1>1 DEF Process, Goto, TypeOK, Separately, Exclusive, Firing, Goroutines
<1>7. CASE emit
  <2>1. /\ batch'[g].snap = cur /\ batch'[g].started = pendingStarted
        /\ batch'[g].abandoned = pendingAbandoned
        /\ emit' = FALSE /\ pendingStarted' = NoGuid /\ pendingAbandoned' = NoGuid
        /\ pc'[g] = "state"
        /\ UNCHANGED <<cur, lastStarted, frame, heard>>
    BY <1>1, <1>7 DEF Process, Goto, TypeOK, PendingIsCur
  <2>2. pendingAbandoned # NoGuid => ~cur.active
    BY <1>5 DEF Separately, AbandonedIsOpen, Observing
  <2>3. (EmitHasOwner /\ FrameAgrees)'
    BY <1>2, <1>4, <2>1 DEF EmitHasOwner, FrameAgrees, SameStory, Sending
  <2>4. NothingWhenInactive'
    BY <1>1, <2>1 DEF Process, Goto, TypeOK, Separately, NothingWhenInactive, Goroutines
  <2>5. StartsInOrder'
    BY <1>2, <1>4, <2>1 DEF Separately, StartsInOrder, Sending, Opens
  <2>6. HeardIsLast'
    <3>1. Underway' <=> Underway
      BY <1>2, <1>3, <1>4, <2>1 DEF Underway
    <3> QED BY <2>1, <3>1 DEF Separately, HeardIsLast
  <2>7. AbandonedIsOpen'
    BY <1>2, <1>4, <2>1, <2>2 DEF Separately, AbandonedIsOpen
  <2> QED BY <1>6, <2>3, <2>4, <2>5, <2>6, <2>7 DEF Separately
<1>8. CASE ~emit
  <2>1. /\ UNCHANGED <<batch, emit, pendingStarted, pendingAbandoned, cur, lastStarted>>
        /\ pc' = [pc EXCEPT ![g] = "idle"]
    BY <1>8 DEF Process, Goto
  <2>2. (EmitHasOwner /\ FrameAgrees /\ NothingWhenInactive)'
    BY <1>1, <1>8, <2>1 DEF TypeOK, Separately, EmitHasOwner, FrameAgrees,
       NothingWhenInactive, Goroutines
  <2>3. pendingStarted = NoGuid
    BY <1>8 DEF Separately, StartsInOrder
  <2>4. (StartsInOrder /\ HeardIsLast)'
    BY <1>2, <1>3, <2>1, <2>3 DEF Separately, StartsInOrder, HeardIsLast, Underway
  <2>5. pendingAbandoned = NoGuid
    BY <1>8 DEF Separately, AbandonedIsOpen
  <2>6. AbandonedIsOpen'
    BY <1>2, <1>3, <2>1, <2>5 DEF AbandonedIsOpen
  <2> QED BY <1>6, <2>2, <2>4, <2>6 DEF Separately
<1> QED BY <1>7, <1>8 DEF WireInv, StateInv, TypeOK

\* The frame goes out; a start or an abandonment underway now follows it.
LEMMA HearStateStep ==
  ASSUME WireInv, Separately, NEW g \in Goroutines, HearState(g)
  PROVE  Separately'
<1>1. TypeOK /\ WireTypeOK /\ pc[g] = "state"
  BY DEF HearState, BroadcastState, WireInv, StateInv
<1>2. \A h \in Goroutines \ {g} :
        /\ pc[h] \notin Sending \cup {"process"}
        /\ batch[h].started = NoGuid /\ batch[h].abandoned = NoGuid
  BY <1>1, Alone DEF Sending
<1>3. UNCHANGED <<cur, pending, emit, lastStarted, pendingStarted, pendingAbandoned, evt>>
  BY DEF HearState, BroadcastState, locked
<1>4. /\ batch' \in [Goroutines -> Batches]
      /\ \A h \in Goroutines : /\ batch'[h].started = batch[h].started
                               /\ batch'[h].abandoned = batch[h].abandoned
  <2> HIDE DEF Goroutines
  <2>1. NoBatch.snap \in Snapshots
    BY DEF NoBatch, Snapshots, Phases, MaybeGuid
  <2> QED BY <1>1, <2>1 DEF HearState, BroadcastState, TypeOK, Batches
<1>5. /\ \A h \in Goroutines \ {g} : pc'[h] = pc[h]
      /\ pc'[g] \in AfterState(g)
  BY <1>1 DEF HearState, BroadcastState, Goto, TypeOK
<1>6. /\ frame'.snap = batch[g].snap
      /\ heard'.torn = (heard.torn \/ ~batch[g].snap.active)
      /\ heard'.open = heard.open /\ heard'.guid = heard.guid
  BY <1>1 DEF HearState, WireTypeOK
<1>7. ~emit /\ SameStory(frame'.snap, cur)
  BY <1>1, <1>6 DEF Separately, FrameAgrees
<1>8. pc'[g] \in {"idle", "process", "abandoned", "started"}
  BY <1>5 DEF AfterState, AfterAbandoned, Rest
<1>9. (Exclusive /\ NothingWhenInactive)'
  BY <1>1, <1>3, <1>5, <1>8 DEF Separately, Exclusive, NothingWhenInactive, Firing,
     Goroutines
<1>10. (EmitHasOwner /\ FrameAgrees)'
  BY <1>2, <1>3, <1>5, <1>7, <1>8 DEF EmitHasOwner, FrameAgrees, Sending
<1>11. StartsInOrder'
  <2>1. batch[g].started # NoGuid => pc'[g] \in {"abandoned", "started"}
    BY <1>5 DEF AfterState, AfterAbandoned, Rest
  <2>2. pendingStarted = NoGuid
    BY <1>7 DEF Separately, StartsInOrder
  <2> QED BY <1>1, <1>2, <1>3, <1>4, <1>6, <2>1, <2>2 DEF Separately, StartsInOrder,
          Sending, Opens
<1>12. HeardIsLast'
  <2>1. Underway' <=> Underway
    BY <1>3, <1>4 DEF Underway
  <2>2. lastStarted = NoGuid /\ cur.active => heard.torn
    BY DEF Separately, HeardIsLast
  <2>3. ~frame'.snap.active => heard'.torn
    BY <1>6
  <2> QED BY <1>3, <1>6, <2>1, <2>3 DEF Separately, HeardIsLast
<1>13. AbandonedIsOpen'
  <2>1. batch[g].abandoned # NoGuid => pc'[g] = "abandoned"
    BY <1>5 DEF AfterState
  <2>2. pendingAbandoned = NoGuid
    BY <1>7 DEF Separately, AbandonedIsOpen
  <2> QED BY <1>2, <1>3, <1>4, <1>6, <2>1, <2>2 DEF Separately, AbandonedIsOpen
<1> QED BY <1>9, <1>10, <1>11, <1>12, <1>13 DEF Separately

\* An abandonment goes out: no match is active, so none is announced.
LEMMA HearAbandonedStep ==
  ASSUME WireInv, Separately, NEW g \in Goroutines, HearAbandoned(g)
  PROVE  Separately'
<1>1. TypeOK /\ WireTypeOK /\ pc[g] = "abandoned"
  BY DEF HearAbandoned, BroadcastAbandoned, WireInv, StateInv
<1>2. \A h \in Goroutines \ {g} :
        /\ pc[h] \notin Sending \cup {"process"}
        /\ batch[h].started = NoGuid /\ batch[h].abandoned = NoGuid
  BY <1>1, Alone DEF Sending
<1>3. /\ UNCHANGED <<cur, pending, emit, lastStarted, pendingStarted, pendingAbandoned, evt>>
      /\ UNCHANGED frame
  BY DEF HearAbandoned, BroadcastAbandoned, locked
<1>4. \A h \in Goroutines :
        /\ batch'[h].started = batch[h].started
        /\ batch'[h].abandoned = IF h = g THEN NoGuid ELSE batch[h].abandoned
  <2> HIDE DEF Goroutines
  <2> QED BY <1>1 DEF HearAbandoned, BroadcastAbandoned, TypeOK, Batches
<1>5. /\ \A h \in Goroutines \ {g} : pc'[h] = pc[h]
      /\ pc'[g] \in AfterAbandoned(g)
  BY <1>1 DEF HearAbandoned, BroadcastAbandoned, Goto, TypeOK
<1>6. heard'.torn = heard.torn /\ heard'.guid = heard.guid
  BY <1>1 DEF HearAbandoned, WireTypeOK
<1>7. ~emit
  BY <1>1 DEF Separately, EmitHasOwner, Exclusive, Firing, Goroutines, Observing
<1>8. pc'[g] \in {"idle", "process", "started"}
  BY <1>5 DEF AfterAbandoned, Rest
<1>9. (Exclusive /\ NothingWhenInactive)'
  BY <1>1, <1>3, <1>5, <1>8 DEF Separately, Exclusive, NothingWhenInactive, Firing,
     Goroutines
<1>10. (EmitHasOwner /\ FrameAgrees)'
  BY <1>1, <1>2, <1>3, <1>5, <1>7, <1>8 DEF Separately, EmitHasOwner, FrameAgrees, Sending
<1>11. StartsInOrder'
  <2>1. batch[g].started # NoGuid => pc'[g] = "started"
    BY <1>5 DEF AfterAbandoned, Rest
  <2>2. pendingStarted = NoGuid
    BY <1>7 DEF Separately, StartsInOrder
  <2> QED BY <1>1, <1>2, <1>3, <1>4, <2>1, <2>2 DEF Separately, StartsInOrder, Sending,
          Opens
<1>12. HeardIsLast'
  <2>1. Underway' <=> Underway
    BY <1>3, <1>4 DEF Underway
  <2>2. lastStarted = NoGuid
    BY <1>1 DEF Separately, AbandonedIsOpen, NothingWhenInactive, WireInv, StateInv,
       FramesDue
  <2> QED BY <1>3, <1>6, <2>1, <2>2 DEF Separately, HeardIsLast
<1>13. AbandonedIsOpen'
  <2>1. pendingAbandoned = NoGuid
    BY <1>7 DEF Separately, AbandonedIsOpen
  <2> QED BY <1>2, <1>3, <1>4, <2>1 DEF AbandonedIsOpen
<1> QED BY <1>9, <1>10, <1>11, <1>12, <1>13 DEF Separately

\* A start goes out: the match is the last one heard, and it is open.
LEMMA HearStartedStep ==
  ASSUME WireInv, Separately, NEW g \in Goroutines, HearStarted(g)
  PROVE  Separately'
<1>1. TypeOK /\ WireTypeOK /\ pc[g] = "started"
  BY DEF HearStarted, BroadcastStarted, WireInv, StateInv
<1>2. \A h \in Goroutines \ {g} :
        /\ pc[h] \notin Sending \cup {"process"}
        /\ batch[h].started = NoGuid /\ batch[h].abandoned = NoGuid
  BY <1>1, Alone DEF Sending
<1>3. /\ UNCHANGED <<cur, pending, emit, lastStarted, pendingStarted, pendingAbandoned, evt>>
      /\ UNCHANGED frame
  BY DEF HearStarted, BroadcastStarted, locked
<1>4. \A h \in Goroutines :
        /\ batch'[h].started = IF h = g THEN NoGuid ELSE batch[h].started
        /\ batch'[h].abandoned = batch[h].abandoned
  <2> HIDE DEF Goroutines
  <2> QED BY <1>1 DEF HearStarted, BroadcastStarted, TypeOK, Batches
<1>5. /\ \A h \in Goroutines \ {g} : pc'[h] = pc[h]
      /\ pc'[g] \in {"idle", "process"}
  BY <1>1 DEF HearStarted, BroadcastStarted, Goto, Rest, TypeOK
<1>6. heard'.guid = batch[g].started /\ heard'.open
  BY DEF HearStarted
<1>7. ~emit
  BY <1>1 DEF Separately, EmitHasOwner, Exclusive, Firing, Goroutines, Observing
<1>8. /\ batch[g].started # NoGuid
      /\ lastStarted = batch[g].started
      /\ frame.snap.active
  BY <1>1 DEF Separately, StartsInOrder, Opens, WireInv, StateInv, FramesDue
<1>9. pendingStarted = NoGuid /\ pendingAbandoned = NoGuid
  BY <1>7 DEF Separately, StartsInOrder, AbandonedIsOpen
<1>10. (Exclusive /\ NothingWhenInactive)'
  BY <1>1, <1>3, <1>5 DEF Separately, Exclusive, NothingWhenInactive, Firing, Goroutines
<1>11. (EmitHasOwner /\ FrameAgrees)'
  BY <1>1, <1>2, <1>3, <1>5, <1>7 DEF Separately, EmitHasOwner, FrameAgrees, Sending
<1>12. (StartsInOrder /\ AbandonedIsOpen)'
  BY <1>1, <1>2, <1>3, <1>4, <1>5, <1>9 DEF Separately, StartsInOrder, AbandonedIsOpen
<1>13. HeardIsLast'
  <2>1. ~Underway'
    BY <1>2, <1>3, <1>4, <1>9 DEF Underway
  <2> QED BY <1>3, <1>6, <1>8, <2>1 DEF HeardIsLast
<1> QED BY <1>10, <1>11, <1>12, <1>13 DEF Separately

\* The watchdog looking, and time passing, disturb nothing.
LEMMA LookStep ==
  ASSUME WireInv, Separately, CheckActive \/ CheckTick \/ Elapse, UNCHANGED observer
  PROVE  Separately'
<1>1. TypeOK /\ UNCHANGED <<locked, batch, evt, observer>>
  BY DEF CheckActive, CheckTick, Elapse, WireInv, StateInv
<1>2. /\ pc'["pipeline"] = pc["pipeline"]
      /\ \/ pc'["watchdog"] = pc["watchdog"]
         \/ /\ pc["watchdog"] \in {"idle", "check"}
            /\ pc'["watchdog"] \in {"idle", "check", "fire"}
  BY <1>1 DEF CheckActive, CheckTick, Elapse, Goto, TypeOK, Goroutines
<1>3. (Exclusive /\ EmitHasOwner /\ FrameAgrees /\ NothingWhenInactive)'
  BY <1>1, <1>2 DEF locked, observer, Separately, Exclusive, Firing, EmitHasOwner,
     FrameAgrees, NothingWhenInactive, Goroutines
<1>4. (StartsInOrder /\ HeardIsLast)'
  BY <1>1, <1>2 DEF locked, observer, Separately, StartsInOrder, HeardIsLast, Underway,
     Goroutines, Sending
<1>5. AbandonedIsOpen'
  BY <1>1, <1>2 DEF locked, observer, Separately, AbandonedIsOpen, Goroutines
<1> QED BY <1>3, <1>4, <1>5 DEF Separately

-----------------------------------------------------------------------------
(***************************************************************************)
(* The invariant.                                                          *)
(***************************************************************************)

\* MatchWire only observes MatchState.
LEMMA WireIsState == [WireNext]_wireVars => [Next]_vars
<1>1. UNCHANGED wireVars => UNCHANGED vars
  BY DEF wireVars
<1>2. WireNext => Next
  BY DEF WireNext, Next, PipelineStep, WatchdogStep, Broadcasts, HearState,
         HearAbandoned, HearStarted, Goroutines
<1> QED BY <1>1, <1>2

\* Whatever is in cur is also in pending, whoever moved it.
LEMMA PendingStep == PendingIsCur /\ [Next]_vars => PendingIsCur'
<1> SUFFICES ASSUME PendingIsCur, [Next]_vars PROVE PendingIsCur'
    OBVIOUS
<1>1. ASSUME NEW phase, NEW guid, NEW active, TransitionTo(phase, guid, active)
      PROVE  PendingIsCur'
  BY <1>1 DEF TransitionTo, PendingIsCur
<1>2. ASSUME NEW phase, NEW allowed, TransitionIf(phase, allowed)
      PROVE  PendingIsCur'
  BY <1>2 DEF TransitionIf, PendingIsCur
<1>3. ASSUME NEW guid, Backfill(guid)
      PROVE  PendingIsCur'
  BY <1>3 DEF Backfill, locked, PendingIsCur
<1>4. CASE ReplayEdge
  BY <1>2, <1>4 DEF ReplayEdge
<1>5. CASE BackfillGuid
  BY <1>3, <1>5 DEF BackfillGuid
<1>6. CASE Apply \/ Fire
  BY <1>1, <1>6 DEF Apply, Fire
<1>7. CASE Observe
  BY <1>7 DEF Observe, ObserveUpdate, ObserveLifecycle, ObserveOther, StampEnded,
     ArmAbandoned, locked, PendingIsCur
<1>8. CASE LoadActive \/ CheckActive \/ CheckTick \/ Elapse
  BY <1>8 DEF LoadActive, CheckActive, CheckTick, Elapse, locked, PendingIsCur
<1>9. ASSUME NEW g \in Goroutines, Process(g) \/ Broadcasts(g)
      PROVE  PendingIsCur'
  BY <1>9 DEF Process, Broadcasts, BroadcastState, BroadcastAbandoned, BroadcastStarted,
     locked, PendingIsCur
<1>10. CASE UNCHANGED vars
  BY <1>10 DEF vars, locked, PendingIsCur
<1> QED
  BY <1>4, <1>5, <1>6, <1>7, <1>8, <1>9, <1>10
     DEF Next, PipelineStep, WatchdogStep, Goroutines

\* The observer's variables keep their types.
LEMMA WireTypeStep == WireInv /\ TypeOK' /\ [WireNext]_wireVars => WireTypeOK'
<1> SUFFICES ASSUME WireInv, TypeOK', [WireNext]_wireVars PROVE WireTypeOK'
    OBVIOUS
<1>1. TypeOK /\ WireTypeOK
  BY DEF WireInv, WireTypeOK
<1> DEFINE Heard == [guid : MaybeGuid, open : BOOLEAN, torn : BOOLEAN, over : BOOLEAN]
<1>2. \A g \in Goroutines : /\ batch[g].snap \in Snapshots /\ batch[g].snap.active \in BOOLEAN
                            /\ batch[g].freeplay \in BOOLEAN
                            /\ batch[g].started \in MaybeGuid
  <2> HIDE DEF Goroutines
  <2> QED BY <1>1 DEF TypeOK, Batches, Snapshots
<1>3. overlap' \in BOOLEAN
  BY <1>1 DEF WireTypeOK, WireNext, wireVars, observer, HearState, HearAbandoned, HearStarted
<1>4. frame' \in Frames
  BY <1>1, <1>2 DEF WireTypeOK, WireNext, wireVars, observer, HearState, HearAbandoned,
     HearStarted, Frames
<1>5. heard' \in Heard
  <2>1. CASE heard' = [heard EXCEPT !.over = @ \/ evt'.name \in Teardowns]
    BY <1>1, <2>1 DEF WireTypeOK
  <2>2. ASSUME NEW g \in Goroutines, HearState(g) PROVE heard' \in Heard
    BY <1>1, <1>2, <2>2 DEF WireTypeOK, HearState
  <2>3. ASSUME NEW g \in Goroutines, HearAbandoned(g) PROVE heard' \in Heard
    BY <1>1, <2>3 DEF WireTypeOK, HearAbandoned
  <2>4. ASSUME NEW g \in Goroutines, HearStarted(g) PROVE heard' \in Heard
    BY <1>2, <2>4 DEF HearStarted
  <2>5. CASE UNCHANGED heard
    BY <1>1, <2>5 DEF WireTypeOK
  <2> QED BY <2>1, <2>2, <2>3, <2>4, <2>5 DEF WireNext, wireVars, observer
<1> QED BY <1>3, <1>4, <1>5 DEF WireTypeOK

LEMMA WireInit1 == WireInit => WireInv
<1> SUFFICES ASSUME WireInit PROVE WireInv
    OBVIOUS
<1>1. StateInv
  BY StateInit DEF WireInit
<1>2. WireTypeOK
  BY <1>1 DEF WireInit, WireTypeOK, Frames, StateInv, TypeOK, MaybeGuid
<1>3. \A g \in Goroutines : pc[g] = "idle" /\ batch[g] = NoBatch
  BY DEF WireInit, Init
<1>4. PendingIsCur /\ Exclusive /\ EmitHasOwner /\ FrameAgrees /\ NothingWhenInactive
  BY <1>3 DEF WireInit, Init, PendingIsCur, Exclusive, Firing, EmitHasOwner, FrameAgrees,
     SameStory, NothingWhenInactive, Goroutines, Observing
<1>5. StartsInOrder /\ HeardIsLast /\ AbandonedIsOpen
  BY <1>3 DEF WireInit, Init, StartsInOrder, HeardIsLast, AbandonedIsOpen, Underway, NoBatch
<1> QED BY <1>1, <1>2, <1>4, <1>5 DEF WireInv, Separately

\* Every step of the two goroutines and of the observer keeps the invariant.
LEMMA WireStep == WireInv /\ [WireNext]_wireVars => WireInv'
<1> SUFFICES ASSUME WireInv, [WireNext]_wireVars PROVE WireInv'
    OBVIOUS
<1>1. StateInv' /\ PendingIsCur'
  BY WireIsState, StateStep, PendingStep DEF WireInv
<1>2. TypeOK' /\ WireTypeOK'
  BY <1>1, WireTypeStep DEF StateInv
<1>3. ASSUME ~overlap' PROVE Separately'
  <2>1. ~overlap
    BY <1>3 DEF WireNext, wireVars, observer, HearState, HearAbandoned, HearStarted
  <2>2. Separately
    BY <2>1 DEF WireInv
  <2>3. CASE Observe /\ overlap' = (overlap \/ Firing) /\ UNCHANGED frame
             /\ heard' = [heard EXCEPT !.over = @ \/ evt'.name \in Teardowns]
    BY <1>2, <1>3, <2>2, <2>3, ObserveStep
  <2>4. CASE Fire /\ overlap' = (overlap \/ pc["pipeline"] # "idle")
             /\ UNCHANGED <<frame, heard>>
    BY <1>3, <2>2, <2>4, FireStep
  <2>5. CASE (ReplayEdge \/ LoadActive \/ BackfillGuid \/ Apply) /\ UNCHANGED observer
    <3>1. LockedStep
      BY <2>5 DEF LockedStep, observer, ReplayEdge, LoadActive, BackfillGuid, Apply
    <3> QED BY <1>2, <2>2, <2>5, <3>1, EdgeStep, LoadStep, BackfillStep, ApplyStep
  <2>6. ASSUME NEW g \in Goroutines, Process(g), UNCHANGED observer
        PROVE  Separately'
    BY <2>2, <2>6, ProcessStep DEF observer
  <2>7. CASE (CheckActive \/ CheckTick \/ Elapse) /\ UNCHANGED observer
    BY <2>2, <2>7, LookStep
  <2>8. ASSUME NEW g \in Goroutines, HearState(g) \/ HearAbandoned(g) \/ HearStarted(g)
        PROVE  Separately'
    BY <2>2, <2>8, HearStateStep, HearAbandonedStep, HearStartedStep
  <2>9. CASE UNCHANGED wireVars
    BY <2>2, <2>9 DEF wireVars, vars, locked, flags, observer, Separately, Exclusive, Firing,
       EmitHasOwner, FrameAgrees, NothingWhenInactive, StartsInOrder, HeardIsLast,
       Underway, AbandonedIsOpen
  <2> QED BY <2>3, <2>4, <2>5, <2>6, <2>7, <2>8, <2>9 DEF WireNext, Goroutines
<1> QED BY <1>1, <1>2, <1>3 DEF WireInv

LEMMA WireInvariant == WireSpec => []WireInv
<1> QED BY WireInit1, WireStep, PTL DEF WireSpec

-----------------------------------------------------------------------------
\* The observer and the machine keep their types.
THEOREM WireTypeCorrect == WireSpec => []WireTypeOK
<1>1. WireInv => WireTypeOK BY DEF WireInv
<1> QED BY <1>1, WireInvariant, PTL

\* No transition is lost in the single pending slot: at rest, subscribers were
\* told the present phase and flag.
THEOREM SubscribersLearnTheState == WireSpec => []SubscribersAgree
<1>1. WireInv => SubscribersAgree
  <2> SUFFICES ASSUME WireInv, Resting, ~overlap
               PROVE  ~emit /\ SameStory(frame.snap, cur)
      BY DEF SubscribersAgree, SameStory
  <2>1. Separately
    BY DEF WireInv
  <2>2. ~emit
    BY <2>1 DEF Resting, Firing, Separately, EmitHasOwner, Observing
  <2>3. \A g \in Goroutines : pc[g] # "state"
    BY DEF Resting, Firing, Goroutines
  <2> QED BY <2>1, <2>2, <2>3 DEF Separately, FrameAgrees
<1> QED BY <1>1, WireInvariant, PTL

\* A start goes out when subscribers are in a live phase of that match.
THEOREM StartsFollowFrames == WireSpec => StartFollowsItsFrame
<1>1. WireInv /\ [WireNext]_wireVars =>
        [\A g \in Goroutines : HearStarted(g) /\ ~overlap =>
           frame.snap.phase \in LiveIsh /\ frame.snap.guid = batch[g].started]_wireVars
  <2> SUFFICES ASSUME WireInv, NEW g \in Goroutines, HearStarted(g), ~overlap
               PROVE  frame.snap.phase \in LiveIsh /\ frame.snap.guid = batch[g].started
      OBVIOUS
  <2>1. batch[g].started # NoGuid /\ pc[g] = "started"
    BY DEF HearStarted, BroadcastStarted, WireInv, StateInv, FramesDue
  <2> QED BY <2>1 DEF WireInv, Separately, StartsInOrder, Opens
<1> QED BY <1>1, WireInvariant, PTL DEF WireSpec, StartFollowsItsFrame

\* A match is announced a second time only after it was torn down.
THEOREM StartsOnce == WireSpec => NoSecondStart
<1>1. WireInv /\ [WireNext]_wireVars =>
        [\A g \in Goroutines : HearStarted(g) /\ ~overlap =>
           heard.guid # batch[g].started \/ heard.torn]_wireVars
  <2> SUFFICES ASSUME WireInv, NEW g \in Goroutines, HearStarted(g), ~overlap
               PROVE  heard.guid # batch[g].started \/ heard.torn
      OBVIOUS
  <2>1. batch[g].started # NoGuid
    BY DEF HearStarted, BroadcastStarted, WireInv, StateInv, FramesDue
  <2> QED BY <2>1 DEF WireInv, Separately, StartsInOrder, HeardIsLast, Underway
<1> QED BY <1>1, WireInvariant, PTL DEF WireSpec, NoSecondStart

\* An abandonment names the match that is open.
THEOREM AbandonsOpenMatch == WireSpec => AbandonsTheOpenMatch
<1>1. WireInv /\ [WireNext]_wireVars =>
        [\A g \in Goroutines : HearAbandoned(g) /\ ~overlap =>
           heard.open /\ heard.guid = batch[g].abandoned]_wireVars
  <2> SUFFICES ASSUME WireInv, NEW g \in Goroutines, HearAbandoned(g), ~overlap
               PROVE  heard.open /\ heard.guid = batch[g].abandoned
      OBVIOUS
  <2>1. batch[g].abandoned # NoGuid
    BY DEF HearAbandoned, BroadcastAbandoned, WireInv, StateInv, FramesDue
  <2> QED BY <2>1 DEF WireInv, Separately, AbandonedIsOpen
<1> QED BY <1>1, WireInvariant, PTL DEF WireSpec, AbandonsTheOpenMatch
=============================================================================
