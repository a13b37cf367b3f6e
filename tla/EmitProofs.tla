----------------------------- MODULE EmitProofs -----------------------------
(***************************************************************************)
(* Theorems of Emit about what its subscribers hear, for any players,      *)
(* inputs and window lengths, and any size of the correlation buffer.      *)
(***************************************************************************)
EXTENDS EmitBooks, FiniteSetTheorems, SequenceTheorems, WellFoundedInduction, TLAPS

\* The names the observer listens to.
Heeded == {"_RosterChanged", "_PlayerJoined", "_PlayerLeft", "_GoalScored", "_FlipReset",
           "_HatTrick", "_GoalReplayStarted", "_BoostPickup", "_BoostConsumed", "_DemoChain"}

\* The variables other than the buffer keep their types.
Typed ==
  /\ roster.members \subseteq {[id |-> p, name |-> p] : p \in Players}
  /\ tick = Absent \/ IsSnapshot(tick)
  /\ prevTick = Absent \/ IsSnapshot(prevTick)
  /\ Absent \in {prevTick, tick} => prevTick = Absent
  /\ DOMAIN streaks \subseteq Players
  /\ suppress \subseteq Players
  /\ flipArmed \subseteq Players
  /\ realGoals \in [Players -> Nat]
  /\ flipCount \in [Players -> Nat]
  /\ fastest \in Nat
  /\ now \in Nat

-----------------------------------------------------------------------------
(***************************************************************************)
(* Ids and inputs                                                          *)
(***************************************************************************)
\* Every player has an id of its own, bots included.
LEMMA OwnId == ASSUME NEW p PROVE IdOf(p) = p
  BY DEF IdOf, CanonicalizeBotID, WirePrimaryId

\* A snapshot indexed by id is the snapshot.
LEMMA Indexed ==
  ASSUME NEW t
  PROVE  /\ DOMAIN ById(t) = DOMAIN t.players
         /\ \A p \in DOMAIN t.players : ById(t)[p] = t.players[p]
  BY OwnId DEF ById

\* What the inputs of one kind are like.
LEMMA GoodInput ==
  ASSUME NEW in \in Inputs
  PROVE  /\ in.event = "UpdateState" => IsSnapshot(in.tick)
         /\ in.event = "BallHit" => in.who \in Players \cup {Absent} /\ in.speed \in Nat
         /\ in.event = "GoalScored" =>
              /\ in.who \in Players \cup {Absent}
              /\ in.touch \in Players \cup {Absent}
              /\ in.speed \in Nat
         /\ in.event = "StatfeedEvent" => {in.who, in.victim} \subseteq Players \cup {Absent}
  BY InputsAssumption

-----------------------------------------------------------------------------
(***************************************************************************)
(* Types                                                                   *)
(***************************************************************************)
\* Those the diff of two snapshots finds are on both.
LEMMA WhereOnBoth ==
  ASSUME NEW a, NEW b, IsSnapshot(a)
  PROVE  /\ Both(a, b) \subseteq Players
         /\ Where(a, b, Rises) \subseteq Players
         /\ Where(a, b, Respawns) \subseteq Players
         /\ Where(a, b, Lands) \subseteq Players
  BY Indexed DEF Both, Where, IsSnapshot

LEMMA TypedInit == Init => Typed
  BY DEF Init, TicksInit, ScoringInit, Typed, NoRoster, NoGoals

LEMMA TypedUpdate ==
  ASSUME Typed, NEW t, NEW phase, IsSnapshot(t), UpdateState(t, phase)
  PROVE  Typed'
<1>1. IsSnapshot(Latest(t)) \/ Latest(t) = Absent
  BY DEF Latest, Typed
<1>2. IsSnapshot(Previous(t)) \/ Previous(t) = Absent
  BY DEF Previous, Typed
<1>3. prevTick' = Previous(t) /\ tick' = Latest(t)
  BY DEF UpdateState, ObserveTick
<1>4. roster'.members \subseteq {[id |-> p, name |-> p] : p \in Players}
  <2>1. roster' = RosterOf(t)
    BY DEF UpdateState, ObserveRoster
  <2>2. roster'.members = {[id |-> p, name |-> p] : p \in DOMAIN t.players}
    BY <2>1, OwnId DEF RosterOf
  <2>3. QED BY <2>2 DEF IsSnapshot
<1>5. Absent \in {prevTick', tick'} => prevTick' = Absent
  BY <1>3 DEF Previous, Latest, Typed, IsSnapshot
<1>6. DOMAIN streaks' \subseteq Players /\ suppress' \subseteq Players
  <2>1. TickDiffStep(Previous(t), Latest(t), phase)
    BY DEF UpdateState
  <2>2. CASE UNCHANGED <<streaks, suppress>>
    BY <2>2 DEF Typed
  <2>3. CASE ForgetBoosts
    BY <2>3 DEF ForgetBoosts
  <2>4. CASE /\ Previous(t) # Absent
             /\ streaks' = StreaksAfter(Previous(t), Latest(t))
             /\ suppress' = SuppressAfter(Previous(t), Latest(t))
    <3>1. IsSnapshot(Previous(t))
      BY <2>4, <1>2
    <3>2. DOMAIN streaks' \subseteq Players
      BY <2>4, <3>1, WhereOnBoth DEF StreaksAfter, Typed
    <3>3. suppress' \subseteq Players
      BY <2>4, <3>1, WhereOnBoth DEF SuppressAfter, SuppressArmed, Typed
    <3>4. QED BY <3>2, <3>3
  <2>5. QED BY <2>1, <2>2, <2>3, <2>4 DEF TickDiffStep
<1>7. flipArmed' \subseteq Players
  BY DEF UpdateState, Typed
<1>8. UNCHANGED <<realGoals, flipCount, fastest, now>>
  BY DEF UpdateState
<1>9. (tick' = Absent \/ IsSnapshot(tick')) /\ (prevTick' = Absent \/ IsSnapshot(prevTick'))
  BY <1>1, <1>2, <1>3
<1>10. QED
  BY <1>4, <1>5, <1>6, <1>7, <1>8, <1>9 DEF Typed, IsSnapshot

LEMMA TypedHit ==
  ASSUME Typed, NEW p, NEW speed \in Nat, NEW phase, BallHit(p, speed, phase)
  PROVE  Typed'
<1>1. UNCHANGED <<tickVars, now, realGoals, flipCount, flipArmed>>
  BY DEF BallHit, HitStep, scoringVars
<1>2. fastest' \in Nat
  BY DEF BallHit, HitStep, scoringVars, FastestAfter, Typed
<1>3. QED
  BY <1>1, <1>2 DEF Typed, tickVars, IsSnapshot

LEMMA TypedGoal ==
  ASSUME Typed, NEW p \in Players \cup {Absent}, NEW touch, NEW speed \in Nat,
         GoalScored(p, touch, speed)
  PROVE  Typed'
<1>1. UNCHANGED <<tickVars, now, flipCount>>
  BY DEF GoalScored, GoalStep, scoringVars
<1>2. fastest' \in Nat
  BY DEF GoalScored, GoalStep, scoringVars, FastestAfter, Typed
<1>3. flipArmed' \subseteq Players
  BY DEF GoalScored, GoalStep, scoringVars, Typed
<1>4. realGoals' \in [Players -> Nat]
  <2>1. CASE p = Absent
    BY <2>1 DEF GoalScored, scoringVars, Typed
  <2>2. CASE p \in Players /\ p # Absent
    <3>1. realGoals' = RealGoalsAfter(p, touch)
      BY <2>2 DEF GoalScored, GoalStep
    <3>2. realGoals[p] + 1 \in Nat
      BY <2>2 DEF Typed
    <3>3. QED BY <3>1, <3>2, <2>2 DEF RealGoalsAfter, Typed
  <2>3. QED BY <2>1, <2>2
<1>5. QED
  BY <1>1, <1>2, <1>3, <1>4 DEF Typed, tickVars, IsSnapshot

LEMMA TypedStat ==
  ASSUME Typed, NEW stat, NEW p \in Players \cup {Absent}, NEW victim,
         StatfeedEvent(stat, p, victim)
  PROVE  Typed'
<1>0. ResolveByShortcut(p).known => p \in Players
  <2>1. ASSUME NEW m \in roster.members PROVE m.name \in Players
    BY DEF Typed
  <2>2. QED BY <2>1 DEF ResolveByShortcut, Resolved
<1>1. UNCHANGED <<tickVars, now, realGoals, fastest>>
  BY DEF StatfeedEvent, StatStep
<1>2. flipArmed' \subseteq Players
  BY <1>0 DEF StatfeedEvent, StatStep, Typed
<1>3. flipCount' \in [Players -> Nat]
  <2>1. p \in Players => flipCount[p] + 1 \in Nat
    BY DEF Typed
  <2>2. flipCount' = FlipCountAfter(stat, p)
    BY DEF StatfeedEvent, StatStep
  <2>3. QED BY <1>0, <2>1, <2>2 DEF FlipCountAfter, Typed
<1>4. QED
  BY <1>1, <1>2, <1>3 DEF Typed, tickVars, IsSnapshot

\* The events without a player.
Plainly ==
  \/ Elapse \/ MatchCreated \/ MatchDestroyed \/ ConnectionStatus
  \/ CountdownBegin \/ RoundStarted \/ CrossbarHit
  \/ \E winner : MatchEnded(winner)

LEMMA TypedPlain ==
  ASSUME Typed, Plainly
  PROVE  Typed'
<1>1. CASE Elapse
  <2>1. now' \in Nat BY <1>1 DEF Elapse, Typed
  <2>2. QED BY <1>1, <2>1 DEF Elapse, Typed, tickVars, scoringVars, IsSnapshot
<1>2. CASE MatchCreated \/ MatchDestroyed
  <2>1. UNCHANGED <<prevTick, tick, now>>
    BY <1>2 DEF MatchCreated, MatchDestroyed
  <2>2. roster'.members \subseteq {[id |-> p, name |-> p] : p \in Players}
    BY <1>2 DEF MatchCreated, MatchDestroyed, ClearRoster, NoRoster, Typed
  <2>3. DOMAIN streaks' \subseteq Players /\ suppress' \subseteq Players
    BY <1>2 DEF MatchCreated, MatchDestroyed, ForgetBoosts
  <2>4. NewMatch
    BY <1>2 DEF MatchCreated, MatchDestroyed
  <2>5. QED BY <2>1, <2>2, <2>3, <2>4 DEF NewMatch, NoGoals, Typed, IsSnapshot
<1>3. CASE ConnectionStatus
  BY <1>3 DEF ConnectionStatus, ClearRoster, NoRoster, Typed, scoringVars, IsSnapshot
<1>4. CASE CountdownBegin
  <2>1. UNCHANGED <<roster, prevTick, tick, scoringVars, now>>
    BY <1>4 DEF CountdownBegin
  <2>2. DOMAIN streaks' \subseteq Players /\ suppress' \subseteq Players
    <3>1. CASE tick = Absent
      BY <1>4, <3>1 DEF CountdownBegin, ArmKickoffSuppression, Typed
    <3>2. CASE tick # Absent
      <4>1. DOMAIN ById(tick) \subseteq Players
        BY <3>2, Indexed DEF Typed, IsSnapshot
      <4>2. QED
        BY <1>4, <3>2, <4>1 DEF CountdownBegin, ArmKickoffSuppression, Typed
    <3>3. QED BY <3>1, <3>2
  <2>3. QED BY <2>1, <2>2 DEF Typed, scoringVars, IsSnapshot
<1>5. CASE RoundStarted
  BY <1>5 DEF RoundStarted, DisarmKickoffSuppression, Typed, IsSnapshot
<1>6. CASE CrossbarHit \/ \E winner : MatchEnded(winner)
  BY <1>6 DEF CrossbarHit, MatchEnded, Typed, tickVars, scoringVars, IsSnapshot
<1>7. QED
  BY <1>1, <1>2, <1>3, <1>4, <1>5, <1>6 DEF Plainly

\* A delivery is one of five kinds of step.
LEMMA Kinds ==
  ASSUME NEW in \in Inputs, Deliver(in)
  PROVE  \/ in.event = "UpdateState" /\ UpdateState(in.tick, in.phase)
         \/ in.event = "BallHit" /\ BallHit(in.who, in.speed, in.phase)
         \/ in.event = "GoalScored" /\ GoalScored(in.who, in.touch, in.speed)
         \/ in.event = "StatfeedEvent" /\ StatfeedEvent(in.stat, in.who, in.victim)
         \/ /\ in.event \notin {"UpdateState", "BallHit", "GoalScored", "StatfeedEvent"}
            /\ Plainly
  BY DEF Deliver, Plainly

LEMMA TypedStep ==
  ASSUME Typed, [BooksNext]_booksVars
  PROVE  Typed'
<1>1. CASE UNCHANGED booksVars
  BY <1>1 DEF booksVars, vars, tickVars, scoringVars, Typed, IsSnapshot
<1>2. CASE Wait
  BY <1>2, TypedPlain DEF Wait, Plainly
<1>3. ASSUME NEW in \in Inputs, Receive(in)
      PROVE  Typed'
  BY <1>3, Kinds, GoodInput, TypedUpdate, TypedHit, TypedGoal, TypedStat, TypedPlain DEF Receive
<1>4. QED
  BY <1>1, <1>2, <1>3 DEF BooksNext

-----------------------------------------------------------------------------
(***************************************************************************)
(* What is published for each kind of event, of what the observer heeds    *)
(***************************************************************************)
LEMMA DiffNames ==
  ASSUME NEW a, NEW b
  PROVE  /\ \A e \in Joined(a, b) : e.name = "_PlayerJoined"
         /\ \A e \in Left(a, b) : e.name = "_PlayerLeft"
         /\ \A e \in ScoreChanges(a, b) : e.name = "_PlayerScoreChanged"
         /\ \A e \in Pickups(a, b) : e.name = "_BoostPickup"
         /\ \A e \in Spends(a, b) : e.name = "_BoostConsumed"
         /\ \A e \in TeamScores(a, b) : e.name = "_TeamScoreChanged"
         /\ \A e \in Possession(a, b) : e.name = "_BallPossessionChanged"
<1>1. \A e \in Joined(a, b) : e.name = "_PlayerJoined" BY DEF Joined
<1>2. \A e \in Left(a, b) : e.name = "_PlayerLeft" BY DEF Left
<1>3. \A e \in ScoreChanges(a, b) : e.name = "_PlayerScoreChanged" BY DEF ScoreChanges, Where
<1>4. \A e \in Pickups(a, b) : e.name = "_BoostPickup" BY DEF Pickups
<1>5. \A e \in Spends(a, b) : e.name = "_BoostConsumed" BY DEF Spends
<1>6. \A e \in TeamScores(a, b) : e.name = "_TeamScoreChanged" BY DEF TeamScores
<1>7. \A e \in Possession(a, b) : e.name = "_BallPossessionChanged" BY DEF Possession
<1>8. QED BY <1>1, <1>2, <1>3, <1>4, <1>5, <1>6, <1>7

LEMMA UpdatePublishes ==
  ASSUME NEW t, NEW phase, UpdateState(t, phase)
  PROVE  /\ Published("_RosterChanged") = RosterOut(t)
         /\ Published("_GoalReplayStarted") = ReplayOut(Latest(t))
         /\ \A n \in {"_GoalScored", "_FlipReset", "_HatTrick", "_DemoChain"} : Published(n) = {}
         /\ \A n \in {"_PlayerJoined", "_PlayerLeft", "_BoostPickup", "_BoostConsumed"} :
              Published(n) = {e \in TickDiffOut(Previous(t), Latest(t), phase) : e.name = n}
<1> DEFINE a == Previous(t)
           b == Latest(t)
<1>1. published' = RosterOut(t) \cup ReplayOut(b) \cup OwnGoals(a, b, phase)
                     \cup TickDiffOut(a, b, phase) \cup OvertimeOut(t)
  BY DEF UpdateState
<1>2. \A e \in RosterOut(t) : e.name = "_RosterChanged"
  BY DEF RosterOut, RosterChanged
<1>3. \A e \in ReplayOut(b) : e.name = "_GoalReplayStarted"
  BY DEF ReplayOut
<1>4. \A e \in OwnGoals(a, b, phase) : e.name = "_OwnGoal"
  BY DEF OwnGoals
<1>5. \A e \in OvertimeOut(t) : e.name = "_OvertimeStarted"
  BY DEF OvertimeOut
<1>6. \A e \in TickDiffOut(a, b, phase) :
        e.name \in {"_PlayerJoined", "_PlayerLeft", "_PlayerScoreChanged", "_BoostPickup",
                    "_BoostConsumed", "_TeamScoreChanged", "_BallPossessionChanged"}
  BY DiffNames DEF TickDiffOut
<1> HIDE DEF a, b
<1>7. Published("_RosterChanged") = RosterOut(t)
  BY <1>1, <1>2, <1>3, <1>4, <1>5, <1>6 DEF Published
<1>8. Published("_GoalReplayStarted") = ReplayOut(b)
  BY <1>1, <1>2, <1>3, <1>4, <1>5, <1>6 DEF Published
<1>9. \A n \in {"_GoalScored", "_FlipReset", "_HatTrick", "_DemoChain"} : Published(n) = {}
  BY <1>1, <1>2, <1>3, <1>4, <1>5, <1>6 DEF Published
<1>10. \A n \in {"_PlayerJoined", "_PlayerLeft", "_BoostPickup", "_BoostConsumed"} :
         Published(n) = {e \in TickDiffOut(a, b, phase) : e.name = n}
  BY <1>1, <1>2, <1>3, <1>4, <1>5 DEF Published
<1>11. QED
  BY <1>7, <1>8, <1>9, <1>10 DEF a, b

LEMMA HitPublishes ==
  ASSUME NEW p, NEW speed, NEW phase, BallHit(p, speed, phase)
  PROVE  \A n \in Heeded : Published(n) = {}
<1>1. \A e \in HitOut(p, speed) : e.name \in {"_BallHit", "_FastestShotOfMatch", "_FirstTouch"}
  BY DEF HitOut, FastestOut, FirstTouchOut
<1>2. published' \subseteq HitOut(p, speed)
  BY DEF BallHit
<1>3. QED BY <1>1, <1>2 DEF Published, Heeded

LEMMA GoalPublishes ==
  ASSUME NEW p, NEW touch, NEW speed, GoalScored(p, touch, speed)
  PROVE  /\ Published("_GoalScored") = IF p = Absent THEN {} ELSE {GoalEvent(p, touch)}
         /\ Published("_HatTrick") = IF p = Absent THEN {} ELSE HatTrickOut(p, touch)
         /\ \A n \in Heeded \ {"_GoalScored", "_HatTrick"} : Published(n) = {}
<1>1. GoalEvent(p, touch).name = "_GoalScored"
  BY DEF GoalEvent
<1>2. \A e \in HatTrickOut(p, touch) : e.name = "_HatTrick"
  BY DEF HatTrickOut
<1>3. \A e \in FastestOut(speed) \cup FirstBloodOut : e.name \in {"_FastestShotOfMatch", "_FirstBlood"}
  BY DEF FastestOut, FirstBloodOut
<1>4. published' = IF p = Absent THEN {} ELSE GoalOut(p, touch, speed)
  BY DEF GoalScored
<1>5. GoalOut(p, touch, speed)
        = {GoalEvent(p, touch)} \cup HatTrickOut(p, touch) \cup (FastestOut(speed) \cup FirstBloodOut)
  BY DEF GoalOut
<1>6. QED
  BY <1>1, <1>2, <1>3, <1>4, <1>5 DEF Published, Heeded

LEMMA StatPublishes ==
  ASSUME NEW stat, NEW p, NEW victim, StatfeedEvent(stat, p, victim)
  PROVE  /\ \A e \in Published("_FlipReset") : stat = "FlipReset" /\ e.who = p
         /\ stat = "FlipReset" /\ p # Absent => \E e \in Published("_FlipReset") : e.who = p
         /\ Published("_DemoChain")
              = IF stat = "Demolish" /\ Absent \notin {p, victim} THEN ChainOut(p, victim) ELSE {}
         /\ \A n \in Heeded \ {"_FlipReset", "_DemoChain"} : Published(n) = {}
<1> DEFINE buf == StatAfter(stat, p)
           plain == {"_Save", "_EpicSave", "_Shot", "_Center", "_Clear", "_BicycleHit", "_Assist",
                     "_UnknownStatfeed", "_StatfeedEvent"}
           promoted == IF p = Absent THEN {} ELSE Promoted(stat, p, buf)
           catchall == {[name |-> "_StatfeedEvent", stat |-> stat, who |-> p]}
                         \cup (IF stat \in Verified THEN {} ELSE {[name |-> "_UnknownStatfeed", stat |-> stat]})
           demos == IF stat = "Demolish" /\ Absent \notin {p, victim} THEN DemolishOut(p, victim) ELSE {}
<1>0. \A e \in catchall : e.name \in plain
  OBVIOUS
<1>1. stat # "FlipReset" => \A e \in promoted : e.name \in plain
  <2>1. CASE stat \in {"Save", "EpicSave"}
    BY <2>1 DEF Promoted, PromotedName
  <2>2. CASE stat \in {"Shot", "Center", "Clear", "BicycleHit"}
    BY <2>2 DEF Promoted, PromotedName
  <2>3. CASE stat \notin {"Save", "EpicSave", "Shot", "Center", "Clear", "BicycleHit", "FlipReset"}
    BY <2>3 DEF Promoted
  <2>4. QED BY <2>1, <2>2, <2>3
<1>2. stat = "FlipReset" /\ p # Absent =>
        promoted
          = {[name |-> "_FlipReset", who |-> p,
              count |-> GoalCount(FlipCountAfter(stat, p), ResolveByShortcut(p))]}
  BY DEF Promoted
<1>3. \A e \in ChainOut(p, victim) : e.name = "_DemoChain"
  BY DEF ChainOut
<1>4. Demolition(p, victim).name = "_PlayerDemolished"
  BY DEF Demolition
<1>5. published' = catchall \cup promoted \cup demos
  BY DEF StatfeedEvent, StatOut
<1>6. DemolishOut(p, victim) = {Demolition(p, victim)} \cup ChainOut(p, victim)
  BY DEF DemolishOut
<1> HIDE DEF promoted, catchall
<1>7. CASE stat = "FlipReset" /\ p # Absent
  <2> DEFINE reset == [name |-> "_FlipReset", who |-> p,
                       count |-> GoalCount(FlipCountAfter(stat, p), ResolveByShortcut(p))]
  <2>1. reset.name = "_FlipReset" /\ reset.who = p
    OBVIOUS
  <2>2. published' = catchall \cup {reset}
    BY <1>7, <1>2, <1>5 DEF demos
  <2> HIDE DEF reset
  <2>3. Published("_FlipReset") = {reset}
    BY <1>0, <2>1, <2>2 DEF Published
  <2>4. \A n \in Heeded \ {"_FlipReset"} : Published(n) = {}
    BY <1>0, <2>1, <2>2 DEF Published, Heeded
  <2>5. QED BY <1>7, <2>1, <2>3, <2>4 DEF Heeded
<1>8. CASE stat # "FlipReset" \/ p = Absent
  <2>0. \A e \in promoted : e.name \in plain
    BY <1>1, <1>8 DEF promoted
  <2>1. \A e \in promoted \cup catchall : e.name \notin Heeded
    BY <1>0, <2>0 DEF Heeded
  <2>2. Published("_DemoChain") = IF stat = "Demolish" /\ Absent \notin {p, victim} THEN ChainOut(p, victim) ELSE {}
    <3>1. \A e \in promoted \cup catchall : e.name # "_DemoChain"
      BY <2>1 DEF Heeded
    <3>2. QED BY <3>1, <1>3, <1>4, <1>5, <1>6 DEF Published, demos
  <2>3. \A n \in Heeded \ {"_DemoChain"} : Published(n) = {}
    BY <2>1, <1>3, <1>4, <1>5, <1>6 DEF Published, demos, Heeded
  <2>4. QED BY <1>8, <2>2, <2>3 DEF Heeded
<1>9. QED BY <1>7, <1>8

LEMMA PlainPublishes ==
  ASSUME Plainly
  PROVE  /\ \A n \in Heeded \ {"_RosterChanged"} : Published(n) = {}
         /\ Published("_RosterChanged")
              = IF MatchDestroyed \/ ConnectionStatus THEN RosterGone ELSE {}
<1>1. \A e \in RosterGone : e.name = "_RosterChanged"
  BY DEF RosterGone, RosterChanged
<1>2. CASE MatchDestroyed \/ ConnectionStatus
  <2>1. published' = RosterGone
    BY <1>2 DEF MatchDestroyed, ConnectionStatus
  <2>2. QED BY <1>1, <1>2, <2>1 DEF Published, Heeded
<1>3. CASE ~(MatchDestroyed \/ ConnectionStatus)
  <2>1. \A e \in published' : e.name \in {"_CrossbarHit", "_MatchEnded"}
    BY <1>3 DEF Plainly, Elapse, MatchCreated, CountdownBegin, RoundStarted, CrossbarHit, MatchEnded
  <2>2. QED BY <1>3, <2>1 DEF Published, Heeded
<1>4. QED BY <1>2, <1>3

-----------------------------------------------------------------------------
(***************************************************************************)
(* Goals: the one a replay shows, and hat tricks                           *)
(***************************************************************************)
\* The goal a replay would show is the last one subscribers heard of.
GoalIsHeard == lastGoal # Absent => audit.goal = lastGoal.who

LEMMA GoalIsHeardStep ==
  ASSUME GoalIsHeard, [BooksNext]_booksVars
  PROVE  GoalIsHeard'
<1>1. CASE UNCHANGED booksVars
  BY <1>1 DEF booksVars, vars, scoringVars, GoalIsHeard
<1>2. CASE Wait
  BY <1>2 DEF Wait, Elapse, scoringVars, GoalIsHeard
<1>3. ASSUME NEW in \in Inputs, Receive(in)
      PROVE  GoalIsHeard'
  <2>0. /\ Deliver(in)
        /\ audit'.goal = IF in.event \in Boundary THEN Absent
                         ELSE IF Published("_GoalScored") = {} THEN audit.goal
                         ELSE (CHOOSE e \in Published("_GoalScored") : TRUE).who
    BY <1>3 DEF Receive, Audit
  <2>1. CASE in.event = "UpdateState" /\ UpdateState(in.tick, in.phase)
    <3>1. Published("_GoalScored") = {} BY <2>1, UpdatePublishes
    <3>2. lastGoal' = lastGoal BY <2>1 DEF UpdateState
    <3>3. QED BY <2>0, <2>1, <3>1, <3>2 DEF GoalIsHeard, Boundary
  <2>2. CASE in.event = "BallHit" /\ BallHit(in.who, in.speed, in.phase)
    <3>1. Published("_GoalScored") = {} BY <2>2, HitPublishes DEF Heeded
    <3>2. lastGoal' = lastGoal BY <2>2 DEF BallHit, HitStep, scoringVars
    <3>3. QED BY <2>0, <2>2, <3>1, <3>2 DEF GoalIsHeard, Boundary
  <2>3. CASE in.event = "GoalScored" /\ GoalScored(in.who, in.touch, in.speed)
    <3>1. CASE in.who = Absent
      <4>1. Published("_GoalScored") = {} BY <2>3, <3>1, GoalPublishes
      <4>2. lastGoal' = lastGoal BY <2>3, <3>1 DEF GoalScored, scoringVars
      <4>3. QED BY <2>0, <2>3, <4>1, <4>2 DEF GoalIsHeard, Boundary
    <3>2. CASE in.who # Absent
      <4>1. Published("_GoalScored") = {GoalEvent(in.who, in.touch)} BY <2>3, <3>2, GoalPublishes
      <4>2. GoalEvent(in.who, in.touch).who = in.who BY DEF GoalEvent
      <4>3. audit'.goal = in.who BY <2>0, <2>3, <4>1, <4>2 DEF Boundary
      <4>4. lastGoal' = [who |-> in.who, own |-> IsOwnGoal(in.who, in.touch)]
        BY <2>3, <3>2 DEF GoalScored, GoalStep
      <4>5. QED BY <4>3, <4>4 DEF GoalIsHeard
    <3>3. QED BY <3>1, <3>2
  <2>4. CASE in.event = "StatfeedEvent" /\ StatfeedEvent(in.stat, in.who, in.victim)
    <3>1. Published("_GoalScored") = {} BY <2>4, StatPublishes DEF Heeded
    <3>2. lastGoal' = lastGoal BY <2>4 DEF StatfeedEvent, StatStep
    <3>3. QED BY <2>0, <2>4, <3>1, <3>2 DEF GoalIsHeard, Boundary
  <2>5. CASE in.event \notin {"UpdateState", "BallHit", "GoalScored", "StatfeedEvent"} /\ Deliver(in)
    <3>1. Plainly /\ Published("_GoalScored") = {}
      BY <2>5, Kinds, PlainPublishes DEF Heeded
    <3>2. CASE in.event \in Boundary
      <4>1. NewMatch BY <2>5, <3>2 DEF Deliver, Boundary, MatchCreated, MatchDestroyed
      <4>2. QED BY <4>1 DEF NewMatch, GoalIsHeard
    <3>3. CASE in.event \notin Boundary
      <4>1. lastGoal' = lastGoal
        BY <2>5, <3>3 DEF Deliver, Boundary, ConnectionStatus, CountdownBegin, RoundStarted,
                          CrossbarHit, MatchEnded, scoringVars
      <4>2. QED BY <2>0, <3>1, <3>3, <4>1 DEF GoalIsHeard
    <3>4. QED BY <3>2, <3>3
  <2>6. QED BY <2>0, <2>1, <2>2, <2>3, <2>4, <2>5, Kinds
<1>4. QED
  BY <1>1, <1>2, <1>3 DEF BooksNext

\* A replay is announced by an UpdateState only, with the goal that is kept.
LEMMA ReplaysShowLastGoal ==
  ASSUME [BooksNext]_booksVars, ~UNCHANGED booksVars,
         NEW e \in Published("_GoalReplayStarted")
  PROVE  lastGoal # Absent /\ e.who = lastGoal.who
<1>1. CASE Wait
  BY <1>1, PlainPublishes DEF Wait, Plainly, Heeded
<1>2. ASSUME NEW in \in Inputs, Deliver(in)
      PROVE  lastGoal # Absent /\ e.who = lastGoal.who
  <2>1. CASE UpdateState(in.tick, in.phase)
    <3>1. e \in ReplayOut(Latest(in.tick)) BY <2>1, UpdatePublishes
    <3>2. QED BY <3>1 DEF ReplayOut
  <2>2. CASE ~UpdateState(in.tick, in.phase)
    BY <1>2, <2>2, Kinds, HitPublishes, GoalPublishes, StatPublishes, PlainPublishes DEF Heeded
  <2>3. QED BY <2>1, <2>2
<1>3. QED
  BY <1>1, <1>2 DEF BooksNext, Receive

\* The goal a replay shows is the last one of this match (maybeReplayStarted).
THEOREM ReplaysShowThisMatchsGoal == BooksSpec => ReplayShowsThisMatchsGoal
<1>1. BooksInit => GoalIsHeard
  BY DEF BooksInit, Init, ScoringInit, GoalIsHeard
<1>2. GoalIsHeard /\ [BooksNext]_booksVars => GoalIsHeard'
  BY GoalIsHeardStep
<1>3. GoalIsHeard /\ [BooksNext]_booksVars
        => [\A e \in Published("_GoalReplayStarted") : e.who = audit.goal]_booksVars
  BY ReplaysShowLastGoal DEF GoalIsHeard
<1>4. QED
  BY <1>1, <1>2, <1>3, PTL DEF BooksSpec, ReplayShowsThisMatchsGoal

-----------------------------------------------------------------------------
\* Every honest goal that is counted was heard, and a hat trick was on one of
\* three.
HatsAreCounted ==
  /\ audit.honest \in [Players -> Nat]
  /\ \A p \in Players : realGoals[p] <= audit.honest[p]
  /\ \A p \in audit.hats : p \in Players /\ realGoals[p] >= 3

\* What the hat trick emitter and the observer make of a goal.
LEMMA HatTrickStep ==
  ASSUME Typed, HatsAreCounted, NEW p \in Players, p # Absent, NEW touch, NEW speed,
         GoalScored(p, touch, speed),
         audit'.honest = [q \in Players |-> audit.honest[q]
           + Cardinality({e \in Published("_GoalScored") : e.who = q /\ ~e.own})],
         audit'.hats = audit.hats \cup {e.who : e \in Published("_HatTrick")}
  PROVE  /\ HatsAreCounted'
         /\ \A e \in Published("_HatTrick") :
              audit'.honest[e.who] >= 3 /\ e.who \notin audit.hats
<1> DEFINE own == IsOwnGoal(p, touch)
           ev == GoalEvent(p, touch)
           counted == ~own /\ ResolveByShortcut(p).known
<1>1. own \in BOOLEAN
  BY DEF IsOwnGoal
<1>2. ev.who = p /\ ev.own = own
  BY DEF GoalEvent
<1>3. Published("_GoalScored") = {ev} /\ Published("_HatTrick") = HatTrickOut(p, touch)
  BY GoalPublishes
<1>4. realGoals' = IF counted THEN [realGoals EXCEPT ![p] = @ + 1] ELSE realGoals
  BY DEF GoalScored, GoalStep, RealGoalsAfter
<1>5. \A q \in Players : realGoals[q] \in Nat /\ audit.honest[q] \in Nat
  BY DEF Typed, HatsAreCounted
<1>6. \A q \in Players : realGoals'[q] = IF q = p /\ counted THEN realGoals[q] + 1 ELSE realGoals[q]
  BY <1>4 DEF Typed
<1> HIDE DEF own, ev
<1>7. \A q \in Players : audit'.honest[q] = IF q = p /\ ~own THEN audit.honest[q] + 1 ELSE audit.honest[q]
  <2> TAKE q \in Players
  <2>1. audit'.honest[q]
          = audit.honest[q] + Cardinality({e \in {ev} : e.who = q /\ ~e.own})
    BY <1>3
  <2>2. CASE q = p /\ ~own
    <3>1. {e \in {ev} : e.who = q /\ ~e.own} = {ev} BY <1>2, <2>2
    <3>2. QED BY <2>1, <2>2, <3>1, FS_Singleton
  <2>3. CASE ~(q = p /\ ~own)
    <3>1. {e \in {ev} : e.who = q /\ ~e.own} = {} BY <1>2, <2>3
    <3>2. audit'.honest[q] = audit.honest[q] + 0 BY <2>1, <3>1, FS_EmptySet
    <3>3. QED BY <2>3, <3>2, <1>5
  <2>4. QED BY <2>2, <2>3
<1>8. audit'.honest \in [Players -> Nat]
  <2>1. \A q \in Players : audit'.honest[q] \in Nat BY <1>5, <1>7
  <2>2. QED BY <2>1
<1>9. \A q \in Players : realGoals'[q] <= audit'.honest[q]
  BY <1>1, <1>5, <1>6, <1>7 DEF HatsAreCounted
<1>10. \A e \in Published("_HatTrick") : e.who = p /\ counted /\ realGoals'[p] = 3
  <2>1. HatTrickOut(p, touch)
          = IF counted /\ realGoals'[p] = 3 THEN {[name |-> "_HatTrick", who |-> p]} ELSE {}
    BY DEF HatTrickOut, GoalScored, GoalStep, own
  <2>2. QED BY <1>3, <2>1
<1>11. \A q \in audit'.hats : q \in Players /\ realGoals'[q] >= 3
  <2> TAKE q \in audit'.hats
  <2>1. CASE q \in audit.hats
    BY <2>1, <1>5, <1>6 DEF HatsAreCounted
  <2>2. CASE q \in {e.who : e \in Published("_HatTrick")}
    BY <2>2, <1>10
  <2>3. QED BY <2>1, <2>2
<1>12. \A e \in Published("_HatTrick") : audit'.honest[e.who] >= 3 /\ e.who \notin audit.hats
  BY <1>5, <1>6, <1>8, <1>9, <1>10 DEF HatsAreCounted
<1>13. QED
  BY <1>8, <1>9, <1>11, <1>12 DEF HatsAreCounted

\* An event that is no goal and no match boundary changes none of the counts.
LEMMA HatQuiet ==
  ASSUME HatsAreCounted, NEW in, in.event \notin Boundary, Audit(in),
         Published("_GoalScored") = {}, Published("_HatTrick") = {}, realGoals' = realGoals
  PROVE  HatsAreCounted'
<1>1. \A q \in Players : audit'.honest[q] = audit.honest[q]
  <2> TAKE q \in Players
  <2>1. audit'.honest[q] = audit.honest[q] + Cardinality({e \in {} : e.who = q /\ ~e.own})
    BY DEF Audit, HonestAfter
  <2>2. {e \in {} : e.who = q /\ ~e.own} = {}
    OBVIOUS
  <2>3. QED BY <2>1, <2>2, FS_EmptySet DEF HatsAreCounted
<1>2. audit'.honest = [q \in Players |-> audit'.honest[q]]
  BY DEF Audit, HonestAfter
<1>3. audit'.hats = audit.hats
  BY DEF Audit
<1>4. QED BY <1>1, <1>2, <1>3 DEF HatsAreCounted

LEMMA HatsStep ==
  ASSUME Typed, HatsAreCounted, [BooksNext]_booksVars
  PROVE  /\ HatsAreCounted'
         /\ ~UNCHANGED booksVars =>
              \A e \in Published("_HatTrick") :
                audit'.honest[e.who] >= 3 /\ e.who \notin audit.hats
<1>1. CASE UNCHANGED booksVars
  BY <1>1 DEF booksVars, vars, scoringVars, HatsAreCounted
<1>2. CASE Wait
  <2>1. Published("_HatTrick") = {} BY <1>2, PlainPublishes DEF Wait, Plainly, Heeded
  <2>2. QED BY <1>2, <2>1 DEF Wait, Elapse, scoringVars, HatsAreCounted
<1>3. ASSUME NEW in \in Inputs, Receive(in)
      PROVE  /\ HatsAreCounted'
             /\ \A e \in Published("_HatTrick") :
                  audit'.honest[e.who] >= 3 /\ e.who \notin audit.hats
  <2>0. Deliver(in) /\ Audit(in)
    BY <1>3 DEF Receive
  <2>1. CASE in.event = "UpdateState" /\ UpdateState(in.tick, in.phase)
    <3>1. Published("_GoalScored") = {} /\ Published("_HatTrick") = {} BY <2>1, UpdatePublishes
    <3>2. realGoals' = realGoals BY <2>1 DEF UpdateState
    <3>3. QED BY <2>0, <2>1, <3>1, <3>2, HatQuiet DEF Boundary
  <2>2. CASE in.event = "BallHit" /\ BallHit(in.who, in.speed, in.phase)
    <3>1. Published("_GoalScored") = {} /\ Published("_HatTrick") = {}
      BY <2>2, HitPublishes DEF Heeded
    <3>2. realGoals' = realGoals BY <2>2 DEF BallHit, HitStep, scoringVars
    <3>3. QED BY <2>0, <2>2, <3>1, <3>2, HatQuiet DEF Boundary
  <2>3. CASE in.event = "GoalScored" /\ GoalScored(in.who, in.touch, in.speed)
    <3>1. CASE in.who = Absent
      <4>1. Published("_GoalScored") = {} /\ Published("_HatTrick") = {}
        BY <2>3, <3>1, GoalPublishes
      <4>2. realGoals' = realGoals BY <2>3, <3>1 DEF GoalScored, scoringVars
      <4>3. QED BY <2>0, <2>3, <4>1, <4>2, HatQuiet DEF Boundary
    <3>2. CASE in.who # Absent
      <4>1. in.who \in Players
        BY <2>3, <3>2, GoodInput
      <4>2. /\ audit'.honest = HonestAfter(in)
            /\ audit'.hats = (IF in.event \in Boundary THEN {} ELSE audit.hats)
                               \cup {e.who : e \in Published("_HatTrick")}
        BY <2>0 DEF Audit
      <4>3. in.event \notin Boundary
        BY <2>3 DEF Boundary
      <4>4. QED BY <2>3, <3>2, <4>1, <4>2, <4>3, HatTrickStep DEF HonestAfter
    <3>3. QED BY <3>1, <3>2
  <2>4. CASE in.event = "StatfeedEvent" /\ StatfeedEvent(in.stat, in.who, in.victim)
    <3>1. Published("_GoalScored") = {} /\ Published("_HatTrick") = {}
      BY <2>4, StatPublishes DEF Heeded
    <3>2. realGoals' = realGoals BY <2>4 DEF StatfeedEvent, StatStep
    <3>3. QED BY <2>0, <2>4, <3>1, <3>2, HatQuiet DEF Boundary
  <2>5. CASE in.event \notin {"UpdateState", "BallHit", "GoalScored", "StatfeedEvent"} /\ Deliver(in)
    <3>1. Plainly /\ Published("_GoalScored") = {} /\ Published("_HatTrick") = {}
      BY <2>5, Kinds, PlainPublishes DEF Heeded
    <3>2. CASE in.event \in Boundary
      <4>1. NewMatch BY <2>5, <3>2 DEF Deliver, Boundary, MatchCreated, MatchDestroyed
      <4>2. audit'.honest = Counts /\ audit'.hats = {}
        BY <2>0, <3>1, <3>2 DEF Audit, HonestAfter
      <4>3. QED BY <3>1, <4>1, <4>2 DEF NewMatch, NoGoals, Counts, HatsAreCounted
    <3>3. CASE in.event \notin Boundary
      <4>1. realGoals' = realGoals
        BY <2>5, <3>3 DEF Deliver, Boundary, ConnectionStatus, CountdownBegin, RoundStarted,
                          CrossbarHit, MatchEnded, scoringVars
      <4>2. QED BY <2>0, <3>1, <3>3, <4>1, HatQuiet
    <3>4. QED BY <3>2, <3>3
  <2>6. QED BY <2>0, <2>1, <2>2, <2>3, <2>4, <2>5, Kinds
<1>4. QED
  BY <1>1, <1>2, <1>3 DEF BooksNext

LEMMA TypedInvariant == BooksSpec => []Typed
<1>1. BooksInit => Typed
  BY TypedInit DEF BooksInit
<1>2. Typed /\ [BooksNext]_booksVars => Typed'
  BY TypedStep
<1>3. QED BY <1>1, <1>2, PTL DEF BooksSpec

\* _HatTrick goes out once in a match, on a third goal that subscribers saw as
\* an honest one (goal.go, own_goal.go).
THEOREM HatTricksAreEarned == BooksSpec => HatTrickEarned
<1>1. BooksInit => HatsAreCounted
  BY DEF BooksInit, AuditInit, Counts, Init, ScoringInit, NoGoals, HatsAreCounted
<1>2. Typed /\ HatsAreCounted /\ [BooksNext]_booksVars => HatsAreCounted'
  BY HatsStep
<1>3. Typed /\ HatsAreCounted /\ [BooksNext]_booksVars
        => [\A e \in Published("_HatTrick") :
              audit'.honest[e.who] >= 3 /\ e.who \notin audit.hats]_booksVars
  BY HatsStep
<1>4. QED
  BY <1>1, <1>2, <1>3, TypedInvariant, PTL DEF BooksSpec, HatTrickEarned

-----------------------------------------------------------------------------
(***************************************************************************)
(* Flip resets                                                             *)
(***************************************************************************)
\* Who is armed has a flip reset subscribers heard of and was not seen to land.
ArmedAreAloft == flipArmed \subseteq audit.aloft

\* Whoever an UpdateState shows to land, TickDiff finds.
LEMMA LandingsAreFound ==
  ASSUME NEW in, in.event = "UpdateState", UpdateState(in.tick, in.phase)
  PROVE  SeenToLand(in) \subseteq Landed(Previous(in.tick), Latest(in.tick), in.phase)
<1>1. prevTick' = Previous(in.tick) /\ tick' = Latest(in.tick)
  BY DEF UpdateState, ObserveTick
<1>2. SUFFICES ASSUME NEW p \in SeenToLand(in)
               PROVE  p \in Landed(prevTick', tick', in.phase)
  BY <1>1
<1>3. /\ Absent \notin {prevTick', tick'} /\ prevTick'.guid = tick'.guid
      /\ in.phase \in LivePhases
      /\ p \in DOMAIN tick'.players \cap DOMAIN prevTick'.players
      /\ ~prevTick'.players[p].ground /\ tick'.players[p].ground
  BY <1>2 DEF SeenToLand, Settled
<1>4. /\ p \in Both(prevTick', tick')
      /\ ById(prevTick')[p] = prevTick'.players[p]
      /\ ById(tick')[p] = tick'.players[p]
  BY <1>3, Indexed DEF Both
<1>5. p \in Where(prevTick', tick', Lands)
  BY <1>3, <1>4 DEF Where, Lands
<1>6. QED
  BY <1>3, <1>5 DEF Landed, Comparable

\* An event that neither arms nor disarms nor is a boundary.
LEMMA FlipQuiet ==
  ASSUME ArmedAreAloft, NEW in, in.event \notin Boundary, in.event # "UpdateState", Audit(in),
         Published("_GoalScored") = {}, flipArmed' = flipArmed
  PROVE  ArmedAreAloft'
BY DEF ArmedAreAloft, Audit, AloftAfter, SeenToLand

LEMMA AloftStep ==
  ASSUME Typed, ArmedAreAloft, [BooksNext]_booksVars
  PROVE  /\ ArmedAreAloft'
         /\ ~UNCHANGED booksVars =>
              \A e \in Published("_GoalScored") : e.flipReset => e.who \in audit.aloft
<1>1. CASE UNCHANGED booksVars
  BY <1>1 DEF booksVars, vars, scoringVars, ArmedAreAloft
<1>2. CASE Wait
  <2>1. Published("_GoalScored") = {} BY <1>2, PlainPublishes DEF Wait, Plainly, Heeded
  <2>2. QED BY <1>2, <2>1 DEF Wait, Elapse, scoringVars, ArmedAreAloft
<1>3. ASSUME NEW in \in Inputs, Receive(in)
      PROVE  /\ ArmedAreAloft'
             /\ \A e \in Published("_GoalScored") : e.flipReset => e.who \in audit.aloft
  <2>0. Deliver(in) /\ Audit(in) /\ audit'.aloft = AloftAfter(in)
    BY <1>3 DEF Receive, Audit
  <2>1. CASE in.event = "UpdateState" /\ UpdateState(in.tick, in.phase)
    <3>1. Published("_GoalScored") = {} BY <2>1, UpdatePublishes
    <3>2. flipArmed' = flipArmed \ Landed(Previous(in.tick), Latest(in.tick), in.phase)
      BY <2>1 DEF UpdateState
    <3>3. audit.aloft \ SeenToLand(in) \subseteq audit'.aloft
      BY <2>0, <2>1, <3>1 DEF AloftAfter, Boundary
    <3>4. QED BY <2>1, <3>1, <3>2, <3>3, LandingsAreFound DEF ArmedAreAloft
  <2>2. CASE in.event = "BallHit" /\ BallHit(in.who, in.speed, in.phase)
    <3>1. Published("_GoalScored") = {} BY <2>2, HitPublishes DEF Heeded
    <3>2. flipArmed' = flipArmed BY <2>2 DEF BallHit, HitStep, scoringVars
    <3>3. QED BY <2>0, <2>2, <3>1, <3>2, FlipQuiet DEF Boundary
  <2>3. CASE in.event = "GoalScored" /\ GoalScored(in.who, in.touch, in.speed)
    <3>1. CASE in.who = Absent
      <4>1. Published("_GoalScored") = {} BY <2>3, <3>1, GoalPublishes
      <4>2. flipArmed' = flipArmed BY <2>3, <3>1 DEF GoalScored, scoringVars
      <4>3. QED BY <2>0, <2>3, <4>1, <4>2, FlipQuiet DEF Boundary
    <3>2. CASE in.who # Absent
      <4> DEFINE ev == GoalEvent(in.who, in.touch)
                 known == ResolveByShortcut(in.who).known
      <4>1. Published("_GoalScored") = {ev} BY <2>3, <3>2, GoalPublishes
      <4>2. ev.who = in.who /\ ev.flipReset = (in.who \in flipArmed /\ known)
        BY DEF GoalEvent
      <4>3. flipArmed' = IF known THEN flipArmed \ {in.who} ELSE flipArmed
        BY <2>3, <3>2 DEF GoalScored, GoalStep
      <4> HIDE DEF ev, known
      <4>4. audit.aloft \ {e.who : e \in {e \in {ev} : e.flipReset}} \subseteq audit'.aloft
        BY <2>0, <2>3, <4>1 DEF AloftAfter, Boundary, SeenToLand
      <4>5. CASE ev.flipReset
        <5>1. {e.who : e \in {e \in {ev} : e.flipReset}} \subseteq {in.who} BY <4>2
        <5>2. in.who \in flipArmed /\ flipArmed' = flipArmed \ {in.who} BY <4>2, <4>3, <4>5
        <5>3. QED BY <4>1, <4>2, <4>4, <5>1, <5>2 DEF ArmedAreAloft
      <4>6. CASE ~ev.flipReset
        <5>1. {e.who : e \in {e \in {ev} : e.flipReset}} = {} BY <4>6
        <5>2. QED BY <4>1, <4>3, <4>4, <4>6, <5>1 DEF ArmedAreAloft
      <4>7. QED BY <4>5, <4>6
    <3>3. QED BY <3>1, <3>2
  <2>4. CASE in.event = "StatfeedEvent" /\ StatfeedEvent(in.stat, in.who, in.victim)
    <3>1. Published("_GoalScored") = {} BY <2>4, StatPublishes DEF Heeded
    <3>2. audit'.aloft = audit.aloft \cup {e.who : e \in Published("_FlipReset")}
      BY <2>0, <2>4, <3>1 DEF AloftAfter, Boundary, SeenToLand
    <3>3. in.stat = "FlipReset" /\ in.who # Absent => in.who \in audit'.aloft
      BY <2>4, <3>2, StatPublishes
    <3>4. flipArmed' \subseteq IF in.stat = "FlipReset" /\ in.who # Absent
                             THEN flipArmed \cup {in.who} ELSE flipArmed
      <4>1. ResolveByShortcut(in.who).known => in.who # Absent
        BY AbsentAssumption DEF Typed, ResolveByShortcut, Resolved
      <4>2. QED BY <2>4, <4>1 DEF StatfeedEvent, StatStep
    <3>5. QED BY <3>1, <3>2, <3>3, <3>4 DEF ArmedAreAloft
  <2>5. CASE in.event \notin {"UpdateState", "BallHit", "GoalScored", "StatfeedEvent"} /\ Deliver(in)
    <3>1. Plainly /\ Published("_GoalScored") = {}
      BY <2>5, Kinds, PlainPublishes DEF Heeded
    <3>2. CASE in.event \in Boundary
      <4>1. NewMatch BY <2>5, <3>2 DEF Deliver, Boundary, MatchCreated, MatchDestroyed
      <4>2. QED BY <3>1, <4>1 DEF NewMatch, ArmedAreAloft
    <3>3. CASE in.event \notin Boundary
      <4>1. flipArmed' = flipArmed
        BY <2>5, <3>3 DEF Deliver, Boundary, ConnectionStatus, CountdownBegin, RoundStarted,
                          CrossbarHit, MatchEnded, scoringVars
      <4>2. QED BY <2>0, <2>5, <3>1, <3>3, <4>1, FlipQuiet
    <3>4. QED BY <3>2, <3>3
  <2>6. QED BY <2>0, <2>1, <2>2, <2>3, <2>4, <2>5, Kinds
<1>4. QED
  BY <1>1, <1>2, <1>3 DEF BooksNext

\* A flip-reset goal is scored by a player who got a flip reset in this match
\* and was not seen to land since (statfeed.go arms, tick_diff.go clears).
THEOREM FlipResetsNeedFlight == BooksSpec => FlipResetNeedsFlight
<1>1. BooksInit => ArmedAreAloft
  BY DEF BooksInit, AuditInit, Init, ScoringInit, ArmedAreAloft
<1>2. Typed /\ ArmedAreAloft /\ [BooksNext]_booksVars => ArmedAreAloft'
  BY AloftStep
<1>3. Typed /\ ArmedAreAloft /\ [BooksNext]_booksVars
        => [\A e \in Published("_GoalScored") : e.flipReset => e.who \in audit.aloft]_booksVars
  BY AloftStep
<1>4. QED
  BY <1>1, <1>2, <1>3, TypedInvariant, PTL DEF BooksSpec, FlipResetNeedsFlight

-----------------------------------------------------------------------------
(***************************************************************************)
(* The roster                                                              *)
(***************************************************************************)
RosterKnown ==
  /\ audit.roster = roster.members
  /\ tick # Absent => audit.present = DOMAIN tick.players

\* What the observer makes of the roster announcements of one event.
LEMMA RosterIsHeard ==
  ASSUME RosterKnown,
         \/ UNCHANGED roster /\ Published("_RosterChanged") = {}
         \/ \E r : roster' = r /\ Published("_RosterChanged") = {RosterChanged(r)}
         \/ roster'.members = roster.members /\ Published("_RosterChanged") = {}
  PROVE  RosterHeard = roster'.members
<1>1. \A r : RosterChanged(r).members = r.members
  BY DEF RosterChanged
<1>2. QED BY <1>1 DEF RosterKnown, RosterHeard

LEMMA RosterStep ==
  ASSUME Typed, RosterKnown, [BooksNext]_booksVars
  PROVE  RosterKnown'
<1>1. CASE UNCHANGED booksVars
  BY <1>1 DEF booksVars, vars, tickVars, RosterKnown
<1>2. CASE Wait
  BY <1>2 DEF Wait, Elapse, tickVars, RosterKnown
<1>3. ASSUME NEW in \in Inputs, Receive(in)
      PROVE  RosterKnown'
  <2>0. Deliver(in) /\ audit'.roster = RosterHeard /\ audit'.present = PresentAfter(in)
    BY <1>3 DEF Receive, Audit
  <2>1. CASE in.event = "UpdateState" /\ UpdateState(in.tick, in.phase)
    <3> DEFINE a == Previous(in.tick)
               b == Latest(in.tick)
    <3>1. roster' = RosterOf(in.tick) /\ prevTick' = a /\ tick' = b
      BY <2>1 DEF UpdateState, ObserveRoster, ObserveTick
    <3>2. audit'.roster = roster'.members
      <4>1. Published("_RosterChanged") = RosterOut(in.tick)
        BY <2>1, UpdatePublishes
      <4>2. QED BY <2>0, <3>1, <4>1, RosterIsHeard DEF RosterOut
    <3>3. ASSUME tick' # Absent PROVE audit'.present = DOMAIN tick'.players
      <4>1. CASE ~Settled
        BY <2>0, <2>1, <3>3, <4>1, Indexed DEF PresentAfter
      <4>2. CASE Settled
        <5>1. Comparable(a, b)
          BY <3>1, <4>2 DEF Settled, Comparable
        <5>2. {e.who : e \in Published("_PlayerJoined")} = DOMAIN b.players \ DOMAIN a.players
          <6>1. Published("_PlayerJoined")
                  = {e \in TickDiffOut(a, b, in.phase) : e.name = "_PlayerJoined"}
            BY <2>1, UpdatePublishes
          <6>2. {e \in TickDiffOut(a, b, in.phase) : e.name = "_PlayerJoined"} = Joined(a, b)
            BY <5>1, DiffNames DEF TickDiffOut
          <6>3. Joined(a, b)
                  = {[name |-> "_PlayerJoined", who |-> id] : id \in DOMAIN b.players \ DOMAIN a.players}
            BY Indexed DEF Joined
          <6>4. Published("_PlayerJoined") = {[name |-> "_PlayerJoined", who |-> id] : id \in DOMAIN b.players \ DOMAIN a.players}
            BY <6>1, <6>2, <6>3
          <6>5. \A e \in Published("_PlayerJoined") : e.who \in DOMAIN b.players \ DOMAIN a.players
            BY <6>4
          <6>6. ASSUME NEW id \in DOMAIN b.players \ DOMAIN a.players
                PROVE  \E e \in Published("_PlayerJoined") : e.who = id
            <7>1. [name |-> "_PlayerJoined", who |-> id] \in Published("_PlayerJoined")
              BY <6>4, <6>6
            <7>2. QED BY <7>1
          <6>7. QED BY <6>5, <6>6
        <5>3. {e.who : e \in Published("_PlayerLeft")} = DOMAIN a.players \ DOMAIN b.players
          <6>1. Published("_PlayerLeft")
                  = {e \in TickDiffOut(a, b, in.phase) : e.name = "_PlayerLeft"}
            BY <2>1, UpdatePublishes
          <6>2. {e \in TickDiffOut(a, b, in.phase) : e.name = "_PlayerLeft"} = Left(a, b)
            BY <5>1, DiffNames DEF TickDiffOut
          <6>3. Left(a, b)
                  = {[name |-> "_PlayerLeft", who |-> id] : id \in DOMAIN a.players \ DOMAIN b.players}
            BY Indexed DEF Left
          <6>4. Published("_PlayerLeft") = {[name |-> "_PlayerLeft", who |-> id] : id \in DOMAIN a.players \ DOMAIN b.players}
            BY <6>1, <6>2, <6>3
          <6>5. \A e \in Published("_PlayerLeft") : e.who \in DOMAIN a.players \ DOMAIN b.players
            BY <6>4
          <6>6. ASSUME NEW id \in DOMAIN a.players \ DOMAIN b.players
                PROVE  \E e \in Published("_PlayerLeft") : e.who = id
            <7>1. [name |-> "_PlayerLeft", who |-> id] \in Published("_PlayerLeft")
              BY <6>4, <6>6
            <7>2. QED BY <7>1
          <6>7. QED BY <6>5, <6>6
        <5>4. audit.present = DOMAIN a.players \/ audit.present = DOMAIN b.players
          BY <5>1 DEF Previous, Latest, RosterKnown, Comparable, Typed
        <5>5. QED
          BY <2>0, <2>1, <3>1, <4>2, <5>2, <5>3, <5>4 DEF PresentAfter
      <4>3. QED BY <4>1, <4>2
    <3>4. QED BY <3>2, <3>3 DEF RosterKnown
  <2>2. CASE in.event # "UpdateState"
    <3>1. UNCHANGED <<prevTick, tick>>
      BY <2>0, <2>2 DEF Deliver, BallHit, GoalScored, StatfeedEvent, MatchCreated, MatchDestroyed,
                        ConnectionStatus, CountdownBegin, RoundStarted, CrossbarHit, MatchEnded,
                        tickVars
    <3>2. audit'.present = audit.present
      BY <2>0, <2>2 DEF PresentAfter
    <3>3. audit'.roster = roster'.members
      <4>1. CASE in.event \in {"BallHit", "GoalScored", "StatfeedEvent"}
        <5>1. roster' = roster
          BY <2>0, <4>1 DEF Deliver, BallHit, GoalScored, StatfeedEvent, tickVars
        <5>2. Published("_RosterChanged") = {}
          BY <2>0, <4>1, Kinds, HitPublishes, GoalPublishes, StatPublishes DEF Heeded
        <5>3. QED BY <2>0, <5>1, <5>2, RosterIsHeard
      <4>2. CASE MatchDestroyed \/ ConnectionStatus
        <5>1. roster' = NoRoster
          BY <4>2 DEF MatchDestroyed, ConnectionStatus, ClearRoster
        <5>2. Published("_RosterChanged") = RosterGone
          BY <4>2, PlainPublishes DEF Plainly
        <5>3. QED BY <2>0, <5>1, <5>2, RosterIsHeard DEF RosterGone, NoRoster
      <4>3. CASE /\ in.event \notin {"BallHit", "GoalScored", "StatfeedEvent"}
                 /\ ~(MatchDestroyed \/ ConnectionStatus)
        <5>1. roster' = roster
          BY <2>0, <2>2, <4>3 DEF Deliver, MatchCreated, CountdownBegin, RoundStarted,
                                  CrossbarHit, MatchEnded, tickVars
        <5>2. Published("_RosterChanged") = {}
          BY <2>0, <2>2, <4>3, Kinds, PlainPublishes
        <5>3. QED BY <2>0, <5>1, <5>2, RosterIsHeard
      <4>4. QED BY <4>1, <4>2, <4>3
    <3>4. QED BY <3>1, <3>2, <3>3 DEF RosterKnown
  <2>3. QED BY <2>0, <2>1, <2>2 DEF Deliver
<1>4. QED
  BY <1>1, <1>2, <1>3 DEF BooksNext

\* The roster last announced is the one a late client is sent, its ids tell its
\* players apart, and joins and leaves add up to the players of the last tick
\* (tracker.go, diffPlayers).
THEOREM RostersAlwaysAgree == BooksSpec => []RostersAgree
<1>1. BooksInit => RosterKnown
  BY DEF BooksInit, AuditInit, Init, TicksInit, NoRoster, RosterKnown
<1>2. Typed /\ RosterKnown /\ [BooksNext]_booksVars => RosterKnown'
  BY RosterStep
<1>3. Typed /\ RosterKnown => RostersAgree
  BY DEF Typed, RosterKnown, RostersAgree
<1>4. QED
  BY <1>1, <1>2, <1>3, TypedInvariant, PTL DEF BooksSpec

-----------------------------------------------------------------------------
(***************************************************************************)
(* Boost                                                                   *)
(***************************************************************************)
\* The ledger of a player, with the pickup under way, is the boost of the last
\* tick, at which that pickup has arrived.
Balanced(p) ==
  audit.ledger[p] # Absent =>
    /\ audit.ledger[p] \in Int
    /\ audit.ledger[p] + Gain(p, streaks) = Level(tick.players[p])
    /\ p \in DOMAIN streaks => streaks[p].last = Level(tick.players[p])

StreaksAreNumbers ==
  \A p \in DOMAIN streaks : streaks[p].start \in Nat /\ streaks[p].last \in Nat

LedgerBalanced == StreaksAreNumbers /\ \A p \in Players : Balanced(p)

\* The levels of a snapshot are numbers.
LEMMA LevelIsNat ==
  ASSUME NEW t, IsSnapshot(t), NEW p \in DOMAIN t.players
  PROVE  /\ Level(t.players[p]) \in Nat
         /\ t.players[p].boost # Absent =>
              t.players[p].boost \in Nat /\ Level(t.players[p]) = t.players[p].boost
  BY DEF IsSnapshot, Level

\* Which streaks a diff leaves, by player.
LEMMA StreaksByPlayer ==
  ASSUME NEW a, NEW b, NEW p
  PROVE  LET x == a.players[p]
             y == b.players[p]
             rises == /\ p \in DOMAIN a.players \cap DOMAIN b.players
                      /\ Rises(x, y) /\ ~DropsStreak(x, y)
         IN  /\ p \in DOMAIN StreaksAfter(a, b) <=>
                  \/ rises
                  \/ p \in DOMAIN streaks /\ p \notin DOMAIN a.players \cap DOMAIN b.players
             /\ p \in DOMAIN StreaksAfter(a, b) =>
                  StreaksAfter(a, b)[p] = IF rises THEN Rise(p, x, y) ELSE streaks[p]
<1>1. Both(a, b) = DOMAIN a.players \cap DOMAIN b.players
  BY Indexed DEF Both
<1>2. /\ p \in Where(a, b, Rises) <=> p \in Both(a, b) /\ Rises(a.players[p], b.players[p])
      /\ p \in Where(a, b, DropsStreak) <=> p \in Both(a, b) /\ DropsStreak(a.players[p], b.players[p])
  BY <1>1, Indexed DEF Where
<1>3. p \in Both(a, b) => ById(a)[p] = a.players[p] /\ ById(b)[p] = b.players[p]
  BY <1>1, Indexed
<1>4. QED
  BY <1>1, <1>2, <1>3 DEF StreaksAfter

LEMMA StreaksStayNumbers ==
  ASSUME StreaksAreNumbers, NEW a, NEW b, IsSnapshot(a), IsSnapshot(b),
         streaks' = StreaksAfter(a, b)
  PROVE  StreaksAreNumbers'
<1> SUFFICES ASSUME NEW p \in DOMAIN streaks'
             PROVE  streaks'[p].start \in Nat /\ streaks'[p].last \in Nat
  BY DEF StreaksAreNumbers
<1> DEFINE x == a.players[p]
           y == b.players[p]
           rises == /\ p \in DOMAIN a.players \cap DOMAIN b.players
                    /\ Rises(x, y) /\ ~DropsStreak(x, y)
<1>1. /\ rises \/ p \in DOMAIN streaks
      /\ streaks'[p] = IF rises THEN Rise(p, x, y) ELSE streaks[p]
  BY StreaksByPlayer
<1>2. CASE rises
  <2>1. Level(x) \in Nat /\ y.boost \in Nat
    BY <1>2, LevelIsNat DEF Rises
  <2>2. Rise(p, x, y).last = y.boost
    BY DEF Rise
  <2>3. Rise(p, x, y).start = IF p \in DOMAIN streaks THEN streaks[p].start ELSE Level(x)
    BY DEF Rise
  <2>4. QED BY <1>1, <1>2, <2>1, <2>2, <2>3 DEF StreaksAreNumbers
<1>3. CASE ~rises
  BY <1>1, <1>3 DEF StreaksAreNumbers
<1>4. QED BY <1>2, <1>3

\* What the boost events of a live diff say of a player who did not respawn and
\* is not about to be reset.
LEMMA BoostHeard ==
  ASSUME NEW a, NEW b, NEW phase \in LivePhases, Comparable(a, b),
         NEW p \in DOMAIN a.players \cap DOMAIN b.players,
         ~Respawns(a.players[p], b.players[p]), b.players[p].boost # Absent, p \notin suppress,
         \A n \in {"_BoostPickup", "_BoostConsumed"} :
           Published(n) = {e \in TickDiffOut(a, b, phase) : e.name = n}
  PROVE  LET x == a.players[p]
             y == b.players[p]
         IN  /\ Change(p, "_BoostPickup")
                  = IF p \in DOMAIN streaks /\ ~Rises(x, y)
                    THEN streaks[p].last - streaks[p].start ELSE 0
             /\ Change(p, "_BoostConsumed") = IF Falls(x, y) THEN y.boost - Level(x) ELSE 0
<1> DEFINE x == a.players[p]
           y == b.players[p]
           pickup == [name |-> "_BoostPickup", who |-> p, before |-> streaks[p].start,
                      after |-> streaks[p].last]
           spend == [name |-> "_BoostConsumed", who |-> p, before |-> Level(x), after |-> y.boost]
<1>1. /\ p \in Both(a, b) /\ ById(a)[p] = x /\ ById(b)[p] = y
  BY Indexed DEF Both
<1>2. Published("_BoostPickup") = Pickups(a, b) /\ Published("_BoostConsumed") = Spends(a, b)
  <2>1. TickDiffOut(a, b, phase)
          = Joined(a, b) \cup Left(a, b) \cup ScoreChanges(a, b) \cup Pickups(a, b)
              \cup Spends(a, b) \cup TeamScores(a, b) \cup Possession(a, b)
    BY DEF TickDiffOut
  <2>2. {e \in TickDiffOut(a, b, phase) : e.name = "_BoostPickup"} = Pickups(a, b)
    BY <2>1, DiffNames
  <2>3. {e \in TickDiffOut(a, b, phase) : e.name = "_BoostConsumed"} = Spends(a, b)
    BY <2>1, DiffNames
  <2>4. QED BY <2>2, <2>3
<1>3. Of(p, "_BoostPickup") = IF p \in DOMAIN streaks /\ ~Rises(x, y) THEN {pickup} ELSE {}
  <2>1. p \notin Where(a, b, DropsStreak)
    BY <1>1 DEF Where, DropsStreak
  <2>2. p \in Where(a, b, Rises) <=> Rises(x, y)
    BY <1>1 DEF Where
  <2>3. ASSUME NEW e \in Pickups(a, b), e.who = p
        PROVE  e = pickup /\ p \in DOMAIN streaks /\ ~Rises(x, y)
    <3>1. PICK id \in DOMAIN streaks \cap
                    (Both(a, b) \ (Where(a, b, DropsStreak) \cup Where(a, b, Rises))) :
            e = [name |-> "_BoostPickup", who |-> id, before |-> streaks[id].start,
                 after |-> streaks[id].last]
      BY <2>3 DEF Pickups
    <3>2. id = p BY <2>3, <3>1
    <3>3. QED BY <1>1, <2>2, <3>1, <3>2
  <2>4. p \in DOMAIN streaks /\ ~Rises(x, y) => pickup \in Pickups(a, b)
    BY <1>1, <2>1, <2>2 DEF Pickups
  <2>5. pickup.who = p
    OBVIOUS
  <2> HIDE DEF pickup
  <2>6. QED BY <1>2, <2>3, <2>4, <2>5 DEF Of
<1>4. Of(p, "_BoostConsumed") = IF Falls(x, y) THEN {spend} ELSE {}
  <2>1. p \notin SuppressArmed(a, b)
    BY <1>1 DEF SuppressArmed, Where
  <2>2. p \in Where(a, b, Falls) <=> Falls(x, y)
    BY <1>1 DEF Where
  <2>3. ASSUME NEW e \in Spends(a, b), e.who = p
        PROVE  e = spend /\ Falls(x, y)
    <3>1. PICK id \in Where(a, b, Falls) \ SuppressArmed(a, b) :
            e = [name |-> "_BoostConsumed", who |-> id, before |-> Level(ById(a)[id]),
                 after |-> ById(b)[id].boost]
      BY <2>3 DEF Spends
    <3>2. id = p BY <2>3, <3>1
    <3>3. QED BY <1>1, <2>2, <3>1, <3>2
  <2>4. Falls(x, y) => spend \in Spends(a, b)
    BY <1>1, <2>1, <2>2 DEF Spends
  <2>5. spend.who = p
    OBVIOUS
  <2> HIDE DEF spend
  <2>6. QED BY <1>2, <2>3, <2>4, <2>5 DEF Of
<1>5. pickup.after - pickup.before = streaks[p].last - streaks[p].start
  OBVIOUS
<1>6. spend.after - spend.before = y.boost - Level(x)
  OBVIOUS
<1> HIDE DEF pickup, spend, x, y
<1>7. Change(p, "_BoostPickup")
        = IF p \in DOMAIN streaks /\ ~Rises(x, y) THEN streaks[p].last - streaks[p].start ELSE 0
  BY <1>3, <1>5 DEF Change
<1>8. Change(p, "_BoostConsumed") = IF Falls(x, y) THEN y.boost - Level(x) ELSE 0
  BY <1>4, <1>6 DEF Change
<1>9. QED BY <1>7, <1>8 DEF x, y

\* Over a step the observer trusts, what was heard is what changed.
LEMMA CleanStep ==
  ASSUME Typed, LedgerBalanced, NEW in, in.event = "UpdateState", IsSnapshot(in.tick),
         UpdateState(in.tick, in.phase), NEW p \in Players, Clean(in, p),
         audit.ledger[p] # Absent,
         audit'.ledger[p] = audit.ledger[p] + Change(p, "_BoostPickup") + Change(p, "_BoostConsumed")
  PROVE  Balanced(p)'
<1> DEFINE a == tick
           b == in.tick
           x == a.players[p]
           y == b.players[p]
           open == p \in DOMAIN streaks
<1>1. prevTick' = a /\ tick' = b /\ Previous(in.tick) = a /\ Latest(in.tick) = b
  BY DEF UpdateState, ObserveTick, Previous, Latest, Clean
<1>2. /\ Comparable(a, b)
      /\ in.phase \in LivePhases
      /\ p \in DOMAIN a.players \cap DOMAIN b.players
      /\ ~x.down /\ y.boost # Absent /\ p \notin suppress
  BY <1>1 DEF Clean, Settled, Comparable
<1>3. IsSnapshot(a) /\ IsSnapshot(b)
  BY <1>2 DEF Comparable, Typed
<1>4. Level(x) \in Nat /\ Level(y) \in Nat /\ y.boost \in Nat /\ Level(y) = y.boost
  BY <1>2, <1>3, LevelIsNat
<1>5. streaks' = StreaksAfter(a, b)
  <2>1. TickDiffStep(a, b, in.phase)
    BY <1>1 DEF UpdateState
  <2>2. QED BY <1>2, <2>1 DEF TickDiffStep, Comparable
<1>6. ~Respawns(x, y) /\ ~DropsStreak(x, y)
  BY <1>2 DEF Respawns, DropsStreak
<1>7. /\ Change(p, "_BoostPickup")
           = IF open /\ ~Rises(x, y) THEN streaks[p].last - streaks[p].start ELSE 0
      /\ Change(p, "_BoostConsumed") = IF Falls(x, y) THEN y.boost - Level(x) ELSE 0
  BY <1>1, <1>2, <1>6, UpdatePublishes, BoostHeard
<1>8. /\ p \in DOMAIN streaks' <=> Rises(x, y)
      /\ Rises(x, y) => streaks'[p] = Rise(p, x, y)
  BY <1>2, <1>5, <1>6, StreaksByPlayer
<1>9. /\ audit.ledger[p] \in Int
      /\ open => /\ streaks[p].start \in Nat /\ streaks[p].last \in Nat
                 /\ streaks[p].last = Level(x)
                 /\ audit.ledger[p] + (streaks[p].last - streaks[p].start) = Level(x)
      /\ ~open => audit.ledger[p] + 0 = Level(x)
  BY DEF LedgerBalanced, Balanced, StreaksAreNumbers, Gain
<1>10. Rises(x, y) <=> y.boost > Level(x)
  BY <1>2 DEF Rises
<1>11. Falls(x, y) <=> y.boost < Level(x)
  BY <1>2 DEF Falls
<1>12. CASE Rises(x, y)
  <2>1. /\ p \in DOMAIN streaks'
        /\ streaks'[p].last = y.boost
        /\ streaks'[p].start = IF open THEN streaks[p].start ELSE Level(x)
    BY <1>8, <1>12 DEF Rise
  <2>2. Gain(p, streaks') = y.boost - (IF open THEN streaks[p].start ELSE Level(x))
    BY <2>1 DEF Gain
  <2> HIDE DEF x, y
  <2>3. audit'.ledger[p] = audit.ledger[p] + 0 + 0
    BY <1>4, <1>7, <1>10, <1>11, <1>12
  <2>4. audit'.ledger[p] \in Int /\ audit'.ledger[p] + Gain(p, streaks') = Level(y)
    BY <1>4, <1>9, <2>2, <2>3
  <2>5. QED BY <1>1, <1>4, <2>1, <2>4 DEF Balanced, y
<1>13. CASE ~Rises(x, y)
  <2>1. p \notin DOMAIN streaks' /\ Gain(p, streaks') = 0
    BY <1>8, <1>13 DEF Gain
  <2> HIDE DEF x, y
  <2>2. audit'.ledger[p]
          = audit.ledger[p] + (IF open THEN streaks[p].last - streaks[p].start ELSE 0)
              + (y.boost - Level(x))
    BY <1>4, <1>7, <1>10, <1>11, <1>13
  <2>3. audit'.ledger[p] \in Int /\ audit'.ledger[p] + Gain(p, streaks') = Level(y)
    BY <1>4, <1>9, <2>1, <2>2
  <2>4. QED BY <1>1, <2>1, <2>3 DEF Balanced, y
<1>14. QED BY <1>12, <1>13

\* No other step leaves a streak that is not of numbers.
LEMMA StreaksStep ==
  ASSUME Typed, StreaksAreNumbers, NEW in \in Inputs, Deliver(in)
  PROVE  StreaksAreNumbers'
<1>1. CASE in.event = "UpdateState"
  <2> DEFINE a == Previous(in.tick)
             b == Latest(in.tick)
  <2>1. TickDiffStep(a, b, in.phase) /\ IsSnapshot(in.tick)
    BY <1>1, GoodInput DEF Deliver, UpdateState
  <2>2. (a = Absent \/ IsSnapshot(a)) /\ (b = Absent \/ IsSnapshot(b))
    BY <2>1 DEF Previous, Latest, Typed
  <2> HIDE DEF a, b
  <2>3. \/ UNCHANGED streaks
        \/ streaks' = <<>>
        \/ a # Absent /\ b # Absent /\ streaks' = StreaksAfter(a, b)
    BY <2>1 DEF TickDiffStep, ForgetBoosts
  <2>4. QED BY <2>2, <2>3, StreaksStayNumbers DEF StreaksAreNumbers
<1>2. CASE in.event \in Boundary
  BY <1>2 DEF Deliver, Boundary, MatchCreated, MatchDestroyed, ForgetBoosts, StreaksAreNumbers
<1>3. CASE in.event = "CountdownBegin"
  <2>1. UNCHANGED streaks \/ \E S : streaks' = [id \in DOMAIN streaks \ S |-> streaks[id]]
    BY <1>3 DEF Deliver, CountdownBegin, ArmKickoffSuppression
  <2>2. QED BY <2>1 DEF StreaksAreNumbers
<1>4. CASE in.event \notin Boundary \cup {"UpdateState", "CountdownBegin"}
  <2>1. UNCHANGED streaks
    BY <1>4 DEF Deliver, Boundary, BallHit, GoalScored, StatfeedEvent, ConnectionStatus,
                RoundStarted, DisarmKickoffSuppression, CrossbarHit, MatchEnded, tickVars
  <2>2. QED BY <2>1 DEF StreaksAreNumbers
<1>5. QED BY <1>1, <1>2, <1>3, <1>4

LEMMA LedgerStep ==
  ASSUME Typed, LedgerBalanced, [BooksNext]_booksVars
  PROVE  LedgerBalanced'
<1>1. CASE UNCHANGED booksVars
  BY <1>1 DEF booksVars, vars, tickVars, LedgerBalanced, StreaksAreNumbers, Balanced
<1>2. CASE Wait
  BY <1>2 DEF Wait, Elapse, tickVars, LedgerBalanced, StreaksAreNumbers, Balanced
<1>3. ASSUME NEW in \in Inputs, Receive(in)
      PROVE  LedgerBalanced'
  <2>0. Deliver(in) /\ audit'.ledger = [p \in Players |-> LedgerAfter(in, p)]
    BY <1>3 DEF Receive, Audit
  <2>1. StreaksAreNumbers'
    BY <2>0, StreaksStep DEF LedgerBalanced
  <2>2. ASSUME NEW p \in Players
        PROVE  Balanced(p)'
    <3>1. audit'.ledger[p] = LedgerAfter(in, p)
      BY <2>0
    <3>2. CASE in.event = "UpdateState"
      <4>1. UpdateState(in.tick, in.phase) /\ IsSnapshot(in.tick)
        BY <2>0, <3>2, GoodInput DEF Deliver
      <4>2. CASE Clean(in, p) /\ audit.ledger[p] # Absent
        <5>1. audit'.ledger[p]
                = audit.ledger[p] + Change(p, "_BoostPickup") + Change(p, "_BoostConsumed")
          BY <3>1, <3>2, <4>2 DEF LedgerAfter
        <5>2. QED BY <3>2, <4>1, <4>2, <5>1, CleanStep
      <4>3. CASE /\ ~Clean(in, p) /\ in.tick.teams
                 /\ p \in DOMAIN tick'.players \ DOMAIN streaks'
        <5>1. audit'.ledger[p] = Level(tick'.players[p])
          BY <3>1, <3>2, <4>3 DEF LedgerAfter
        <5>2. tick' = in.tick
          BY <4>1, <4>3 DEF UpdateState, ObserveTick, Latest
        <5>3. Level(tick'.players[p]) \in Nat
          BY <4>1, <4>3, <5>2, LevelIsNat
        <5>4. Gain(p, streaks') = 0
          BY <4>3 DEF Gain
        <5>5. QED BY <4>3, <5>1, <5>3, <5>4 DEF Balanced
      <4>4. CASE /\ ~(Clean(in, p) /\ audit.ledger[p] # Absent)
                 /\ ~(/\ ~Clean(in, p) /\ in.tick.teams
                      /\ p \in DOMAIN tick'.players \ DOMAIN streaks')
        <5>1. audit'.ledger[p] = Absent
          BY <3>1, <3>2, <4>4 DEF LedgerAfter
        <5>2. QED BY <5>1 DEF Balanced
      <4>5. QED BY <4>2, <4>3, <4>4
    <3>3. CASE in.event \in Boundary \cup {"CountdownBegin"}
      <4>1. audit'.ledger[p] = Absent
        BY <3>1, <3>3 DEF LedgerAfter, Clean, Boundary
      <4>2. QED BY <4>1 DEF Balanced
    <3>4. CASE in.event \notin Boundary \cup {"UpdateState", "CountdownBegin"}
      <4>1. audit'.ledger[p] = audit.ledger[p]
        BY <3>1, <3>4 DEF LedgerAfter, Clean
      <4>2. UNCHANGED <<streaks, tick>>
        BY <2>0, <3>4 DEF Deliver, Boundary, BallHit, GoalScored, StatfeedEvent, ConnectionStatus,
                          RoundStarted, DisarmKickoffSuppression, CrossbarHit, MatchEnded, tickVars
      <4>3. QED BY <4>1, <4>2 DEF LedgerBalanced, Balanced
    <3>5. QED BY <3>2, <3>3, <3>4
  <2>3. QED BY <2>1, <2>2 DEF LedgerBalanced
<1>4. QED
  BY <1>1, <1>2, <1>3 DEF BooksNext

\* The boost published as picked up, less what was published as spent, plus the
\* pickup under way, is the boost the player has (tick_diff.go).
THEOREM BooksAlwaysBalance == BooksSpec => []BooksBalance
<1>1. BooksInit => LedgerBalanced
  BY DEF BooksInit, AuditInit, Init, TicksInit, LedgerBalanced, StreaksAreNumbers, Balanced
<1>2. Typed /\ LedgerBalanced /\ [BooksNext]_booksVars => LedgerBalanced'
  BY LedgerStep
<1>3. LedgerBalanced => BooksBalance
  BY DEF LedgerBalanced, Balanced, BooksBalance
<1>4. QED
  BY <1>1, <1>2, <1>3, TypedInvariant, PTL DEF BooksSpec

-----------------------------------------------------------------------------
(***************************************************************************)
(* The elements of a sequence at some positions                            *)
(***************************************************************************)
Upto(keep, i) == {j \in keep : j <= i}

\* A set of naturals that is not empty has a least element.
LEMMA LeastNat ==
  ASSUME NEW T, T \subseteq Nat, T # {}
  PROVE  \E x \in T : \A y \in T : x <= y
<1>1. PICK x \in T : \A y \in T : ~(<<y, x>> \in OpToRel(<, Nat))
  BY WFMin, NatLessThanWellFounded, Zenon
<1>2. \A y \in T : ~(y < x)
  BY <1>1 DEF OpToRel
<1>3. QED BY <1>2

\* How many of the positions come up to the next one.
LEMMA UptoGrows ==
  ASSUME NEW n \in Nat, NEW keep, keep \subseteq 1..n
  PROVE  /\ IsFiniteSet(keep) /\ Cardinality(keep) \in Nat /\ Cardinality(keep) <= n
         /\ Upto(keep, 0) = {} /\ Upto(keep, n) = keep
         /\ \A i \in Nat : IsFiniteSet(Upto(keep, i)) /\ Cardinality(Upto(keep, i)) \in Nat
         /\ \A i \in Nat : Cardinality(Upto(keep, i + 1))
                             = Cardinality(Upto(keep, i)) + (IF i + 1 \in keep THEN 1 ELSE 0)
<1>1. IsFiniteSet(1..n) /\ Cardinality(1..n) = n
  BY FS_Interval
<1>2. IsFiniteSet(keep) /\ Cardinality(keep) \in Nat /\ Cardinality(keep) <= n
  BY <1>1, FS_Subset, FS_CardinalityType
<1>3. \A j \in keep : j \in Nat /\ 0 < j /\ j <= n
  OBVIOUS
<1>4. Upto(keep, 0) = {} /\ Upto(keep, n) = keep
  <2>1. \A j \in keep : ~(j <= 0) /\ j <= n BY <1>3
  <2>2. Upto(keep, 0) = {} BY <2>1, Zenon DEF Upto
  <2>3. Upto(keep, n) = keep BY <2>1, Zenon DEF Upto
  <2>4. QED BY <2>2, <2>3
<1>5. ASSUME NEW i \in Nat
      PROVE  IsFiniteSet(Upto(keep, i)) /\ Cardinality(Upto(keep, i)) \in Nat
  <2>1. Upto(keep, i) \subseteq keep BY DEF Upto
  <2>2. IsFiniteSet(Upto(keep, i)) BY <1>2, <2>1, FS_Subset
  <2>3. QED BY <2>2, FS_CardinalityType
<1>6. ASSUME NEW i \in Nat
      PROVE  Cardinality(Upto(keep, i + 1))
               = Cardinality(Upto(keep, i)) + (IF i + 1 \in keep THEN 1 ELSE 0)
  <2>1. \A j \in keep : j <= i + 1 <=> j <= i \/ j = i + 1
    BY <1>3
  <2>2. Upto(keep, i + 1) = IF i + 1 \in keep THEN Upto(keep, i) \cup {i + 1} ELSE Upto(keep, i)
    BY <2>1 DEF Upto
  <2>3. i + 1 \notin Upto(keep, i)
    BY DEF Upto
  <2>4. Cardinality(Upto(keep, i) \cup {i + 1}) = Cardinality(Upto(keep, i)) + 1
    BY <1>5, <2>3, FS_AddElement
  <2>5. QED BY <1>5, <2>2, <2>4
<1>7. QED BY <1>2, <1>4, <1>5, <1>6

\* There is a k-th position for every k up to the number of them.
LEMMA NthExists ==
  ASSUME NEW n \in Nat, NEW keep, keep \subseteq 1..n, NEW k \in 1..Cardinality(keep)
  PROVE  /\ Nth(keep, k) \in keep
         /\ Cardinality(Upto(keep, Nth(keep, k))) = k
<1> DEFINE C(i) == Cardinality(Upto(keep, i))
           T == {i \in 1..n : k <= C(i)}
<1>1. Cardinality(keep) \in Nat /\ k \in Nat /\ k >= 1 /\ k <= Cardinality(keep)
  <2>1. Cardinality(keep) \in Nat BY UptoGrows
  <2>2. QED BY <2>1
<1>2. C(0) = 0
  BY UptoGrows, FS_EmptySet
<1>3. C(n) = Cardinality(keep)
  BY UptoGrows, ZenonT(60)
<1>4. \A i \in Nat : C(i) \in Nat /\ C(i + 1) = C(i) + (IF i + 1 \in keep THEN 1 ELSE 0)
  BY UptoGrows, ZenonT(60)
<1> HIDE DEF C
<1>5. n \in T
  BY <1>1, <1>2, <1>3
<1>6. PICK i \in T : \A j \in T : i <= j
  <2>1. T \subseteq Nat /\ T # {} BY <1>5
  <2> HIDE DEF T
  <2>2. QED BY <2>1, LeastNat
<1>7. i \in keep /\ C(i) = k
  <2>1. i - 1 \in Nat /\ (i - 1) + 1 = i
    BY <1>6
  <2>2. ~(k <= C(i - 1))
    BY <1>1, <1>2, <1>6, <2>1
  <2>3. C(i) = C(i - 1) + (IF i \in keep THEN 1 ELSE 0) /\ C(i - 1) \in Nat
    BY <1>4, <2>1
  <2>4. k <= C(i)
    BY <1>6
  <2>5. QED BY <1>1, <2>2, <2>3, <2>4
<1>8. \E j \in keep : Cardinality({l \in keep : l <= j}) = k
  BY <1>7 DEF C, Upto
<1>9. QED
  BY <1>8 DEF Nth, Upto

\* The positions come in their order.
LEMMA NthGrows ==
  ASSUME NEW n \in Nat, NEW keep, keep \subseteq 1..n,
         NEW k \in 1..Cardinality(keep), NEW l \in 1..Cardinality(keep), k < l
  PROVE  Nth(keep, k) < Nth(keep, l)
<1> DEFINE i == Nth(keep, k)
           j == Nth(keep, l)
<1>1. i \in keep /\ j \in keep /\ Cardinality(Upto(keep, i)) = k /\ Cardinality(Upto(keep, j)) = l
  BY NthExists
<1> HIDE DEF i, j
<1>2. i \in Nat /\ j \in Nat
  BY <1>1
<1>3. SUFFICES ASSUME j <= i PROVE FALSE
  BY <1>2 DEF i, j
<1>4. Upto(keep, j) \subseteq Upto(keep, i)
  <2>1. \A m \in 1..n : m <= j => m <= i BY <1>2, <1>3
  <2>2. QED BY <2>1, Zenon DEF Upto
<1>5. IsFiniteSet(Upto(keep, i))
  BY <1>2, UptoGrows
<1>6. l <= k
  BY <1>1, <1>4, <1>5, FS_Subset
<1>7. Cardinality(keep) \in Nat
  BY UptoGrows
<1>8. QED BY <1>6, <1>7

\* A position that is kept is the one with its number.
LEMMA NthIs ==
  ASSUME NEW n \in Nat, NEW keep, keep \subseteq 1..n, NEW i \in keep
  PROVE  Nth(keep, Cardinality(Upto(keep, i))) = i
<1> DEFINE k == Cardinality(Upto(keep, i))
<1>1. i \in Nat /\ IsFiniteSet(keep) /\ Cardinality(keep) \in Nat
  <2>1. IsFiniteSet(keep) /\ Cardinality(keep) \in Nat BY UptoGrows
  <2>2. QED BY <2>1
<1>2. Upto(keep, i) \subseteq keep /\ i \in Upto(keep, i)
  BY <1>1 DEF Upto
<1>3. k \in Nat /\ k <= Cardinality(keep) /\ k # 0
  <2>1. IsFiniteSet(Upto(keep, i)) /\ k \in Nat BY <1>1, UptoGrows
  <2>2. k <= Cardinality(keep) BY <1>1, <1>2, FS_Subset
  <2>3. k # 0 BY <1>2, <2>1, FS_EmptySet
  <2>4. QED BY <2>1, <2>2, <2>3
<1>4. k \in 1..Cardinality(keep)
  BY <1>1, <1>3
<1> DEFINE j == Nth(keep, k)
<1>5. j \in keep /\ Cardinality(Upto(keep, j)) = k
  BY <1>4, NthExists
<1> HIDE DEF j
<1>6. j \in Nat
  BY <1>5
<1>7. j = i
  <2>1. CASE j < i
    <3>0. (\A m \in 1..n : m <= j => m <= i) /\ ~(i <= j) BY <1>1, <1>6, <2>1
    <3>1. Upto(keep, j) \subseteq Upto(keep, i) /\ i \notin Upto(keep, j)
      BY <3>0, Zenon DEF Upto
    <3>2. IsFiniteSet(Upto(keep, i)) BY <1>1, UptoGrows
    <3>3. Upto(keep, j) = Upto(keep, i) BY <1>5, <3>1, <3>2, FS_Subset
    <3>4. QED BY <1>2, <3>1, <3>3
  <2>2. CASE i < j
    <3>0. (\A m \in 1..n : m <= i => m <= j) /\ ~(j <= i) /\ j <= j BY <1>1, <1>6, <2>2
    <3>1. Upto(keep, i) \subseteq Upto(keep, j) /\ j \in Upto(keep, j) /\ j \notin Upto(keep, i)
      BY <1>5, <3>0, Zenon DEF Upto
    <3>2. IsFiniteSet(Upto(keep, j)) BY <1>6, UptoGrows
    <3>3. Upto(keep, j) = Upto(keep, i) BY <1>5, <3>1, <3>2, FS_Subset
    <3>4. QED BY <3>1, <3>3
  <2>3. QED BY <1>1, <1>6, <2>1, <2>2
<1>8. QED
  BY <1>7 DEF j

\* The elements that are kept are a sequence of as many as the positions.
LEMMA KeptIsSeq ==
  ASSUME NEW S, NEW s \in Seq(S), NEW keep, keep \subseteq 1..Len(s)
  PROVE  /\ Kept(s, keep) \in Seq(S)
         /\ Len(Kept(s, keep)) = Cardinality(keep)
         /\ Len(Kept(s, keep)) <= Len(s)
         /\ \A k \in 1..Len(Kept(s, keep)) :
              Nth(keep, k) \in keep /\ Kept(s, keep)[k] = s[Nth(keep, k)]
<1> DEFINE c == Cardinality(keep)
<1>1. Len(s) \in Nat /\ c \in Nat /\ c <= Len(s)
  BY LenProperties, UptoGrows
<1>2. \A k \in 1..c : Nth(keep, k) \in keep /\ s[Nth(keep, k)] \in S
  <2> TAKE k \in 1..c
  <2>1. Nth(keep, k) \in keep BY <1>1, NthExists
  <2>2. QED BY <2>1, LenProperties
<1> HIDE DEF c
<1>3. Kept(s, keep) = [k \in 1..c |-> s[Nth(keep, k)]]
  BY DEF Kept, c
<1>4. Kept(s, keep) \in [1..c -> S]
  BY <1>2, <1>3
<1>5. Kept(s, keep) \in Seq(S) /\ Len(Kept(s, keep)) = c
  BY <1>1, <1>4
<1>6. QED
  BY <1>1, <1>2, <1>3, <1>5 DEF c

\* Positions of what is kept that come from a set of positions are no more.
LEMMA KeptCount ==
  ASSUME NEW S, NEW s \in Seq(S), NEW keep, keep \subseteq 1..Len(s),
         NEW I, I \subseteq 1..Len(s), NEW J, J \subseteq 1..Len(Kept(s, keep)),
         \A k \in J : Nth(keep, k) \in I
  PROVE  /\ IsFiniteSet(I) /\ Cardinality(I) \in Nat
         /\ IsFiniteSet(J) /\ Cardinality(J) \in Nat
         /\ Cardinality(J) <= Cardinality(I)
<1> DEFINE f == [k \in J |-> Nth(keep, k)]
<1>1. Len(s) \in Nat /\ Len(Kept(s, keep)) = Cardinality(keep)
  BY LenProperties, KeptIsSeq
<1>2. IsFiniteSet(I) /\ Cardinality(I) \in Nat
  <2>1. IsFiniteSet(1..Len(s)) BY <1>1, FS_Interval
  <2>2. IsFiniteSet(I) BY <2>1, FS_Subset
  <2>3. QED BY <2>2, FS_CardinalityType
<1>3. f \in [J -> I]
  OBVIOUS
<1>4. ASSUME NEW k \in J, NEW l \in J, f[k] = f[l]
      PROVE  k = l
  <2>1. k \in 1..Cardinality(keep) /\ l \in 1..Cardinality(keep)
    BY <1>1
  <2>2. k \in Nat /\ l \in Nat
    BY <1>1
  <2>3. Nth(keep, k) = Nth(keep, l)
    BY <1>4
  <2>4. Nth(keep, k) \in 1..Len(s)
    OBVIOUS
  <2>5. ~(k < l)
    <3>1. SUFFICES ASSUME k < l PROVE FALSE OBVIOUS
    <3>2. Nth(keep, k) < Nth(keep, l) BY <1>1, <2>1, <3>1, NthGrows
    <3>3. QED BY <1>1, <2>3, <2>4, <3>2
  <2>6. ~(l < k)
    <3>1. SUFFICES ASSUME l < k PROVE FALSE OBVIOUS
    <3>2. Nth(keep, l) < Nth(keep, k) BY <1>1, <2>1, <3>1, NthGrows
    <3>3. QED BY <1>1, <2>3, <2>4, <3>2
  <2>7. QED BY <2>2, <2>5, <2>6
<1>5. f \in Injection(J, I)
  BY <1>3, <1>4 DEF Injection, IsInjective
<1>6. IsFiniteSet(J) /\ Cardinality(J) <= Cardinality(I)
  BY <1>2, <1>5, FS_Injection
<1>7. Cardinality(J) \in Nat
  BY <1>6, FS_CardinalityType
<1>8. QED BY <1>2, <1>6, <1>7

-----------------------------------------------------------------------------
(***************************************************************************)
(* The correlation buffer                                                  *)
(***************************************************************************)
\* How far an entry moves when another is recorded.
Shift(buf) == IF Len(buf) >= Capacity THEN 1 ELSE 0

LEMMA RecordIsSeq ==
  ASSUME NEW S, NEW buf \in Seq(S), NEW e \in S
  PROVE  /\ Record(buf, e) \in Seq(S)
         /\ Len(Record(buf, e)) = Len(buf) - Shift(buf) + 1
         /\ \A k \in 1..(Len(Record(buf, e)) - 1) :
              /\ k + Shift(buf) \in 1..Len(buf)
              /\ Record(buf, e)[k] = buf[k + Shift(buf)]
         /\ Record(buf, e)[Len(Record(buf, e))] = e
         /\ Len(buf) <= Capacity => Len(Record(buf, e)) <= Capacity
<1>1. Len(buf) \in Nat /\ Capacity \in Nat /\ Capacity >= 1
  BY LenProperties, CapacityAssumption
<1>2. CASE Len(buf) >= Capacity
  <2>1. buf # <<>> BY <1>1, <1>2, EmptySeq
  <2>2. /\ Tail(buf) \in Seq(S) /\ Len(Tail(buf)) = Len(buf) - 1
        /\ \A i \in 1..Len(Tail(buf)) : Tail(buf)[i] = buf[i + 1]
    BY <2>1, HeadTailProperties
  <2>3. Record(buf, e) = Append(Tail(buf), e) /\ Shift(buf) = 1
    BY <1>2 DEF Record, Shift
  <2>4. /\ Append(Tail(buf), e) \in Seq(S)
        /\ Len(Append(Tail(buf), e)) = Len(Tail(buf)) + 1
        /\ \A i \in 1..Len(Tail(buf)) : Append(Tail(buf), e)[i] = Tail(buf)[i]
        /\ Append(Tail(buf), e)[Len(Tail(buf)) + 1] = e
    BY <2>2, AppendProperties
  <2>5. QED BY <1>1, <1>2, <2>2, <2>3, <2>4
<1>3. CASE ~(Len(buf) >= Capacity)
  <2>1. Record(buf, e) = Append(buf, e) /\ Shift(buf) = 0
    BY <1>3 DEF Record, Shift
  <2>2. /\ Append(buf, e) \in Seq(S)
        /\ Len(Append(buf, e)) = Len(buf) + 1
        /\ \A i \in 1..Len(buf) : Append(buf, e)[i] = buf[i]
        /\ Append(buf, e)[Len(buf) + 1] = e
    BY AppendProperties
  <2>3. QED BY <1>1, <1>3, <2>1, <2>2
<1>4. QED BY <1>2, <1>3

\* Entries of a kind are no more than before, and the new one.
LEMMA RecordCount ==
  ASSUME NEW S, NEW buf \in Seq(S), NEW e \in S,
         NEW I, I \subseteq 1..Len(buf), NEW J, J \subseteq 1..Len(Record(buf, e)),
         \A k \in J : k # Len(Record(buf, e)) => k + Shift(buf) \in I
  PROVE  /\ Cardinality(I) \in Nat /\ Cardinality(J) \in Nat
         /\ Cardinality(J) <= Cardinality(I) + (IF Len(Record(buf, e)) \in J THEN 1 ELSE 0)
<1> DEFINE n == Len(Record(buf, e))
           d == Shift(buf)
           old == J \ {n}
           f == [k \in old |-> k + d]
<1>1. Len(buf) \in Nat /\ n \in Nat /\ d \in Nat
  BY LenProperties, RecordIsSeq DEF Shift
<1>2. IsFiniteSet(I) /\ Cardinality(I) \in Nat
  <2>1. IsFiniteSet(1..Len(buf)) BY <1>1, FS_Interval
  <2>2. IsFiniteSet(I) BY <2>1, FS_Subset
  <2>3. QED BY <2>2, FS_CardinalityType
<1>3. IsFiniteSet(J) /\ Cardinality(J) \in Nat
  <2>1. IsFiniteSet(1..n) BY <1>1, FS_Interval
  <2>2. IsFiniteSet(J) BY <2>1, FS_Subset
  <2>3. QED BY <2>2, FS_CardinalityType
<1> HIDE DEF n, d
<1>4. \A k \in J : k \in Nat
  BY <1>1 DEF n
<1>5. f \in [old -> I]
  BY DEF n, d
<1>6. \A k, l \in old : f[k] = f[l] => k = l
  BY <1>1, <1>4
<1>7. f \in Injection(old, I)
  BY <1>5, <1>6 DEF Injection, IsInjective
<1>8. Cardinality(old) <= Cardinality(I)
  BY <1>2, <1>7, FS_Injection
<1>9. Cardinality(old) = IF n \in J THEN Cardinality(J) - 1 ELSE Cardinality(J)
  BY <1>3, FS_RemoveElement
<1> HIDE DEF old
<1>10. Cardinality(J) <= Cardinality(I) + (IF n \in J THEN 1 ELSE 0)
  BY <1>2, <1>3, <1>8, <1>9
<1>11. QED
  BY <1>2, <1>3, <1>10 DEF n

\* A walk finds entries of the buffer with one of the names.
LEMMA WalkFinds ==
  ASSUME NEW S, NEW buf \in Seq(S), NEW names, NEW n \in Nat
  PROVE  LET walk == WalkRecent(buf, names, n)
         IN  /\ walk \in Seq(S)
             /\ \A i \in 1..Len(walk) :
                  \E j \in 1..Len(buf) : walk[i] = buf[j] /\ buf[j].name \in names
<1> DEFINE keep == {i \in 1..Len(buf) : buf[i].name \in names}
           found == Kept(buf, keep)
           back == Reverse(found)
           walk == WalkRecent(buf, names, n)
           m == IF n < Len(back) THEN n ELSE Len(back)
<1>1. /\ found \in Seq(S) /\ Len(found) \in Nat
      /\ \A k \in 1..Len(found) : Nth(keep, k) \in keep /\ found[k] = buf[Nth(keep, k)]
  BY KeptIsSeq, LenProperties
<1> HIDE DEF found
<1>2. \A k \in 1..Len(found) :
        found[k] \in S /\ \E j \in 1..Len(buf) : found[k] = buf[j] /\ buf[j].name \in names
  BY <1>1, LenProperties
<1>3. \A i \in 1..Len(found) : Len(found) - i + 1 \in 1..Len(found)
  BY <1>1
<1>4. back = [i \in 1..Len(found) |-> found[Len(found) - i + 1]]
  BY DEF Reverse
<1>5. back \in [1..Len(found) -> S]
  BY <1>2, <1>3, <1>4
<1>6. back \in Seq(S) /\ Len(back) = Len(found)
  BY <1>1, <1>5
<1>7. \A i \in 1..Len(back) : \E j \in 1..Len(buf) : back[i] = buf[j] /\ buf[j].name \in names
  <2> TAKE i \in 1..Len(back)
  <2>1. i \in 1..Len(found) BY <1>6
  <2>2. back[i] = found[Len(found) - i + 1] BY <1>4, <2>1
  <2>3. Len(found) - i + 1 \in 1..Len(found) BY <1>3, <2>1
  <2> HIDE DEF back
  <2>4. QED BY <1>2, <2>2, <2>3
<1>8. walk = SubSeq(back, 1, m)
  BY DEF WalkRecent, FirstN, found
<1> HIDE DEF back, walk
<1>9. m \in Nat /\ m <= Len(back) /\ \A i \in 1..m : i \in 1..Len(back)
  BY <1>1, <1>6
<1>10. \A i \in 1..m : back[i] \in S
  BY <1>6, <1>9, LenProperties
<1>11. walk \in Seq(S) /\ Len(walk) = m /\ \A i \in 1..m : walk[i] = back[i]
  <2> HIDE DEF m
  <2>1. SubSeq(back, 1, m) \in Seq(S) /\ Len(SubSeq(back, 1, m)) = (IF 1 <= m THEN m - 1 + 1 ELSE 0)
        /\ \A i \in 1..(m - 1 + 1) : SubSeq(back, 1, m)[i] = back[1 + i - 1]
    BY <1>9, <1>10, SubSeqProperties
  <2>2. QED BY <1>8, <1>9, <2>1
<1> HIDE DEF m
<1>12. \A i \in 1..Len(walk) : \E j \in 1..Len(buf) : walk[i] = buf[j] /\ buf[j].name \in names
  <2> TAKE i \in 1..Len(walk)
  <2>1. walk[i] = back[i] /\ i \in 1..Len(back) BY <1>9, <1>11
  <2>2. QED BY <1>7, <2>1
<1>13. QED BY <1>11, <1>12 DEF walk

\* The entries the emitters record.
Entries ==
  [name : {"BallHit", "_GoalScored"}, player : [name : Players, known : BOOLEAN], stat : {""}]
    \cup [name : {"StatfeedEvent"}, player : [name : Players \cup {Absent}, known : BOOLEAN],
          stat : {in.stat : in \in {in \in Inputs : in.event = "StatfeedEvent"}}]

Buffered == buffer \in Seq(Entries) /\ Len(buffer) <= Capacity

\* The modifier statistics of a player, and the shots of a team, in the buffer.
ClaimsIn(buf, m, p) ==
  {i \in 1..Len(buf) : buf[i].name = "StatfeedEvent" /\ buf[i].stat = m /\ buf[i].player.name = p}
IsShotFor(e, n) ==
  e.stat = "Shot" /\ e.player.name # Absent /\ Team[e.player.name] = n
ShotsIn(buf, n) ==
  {i \in 1..Len(buf) : buf[i].name = "StatfeedEvent" /\ IsShotFor(buf[i], n)}

\* What is in the buffer was heard and is not credited yet.
Credited ==
  /\ \A m \in Modifiers, p \in Players :
       audit.claims[m][p] \in Int /\ Cardinality(ClaimsIn(buffer, m, p)) <= audit.claims[m][p]
  /\ \A n \in {0, 1} :
       audit.shots[n] \in Int /\ Cardinality(ShotsIn(buffer, n)) <= audit.shots[n]

\* Taking entries out adds none of any kind.
LEMMA KeptAddsNone ==
  ASSUME NEW S, NEW buf \in Seq(S), NEW keep, keep \subseteq 1..Len(buf)
  PROVE  /\ Kept(buf, keep) \in Seq(S) /\ Len(Kept(buf, keep)) <= Len(buf)
         /\ \A m, p : /\ Cardinality(ClaimsIn(buf, m, p)) \in Nat
                      /\ Cardinality(ClaimsIn(Kept(buf, keep), m, p)) \in Nat
                      /\ Cardinality(ClaimsIn(Kept(buf, keep), m, p)) <= Cardinality(ClaimsIn(buf, m, p))
         /\ \A n : /\ Cardinality(ShotsIn(buf, n)) \in Nat
                   /\ Cardinality(ShotsIn(Kept(buf, keep), n)) \in Nat
                   /\ Cardinality(ShotsIn(Kept(buf, keep), n)) <= Cardinality(ShotsIn(buf, n))
<1>1. /\ Kept(buf, keep) \in Seq(S) /\ Len(Kept(buf, keep)) <= Len(buf)
      /\ \A k \in 1..Len(Kept(buf, keep)) :
           Nth(keep, k) \in keep /\ Kept(buf, keep)[k] = buf[Nth(keep, k)]
  BY KeptIsSeq
<1>2. ASSUME NEW m, NEW p
      PROVE  /\ Cardinality(ClaimsIn(buf, m, p)) \in Nat
             /\ Cardinality(ClaimsIn(Kept(buf, keep), m, p)) \in Nat
             /\ Cardinality(ClaimsIn(Kept(buf, keep), m, p)) <= Cardinality(ClaimsIn(buf, m, p))
  <2>1. /\ ClaimsIn(buf, m, p) \subseteq 1..Len(buf)
        /\ ClaimsIn(Kept(buf, keep), m, p) \subseteq 1..Len(Kept(buf, keep))
    BY DEF ClaimsIn
  <2>2. \A k \in ClaimsIn(Kept(buf, keep), m, p) : Nth(keep, k) \in ClaimsIn(buf, m, p)
    BY <1>1 DEF ClaimsIn
  <2>3. QED BY <2>1, <2>2, KeptCount
<1>3. ASSUME NEW n
      PROVE  /\ Cardinality(ShotsIn(buf, n)) \in Nat
             /\ Cardinality(ShotsIn(Kept(buf, keep), n)) \in Nat
             /\ Cardinality(ShotsIn(Kept(buf, keep), n)) <= Cardinality(ShotsIn(buf, n))
  <2>1. /\ ShotsIn(buf, n) \subseteq 1..Len(buf)
        /\ ShotsIn(Kept(buf, keep), n) \subseteq 1..Len(Kept(buf, keep))
    BY DEF ShotsIn
  <2>2. \A k \in ShotsIn(Kept(buf, keep), n) : Nth(keep, k) \in ShotsIn(buf, n)
    BY <1>1 DEF ShotsIn
  <2>3. QED BY <2>1, <2>2, KeptCount
<1>4. QED BY <1>1, <1>2, <1>3

\* Recording adds the entry, and only where it belongs.
LEMMA RecordAddsOne ==
  ASSUME NEW S, NEW buf \in Seq(S), NEW e \in S
  PROVE  /\ \A m, p :
              /\ Cardinality(ClaimsIn(buf, m, p)) \in Nat
              /\ Cardinality(ClaimsIn(Record(buf, e), m, p)) \in Nat
              /\ Cardinality(ClaimsIn(Record(buf, e), m, p)) <= Cardinality(ClaimsIn(buf, m, p))
                   + (IF e.name = "StatfeedEvent" /\ e.stat = m /\ e.player.name = p THEN 1 ELSE 0)
         /\ \A n :
              /\ Cardinality(ShotsIn(buf, n)) \in Nat
              /\ Cardinality(ShotsIn(Record(buf, e), n)) \in Nat
              /\ Cardinality(ShotsIn(Record(buf, e), n)) <= Cardinality(ShotsIn(buf, n))
                   + (IF e.name = "StatfeedEvent" /\ IsShotFor(e, n) THEN 1 ELSE 0)
<1> DEFINE r == Record(buf, e)
<1>1. /\ Len(r) \in Nat /\ Len(r) >= 1
      /\ r[Len(r)] = e
      /\ \A k \in 1..(Len(r) - 1) : k + Shift(buf) \in 1..Len(buf) /\ r[k] = buf[k + Shift(buf)]
  <2>1. Len(buf) \in Nat /\ Capacity \in Nat /\ Capacity >= 1
    BY LenProperties, CapacityAssumption
  <2>2. Len(r) = Len(buf) - Shift(buf) + 1
    BY RecordIsSeq
  <2>3. Shift(buf) \in {0, 1} /\ (Shift(buf) = 1 => Len(buf) >= 1)
    BY <2>1 DEF Shift
  <2>4. /\ r[Len(r)] = e
        /\ \A k \in 1..(Len(r) - 1) : k + Shift(buf) \in 1..Len(buf) /\ r[k] = buf[k + Shift(buf)]
    BY RecordIsSeq, ZenonT(60)
  <2> HIDE DEF r
  <2>5. Len(r) \in Nat /\ Len(r) >= 1
    BY <2>1, <2>2, <2>3
  <2>6. QED BY <2>4, <2>5
<1> HIDE DEF r
<1>2. \A k \in 1..Len(r) : k # Len(r) => k \in 1..(Len(r) - 1)
  BY <1>1
<1>3. ASSUME NEW m, NEW p
      PROVE  /\ Cardinality(ClaimsIn(buf, m, p)) \in Nat
             /\ Cardinality(ClaimsIn(r, m, p)) \in Nat
             /\ Cardinality(ClaimsIn(r, m, p)) <= Cardinality(ClaimsIn(buf, m, p))
                  + (IF e.name = "StatfeedEvent" /\ e.stat = m /\ e.player.name = p THEN 1 ELSE 0)
  <2>1. ClaimsIn(buf, m, p) \subseteq 1..Len(buf) /\ ClaimsIn(r, m, p) \subseteq 1..Len(r)
    BY DEF ClaimsIn
  <2>2. \A k \in ClaimsIn(r, m, p) : k # Len(r) => k + Shift(buf) \in ClaimsIn(buf, m, p)
    BY <1>1, <1>2 DEF ClaimsIn
  <2>3. Len(r) \in ClaimsIn(r, m, p) => e.name = "StatfeedEvent" /\ e.stat = m /\ e.player.name = p
    BY <1>1 DEF ClaimsIn
  <2>4. /\ Cardinality(ClaimsIn(buf, m, p)) \in Nat
        /\ Cardinality(ClaimsIn(r, m, p)) \in Nat
        /\ Cardinality(ClaimsIn(r, m, p))
             <= Cardinality(ClaimsIn(buf, m, p)) + (IF Len(r) \in ClaimsIn(r, m, p) THEN 1 ELSE 0)
    BY <2>1, <2>2, RecordCount DEF r
  <2>5. QED BY <2>3, <2>4
<1>4. ASSUME NEW n
      PROVE  /\ Cardinality(ShotsIn(buf, n)) \in Nat
             /\ Cardinality(ShotsIn(r, n)) \in Nat
             /\ Cardinality(ShotsIn(r, n)) <= Cardinality(ShotsIn(buf, n))
                  + (IF e.name = "StatfeedEvent" /\ IsShotFor(e, n) THEN 1 ELSE 0)
  <2>1. ShotsIn(buf, n) \subseteq 1..Len(buf) /\ ShotsIn(r, n) \subseteq 1..Len(r)
    BY DEF ShotsIn
  <2>2. \A k \in ShotsIn(r, n) : k # Len(r) => k + Shift(buf) \in ShotsIn(buf, n)
    BY <1>1, <1>2 DEF ShotsIn
  <2>3. Len(r) \in ShotsIn(r, n) => e.name = "StatfeedEvent" /\ IsShotFor(e, n)
    BY <1>1 DEF ShotsIn
  <2>4. /\ Cardinality(ShotsIn(buf, n)) \in Nat
        /\ Cardinality(ShotsIn(r, n)) \in Nat
        /\ Cardinality(ShotsIn(r, n))
             <= Cardinality(ShotsIn(buf, n)) + (IF Len(r) \in ShotsIn(r, n) THEN 1 ELSE 0)
    BY <2>1, <2>2, RecordCount DEF r
  <2>5. QED BY <2>3, <2>4
<1>5. QED BY <1>3, <1>4 DEF r

\* What a goal takes out for its modifiers leaves none to credit again.
LEMMA ModifiersAreConsumed ==
  ASSUME Buffered, NEW p, NEW m \in Modifiers
  PROVE  Cardinality(ClaimsIn(ConsumeModifiers(p), m, p)) = 0
<1> DEFINE unwanted == {e \in ToSet(buffer) : e.player.name = p /\ e.stat \in Modifiers}
           keep == {i \in 1..Len(buffer) :
                      ~(buffer[i].name = "StatfeedEvent" /\ buffer[i] \in unwanted)}
<1>1. ConsumeModifiers(p) = Kept(buffer, keep)
  BY DEF ConsumeModifiers, RemoveByName
<1>2. \A i \in 1..Len(buffer) : buffer[i] \in ToSet(buffer)
  BY LenProperties DEF ToSet, Buffered
<1>3. \A k \in 1..Len(Kept(buffer, keep)) :
        Nth(keep, k) \in keep /\ Kept(buffer, keep)[k] = buffer[Nth(keep, k)]
  BY KeptIsSeq DEF Buffered
<1>4. ClaimsIn(Kept(buffer, keep), m, p) = {}
  BY <1>2, <1>3 DEF ClaimsIn
<1>5. QED BY <1>1, <1>4, FS_EmptySet

\* A goal that has a modifier found it in the buffer.
LEMMA ModifiersAreThere ==
  ASSUME Buffered, NEW p, NEW touch, NEW m \in ModifiersOf(p, touch)
  PROVE  m \in Modifiers /\ Cardinality(ClaimsIn(buffer, m, p)) >= 1
<1> DEFINE stats == Recent(buffer, "StatfeedEvent", StatLookback)
<1>1. m \in CollectModifiers(p)
  BY DEF ModifiersOf
<1>2. PICK e \in ToSet(stats) : e.player.name = p /\ e.stat = m
  BY <1>1 DEF CollectModifiers
<1>3. /\ stats \in Seq(Entries)
      /\ \A i \in 1..Len(stats) :
           \E j \in 1..Len(buffer) : stats[i] = buffer[j] /\ buffer[j].name \in {"StatfeedEvent"}
  BY LookbackAssumption, WalkFinds DEF Recent, Buffered
<1> HIDE DEF stats
<1>4. PICK i \in 1..Len(stats) : stats[i] = e
  BY <1>2, <1>3, LenProperties DEF ToSet
<1>5. PICK j \in 1..Len(buffer) : e = buffer[j] /\ buffer[j].name = "StatfeedEvent"
  BY <1>3, <1>4
<1>6. j \in ClaimsIn(buffer, m, p)
  BY <1>2, <1>5 DEF ClaimsIn
<1>7. IsFiniteSet(ClaimsIn(buffer, m, p))
  <2>1. ClaimsIn(buffer, m, p) \subseteq 1..Len(buffer) BY DEF ClaimsIn
  <2>2. Len(buffer) \in Nat BY LenProperties DEF Buffered
  <2>3. IsFiniteSet(1..Len(buffer)) BY <2>2, FS_Interval
  <2>4. QED BY <2>1, <2>3, FS_Subset
<1>8. Cardinality(ClaimsIn(buffer, m, p)) \in Nat /\ Cardinality(ClaimsIn(buffer, m, p)) # 0
  BY <1>6, <1>7, FS_CardinalityType, FS_EmptySet
<1>9. QED BY <1>1, <1>8 DEF CollectModifiers

\* A stolen goal takes a shot of its team out.
LEMMA ShotIsConsumed ==
  ASSUME NEW buf \in Seq(Entries), NEW p, NEW touch, IsStolenGoal(p, touch, buf)
  PROVE  /\ Cardinality(ShotsIn(buf, Team[p])) \in Nat
         /\ Cardinality(ShotsIn(ConsumeShot(p, touch, buf), Team[p])) \in Nat
         /\ Cardinality(ShotsIn(ConsumeShot(p, touch, buf), Team[p]))
              <= Cardinality(ShotsIn(buf, Team[p])) - 1
<1> DEFINE mate == Recent(buf, "BallHit", 2)[2].player
           walk == WalkRecent(buf, {"BallHit", "StatfeedEvent"}, WalkLimit)
           unwanted == {e \in ToSet(buf) : IsShotBy(e, mate)}
           keep == {i \in 1..Len(buf) : ~(buf[i].name = "StatfeedEvent" /\ buf[i] \in unwanted)}
           n == Team[p]
<1>1. ConsumeShot(p, touch, buf) = Kept(buf, keep)
  BY DEF ConsumeShot, RemoveByName
<1>2. FinishesShotOf(ResolveByShortcut(p), mate, buf)
  BY DEF IsStolenGoal
<1>3. Team[mate.name] = n /\ \E i \in 1..Len(walk) : IsShotBy(walk[i], mate)
  BY <1>2 DEF FinishesShotOf, ResolveByShortcut, Resolved
<1>4. \A i \in 1..Len(walk) : \E j \in 1..Len(buf) : walk[i] = buf[j]
  BY LookbackAssumption, WalkFinds
<1>0. mate.name \in Players /\ mate.name # Absent
  <2> DEFINE hits == Recent(buf, "BallHit", 2)
  <2>1. Len(hits) = 2
    BY DEF IsStolenGoal
  <2>2. /\ hits \in Seq(Entries)
        /\ \A i \in 1..Len(hits) :
             \E j \in 1..Len(buf) : hits[i] = buf[j] /\ buf[j].name \in {"BallHit"}
    BY WalkFinds DEF Recent
  <2> HIDE DEF hits
  <2>3. hits[2] \in Entries /\ hits[2].name = "BallHit"
    <3>1. 2 \in 1..Len(hits) BY <2>1
    <3>2. QED BY <2>2, <3>1, LenProperties
  <2>4. hits[2].player.name \in Players
    BY <2>3 DEF Entries
  <2>5. QED BY <2>4, AbsentAssumption DEF hits
<1> HIDE DEF mate, walk
<1>5. PICK j \in 1..Len(buf) : IsShotBy(buf[j], mate)
  BY <1>3, <1>4
<1>6. j \in ShotsIn(buf, n)
  BY <1>0, <1>3, <1>5 DEF ShotsIn, IsShotBy, IsShotFor
<1>7. \A i \in 1..Len(buf) : buf[i] \in ToSet(buf)
  BY LenProperties DEF ToSet
<1>8. j \notin keep
  BY <1>5, <1>7 DEF IsShotBy
<1> DEFINE I == ShotsIn(buf, n) \ {j}
           J == ShotsIn(Kept(buf, keep), n)
<1>9. \A k \in 1..Len(Kept(buf, keep)) :
        Nth(keep, k) \in keep /\ Kept(buf, keep)[k] = buf[Nth(keep, k)]
  BY KeptIsSeq
<1>10. I \subseteq 1..Len(buf) /\ J \subseteq 1..Len(Kept(buf, keep))
  BY DEF ShotsIn
<1>11. \A k \in J : Nth(keep, k) \in I
  <2> TAKE k \in J
  <2>1. /\ Nth(keep, k) \in keep /\ Kept(buf, keep)[k] = buf[Nth(keep, k)]
    BY <1>9, <1>10
  <2>2. Nth(keep, k) \in ShotsIn(buf, n)
    BY <2>1 DEF ShotsIn
  <2>3. QED BY <1>8, <2>1, <2>2
<1>12. keep \subseteq 1..Len(buf)
  OBVIOUS
<1> HIDE DEF keep, J, n
<1>13. /\ IsFiniteSet(I) /\ Cardinality(I) \in Nat /\ Cardinality(J) \in Nat
       /\ Cardinality(J) <= Cardinality(I)
  <2> HIDE DEF I
  <2>1. QED BY <1>10, <1>11, <1>12, KeptCount
<1>14. IsFiniteSet(ShotsIn(buf, n)) /\ Cardinality(ShotsIn(buf, n)) \in Nat
  <2>1. ShotsIn(buf, n) = I \cup {j} BY <1>6
  <2>2. IsFiniteSet(ShotsIn(buf, n)) BY <1>13, <2>1, FS_AddElement
  <2>3. QED BY <2>2, FS_CardinalityType
<1>15. Cardinality(I) = Cardinality(ShotsIn(buf, n)) - 1
  BY <1>6, <1>14, FS_RemoveElement
<1>16. /\ Cardinality(ShotsIn(buf, n)) \in Nat /\ Cardinality(J) \in Nat
       /\ Cardinality(J) <= Cardinality(ShotsIn(buf, n)) - 1
  BY <1>13, <1>14, <1>15
<1>17. QED BY <1>1, <1>16 DEF J, n

\* A goal changes the buffer by taking entries out.
LEMMA GoalsTakeOut ==
  ASSUME NEW p, NEW touch, NEW buf
  PROVE  /\ \E keep \in SUBSET (1..Len(buffer)) : ConsumeModifiers(p) = Kept(buffer, keep)
         /\ \/ ConsumeShot(p, touch, buf) = buf
            \/ \E keep \in SUBSET (1..Len(buf)) : ConsumeShot(p, touch, buf) = Kept(buf, keep)
<1>1. ASSUME NEW b, NEW name, NEW unwanted
      PROVE  \E keep \in SUBSET (1..Len(b)) : RemoveByName(b, name, unwanted) = Kept(b, keep)
  <2> DEFINE keep == {i \in 1..Len(b) : ~(b[i].name = name /\ b[i] \in unwanted)}
  <2>1. keep \in SUBSET (1..Len(b)) /\ RemoveByName(b, name, unwanted) = Kept(b, keep)
    BY DEF RemoveByName
  <2> HIDE DEF keep
  <2>2. QED BY <2>1
<1>2. \E unwanted : ConsumeModifiers(p) = RemoveByName(buffer, "StatfeedEvent", unwanted)
  BY DEF ConsumeModifiers
<1>3. \/ ConsumeShot(p, touch, buf) = buf
      \/ \E unwanted : ConsumeShot(p, touch, buf) = RemoveByName(buf, "StatfeedEvent", unwanted)
  BY DEF ConsumeShot
<1>4. QED BY <1>1, <1>2, <1>3

LEMMA EntryIsEntry ==
  ASSUME NEW p \in Players \cup {Absent}
  PROVE  /\ p \in Players => \A name \in {"BallHit", "_GoalScored"} :
              Entry(name, ResolveByShortcut(p), "") \in Entries
         /\ \A in \in Inputs : in.event = "StatfeedEvent" =>
              Entry("StatfeedEvent", ResolveByShortcut(p), in.stat) \in Entries
<1>1. ASSUME p \in Players PROVE ResolveByShortcut(p) \in [name : Players, known : BOOLEAN]
  BY <1>1 DEF ResolveByShortcut, Resolved
<1>2. ResolveByShortcut(p) \in [name : Players \cup {Absent}, known : BOOLEAN]
  BY DEF ResolveByShortcut, Resolved
<1>3. QED BY <1>1, <1>2 DEF Entry, Entries

\* What a goal credits it has taken out of the buffer.
LEMMA GoalCredits ==
  ASSUME Buffered, Credited, NEW p \in Players, p # Absent, NEW touch, NEW speed,
         GoalScored(p, touch, speed)
  PROVE  LET ev == GoalEvent(p, touch)
         IN  /\ Buffered'
             /\ \A m \in Modifiers, q \in Players :
                  Cardinality(ClaimsIn(buffer', m, q))
                    <= audit.claims[m][q] - (IF q = p /\ m \in ev.modifiers THEN 1 ELSE 0)
             /\ \A n \in {0, 1} :
                  Cardinality(ShotsIn(buffer', n))
                    <= audit.shots[n] - (IF Team[p] = n /\ ev.stolen THEN 1 ELSE 0)
<1> DEFINE buf1 == ConsumeModifiers(p)
           buf2 == ConsumeShot(p, touch, buf1)
           e == Entry("_GoalScored", ResolveByShortcut(p), "")
<1>1. buffer' = Record(buf2, e)
  BY DEF GoalScored, GoalStep
<1>2. e \in Entries /\ e.name = "_GoalScored"
  BY EntryIsEntry DEF Entry
<1>3. /\ GoalEvent(p, touch).modifiers = ModifiersOf(p, touch)
      /\ GoalEvent(p, touch).stolen = IsStolenGoal(p, touch, buf1)
  BY DEF GoalEvent
<1>4. Len(buffer) \in Nat /\ Len(buffer) <= Capacity /\ Capacity \in Nat
  BY LenProperties, CapacityAssumption DEF Buffered
<1>5. PICK keep \in SUBSET (1..Len(buffer)) : buf1 = Kept(buffer, keep)
  BY GoalsTakeOut
<1>6. /\ buf1 \in Seq(Entries) /\ Len(buf1) <= Len(buffer)
      /\ \A m, q : /\ Cardinality(ClaimsIn(buffer, m, q)) \in Nat
                   /\ Cardinality(ClaimsIn(buf1, m, q)) \in Nat
                   /\ Cardinality(ClaimsIn(buf1, m, q)) <= Cardinality(ClaimsIn(buffer, m, q))
      /\ \A n : /\ Cardinality(ShotsIn(buffer, n)) \in Nat
                /\ Cardinality(ShotsIn(buf1, n)) \in Nat
                /\ Cardinality(ShotsIn(buf1, n)) <= Cardinality(ShotsIn(buffer, n))
  BY <1>5, KeptAddsNone DEF Buffered
<1> HIDE DEF buf1
<1>7. Len(buf1) \in Nat /\ Len(buf1) <= Capacity
  <2>1. Len(buf1) \in Nat BY <1>6, LenProperties
  <2>2. QED BY <1>4, <1>6, <2>1
<1>8. /\ buf2 \in Seq(Entries) /\ Len(buf2) <= Len(buf1)
      /\ \A m, q : /\ Cardinality(ClaimsIn(buf2, m, q)) \in Nat
                   /\ Cardinality(ClaimsIn(buf2, m, q)) <= Cardinality(ClaimsIn(buf1, m, q))
      /\ \A n : /\ Cardinality(ShotsIn(buf2, n)) \in Nat
                /\ Cardinality(ShotsIn(buf2, n)) <= Cardinality(ShotsIn(buf1, n))
  <2>1. buf2 = buf1 \/ \E keep2 \in SUBSET (1..Len(buf1)) : buf2 = Kept(buf1, keep2)
    BY GoalsTakeOut, ZenonT(60)
  <2>2. CASE \E keep2 \in SUBSET (1..Len(buf1)) : buf2 = Kept(buf1, keep2)
    <3>1. PICK keep2 \in SUBSET (1..Len(buf1)) : buf2 = Kept(buf1, keep2)
      BY <2>2
    <3> HIDE DEF buf2
    <3>2. QED BY <1>6, <3>1, KeptAddsNone
  <2>3. CASE buf2 = buf1
    <3> HIDE DEF buf2
    <3>1. QED BY <1>6, <1>7, <2>3
  <2>4. QED BY <2>1, <2>2, <2>3
<1>9. Len(buf2) \in Nat /\ Len(buf2) <= Capacity
  <2> HIDE DEF buf2
  <2>1. Len(buf2) \in Nat BY <1>8, LenProperties
  <2>2. QED BY <1>4, <1>7, <1>8, <2>1
<1>10. IsStolenGoal(p, touch, buf1) =>
         Cardinality(ShotsIn(buf2, Team[p])) <= Cardinality(ShotsIn(buf1, Team[p])) - 1
  BY <1>6, ShotIsConsumed
<1> HIDE DEF buf2, e
<1>11. /\ \A m, q : /\ Cardinality(ClaimsIn(buffer', m, q)) \in Nat
                    /\ Cardinality(ClaimsIn(buffer', m, q)) <= Cardinality(ClaimsIn(buf2, m, q)) + 0
       /\ \A n : /\ Cardinality(ShotsIn(buffer', n)) \in Nat
                 /\ Cardinality(ShotsIn(buffer', n)) <= Cardinality(ShotsIn(buf2, n)) + 0
  BY <1>1, <1>2, <1>8, RecordAddsOne
<1>12. Buffered'
  <2>1. buffer' \in Seq(Entries) /\ Len(buffer') <= Capacity
    BY <1>1, <1>2, <1>8, <1>9, RecordIsSeq
  <2>2. Entries' = Entries
    BY DEF Entries
  <2>3. QED BY <2>1, <2>2 DEF Buffered
<1>13. ASSUME NEW m \in Modifiers, NEW q \in Players
       PROVE  Cardinality(ClaimsIn(buffer', m, q))
                <= audit.claims[m][q] - (IF q = p /\ m \in GoalEvent(p, touch).modifiers THEN 1 ELSE 0)
  <2>1. /\ Cardinality(ClaimsIn(buffer', m, q)) \in Nat
        /\ Cardinality(ClaimsIn(buffer', m, q)) <= Cardinality(ClaimsIn(buf2, m, q)) + 0
        /\ Cardinality(ClaimsIn(buf2, m, q)) \in Nat
        /\ Cardinality(ClaimsIn(buf2, m, q)) <= Cardinality(ClaimsIn(buf1, m, q))
        /\ Cardinality(ClaimsIn(buf1, m, q)) \in Nat
        /\ Cardinality(ClaimsIn(buf1, m, q)) <= Cardinality(ClaimsIn(buffer, m, q))
        /\ Cardinality(ClaimsIn(buffer, m, q)) \in Nat
    BY <1>6, <1>8, <1>11
  <2>2. audit.claims[m][q] \in Int /\ Cardinality(ClaimsIn(buffer, m, q)) <= audit.claims[m][q]
    BY DEF Credited
  <2>3. CASE q = p /\ m \in GoalEvent(p, touch).modifiers
    <3>1. Cardinality(ClaimsIn(buffer, m, q)) >= 1
      BY <1>3, <2>3, ModifiersAreThere
    <3>2. Cardinality(ClaimsIn(buf1, m, q)) = 0
      BY <2>3, ModifiersAreConsumed DEF buf1
    <3>3. Cardinality(ClaimsIn(buffer', m, q)) <= audit.claims[m][q] - 1
      BY <2>1, <2>2, <3>1, <3>2
    <3>4. QED BY <2>3, <3>3
  <2>4. CASE ~(q = p /\ m \in GoalEvent(p, touch).modifiers)
    <3>1. Cardinality(ClaimsIn(buffer', m, q)) <= audit.claims[m][q] - 0
      BY <2>1, <2>2
    <3>2. QED BY <2>4, <3>1
  <2>5. QED BY <2>3, <2>4
<1>14. ASSUME NEW n \in {0, 1}
       PROVE  Cardinality(ShotsIn(buffer', n))
                <= audit.shots[n] - (IF Team[p] = n /\ GoalEvent(p, touch).stolen THEN 1 ELSE 0)
  <2>1. /\ Cardinality(ShotsIn(buffer', n)) \in Nat
        /\ Cardinality(ShotsIn(buffer', n)) <= Cardinality(ShotsIn(buf2, n)) + 0
        /\ Cardinality(ShotsIn(buf2, n)) \in Nat
        /\ Cardinality(ShotsIn(buf2, n)) <= Cardinality(ShotsIn(buf1, n))
        /\ Cardinality(ShotsIn(buf1, n)) \in Nat
        /\ Cardinality(ShotsIn(buf1, n)) <= Cardinality(ShotsIn(buffer, n))
        /\ Cardinality(ShotsIn(buffer, n)) \in Nat
    BY <1>6, <1>8, <1>11
  <2>2. audit.shots[n] \in Int /\ Cardinality(ShotsIn(buffer, n)) <= audit.shots[n]
    BY DEF Credited
  <2>3. CASE Team[p] = n /\ GoalEvent(p, touch).stolen
    <3>1. Cardinality(ShotsIn(buf2, n)) <= Cardinality(ShotsIn(buf1, n)) - 1
      BY <1>3, <1>10, <2>3
    <3>2. Cardinality(ShotsIn(buffer', n)) <= audit.shots[n] - 1
      BY <2>1, <2>2, <3>1
    <3>3. QED BY <2>3, <3>2
  <2>4. CASE ~(Team[p] = n /\ GoalEvent(p, touch).stolen)
    <3>1. Cardinality(ShotsIn(buffer', n)) <= audit.shots[n] - 0
      BY <2>1, <2>2
    <3>2. QED BY <2>4, <3>1
  <2>5. QED BY <2>3, <2>4
<1>15. QED BY <1>12, <1>13, <1>14

\* What the observer makes of the statistics and the goal of one event.
LEMMA CreditBooks ==
  ASSUME NEW in, Audit(in),
         Published("_GoalScored") = {} \/ \E ev : Published("_GoalScored") = {ev}
  PROVE  /\ \A m \in Modifiers, q \in Players :
              audit'.claims[m][q] = audit.claims[m][q]
                + (IF in.event = "StatfeedEvent" /\ in.stat = m /\ in.who = q THEN 1 ELSE 0)
                - (IF \E e \in Published("_GoalScored") : e.who = q /\ m \in e.modifiers THEN 1 ELSE 0)
         /\ \A n \in {0, 1} :
              audit'.shots[n] = audit.shots[n]
                + (IF ShootsFor(in, n) THEN 1 ELSE 0)
                - (IF \E e \in Published("_GoalScored") : Team[e.who] = n /\ e.stolen THEN 1 ELSE 0)
<1> DEFINE G == Published("_GoalScored")
<1>1. \A T : T \subseteq G => Cardinality(T) = IF T = {} THEN 0 ELSE 1
  <2> SUFFICES ASSUME NEW T, T \subseteq G PROVE Cardinality(T) = IF T = {} THEN 0 ELSE 1
    OBVIOUS
  <2>1. T = {} \/ \E ev : T = {ev} OBVIOUS
  <2>2. QED BY <2>1, FS_EmptySet, FS_Singleton
<1> HIDE DEF G
<1>2. /\ audit'.claims = ClaimsAfter(in) /\ audit'.shots = ShotsAfter(in)
  BY DEF Audit
<1>3. ASSUME NEW m \in Modifiers, NEW q \in Players
      PROVE  audit'.claims[m][q] = audit.claims[m][q]
                + (IF in.event = "StatfeedEvent" /\ in.stat = m /\ in.who = q THEN 1 ELSE 0)
                - (IF \E e \in G : e.who = q /\ m \in e.modifiers THEN 1 ELSE 0)
  <2> DEFINE T == {e \in G : e.who = q /\ m \in e.modifiers}
  <2>1. audit'.claims[m][q] = audit.claims[m][q]
          + (IF in.event = "StatfeedEvent" /\ in.stat = m /\ in.who = q THEN 1 ELSE 0)
          - Cardinality(T)
    BY <1>2 DEF ClaimsAfter, G
  <2>2. Cardinality(T) = IF \E e \in G : e.who = q /\ m \in e.modifiers THEN 1 ELSE 0
    <3>1. Cardinality(T) = IF T = {} THEN 0 ELSE 1 BY <1>1
    <3>2. T = {} <=> ~\E e \in G : e.who = q /\ m \in e.modifiers OBVIOUS
    <3> HIDE DEF T
    <3>3. QED BY <3>1, <3>2
  <2> HIDE DEF T
  <2>3. QED BY <2>1, <2>2
<1>4. ASSUME NEW n \in {0, 1}
      PROVE  audit'.shots[n] = audit.shots[n]
                + (IF ShootsFor(in, n) THEN 1 ELSE 0)
                - (IF \E e \in G : Team[e.who] = n /\ e.stolen THEN 1 ELSE 0)
  <2> DEFINE T == {e \in G : Team[e.who] = n /\ e.stolen}
  <2>1. audit'.shots[n] = audit.shots[n]
          + (IF ShootsFor(in, n) THEN 1 ELSE 0)
          - Cardinality(T)
    BY <1>2 DEF ShotsAfter, G
  <2>2. Cardinality(T) = IF \E e \in G : Team[e.who] = n /\ e.stolen THEN 1 ELSE 0
    <3>1. Cardinality(T) = IF T = {} THEN 0 ELSE 1 BY <1>1
    <3>2. T = {} <=> ~\E e \in G : Team[e.who] = n /\ e.stolen OBVIOUS
    <3> HIDE DEF T
    <3>3. QED BY <3>1, <3>2
  <2> HIDE DEF T
  <2>3. QED BY <2>1, <2>2
<1>5. QED BY <1>3, <1>4 DEF G

\* An event that is neither a statistic nor a goal records a touch at most.
LEMMA CreditQuiet ==
  ASSUME Buffered, Credited, NEW in, Audit(in), in.event # "StatfeedEvent",
         Published("_GoalScored") = {},
         \/ buffer' = buffer
         \/ \E e \in Entries : e.name = "BallHit" /\ buffer' = Record(buffer, e)
  PROVE  Buffered' /\ Credited'
<1> DEFINE Fewer ==
  /\ \A m, q : /\ Cardinality(ClaimsIn(buffer', m, q)) \in Nat
               /\ Cardinality(ClaimsIn(buffer', m, q)) <= Cardinality(ClaimsIn(buffer, m, q)) + 0
               /\ Cardinality(ClaimsIn(buffer, m, q)) \in Nat
  /\ \A n : /\ Cardinality(ShotsIn(buffer', n)) \in Nat
            /\ Cardinality(ShotsIn(buffer', n)) <= Cardinality(ShotsIn(buffer, n)) + 0
            /\ Cardinality(ShotsIn(buffer, n)) \in Nat
<1>1. Buffered' /\ Fewer
  <2>1. CASE buffer' = buffer
    <3>1. \A m, q : Cardinality(ClaimsIn(buffer, m, q)) \in Nat
      BY KeptAddsNone DEF Buffered
    <3>2. \A n : Cardinality(ShotsIn(buffer, n)) \in Nat
      BY KeptAddsNone DEF Buffered
    <3>3. Buffered'
      BY <2>1 DEF Buffered, Entries
    <3>4. /\ \A m, q : ClaimsIn(buffer', m, q) = ClaimsIn(buffer, m, q)
          /\ \A n : ShotsIn(buffer', n) = ShotsIn(buffer, n)
      BY <2>1
    <3>5. QED BY <3>1, <3>2, <3>3, <3>4
  <2>2. ASSUME NEW e \in Entries, e.name = "BallHit", buffer' = Record(buffer, e)
        PROVE  Buffered' /\ Fewer
    <3>1. Buffered'
      <4>1. buffer' \in Seq(Entries) /\ Len(buffer') <= Capacity
        BY <2>2, RecordIsSeq DEF Buffered
      <4>2. Entries' = Entries
        BY DEF Entries
      <4>3. QED BY <4>1, <4>2 DEF Buffered
    <3>2. QED BY <2>2, <3>1, RecordAddsOne DEF Buffered
  <2>3. QED BY <2>1, <2>2
<1>2. /\ \A m \in Modifiers, q \in Players : audit'.claims[m][q] = audit.claims[m][q] + 0 - 0
      /\ \A n \in {0, 1} : audit'.shots[n] = audit.shots[n] + 0 - 0
  BY CreditBooks DEF ShootsFor
<1>3. QED BY <1>1, <1>2 DEF Credited

LEMMA CreditStep ==
  ASSUME Typed, Buffered, Credited, [BooksNext]_booksVars
  PROVE  Buffered' /\ Credited'
<1>1. CASE UNCHANGED booksVars
  BY <1>1 DEF booksVars, vars, Buffered, Entries, Credited, ClaimsIn, ShotsIn
<1>2. CASE Wait
  BY <1>2 DEF Wait, Elapse, Buffered, Entries, Credited, ClaimsIn, ShotsIn
<1>3. ASSUME NEW in \in Inputs, Receive(in)
      PROVE  Buffered' /\ Credited'
  <2>0. Deliver(in) /\ Audit(in)
    BY <1>3 DEF Receive
  <2>1. CASE in.event = "UpdateState" /\ UpdateState(in.tick, in.phase)
    <3>1. Published("_GoalScored") = {} /\ buffer' = buffer
      BY <2>1, UpdatePublishes DEF UpdateState
    <3>2. QED BY <2>0, <2>1, <3>1, CreditQuiet
  <2>2. CASE in.event = "BallHit" /\ BallHit(in.who, in.speed, in.phase)
    <3>1. Published("_GoalScored") = {}
      BY <2>2, HitPublishes DEF Heeded
    <3>2. in.who = Absent \/ in.who \in Players
      BY <2>2, GoodInput
    <3>3. \/ buffer' = buffer
          \/ in.who \in Players
             /\ buffer' = Record(buffer, Entry("BallHit", ResolveByShortcut(in.who), ""))
      BY <2>2, <3>2 DEF BallHit, HitStep
    <3>4. in.who \in Players =>
            LET e == Entry("BallHit", ResolveByShortcut(in.who), "")
            IN  e \in Entries /\ e.name = "BallHit"
      BY EntryIsEntry DEF Entry
    <3>5. QED BY <2>0, <2>2, <3>1, <3>3, <3>4, CreditQuiet
  <2>3. CASE in.event = "GoalScored" /\ GoalScored(in.who, in.touch, in.speed)
    <3>1. CASE in.who = Absent
      <4>1. Published("_GoalScored") = {} /\ buffer' = buffer
        BY <2>3, <3>1, GoalPublishes DEF GoalScored
      <4>2. QED BY <2>0, <2>3, <4>1, CreditQuiet
    <3>2. CASE in.who # Absent
      <4> DEFINE ev == GoalEvent(in.who, in.touch)
      <4>1. in.who \in Players
        BY <2>3, <3>2, GoodInput
      <4>2. Published("_GoalScored") = {ev} /\ ev.who = in.who
        BY <2>3, <3>2, GoalPublishes DEF GoalEvent
      <4>3. /\ Buffered'
            /\ \A m \in Modifiers, q \in Players :
                 Cardinality(ClaimsIn(buffer', m, q))
                   <= audit.claims[m][q] - (IF q = in.who /\ m \in ev.modifiers THEN 1 ELSE 0)
            /\ \A n \in {0, 1} :
                 Cardinality(ShotsIn(buffer', n))
                   <= audit.shots[n] - (IF Team[in.who] = n /\ ev.stolen THEN 1 ELSE 0)
        BY <2>3, <3>2, <4>1, GoalCredits
      <4> HIDE DEF ev
      <4>4. /\ \A m \in Modifiers, q \in Players :
                 audit'.claims[m][q] = audit.claims[m][q] + 0
                   - (IF \E e \in {ev} : e.who = q /\ m \in e.modifiers THEN 1 ELSE 0)
            /\ \A n \in {0, 1} :
                 audit'.shots[n] = audit.shots[n] + 0
                   - (IF \E e \in {ev} : Team[e.who] = n /\ e.stolen THEN 1 ELSE 0)
        BY <2>0, <2>3, <4>2, CreditBooks DEF ShootsFor
      <4>5. /\ \A m \in Modifiers, q \in Players :
                 (\E e \in {ev} : e.who = q /\ m \in e.modifiers) <=> q = in.who /\ m \in ev.modifiers
            /\ \A n \in {0, 1} :
                 (\E e \in {ev} : Team[e.who] = n /\ e.stolen) <=> Team[in.who] = n /\ ev.stolen
        BY <4>2
      <4>6. QED BY <4>3, <4>4, <4>5 DEF Credited
    <3>3. QED BY <3>1, <3>2
  <2>4. CASE in.event = "StatfeedEvent" /\ StatfeedEvent(in.stat, in.who, in.victim)
    <3> DEFINE e == Entry("StatfeedEvent", ResolveByShortcut(in.who), in.stat)
    <3>1. in.who \in Players \cup {Absent} /\ Published("_GoalScored") = {}
      BY <2>4, GoodInput, StatPublishes DEF Heeded
    <3>2. buffer' = Record(buffer, e)
      BY <2>4 DEF StatfeedEvent, StatStep, StatAfter
    <3>3. /\ e \in Entries
          /\ e.name = "StatfeedEvent" /\ e.stat = in.stat /\ e.player.name = in.who
      BY <2>4, <3>1, EntryIsEntry DEF Entry, ResolveByShortcut, Resolved
    <3> HIDE DEF e
    <3>4. Buffered'
      <4>1. buffer' \in Seq(Entries) /\ Len(buffer') <= Capacity
        BY <3>2, <3>3, RecordIsSeq DEF Buffered
      <4>2. Entries' = Entries
        BY DEF Entries
      <4>3. QED BY <4>1, <4>2 DEF Buffered
    <3>5. /\ \A m, q :
               /\ Cardinality(ClaimsIn(buffer, m, q)) \in Nat
               /\ Cardinality(ClaimsIn(buffer', m, q)) \in Nat
               /\ Cardinality(ClaimsIn(buffer', m, q)) <= Cardinality(ClaimsIn(buffer, m, q))
                    + (IF in.stat = m /\ in.who = q THEN 1 ELSE 0)
          /\ \A n :
               /\ Cardinality(ShotsIn(buffer, n)) \in Nat
               /\ Cardinality(ShotsIn(buffer', n)) \in Nat
               /\ Cardinality(ShotsIn(buffer', n)) <= Cardinality(ShotsIn(buffer, n))
                    + (IF ShootsFor(in, n) THEN 1 ELSE 0)
      BY <2>4, <3>2, <3>3, RecordAddsOne DEF Buffered, IsShotFor, ShootsFor
    <3>6. /\ \A m \in Modifiers, q \in Players :
               audit'.claims[m][q] = audit.claims[m][q]
                 + (IF in.stat = m /\ in.who = q THEN 1 ELSE 0) - 0
          /\ \A n \in {0, 1} :
               audit'.shots[n] = audit.shots[n]
                 + (IF ShootsFor(in, n) THEN 1 ELSE 0) - 0
      BY <2>0, <2>4, <3>1, CreditBooks
    <3>7. QED BY <3>4, <3>5, <3>6 DEF Credited
  <2>5. CASE in.event \notin {"UpdateState", "BallHit", "GoalScored", "StatfeedEvent"} /\ Plainly
    <3>1. Published("_GoalScored") = {}
      BY <2>5, PlainPublishes DEF Heeded
    <3>2. buffer' = buffer
      BY <2>5 DEF Plainly, Elapse, MatchCreated, MatchDestroyed, ConnectionStatus, CountdownBegin,
                  RoundStarted, CrossbarHit, MatchEnded
    <3>3. QED BY <2>0, <2>5, <3>1, <3>2, CreditQuiet
  <2>6. QED BY <2>0, <2>1, <2>2, <2>3, <2>4, <2>5, Kinds
<1>4. QED
  BY <1>1, <1>2, <1>3 DEF BooksNext

LEMMA CreditInvariant == BooksSpec => [](Buffered /\ Credited)
<1>1. BooksInit => Buffered /\ Credited
  <2> SUFFICES ASSUME BooksInit PROVE Buffered /\ Credited
    OBVIOUS
  <2>1. buffer = <<>> /\ Len(buffer) = 0
    BY EmptySeq DEF BooksInit, Init
  <2>2. Buffered
    BY <2>1, EmptySeq, CapacityAssumption DEF Buffered
  <2>3. \A m, p : ClaimsIn(buffer, m, p) = {}
    BY <2>1 DEF ClaimsIn
  <2>4. \A n : ShotsIn(buffer, n) = {}
    BY <2>1 DEF ShotsIn
  <2>5. /\ \A m \in Modifiers, p \in Players : audit.claims[m][p] = 0
        /\ \A n \in {0, 1} : audit.shots[n] = 0
    BY DEF BooksInit, AuditInit, Counts
  <2>6. /\ \A m, p : Cardinality(ClaimsIn(buffer, m, p)) = 0
        /\ \A n : Cardinality(ShotsIn(buffer, n)) = 0
    BY <2>3, <2>4, FS_EmptySet
  <2>7. QED BY <2>2, <2>5, <2>6 DEF Credited
<1>2. Typed /\ Buffered /\ Credited /\ [BooksNext]_booksVars => Buffered' /\ Credited'
  BY CreditStep
<1>3. QED BY <1>1, <1>2, TypedInvariant, PTL DEF BooksSpec

\* Every variable has its type, and the correlation buffer is within its
\* capacity, whatever is recorded and taken out (buffer.go).
THEOREM EmitTypeCorrect == BooksSpec => []EmitTypeOK
<1>1. Typed /\ Buffered => EmitTypeOK
  <2> SUFFICES ASSUME Typed, Buffered PROVE EmitTypeOK
    OBVIOUS
  <2>1. roster.members \subseteq [id : Players \cup {RlBot}, name : Players]
    BY DEF Typed
  <2>2. QED BY <2>1 DEF Typed, Buffered, EmitTypeOK
<1>2. QED
  BY <1>1, TypedInvariant, CreditInvariant, PTL

\* A modifier statistic is credited to one goal at most, and a shot to one
\* stolen goal at most (collectGoalModifiers, detectStolenGoal).
THEOREM StatisticsAreCreditedOnce == BooksSpec => []CreditedOnce
<1>1. Buffered /\ Credited => CreditedOnce
  <2> SUFFICES ASSUME Buffered, Credited PROVE CreditedOnce
    OBVIOUS
  <2>1. /\ \A m, p : Cardinality(ClaimsIn(buffer, m, p)) \in Nat
        /\ \A n : Cardinality(ShotsIn(buffer, n)) \in Nat
    BY KeptAddsNone DEF Buffered
  <2>2. QED BY <2>1 DEF Credited, CreditedOnce
<1>2. QED
  BY <1>1, CreditInvariant, PTL

-----------------------------------------------------------------------------
(***************************************************************************)
(* Demolition chains                                                       *)
(***************************************************************************)
\* The positions that are kept from somewhere to the end.
LEMMA SuffixNth ==
  ASSUME NEW n \in Nat, NEW keep, keep \subseteq 1..n,
         \A i \in keep, j \in 1..n : i <= j => j \in keep
  PROVE  /\ Cardinality(keep) \in Nat /\ Cardinality(keep) <= n
         /\ \A k \in 1..Cardinality(keep) : Nth(keep, k) = n - Cardinality(keep) + k
<1>1. Cardinality(keep) \in Nat /\ Cardinality(keep) <= n
  BY UptoGrows
<1>2. CASE keep = {}
  <2>1. Cardinality(keep) = 0 BY <1>2, FS_EmptySet
  <2>2. 1..Cardinality(keep) = {} BY <2>1
  <2>3. QED BY <1>1, <2>2
<1>3. CASE keep # {}
  <2>1. PICK m \in keep : \A y \in keep : m <= y
    <3>1. keep \subseteq Nat OBVIOUS
    <3>2. QED BY <1>3, <3>1, LeastNat
  <2>2. m \in Nat /\ 1 <= m /\ m <= n
    OBVIOUS
  <2>3. \A j \in 1..n : j \in keep <=> m <= j
    BY <2>1
  <2>4. keep = m..n
    <3>1. \A j \in keep : j \in m..n BY <2>1, <2>2
    <3>2. \A j \in m..n : j \in keep BY <2>2, <2>3
    <3>3. QED BY <3>1, <3>2
  <2>5. Cardinality(keep) = n - m + 1
    BY <2>2, <2>4, FS_Interval
  <2>6. ASSUME NEW k \in 1..Cardinality(keep)
        PROVE  Nth(keep, k) = n - Cardinality(keep) + k
    <3> DEFINE i == n - Cardinality(keep) + k
    <3>1. i = m + k - 1 /\ i \in Int /\ m <= i /\ i <= n /\ k \in Nat
      BY <1>1, <2>2, <2>5
    <3> HIDE DEF i
    <3>2. Upto(keep, i) = m..i
      <4>1. \A j \in keep : j <= i => j \in m..i BY <2>2, <2>4, <3>1
      <4>2. \A j \in m..i : j \in keep /\ j <= i BY <2>2, <2>4, <3>1
      <4>3. QED BY <4>1, <4>2 DEF Upto
    <3>3. Cardinality(Upto(keep, i)) = k
      <4>1. Cardinality(m..i) = i - m + 1 BY <2>2, <3>1, FS_Interval
      <4>2. QED BY <2>2, <3>1, <3>2, <4>1
    <3>4. i \in keep
      BY <2>2, <2>4, <3>1
    <3>5. Nth(keep, k) = i
      BY <3>3, <3>4, NthIs
    <3>6. QED BY <3>5 DEF i
  <2>7. QED BY <1>1, <2>6
<1>4. QED BY <1>2, <1>3

\* What is kept of a longer sequence.
LEMMA KeptOfAppend ==
  ASSUME NEW S, NEW s \in Seq(S), NEW e \in S, NEW keep, keep \subseteq 1..Len(s)
  PROVE  /\ Kept(Append(s, e), keep) = Kept(s, keep)
         /\ Kept(Append(s, e), keep \cup {Len(s) + 1}) = Append(Kept(s, keep), e)
<1> DEFINE n == Len(s)
           c == Cardinality(keep)
           more == keep \cup {n + 1}
           t == Append(s, e)
           kept == Kept(s, keep)
<1>1. /\ n \in Nat /\ t \in Seq(S) /\ Len(t) = n + 1
      /\ \A i \in 1..n : t[i] = s[i]
      /\ t[n + 1] = e
  BY LenProperties, AppendProperties
<1>2. /\ kept \in Seq(S) /\ Len(kept) = c
      /\ \A k \in 1..Len(kept) : Nth(keep, k) \in keep /\ kept[k] = s[Nth(keep, k)]
  BY KeptIsSeq
<1>3. IsFiniteSet(keep) /\ c \in Nat
  BY <1>1, UptoGrows
<1>4. /\ Append(kept, e) \in Seq(S) /\ Len(Append(kept, e)) = c + 1
      /\ \A k \in 1..c : Append(kept, e)[k] = kept[k]
      /\ Append(kept, e)[c + 1] = e
  BY <1>2, AppendProperties
<1>5. n + 1 \notin keep /\ more \subseteq 1..(n + 1)
  <2>1. \A i \in keep : i \in 1..n
    OBVIOUS
  <2> HIDE DEF n, t, kept, c
  <2>2. n + 1 \notin 1..n /\ n + 1 \in 1..(n + 1) /\ \A i \in 1..n : i \in 1..(n + 1)
    BY <1>1
  <2>3. QED BY <2>1, <2>2
<1>6. Cardinality(more) = c + 1
  BY <1>3, <1>5, FS_AddElement
<1> HIDE DEF c, n, t, kept, more
<1>7. Kept(t, keep) = kept
  <2>1. \A k \in 1..c : t[Nth(keep, k)] = s[Nth(keep, k)]
    BY <1>1, <1>2 DEF n
  <2>2. QED BY <2>1 DEF Kept, kept, c
<1>8. \A k \in 1..c : Nth(more, k) = Nth(keep, k)
  <2> TAKE k \in 1..c
  <2> DEFINE i == Nth(keep, k)
  <2>1. i \in keep /\ Cardinality(Upto(keep, i)) = k
    BY <1>1, NthExists DEF c, n
  <2>2. i \in 1..n
    BY <2>1 DEF n
  <2> HIDE DEF i
  <2>3. ~(n + 1 <= i)
    BY <1>1, <2>2
  <2>4. Upto(more, i) = Upto(keep, i)
    BY <2>3 DEF Upto, more
  <2>5. i \in more /\ k \in Nat /\ n + 1 \in Nat
    BY <1>1, <1>3, <2>1 DEF more
  <2>6. Nth(more, k) = i
    BY <1>5, <2>1, <2>4, <2>5, NthIs, ZenonT(60)
  <2>7. QED BY <2>6 DEF i
<1>9. Nth(more, c + 1) = n + 1
  <2>0. n + 1 \in Nat
    BY <1>1
  <2>1. Upto(more, n + 1) = more
    BY <1>5, <2>0, UptoGrows
  <2>2. n + 1 \in more /\ n + 1 \in Nat
    BY <1>1 DEF more
  <2>3. QED BY <1>5, <1>6, <2>1, <2>2, NthIs
<1>10. Kept(t, more) = Append(kept, e)
  <2> DEFINE f == Kept(t, more)
             g == Append(kept, e)
  <2>1. f = [k \in 1..(c + 1) |-> t[Nth(more, k)]]
    BY <1>6 DEF Kept
  <2>2. \A k \in 1..(c + 1) : k \in 1..c \/ k = c + 1
    BY <1>3
  <2>3. \A k \in 1..c : t[Nth(more, k)] = g[k]
    <3> TAKE k \in 1..c
    <3>1. Nth(keep, k) \in 1..n /\ kept[k] = s[Nth(keep, k)]
      BY <1>2 DEF n
    <3>2. QED BY <1>1, <1>4, <1>8, <3>1
  <2>4. t[Nth(more, c + 1)] = g[c + 1]
    BY <1>1, <1>4, <1>9
  <2>5. g = [k \in 1..(c + 1) |-> g[k]]
    <3>1. g \in [1..Len(g) -> S] BY <1>4, LenProperties
    <3>2. Len(g) = c + 1 BY <1>4
    <3> HIDE DEF g
    <3>3. g \in [1..(c + 1) -> S] BY <3>1, <3>2
    <3>4. QED BY <3>3
  <2> HIDE DEF f, g
  <2>6. \A k \in 1..(c + 1) : t[Nth(more, k)] = g[k]
    BY <2>2, <2>3, <2>4
  <2>7. f = g
    BY <2>1, <2>5, <2>6
  <2>8. QED BY <2>7 DEF f, g
<1>11. QED
  BY <1>7, <1>10 DEF n, t, kept, more

\* The entries of the log and of the chains.
Demolitions ==
  [name : {"_PlayerDemolished"}, attacker : [name : Players, known : BOOLEAN], victim : Players]
Links == [at : Nat, victim : Players]

InOrder(chain, t) ==
  /\ \A i \in 1..Len(chain) : chain[i].at <= t
  /\ \A i, j \in 1..Len(chain) : i <= j => chain[i].at <= chain[j].at

\* The victims of the chain are the last ones of the kills.
EndsWith(kills, chain) ==
  /\ Len(chain) <= Len(kills)
  /\ \A i \in 1..Len(chain) : chain[i].victim = kills[Len(kills) - Len(chain) + i].victim

ChainsMatch ==
  /\ demolishLog \in Seq(Demolitions)
  /\ chains \in [Players -> Seq(Links)]
  /\ \A a \in Players : InOrder(chains[a], now) /\ EndsWith(Kills(a, demolishLog), chains[a])

\* A chain that loses what left the window and gains the last kill.
Grown(chain, t, v) ==
  Append(Kept(chain, {i \in 1..Len(chain) : chain[i].at + Window > t}), [at |-> t, victim |-> v])

LEMMA ChainGrows ==
  ASSUME NEW chain \in Seq(Links), NEW kills \in Seq(Demolitions), NEW t \in Nat,
         InOrder(chain, t), EndsWith(kills, chain), NEW d \in Demolitions
  PROVE  LET grown == Grown(chain, t, d.victim)
         IN  grown \in Seq(Links) /\ InOrder(grown, t) /\ EndsWith(Append(kills, d), grown)
<1> DEFINE grown == Grown(chain, t, d.victim)
           n == Len(chain)
           keep == {i \in 1..n : chain[i].at + Window > t}
           c == Cardinality(keep)
           rest == Kept(chain, keep)
           link == [at |-> t, victim |-> d.victim]
           more == Append(kills, d)
           m == Len(kills)
<1>1. n \in Nat /\ \A i \in 1..n : chain[i].at \in Nat /\ chain[i] \in Links
  <2>1. n \in Nat /\ \A i \in 1..n : chain[i] \in Links
    BY LenProperties
  <2>2. \A l \in Links : l.at \in Nat
    BY DEF Links
  <2>3. QED BY <2>1, <2>2
<1>2. Window \in Nat
  BY TimesAssumption
<1>3. m \in Nat /\ n <= m
  BY LenProperties DEF EndsWith
<1>4. \A i \in keep, j \in 1..n : i <= j => j \in keep
  BY <1>1, <1>2 DEF InOrder
<1> HIDE DEF n, keep
<1>5. keep \subseteq 1..n
  BY DEF keep
<1>6. /\ c \in Nat /\ c <= n
      /\ \A k \in 1..c : Nth(keep, k) = n - c + k
  BY <1>1, <1>4, <1>5, SuffixNth
<1>7. /\ rest \in Seq(Links) /\ Len(rest) = c
      /\ \A k \in 1..Len(rest) : rest[k] = chain[Nth(keep, k)]
  <2>1. keep \subseteq 1..Len(chain)
    BY <1>5 DEF n
  <2>2. Kept(chain, keep) \in Seq(Links) /\ Len(Kept(chain, keep)) = Cardinality(keep)
    BY <2>1, KeptIsSeq
  <2>3. rest = [k \in 1..Cardinality(keep) |-> chain[Nth(keep, k)]]
    BY DEF Kept
  <2> HIDE DEF rest
  <2>4. \A k \in 1..c : rest[k] = chain[Nth(keep, k)]
    BY <2>3
  <2>5. rest \in Seq(Links) /\ Len(rest) = c
    BY <2>2 DEF rest
  <2>6. QED BY <2>4, <2>5
<1>8. link \in Links /\ link.at = t /\ link.victim = d.victim
  BY DEF Links, Demolitions
<1>9. grown = Append(rest, link)
  BY DEF Grown, keep, n
<1> HIDE DEF c, rest, link, grown
<1>10. /\ grown \in Seq(Links) /\ Len(grown) = c + 1
       /\ \A k \in 1..c : grown[k] = rest[k]
       /\ grown[c + 1] = link
  <2>1. /\ Append(rest, link) \in Seq(Links)
        /\ Len(Append(rest, link)) = Len(rest) + 1
        /\ \A k \in 1..Len(rest) : Append(rest, link)[k] = rest[k]
        /\ Append(rest, link)[Len(rest) + 1] = link
    BY <1>7, <1>8, AppendProperties
  <2>2. QED BY <1>7, <1>9, <2>1
<1>11. /\ more \in Seq(Demolitions) /\ Len(more) = m + 1
       /\ \A k \in 1..m : more[k] = kills[k]
       /\ more[m + 1] = d
  BY AppendProperties
<1> HIDE DEF more, m
<1>12. \A k \in 1..c : n - c + k \in 1..n /\ grown[k] = chain[n - c + k]
  <2> TAKE k \in 1..c
  <2>1. n - c + k \in 1..n
    BY <1>1, <1>6
  <2>2. Nth(keep, k) = n - c + k
    BY <1>6
  <2>3. grown[k] = rest[k] /\ rest[k] = chain[Nth(keep, k)]
    BY <1>7, <1>10
  <2>4. QED BY <2>1, <2>2, <2>3
<1>13. \A k \in 1..(c + 1) : k \in 1..c \/ k = c + 1
  BY <1>6
<1>14. InOrder(grown, t)
  <2>1. \A k \in 1..c : grown[k].at \in Nat /\ grown[k].at <= t
    BY <1>1, <1>12 DEF InOrder, n
  <2>2. grown[c + 1].at = t
    BY <1>8, <1>10
  <2>3. ASSUME NEW k \in 1..(c + 1), NEW l \in 1..(c + 1), k <= l
        PROVE  grown[k].at <= grown[l].at
    <3>1. CASE l = c + 1
      <4>1. CASE k = c + 1
        BY <1>6, <2>2, <3>1, <4>1
      <4>2. CASE k \in 1..c
        BY <1>6, <2>1, <2>2, <3>1, <4>2
      <4>3. QED BY <1>13, <4>1, <4>2
    <3>2. CASE l # c + 1
      <4>1. k \in 1..c /\ l \in 1..c
        BY <1>6, <2>3, <3>2
      <4>2. n - c + k <= n - c + l
        BY <1>1, <1>6, <2>3, <4>1
      <4>3. QED BY <1>12, <4>1, <4>2 DEF InOrder, n
    <3>3. QED BY <3>1, <3>2
  <2>4. \A k \in 1..(c + 1) : grown[k].at <= t
    <3> TAKE k \in 1..(c + 1)
    <3>1. CASE k = c + 1
      BY <1>6, <2>2, <3>1
    <3>2. CASE k \in 1..c
      BY <2>1, <3>2
    <3>3. QED BY <1>13, <3>1, <3>2
  <2>5. QED BY <1>10, <2>3, <2>4 DEF InOrder
<1>15. EndsWith(more, grown)
  <2>1. \A i \in 1..n : chain[i].victim = kills[m - n + i].victim
    BY DEF EndsWith, n, m
  <2>2. ASSUME NEW k \in 1..c
        PROVE  grown[k].victim = more[(m + 1) - (c + 1) + k].victim
    <3>1. n - c + k \in 1..n /\ grown[k] = chain[n - c + k]
      BY <1>12
    <3>2. m - n + (n - c + k) = (m + 1) - (c + 1) + k /\ (m + 1) - (c + 1) + k \in 1..m
      BY <1>1, <1>3, <1>6
    <3>3. grown[k].victim = kills[(m + 1) - (c + 1) + k].victim
      BY <2>1, <3>1, <3>2
    <3>4. QED BY <1>11, <3>2, <3>3
  <2>3. grown[c + 1].victim = more[(m + 1) - (c + 1) + (c + 1)].victim
    <3>1. (m + 1) - (c + 1) + (c + 1) = m + 1 BY <1>3, <1>6
    <3>2. QED BY <1>8, <1>10, <1>11, <3>1
  <2>4. c + 1 <= m + 1
    BY <1>1, <1>3, <1>6
  <2>5. QED BY <1>10, <1>11, <1>13, <2>2, <2>3, <2>4 DEF EndsWith
<1>16. QED BY <1>10, <1>14, <1>15 DEF more, grown

\* The kills of a player in a longer log.
LEMMA KillsGrow ==
  ASSUME NEW dlog \in Seq(Demolitions), NEW d \in Demolitions, NEW a
  PROVE  /\ Kills(a, dlog) \in Seq(Demolitions)
         /\ Kills(a, Append(dlog, d))
              = IF d.attacker = Resolved(a, TRUE) /\ Team[d.victim] # Team[a]
                THEN Append(Kills(a, dlog), d) ELSE Kills(a, dlog)
<1> DEFINE more == Append(dlog, d)
           n == Len(dlog)
           Its(l) == l.attacker = Resolved(a, TRUE) /\ Team[l.victim] # Team[a]
           keep == {i \in 1..n : Its(dlog[i])}
           keep2 == {i \in 1..Len(more) : Its(more[i])}
<1>1. /\ n \in Nat /\ Len(more) = n + 1
      /\ \A i \in 1..n : more[i] = dlog[i]
      /\ more[n + 1] = d
  BY LenProperties, AppendProperties
<1>2. \A i \in 1..(n + 1) : i \in 1..n \/ i = n + 1
  BY <1>1
<1>3. n + 1 \in 1..(n + 1) /\ \A i \in 1..n : i \in 1..(n + 1)
  BY <1>1
<1>4. Kills(a, dlog) = Kept(dlog, keep) /\ Kills(a, more) = Kept(more, keep2)
  BY DEF Kills
<1>5. keep \subseteq 1..Len(dlog)
  OBVIOUS
<1> HIDE DEF more, n, Its
<1>6. keep2 = IF Its(d) THEN keep \cup {n + 1} ELSE keep
  <2>1. \A i \in keep2 : i \in keep \/ (i = n + 1 /\ Its(d))
    BY <1>1, <1>2
  <2>2. \A i \in keep : i \in keep2
    BY <1>1, <1>3
  <2>3. Its(d) => n + 1 \in keep2
    BY <1>1, <1>3
  <2>4. n + 1 \notin keep
    BY <1>1
  <2>5. ~Its(d) => n + 1 \notin keep2
    BY <1>1
  <2> HIDE DEF keep, keep2
  <2>6. QED BY <2>1, <2>2, <2>3, <2>4, <2>5
<1>7. Kept(dlog, keep) \in Seq(Demolitions)
  BY <1>5, KeptIsSeq
<1> HIDE DEF keep, keep2
<1>8. Kept(more, keep) = Kept(dlog, keep) /\ Kept(more, keep \cup {n + 1}) = Append(Kept(dlog, keep), d)
  BY <1>5, KeptOfAppend, ZenonT(60) DEF more, n
<1>9. QED BY <1>4, <1>6, <1>7, <1>8 DEF more, Its

\* A demolition goes into the log, and into a chain exactly when it is a kill
\* of an attacker the roster knows.
LEMMA DemolishMatches ==
  ASSUME Typed, ChainsMatch, NEW p \in Players, NEW v \in Players, DemolishStep(p, v), now' = now
  PROVE  ChainsMatch'
<1> DEFINE d == Demolition(p, v)
<1>1. d \in Demolitions /\ d.attacker = ResolveByShortcut(p) /\ d.victim = v
  BY DEF Demolition, Demolitions, ResolveByShortcut, Resolved
<1>2. ResolveByShortcut(p).name = p /\ ResolveByShortcut(p) = Resolved(p, ResolveByShortcut(p).known)
  BY DEF ResolveByShortcut, Resolved
<1>3. demolishLog' = Append(demolishLog, d)
  BY DEF DemolishStep
<1> HIDE DEF d
<1>4. demolishLog' \in Seq(Demolitions)
  BY <1>1, <1>3, AppendProperties DEF ChainsMatch
<1>5. \A a \in Players :
        d.attacker = Resolved(a, TRUE) /\ Team[d.victim] # Team[a] <=> a = p /\ JoinsChain(p, v)
  <2> TAKE a \in Players
  <2> DEFINE known == ResolveByShortcut(p).known
  <2>1. d.attacker = Resolved(a, TRUE) <=> a = p /\ known
    <3>1. known \in BOOLEAN BY DEF ResolveByShortcut, Resolved
    <3>2. d.attacker = Resolved(p, known) BY <1>1, <1>2
    <3> HIDE DEF known
    <3>3. Resolved(p, known).name = p /\ Resolved(p, known).known = known
          /\ Resolved(a, TRUE).name = a /\ Resolved(a, TRUE).known = TRUE
      BY DEF Resolved
    <3>4. ASSUME d.attacker = Resolved(a, TRUE) PROVE a = p /\ known
      BY <3>2, <3>3, <3>4
    <3>5. ASSUME a = p, known PROVE d.attacker = Resolved(a, TRUE)
      <4>1. known = TRUE BY <3>1, <3>5
      <4>2. QED BY <3>2, <3>5, <4>1
    <3>6. QED BY <3>4, <3>5
  <2>2. JoinsChain(p, v) <=> Team[p] # Team[v] /\ known
    BY DEF JoinsChain, IsEnemyDemo, IsSelfDemo
  <2> HIDE DEF known
  <2>3. QED BY <1>1, <2>1, <2>2
<1>6. ASSUME NEW a \in Players
      PROVE  /\ chains'[a] \in Seq(Links)
             /\ InOrder(chains'[a], now') /\ EndsWith(Kills(a, demolishLog'), chains'[a])
  <2>1. /\ chains[a] \in Seq(Links) /\ demolishLog \in Seq(Demolitions)
        /\ InOrder(chains[a], now) /\ EndsWith(Kills(a, demolishLog), chains[a])
    BY DEF ChainsMatch
  <2>2. CASE a = p /\ JoinsChain(p, v)
    <3>1. chains'[a] = RecordChain(p, v)
      BY <2>2 DEF DemolishStep, ChainsMatch
    <3>2. chains'[a] = Grown(chains[a], now, d.victim)
      BY <1>1, <2>2, <3>1 DEF RecordChain, InWindow, Grown
    <3>3. Kills(a, demolishLog) \in Seq(Demolitions)
          /\ Kills(a, demolishLog') = Append(Kills(a, demolishLog), d)
      <4>1. d.attacker = Resolved(a, TRUE) /\ Team[d.victim] # Team[a]
        BY <1>5, <2>2
      <4>2. /\ Kills(a, demolishLog) \in Seq(Demolitions)
            /\ Kills(a, Append(demolishLog, d))
                 = IF d.attacker = Resolved(a, TRUE) /\ Team[d.victim] # Team[a]
                   THEN Append(Kills(a, demolishLog), d) ELSE Kills(a, demolishLog)
        BY <1>1, <2>1, KillsGrow, Zenon
      <4>3. QED BY <1>3, <4>1, <4>2, Zenon
    <3>4. now \in Nat
      BY DEF Typed
    <3>5. QED BY <1>1, <2>1, <3>2, <3>3, <3>4, ChainGrows
  <2>3. CASE ~(a = p /\ JoinsChain(p, v))
    <3>1. chains'[a] = chains[a]
      BY <2>3 DEF DemolishStep, ChainsMatch
    <3>2. Kills(a, demolishLog') = Kills(a, demolishLog)
      BY <1>1, <1>3, <1>5, <2>1, <2>3, KillsGrow
    <3>3. QED BY <2>1, <3>1, <3>2
  <2>4. QED BY <2>2, <2>3
<1>7. chains' \in [Players -> Seq(Links)]
  <2>1. chains' = [a \in Players |-> chains'[a]]
    BY DEF DemolishStep, ChainsMatch
  <2>2. QED BY <1>6, <2>1
<1>8. QED BY <1>4, <1>6, <1>7 DEF ChainsMatch

\* No demolition, no chain.
LEMMA NoDemolition ==
  /\ <<>> \in Seq(Demolitions)
  /\ [p \in Players |-> <<>>] \in [Players -> Seq(Links)]
  /\ \A a, t : InOrder(<<>>, t) /\ EndsWith(Kills(a, <<>>), <<>>)
<1>1. /\ <<>> \in Seq(Demolitions) /\ <<>> \in Seq(Links) /\ Len(<<>>) = 0
  BY EmptySeq
<1>2. ASSUME NEW a PROVE Len(Kills(a, <<>>)) \in Nat
  <2> DEFINE keep == {i \in 1..Len(<<>>) : /\ <<>>[i].attacker = Resolved(a, TRUE)
                                           /\ Team[<<>>[i].victim] # Team[a]}
  <2>1. keep \subseteq 1..Len(<<>>) /\ Kills(a, <<>>) = Kept(<<>>, keep)
    BY DEF Kills
  <2> HIDE DEF keep
  <2>2. Kept(<<>>, keep) \in Seq(Demolitions)
    BY <1>1, <2>1, KeptIsSeq
  <2>3. QED BY <2>1, <2>2, LenProperties
<1>3. 1..Len(<<>>) = {}
  BY <1>1
<1>4. QED BY <1>1, <1>2, <1>3 DEF InOrder, EndsWith

LEMMA ResetMatches ==
  ASSUME demolishLog' = <<>>, chains' = [p \in Players |-> <<>>]
  PROVE  ChainsMatch'
<1>1. \A a \in Players : chains'[a] = <<>>
  OBVIOUS
<1>2. QED BY <1>1, NoDemolition DEF ChainsMatch

LEMMA ChainsStep ==
  ASSUME Typed, ChainsMatch, [BooksNext]_booksVars
  PROVE  ChainsMatch'
<1>1. CASE UNCHANGED booksVars
  BY <1>1 DEF booksVars, vars, demosVars, ChainsMatch, InOrder, EndsWith
<1>2. CASE Wait
  <2>1. now' = now + 1 /\ UNCHANGED demosVars
    BY <1>2 DEF Wait, Elapse
  <2>2. ASSUME NEW a \in Players
        PROVE  InOrder(chains[a], now + 1) /\ EndsWith(Kills(a, demolishLog), chains[a])
    <3>1. /\ chains[a] \in Seq(Links)
          /\ InOrder(chains[a], now) /\ EndsWith(Kills(a, demolishLog), chains[a])
      BY DEF ChainsMatch
    <3>2. ASSUME NEW i \in 1..Len(chains[a]) PROVE chains[a][i].at <= now + 1
      <4>1. chains[a][i] \in Links BY <3>1, LenProperties
      <4>2. chains[a][i].at \in Nat BY <4>1 DEF Links
      <4>3. chains[a][i].at <= now BY <3>1 DEF InOrder
      <4>4. now \in Nat BY DEF Typed
      <4>5. QED BY <4>2, <4>3, <4>4
    <3>3. QED BY <3>1, <3>2 DEF InOrder
  <2>3. QED BY <2>1, <2>2 DEF demosVars, ChainsMatch
<1>3. ASSUME NEW in \in Inputs, Deliver(in)
      PROVE  ChainsMatch'
  <2>1. CASE UNCHANGED <<now, demosVars>>
    BY <2>1 DEF demosVars, ChainsMatch, InOrder, EndsWith
  <2>2. CASE /\ in.event = "StatfeedEvent" /\ StatfeedEvent(in.stat, in.who, in.victim)
             /\ in.stat = "Demolish" /\ Absent \notin {in.who, in.victim}
    <3>1. in.who \in Players /\ in.victim \in Players
      BY <2>2, GoodInput
    <3>2. DemolishStep(in.who, in.victim) /\ now' = now
      BY <2>2 DEF StatfeedEvent
    <3>3. QED BY <3>1, <3>2, DemolishMatches
  <2>3. CASE DemosReset
    BY <2>3, ResetMatches DEF DemosReset
  <2>4. QED
    BY <1>3, <2>1, <2>2, <2>3
    DEF Deliver, UpdateState, BallHit, GoalScored, StatfeedEvent, MatchCreated, MatchDestroyed,
        ConnectionStatus, CountdownBegin, RoundStarted, CrossbarHit, MatchEnded
<1>4. QED
  BY <1>1, <1>2, <1>3 DEF BooksNext, Receive

\* A chain is announced by a demolition, and is the chain it leaves.
LEMMA ChainIsAnnounced ==
  ASSUME Typed, ChainsMatch, [BooksNext]_booksVars, ~UNCHANGED booksVars,
         NEW e \in Published("_DemoChain")
  PROVE  /\ e.attacker \in Players
         /\ e.victims = [i \in DOMAIN chains'[e.attacker] |-> chains'[e.attacker][i].victim]
<1>1. CASE Wait
  BY <1>1, PlainPublishes DEF Wait, Plainly, Heeded
<1>2. ASSUME NEW in \in Inputs, Deliver(in)
      PROVE  /\ e.attacker \in Players
             /\ e.victims = [i \in DOMAIN chains'[e.attacker] |-> chains'[e.attacker][i].victim]
  <2>1. CASE /\ in.event = "StatfeedEvent" /\ StatfeedEvent(in.stat, in.who, in.victim)
             /\ in.stat = "Demolish" /\ Absent \notin {in.who, in.victim}
    <3>1. in.who \in Players
      BY <2>1, GoodInput
    <3>2. e \in ChainOut(in.who, in.victim)
      BY <2>1, StatPublishes
    <3>3. DemolishStep(in.who, in.victim)
      BY <2>1 DEF StatfeedEvent
    <3> DEFINE grown == RecordChain(in.who, in.victim)
    <3>4. JoinsChain(in.who, in.victim) /\ e.attacker = in.who
          /\ e.victims = [i \in DOMAIN grown |-> grown[i].victim]
      BY <3>2 DEF ChainOut
    <3>5. chains'[in.who] = grown
      BY <3>1, <3>3, <3>4 DEF DemolishStep, ChainsMatch
    <3> HIDE DEF grown
    <3>6. QED BY <3>1, <3>4, <3>5
  <2>2. CASE ~(/\ in.event = "StatfeedEvent" /\ StatfeedEvent(in.stat, in.who, in.victim)
               /\ in.stat = "Demolish" /\ Absent \notin {in.who, in.victim})
    BY <1>2, <2>2, Kinds, UpdatePublishes, HitPublishes, GoalPublishes, StatPublishes,
       PlainPublishes DEF Heeded
  <2>3. QED BY <2>1, <2>2
<1>3. QED
  BY <1>1, <1>2 DEF BooksNext, Receive

\* The victims of a published chain are the last ones of the attacker in the
\* log of this match, however the window trimmed the chain (demos.go).
THEOREM ChainsAlwaysMatchTheLog == BooksSpec => ChainMatchesLog
<1>1. BooksInit => ChainsMatch
  <2> SUFFICES ASSUME BooksInit PROVE ChainsMatch
    OBVIOUS
  <2>1. /\ demolishLog = <<>> /\ chains = [p \in Players |-> <<>>]
        /\ \A a \in Players : chains[a] = <<>>
    BY DEF BooksInit, Init
  <2>2. QED BY <2>1, NoDemolition DEF ChainsMatch
<1>2. Typed /\ ChainsMatch /\ [BooksNext]_booksVars => ChainsMatch'
  BY ChainsStep
<1> DEFINE Same(e) ==
      LET kills == Kills(e.attacker, demolishLog')
          n == Len(e.victims)
      IN  n <= Len(kills) /\ \A i \in 1..n : e.victims[i] = kills[Len(kills) - n + i].victim
<1>3. Typed /\ ChainsMatch /\ [BooksNext]_booksVars
        => [\A e \in Published("_DemoChain") : Same(e)]_booksVars
  <2> SUFFICES ASSUME Typed, ChainsMatch, [BooksNext]_booksVars, ~UNCHANGED booksVars,
                      NEW e \in Published("_DemoChain")
               PROVE  Same(e)
    OBVIOUS
  <2> DEFINE a == e.attacker
             chain == chains'[a]
  <2>1. a \in Players /\ e.victims = [i \in DOMAIN chain |-> chain[i].victim]
    BY ChainIsAnnounced
  <2>2. chain \in Seq(Links) /\ EndsWith(Kills(a, demolishLog'), chain)
    BY <2>1, ChainsStep DEF ChainsMatch
  <2> HIDE DEF a, chain
  <2>3. DOMAIN chain = 1..Len(chain) /\ Len(chain) \in Nat
    BY <2>2, LenProperties
  <2>4. Len(e.victims) = Len(chain) /\ \A i \in 1..Len(chain) : e.victims[i] = chain[i].victim
    BY <2>1, <2>3
  <2>5. QED BY <2>2, <2>4 DEF EndsWith, a
<1>4. QED
  BY <1>1, <1>2, <1>3, TypedInvariant, PTL DEF BooksSpec, ChainMatchesLog

=============================================================================
