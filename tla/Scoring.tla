------------------------------- MODULE Scoring -------------------------------
(***************************************************************************)
(* The emitters that follow goals, touches and statistics across events:   *)
(* BallHit, Goal, OwnGoal, Statfeed, FastestShot and FirstBlood of         *)
(* backend/internal/emit.  Each operator gives what one emitter does with  *)
(* one event: ...Out is what it publishes, the others set its variables.   *)
(***************************************************************************)
EXTENDS Ticks

CONSTANTS
  StatLookback,  \* statfeed entries a goal or a save looks at: 15 in the program
  WalkLimit      \* entries the stolen-goal walk looks at: 30 in the program

ASSUME LookbackAssumption == StatLookback \in Nat /\ WalkLimit \in Nat

VARIABLES
  lastGoal,      \* Goal: the goal a replay will show
  prevReplay,    \* Goal
  realGoals,     \* OwnGoal: honest goals of each player in this match
  flipArmed,     \* Statfeed: flipResetArmed
  flipCount,     \* Statfeed: flipResetCountByID
  fastest,       \* FastestShot: max, 0 before the first
  first          \* FirstBlood: its four flags

scoringVars == <<lastGoal, prevReplay, realGoals, flipArmed, flipCount, fastest, first>>

NoGoals == [p \in Players |-> 0]
FreshMatch == [awaitingTouch |-> FALSE, blood |-> FALSE, overtime |-> FALSE,
               wasOvertime |-> FALSE]

ScoringInit ==
  /\ lastGoal = Absent /\ prevReplay = FALSE
  /\ realGoals = NoGoals
  /\ flipArmed = {} /\ flipCount = NoGoals
  /\ fastest = 0 /\ first = FreshMatch

\* The counter outlives the match.
BugNewMatch ==
  /\ lastGoal' = Absent /\ prevReplay' = FALSE
  /\ flipArmed' = {} /\ flipCount' = NoGoals
  /\ fastest' = 0 /\ first' = FreshMatch
  /\ UNCHANGED realGoals

\* The goal of the last match is kept.
BugKeepGoal ==
  /\ prevReplay' = FALSE /\ realGoals' = NoGoals
  /\ flipArmed' = {} /\ flipCount' = NoGoals
  /\ fastest' = 0 /\ first' = FreshMatch
  /\ UNCHANGED lastGoal

\* MatchCreated and MatchDestroyed, for all of them; the buffer stays.
NewMatch ==
  /\ lastGoal' = Absent /\ prevReplay' = FALSE
  /\ realGoals' = NoGoals
  /\ flipArmed' = {} /\ flipCount' = NoGoals
  /\ fastest' = 0 /\ first' = FreshMatch
-----------------------------------------------------------------------------
(***************************************************************************)
(* Milestones                                                              *)
(***************************************************************************)
FastestAfter(speed) == IF speed > fastest THEN speed ELSE fastest
FastestOut(speed) ==
  IF speed > fastest THEN {[name |-> "_FastestShotOfMatch", speed |-> speed]} ELSE {}

FirstTouchOut ==
  IF first.awaitingTouch THEN {[name |-> "_FirstTouch"]} ELSE {}
FirstBloodOut ==
  IF first.blood THEN {} ELSE {[name |-> "_FirstBlood"]}

\* The scores are read from "Teams" beside "Game"; the game puts its teams
\* inside "Game", so both are the zero of a missing field.
OvertimeScores(t) == [n \in {0, 1} |-> 0]

\* An UpdateState without "Game" has an absent overtime flag.
StartsOvertime(t) == t.overtime = TRUE /\ ~first.wasOvertime /\ ~first.overtime
OvertimeOut(t) ==
  IF StartsOvertime(t) THEN {[name |-> "_OvertimeStarted", score |-> OvertimeScores(t)]}
  ELSE {}
ObserveOvertime(t) ==
  first' = IF t.overtime = Absent THEN first
           ELSE [first EXCEPT !.wasOvertime = t.overtime, !.overtime = @ \/ StartsOvertime(t)]
-----------------------------------------------------------------------------
(***************************************************************************)
(* BallHit: an absent player is a hit without a toucher the roster could   *)
(* resolve.                                                                *)
(***************************************************************************)
HitOut(p, speed) == {[name |-> "_BallHit", who |-> p]} \cup FastestOut(speed) \cup FirstTouchOut

HitStep(p, speed) ==
  /\ buffer' = IF p = Absent THEN buffer
               ELSE Record(buffer, Entry("BallHit", ResolveByShortcut(p), ""))
  /\ fastest' = FastestAfter(speed)
  /\ first' = [first EXCEPT !.awaitingTouch = FALSE]
  /\ UNCHANGED <<lastGoal, prevReplay, realGoals, flipArmed, flipCount>>
-----------------------------------------------------------------------------
(***************************************************************************)
(* Goal                                                                    *)
(***************************************************************************)
\* modifierStatfeedNames; "AerialGoal" stands for the eight that are treated
\* alike.
Modifiers == {"AerialGoal", "HatTrick"}

LastToucher(touch) ==
  LET hits == Recent(buffer, "BallHit", 1)
  IN  IF touch # Absent THEN ResolveByShortcut(touch)
      ELSE IF hits # <<>> THEN hits[1].player ELSE Absent

\* The deflector is on the conceding team.
IsOwnGoal(p, touch) ==
  LET toucher == LastToucher(touch)
  IN  toucher # Absent /\ Team[toucher.name] = 1 - Team[p]

RealGoalsAfter(p, touch) ==
  IF IsOwnGoal(p, touch) \/ ~ResolveByShortcut(p).known THEN realGoals
  ELSE [realGoals EXCEPT ![p] = @ + 1]

\* RealGoals: a stub has no count of its own.
GoalCount(counts, player) == IF player.known THEN counts[player.name] ELSE 0

\* Same-player modifiers among the recent statfeeds.
CollectModifiers(p) ==
  {e.stat : e \in {e \in ToSet(Recent(buffer, "StatfeedEvent", StatLookback)) :
                     e.player.name = p}} \cap Modifiers

\* The statfeeds stay in the buffer.
BugConsumeModifiers(p) == buffer

\* They are taken out, so that they do not apply to the next goal.
ConsumeModifiers(p) ==
  RemoveByName(buffer, "StatfeedEvent",
               {e \in ToSet(buffer) : e.player.name = p /\ e.stat \in Modifiers})

\* RL's hat trick counts own goals; below three honest ones it is cleared.
ModifiersOf(p, touch) ==
  IF GoalCount(RealGoalsAfter(p, touch), ResolveByShortcut(p)) < 3
  THEN CollectModifiers(p) \ {"HatTrick"} ELSE CollectModifiers(p)

IsShotBy(e, mate) ==
  e.name = "StatfeedEvent" /\ e.stat = "Shot" /\ e.player.name = mate.name

\* The newest hits are by the scorer and a teammate, and since that
\* teammate's Shot the teammate touched the ball once and no third player did.
FinishesShotOf(scorer, mate, buf) ==
  LET walk == WalkRecent(buf, {"BallHit", "StatfeedEvent"}, WalkLimit)
      HitsBefore(i) == {j \in 1..(i - 1) :
                          walk[j].name = "BallHit" /\ Id(walk[j].player) # Id(scorer)}
  IN  /\ Id(mate) # Id(scorer) /\ Team[mate.name] = Team[scorer.name]
      /\ \E i \in 1..Len(walk) :
           /\ IsShotBy(walk[i], mate)
           /\ \A j \in HitsBefore(i) : Id(walk[j].player) = Id(mate)
           /\ Cardinality(HitsBefore(i)) <= 1

IsStolenGoal(p, touch, buf) ==
  LET hits == Recent(buf, "BallHit", 2)
  IN  /\ ~IsOwnGoal(p, touch) /\ LastToucher(touch) # Absent
      /\ Id(LastToucher(touch)) = Id(ResolveByShortcut(p))
      /\ Len(hits) = 2
      /\ FinishesShotOf(ResolveByShortcut(p), hits[2].player, buf)

\* The shot was credited: no later goal finishes it.
ConsumeShot(p, touch, buf) ==
  IF ~IsStolenGoal(p, touch, buf) THEN buf
  ELSE LET mate == Recent(buf, "BallHit", 2)[2].player
       IN  RemoveByName(buf, "StatfeedEvent", {e \in ToSet(buf) : IsShotBy(e, mate)})

GoalEvent(p, touch) ==
  [name |-> "_GoalScored", who |-> p, own |-> IsOwnGoal(p, touch),
   modifiers |-> ModifiersOf(p, touch),
   flipReset |-> p \in flipArmed /\ ResolveByShortcut(p).known,
   stolen |-> IsStolenGoal(p, touch, ConsumeModifiers(p))]

\* On the third honest goal, and not on a later own goal.
HatTrickOut(p, touch) ==
  IF /\ ResolveByShortcut(p).known /\ ~IsOwnGoal(p, touch)
     /\ RealGoalsAfter(p, touch)[p] = 3
  THEN {[name |-> "_HatTrick", who |-> p]} ELSE {}

GoalOut(p, touch, speed) ==
  {GoalEvent(p, touch)} \cup HatTrickOut(p, touch) \cup FastestOut(speed) \cup FirstBloodOut

GoalStep(p, touch, speed) ==
  /\ buffer' = Record(ConsumeShot(p, touch, ConsumeModifiers(p)),
                      Entry("_GoalScored", ResolveByShortcut(p), ""))
  /\ realGoals' = RealGoalsAfter(p, touch)
  /\ flipArmed' = IF ResolveByShortcut(p).known THEN flipArmed \ {p} ELSE flipArmed
  /\ lastGoal' = [who |-> p, own |-> IsOwnGoal(p, touch)]
  /\ fastest' = FastestAfter(speed)
  /\ first' = [first EXCEPT !.blood = TRUE]
  /\ UNCHANGED <<prevReplay, flipCount>>

\* maybeReplayStarted: the rising edge of bReplay, with a goal to show.
ReplayOut(t) ==
  IF t # Absent /\ t.replay /\ ~prevReplay /\ lastGoal # Absent
  THEN {[name |-> "_GoalReplayStarted", who |-> lastGoal.who]} ELSE {}
ObserveReplay(t) == prevReplay' = IF t = Absent THEN prevReplay ELSE t.replay
-----------------------------------------------------------------------------
(***************************************************************************)
(* OwnGoal: a score that went up by one after a touch of the other team.   *)
(***************************************************************************)
OwnGoals(a, b, phase) ==
  LET touch == RecentTouch(buffer)
  IN  IF \/ Absent \in {a, b} \/ phase \notin {"live", "replay"}
         \/ NoGuid \notin {a.guid, b.guid} /\ a.guid # b.guid
         \/ touch = Absent
      THEN {}
      ELSE {[name |-> "_OwnGoal", deflector |-> touch.name, team |-> n] :
              n \in {n \in {0, 1} : b.score[n] - a.score[n] = 1 /\ Team[touch.name] # n}}
-----------------------------------------------------------------------------
(***************************************************************************)
(* Statfeed: an absent player is a statistic without a main target.  It is *)
(* recorded and published, and nothing is derived from it.                 *)
(***************************************************************************)
\* "Playmaker" stands for the verified names nothing else is derived from.
Verified == {"Shot", "Save", "EpicSave", "Demolish", "FlipReset", "Assist", "Center",
             "Clear", "BicycleHit", "Playmaker"} \cup Modifiers

\* A save is joined with the newest shot of the other team, an assist with the
\* newest goal, the touch variants with the newest touch.
ShotAgainst(buf, p) ==
  LET stats == Recent(buf, "StatfeedEvent", StatLookback)
      shots == {i \in 1..Len(stats) :
                  /\ stats[i].stat = "Shot" /\ stats[i].player.name # Absent
                  /\ Team[stats[i].player.name] # Team[p]}
  IN  IF shots = {} THEN Absent ELSE stats[Nth(shots, 1)].player.name

AssistedGoal(buf) ==
  LET goals == Recent(buf, "_GoalScored", 5)
  IN  IF goals = <<>> THEN Absent ELSE goals[1].player.name

FlipCountAfter(stat, p) ==
  IF stat = "FlipReset" /\ ResolveByShortcut(p).known
  THEN [flipCount EXCEPT ![p] = @ + 1] ELSE flipCount

PromotedName(stat) ==
  CASE stat = "Save" -> "_Save" [] stat = "EpicSave" -> "_EpicSave" [] stat = "Shot" -> "_Shot"
    [] stat = "Center" -> "_Center" [] stat = "Clear" -> "_Clear" [] OTHER -> "_BicycleHit"

\* What is looked back for is looked for behind the statistic just recorded.
Promoted(stat, p, buf) ==
  CASE stat \in {"Save", "EpicSave"} ->
         {[name |-> PromotedName(stat), who |-> p, shot |-> ShotAgainst(buf, p)]}
    [] stat \in {"Shot", "Center", "Clear", "BicycleHit"} ->
         {[name |-> PromotedName(stat), who |-> p, touch |-> RecentTouch(buf)]}
    [] stat = "Assist" -> {[name |-> "_Assist", who |-> p, goal |-> AssistedGoal(buf)]}
    [] stat = "FlipReset" ->
         {[name |-> "_FlipReset", who |-> p,
           count |-> GoalCount(FlipCountAfter(stat, p), ResolveByShortcut(p))]}
    [] OTHER -> {}

StatAfter(stat, p) ==
  Record(buffer, Entry("StatfeedEvent", ResolveByShortcut(p), stat))

StatOut(stat, p) ==
  {[name |-> "_StatfeedEvent", stat |-> stat, who |-> p]}
    \cup (IF stat \in Verified THEN {} ELSE {[name |-> "_UnknownStatfeed", stat |-> stat]})
    \cup (IF p = Absent THEN {} ELSE Promoted(stat, p, StatAfter(stat, p)))

StatStep(stat, p) ==
  /\ buffer' = StatAfter(stat, p)
  /\ flipCount' = FlipCountAfter(stat, p)
  /\ flipArmed' = IF stat = "FlipReset" /\ ResolveByShortcut(p).known
                  THEN flipArmed \cup {p} ELSE flipArmed
  /\ UNCHANGED <<lastGoal, prevReplay, realGoals, fastest, first>>
=============================================================================
