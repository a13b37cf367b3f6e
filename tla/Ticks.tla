-------------------------------- MODULE Ticks --------------------------------
(***************************************************************************)
(* What the pipeline remembers of UpdateState and what it derives from the *)
(* difference of two of them: the tick store (backend/internal/tick), the  *)
(* roster (backend/internal/roster) and TickDiff (emit/tick_diff.go).      *)
(*                                                                         *)
(* A snapshot's players are a function from those on the field to their    *)
(* scalars.  "score" stands for the seven statistics, which are compared   *)
(* one by one and never with each other.  A player keeps its team here; a  *)
(* player who changes teams moves the fingerprint as two players would.    *)
(***************************************************************************)
EXTENDS Correlation, Integers, FiniteSets

CONSTANTS
  Players,   \* names; unique within a match
  Bots,      \* those the game ships under one common PrimaryId
  Team,      \* the team of each player, 0 or 1
  Absent,    \* a pointer that is nil, a field left out
  Reseed     \* the boost a car spawns with: 33 in the program

ASSUME TeamsAssumption == Bots \subseteq Players /\ Team \in [Players -> {0, 1}]
ASSUME ReseedAssumption == Reseed \in Nat

NoGuid == ""
RlBot == "Unknown|0|0"

VARIABLES
  roster,     \* lastGUID and lastRoster, whose pairs are the fingerprint
  prevTick,   \* previous
  tick,       \* latest
  buffer,     \* the correlation buffer, shared by the emitters
  streaks,    \* pickupStreaks: players with a pickup under way
  suppress    \* pendingRespawnSuppress

tickVars == <<roster, prevTick, tick, streaks, suppress>>
-----------------------------------------------------------------------------
(***************************************************************************)
(* Players and their ids                                                   *)
(***************************************************************************)
WirePrimaryId(p) == IF p \in Bots THEN RlBot ELSE p

\* Ids pass as they come.
BugCanonicalizeBotID(id, name) == id

\* Every bot gets an id of its own, made of its name.
CanonicalizeBotID(id, name) == IF id = RlBot THEN name ELSE id

IdOf(p) == CanonicalizeBotID(WirePrimaryId(p), p)

\* The players of a snapshot by id, as the diffs index them.
ById(t) ==
  [id \in {IdOf(p) : p \in DOMAIN t.players} |->
     t.players[CHOOSE p \in DOMAIN t.players : IdOf(p) = id]]

\* The join of a name with the live roster; a stub without id if it is not on
\* it.
ResolveByShortcut(p) == Resolved(p, \E m \in roster.members : m.name = p)

Id(player) == IF player.known THEN player.name ELSE ""
-----------------------------------------------------------------------------
(***************************************************************************)
(* The roster                                                              *)
(***************************************************************************)
NoRoster == [guid |-> NoGuid, members |-> {}]

RosterOf(t) ==
  [guid |-> t.guid, members |-> {[id |-> IdOf(p), name |-> p] : p \in DOMAIN t.players}]

RosterChanged(r) == [name |-> "_RosterChanged", guid |-> r.guid, members |-> r.members]

\* onUpdateState: the new roster is staged when the fingerprint moves, and
\* Process sends it for the same event.
ObserveRoster(t) == roster' = RosterOf(t)
RosterOut(t) == IF RosterOf(t) = roster THEN {} ELSE {RosterChanged(RosterOf(t))}

\* MatchDestroyed and _ConnectionStatus: a roster that was not empty is
\* announced as gone.
ClearRoster == roster' = NoRoster
RosterGone == IF roster.members = {} THEN {} ELSE {RosterChanged(NoRoster)}
-----------------------------------------------------------------------------
(***************************************************************************)
(* The tick store; an UpdateState without teams leaves it as it is.        *)
(***************************************************************************)
Latest(t) == IF t.teams THEN t ELSE tick
Previous(t) == IF t.teams THEN tick ELSE prevTick

ObserveTick(t) == prevTick' = Previous(t) /\ tick' = Latest(t)

InReplay == tick # Absent /\ tick.replay
-----------------------------------------------------------------------------
(***************************************************************************)
(* TickDiff on one player, from scalars x to scalars y                     *)
(***************************************************************************)
Level(x) == IF x.boost = Absent THEN 0 ELSE x.boost
Rises(x, y) == y.boost # Absent /\ y.boost > Level(x)
Falls(x, y) == y.boost # Absent /\ y.boost < Level(x)
Respawns(x, y) == x.down /\ ~y.down
DropsStreak(x, y) == y.boost = Absent \/ Respawns(x, y)
Lands(x, y) == ~x.ground /\ y.ground

Both(a, b) == DOMAIN ById(a) \cap DOMAIN ById(b)
Where(a, b, Holds(_, _)) == {id \in Both(a, b) : Holds(ById(a)[id], ById(b)[id])}

\* The streak starts at the level it has risen to.
BugRise(id, x, y) == [start |-> IF id \in DOMAIN streaks THEN streaks[id].start ELSE y.boost,
                      last |-> y.boost]

\* A rising tick opens a streak at the level before it, or extends it.
Rise(id, x, y) == [start |-> IF id \in DOMAIN streaks THEN streaks[id].start ELSE Level(x),
                   last |-> y.boost]

StreaksAfter(a, b) ==
  LET rising == Where(a, b, Rises) \ Where(a, b, DropsStreak)
  IN  [id \in (DOMAIN streaks \ Both(a, b)) \cup rising |->
         IF id \in rising THEN Rise(id, ById(a)[id], ById(b)[id]) ELSE streaks[id]]

\* A streak ends when the rise does; it is one pickup.
Pickups(a, b) ==
  {[name |-> "_BoostPickup", who |-> id, before |-> streaks[id].start,
    after |-> streaks[id].last] :
     id \in DOMAIN streaks \cap
            (Both(a, b) \ (Where(a, b, DropsStreak) \cup Where(a, b, Rises)))}

\* A respawn arms the suppression, and the next fall uses it up.
SuppressArmed(a, b) == suppress \cup Where(a, b, Respawns)
SuppressAfter(a, b) == SuppressArmed(a, b) \ Where(a, b, Falls)

Spends(a, b) ==
  {[name |-> "_BoostConsumed", who |-> id, before |-> Level(ById(a)[id]),
    after |-> ById(b)[id].boost] : id \in Where(a, b, Falls) \ SuppressArmed(a, b)}

ScoreChanges(a, b) ==
  {[name |-> "_PlayerScoreChanged", who |-> id,
    delta |-> ById(b)[id].score - ById(a)[id].score] :
     id \in Where(a, b, LAMBDA x, y : x.score # y.score)}

TeamScores(a, b) ==
  {[name |-> "_TeamScoreChanged", team |-> n, before |-> a.score[n], after |-> b.score[n]] :
     n \in {n \in {0, 1} : a.score[n] # b.score[n]}}

\* recentTouch
RecentTouch(buf) ==
  LET hits == Recent(buf, "BallHit", 3)
  IN  IF hits = <<>> THEN Absent ELSE hits[1].player

Possession(a, b) ==
  IF Absent \in {a.ball, b.ball} \/ a.ball = b.ball THEN {}
  ELSE {[name |-> "_BallPossessionChanged", from |-> a.ball, to |-> b.ball,
         touch |-> RecentTouch(buffer)]}

\* Joins and leaves are diffed in every phase.
Joined(a, b) ==
  {[name |-> "_PlayerJoined", who |-> id] : id \in DOMAIN ById(b) \ DOMAIN ById(a)}
Left(a, b) ==
  {[name |-> "_PlayerLeft", who |-> id] : id \in DOMAIN ById(a) \ DOMAIN ById(b)}
-----------------------------------------------------------------------------
LivePhases == {"live", "countdown", "paused"}
Phases == LivePhases \cup {"none", "lobby", "replay", "podium", "ended"}

Comparable(a, b) == Absent \notin {a, b} /\ a.guid = b.guid

ForgetBoosts == streaks' = <<>> /\ suppress' = {}

\* The state of TickDiff after an UpdateState in this phase.
TickDiffStep(a, b, phase) ==
  IF Absent \in {a, b} THEN UNCHANGED <<streaks, suppress>>
  ELSE IF a.guid # b.guid THEN ForgetBoosts
  ELSE IF phase \notin LivePhases THEN UNCHANGED <<streaks, suppress>>
  ELSE streaks' = StreaksAfter(a, b) /\ suppress' = SuppressAfter(a, b)

TickDiffOut(a, b, phase) ==
  IF ~Comparable(a, b) THEN {}
  ELSE Joined(a, b) \cup Left(a, b) \cup
       IF phase \notin LivePhases THEN {}
       ELSE ScoreChanges(a, b) \cup Pickups(a, b) \cup Spends(a, b) \cup
            TeamScores(a, b) \cup Possession(a, b)

\* The landings are not looked for.
BugLanded(a, b, phase) == {}

\* The players whose flip-reset arm TickDiff has Statfeed clear.
Landed(a, b, phase) ==
  IF Comparable(a, b) /\ phase \in LivePhases THEN Where(a, b, Lands) ELSE {}

\* CountdownBegin: the kickoff is going to reset every boost.  Players whose
\* boost is left out are skipped altogether.
ArmKickoffSuppression ==
  IF tick = Absent THEN UNCHANGED <<streaks, suppress>>
  ELSE LET shown == {id \in DOMAIN ById(tick) : ById(tick)[id].boost # Absent}
       IN  /\ suppress' = suppress \cup {id \in shown : ById(tick)[id].boost > Reseed}
           /\ streaks' = [id \in DOMAIN streaks \ shown |-> streaks[id]]

\* RoundStarted: the reset is over.
DisarmKickoffSuppression == suppress' = {} /\ UNCHANGED streaks

TicksInit ==
  /\ roster = NoRoster
  /\ prevTick = Absent /\ tick = Absent
  /\ streaks = <<>> /\ suppress = {}
=============================================================================
