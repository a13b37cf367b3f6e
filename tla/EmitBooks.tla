------------------------------ MODULE EmitBooks ------------------------------
(***************************************************************************)
(* Emit with an observer, "audit", that keeps the books a careful plugin   *)
(* would keep from what is published, and the properties of both.          *)
(***************************************************************************)
EXTENDS Emit

VARIABLE audit  \* what a subscriber made of the events published so far

Boundary == {"MatchCreated", "MatchDestroyed"}
Published(name) == {e \in published' : e.name = name}

Counts == [p \in Players |-> 0]
AuditInit ==
  [roster |-> {},       \* the last roster announced
   present |-> {},      \* ids joined and not left since the diffs last restarted
   claims |-> [m \in Modifiers |-> Counts],  \* modifier statistics not yet credited
   shots |-> [n \in {0, 1} |-> 0],           \* shots of a team not yet credited
   honest |-> Counts,   \* honest goals of this match
   hats |-> {},         \* hat tricks of this match
   goal |-> Absent,     \* last scorer of this match
   aloft |-> {},        \* those with a flip reset who were not seen to land
   ledger |-> [p \in Players |-> Absent]]    \* boost according to the events

RosterHeard ==
  IF Published("_RosterChanged") = {} THEN audit.roster
  ELSE (CHOOSE e \in Published("_RosterChanged") : TRUE).members

\* The first comparable pair of snapshots starts the diffs.
Settled == Absent \notin {prevTick', tick'} /\ prevTick'.guid = tick'.guid
PresentAfter(in) ==
  IF in.event # "UpdateState" THEN audit.present
  ELSE IF ~Settled THEN IF tick' = Absent THEN {} ELSE DOMAIN ById(tick')
  ELSE (audit.present \cup {e.who : e \in Published("_PlayerJoined")})
         \ {e.who : e \in Published("_PlayerLeft")}

ClaimsAfter(in) ==
  [m \in Modifiers |-> [p \in Players |->
     audit.claims[m][p]
       + (IF in.event = "StatfeedEvent" /\ in.stat = m /\ in.who = p THEN 1 ELSE 0)
       - Cardinality({e \in Published("_GoalScored") : e.who = p /\ m \in e.modifiers})]]

ShootsFor(in, n) ==
  /\ in.event = "StatfeedEvent" /\ in.stat = "Shot"
  /\ in.who # Absent /\ Team[in.who] = n

ShotsAfter(in) ==
  [n \in {0, 1} |->
     audit.shots[n]
       + (IF ShootsFor(in, n) THEN 1 ELSE 0)
       - Cardinality({e \in Published("_GoalScored") : Team[e.who] = n /\ e.stolen})]

HonestAfter(in) ==
  IF in.event \in Boundary THEN Counts
  ELSE [p \in Players |-> audit.honest[p]
          + Cardinality({e \in Published("_GoalScored") : e.who = p /\ ~e.own})]

\* Those a live UpdateState shows on the ground who were in the air before.
SeenToLand(in) ==
  IF in.event # "UpdateState" \/ ~Settled THEN {}
  ELSE IF in.phase \notin LivePhases THEN {}
  ELSE {p \in DOMAIN tick'.players \cap DOMAIN prevTick'.players :
          ~prevTick'.players[p].ground /\ tick'.players[p].ground}

AloftAfter(in) ==
  IF in.event \in Boundary THEN {}
  ELSE ((audit.aloft \cup {e.who : e \in Published("_FlipReset")}) \ SeenToLand(in))
         \ {e.who : e \in {e \in Published("_GoalScored") : e.flipReset}}

Gain(p, open) == IF p \in DOMAIN open THEN open[p].last - open[p].start ELSE 0
Of(p, name) == {e \in Published(name) : e.who = p}

\* What the boost event of this name says p won or lost: there is one at most.
Change(p, name) ==
  LET e == CHOOSE e \in Of(p, name) : TRUE
  IN  IF Of(p, name) = {} THEN 0 ELSE e.after - e.before

\* A live step of a player whose boost both snapshots show, and who neither
\* respawned nor is about to be reset for a kickoff.
Clean(in, p) ==
  /\ in.event = "UpdateState" /\ in.tick.teams /\ in.phase \in LivePhases
  /\ Settled
  /\ p \in DOMAIN prevTick'.players \cap DOMAIN tick'.players
  /\ ~prevTick'.players[p].down
  /\ tick'.players[p].boost # Absent
  /\ p \notin suppress

LedgerAfter(in, p) ==
  LET restarts == Boundary \cup {"CountdownBegin"}
  IN  CASE Clean(in, p) /\ audit.ledger[p] # Absent ->
             audit.ledger[p] + Change(p, "_BoostPickup") + Change(p, "_BoostConsumed")
        [] in.event \notin restarts \cup {"UpdateState"} -> audit.ledger[p]
        [] /\ ~Clean(in, p) /\ in.event = "UpdateState" /\ in.tick.teams
           /\ p \in DOMAIN tick'.players \ DOMAIN streaks' -> Level(tick'.players[p])
        [] OTHER -> Absent

Audit(in) ==
  audit' = [roster |-> RosterHeard, present |-> PresentAfter(in), claims |-> ClaimsAfter(in),
            shots |-> ShotsAfter(in), honest |-> HonestAfter(in),
            hats |-> (IF in.event \in Boundary THEN {} ELSE audit.hats)
                       \cup {e.who : e \in Published("_HatTrick")},
            goal |-> IF in.event \in Boundary THEN Absent
                     ELSE IF Published("_GoalScored") = {} THEN audit.goal
                     ELSE (CHOOSE e \in Published("_GoalScored") : TRUE).who,
            aloft |-> AloftAfter(in),
            ledger |-> [p \in Players |-> LedgerAfter(in, p)]]

booksVars == <<vars, audit>>

BooksInit == Init /\ audit = AuditInit

Receive(in) == Deliver(in) /\ Audit(in)
Wait == Elapse /\ UNCHANGED audit

BooksNext == Wait \/ \E in \in Inputs : Receive(in)

BooksSpec == BooksInit /\ [][BooksNext]_booksVars
-----------------------------------------------------------------------------
\* Every variable has its type, and the correlation buffer is within its
\* capacity, whatever is recorded and taken out.
EmitTypeOK ==
  /\ roster.members \subseteq [id : Players \cup {RlBot}, name : Players]
  /\ Absent \in {prevTick, tick} => prevTick = Absent
  /\ Len(buffer) <= Capacity
  /\ DOMAIN streaks \cup suppress \cup flipArmed \subseteq Players
  /\ realGoals \in [Players -> Nat] /\ flipCount \in [Players -> Nat]
  /\ fastest \in Nat /\ now \in Nat

\* A modifier statistic is credited to one goal at most, and a shot to one
\* stolen goal at most, whatever else is in the correlation buffer and
\* whatever it evicts (collectGoalModifiers, detectStolenGoal).
CreditedOnce ==
  /\ \A m \in Modifiers, p \in Players : audit.claims[m][p] >= 0
  /\ \A n \in {0, 1} : audit.shots[n] >= 0

\* _HatTrick goes out once in a match, on a third goal that subscribers saw as
\* an honest one; the game's own hat tricks count own goals (goal.go).
HatTrickEarned ==
  [][\A e \in Published("_HatTrick") : audit'.honest[e.who] >= 3 /\ e.who \notin audit.hats]_booksVars

\* The goal a replay shows is the last one of this match, never of the match
\* before (maybeReplayStarted).
ReplayShowsThisMatchsGoal ==
  [][\A e \in Published("_GoalReplayStarted") : e.who = audit.goal]_booksVars

\* A flip-reset goal is scored by a player who got a flip reset in this match
\* and was not seen to land since (Statfeed arms, TickDiff clears).
FlipResetNeedsFlight ==
  [][\A e \in Published("_GoalScored") : e.flipReset => e.who \in audit.aloft]_booksVars

\* Over ticks that show a player's boost all the way, the boost published as
\* picked up, less what was published as spent, plus the pickup under way, is
\* the boost the player has (boostPickup, boostConsumed).
BooksBalance ==
  \A p \in Players :
    audit.ledger[p] # Absent => audit.ledger[p] + Gain(p, streaks) = Level(tick.players[p])

\* The roster last announced is the one a late client is sent; every player on
\* it has an id of its own, and so joins and leaves add up to the players of the
\* last tick (tracker.go, diffPlayers).
RostersAgree ==
  /\ audit.roster = roster.members
  /\ \A x, y \in roster.members : x.id = y.id => x.name = y.name
  /\ tick # Absent => Cardinality(audit.present) = Cardinality(DOMAIN tick.players)

\* The enemies a player demolished while the roster knew it.
Kills(a, dlog) ==
  Kept(dlog, {i \in 1..Len(dlog) : /\ dlog[i].attacker = Resolved(a, TRUE)
                                   /\ Team[dlog[i].victim] # Team[a]})

\* The victims of a published chain are the last ones of the attacker among
\* the enemies in the demolition log of this match, so a client that connects
\* late and reads the log can tell what the chain was about (demos.go).
ChainMatchesLog ==
  [][\A e \in Published("_DemoChain") :
       LET kills == Kills(e.attacker, demolishLog')
           n == Len(e.victims)
       IN  n <= Len(kills) /\ \A i \in 1..n : e.victims[i] = kills[Len(kills) - n + i].victim]_booksVars

\* docs/PLUGINS.md of _OvertimeStarted: it reports the score at which the match
\* is tied.
OvertimeReportsTheTie ==
  [][\A e \in Published("_OvertimeStarted") : e.score = tick'.score]_booksVars
=============================================================================
