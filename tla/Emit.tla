-------------------------------- MODULE Emit --------------------------------
(***************************************************************************)
(* The emit pipeline: what one event of the game does to every processor   *)
(* that cmd/rl-toolkit/main.go registers, and what is published for it.    *)
(* The state processors see the event first; the emitters then run in      *)
(* their order, each on the event and on what those before it published,   *)
(* one event at a time (pipeline.Run is a single goroutine).               *)
(*                                                                         *)
(* The match phase is part of an input: whatever the match state machine   *)
(* (MatchState.tla) has made of the event by the time the emitters run.    *)
(***************************************************************************)
EXTENDS Scoring

CONSTANTS
  Inputs,    \* events the game may send, records with an "event" field
  Window,    \* demoChainWindow, in ticks of the clock
  Debounce   \* crossbarDebounceWindow

ASSUME TimesAssumption == Window \in Nat \ {0} /\ Debounce \in Nat

ASSUME AbsentAssumption == Absent \notin Players \cup Nat

\* What is taken for granted of the game's events: the types of the fields that
\* are compared or counted.
IsSnapshot(t) ==
  /\ t # Absent
  /\ DOMAIN t.players \subseteq Players
  /\ \A p \in DOMAIN t.players : t.players[p].boost \in Nat \cup {Absent}

ASSUME InputsAssumption ==
  \A in \in Inputs :
    /\ in.event = "UpdateState" => IsSnapshot(in.tick)
    /\ in.event = "BallHit" => in.who \in Players \cup {Absent} /\ in.speed \in Nat
    /\ in.event = "GoalScored" => {in.who, in.touch} \subseteq Players \cup {Absent} /\ in.speed \in Nat
    /\ in.event = "StatfeedEvent" => {in.who, in.victim} \subseteq Players \cup {Absent}

VARIABLES
  now,         \* the clock the emitters read
  demolishLog, \* Demos: what a client that connects late is sent
  chains,      \* Demos: demoChainByID
  lastHit,     \* Crossbar: Absent before the first
  published    \* what the last event made the pipeline publish

demosVars == <<demolishLog, chains>>
vars == <<tickVars, buffer, scoringVars, now, demosVars, lastHit, published>>

Init ==
  /\ TicksInit /\ ScoringInit
  /\ buffer = <<>>
  /\ now = 0 /\ lastHit = Absent
  /\ demolishLog = <<>> /\ chains = [p \in Players |-> <<>>]
  /\ published = {}

Elapse ==
  /\ now' = now + 1
  /\ published' = {}
  /\ UNCHANGED <<tickVars, buffer, scoringVars, demosVars, lastHit>>
-----------------------------------------------------------------------------
(***************************************************************************)
(* Demos                                                                   *)
(***************************************************************************)
Demolition(a, v) ==
  [name |-> "_PlayerDemolished", attacker |-> ResolveByShortcut(a), victim |-> v]

\* A player the roster does not know has no id, so it is never itself.
IsSelfDemo(a, v) == a = v /\ ResolveByShortcut(a).known
IsEnemyDemo(a, v) == ~IsSelfDemo(a, v) /\ Team[a] # Team[v]

\* Entries that left the window are trimmed only by the next demolition.
InWindow(chain) == Kept(chain, {i \in 1..Len(chain) : chain[i].at + Window > now})
RecordChain(a, v) == Append(InWindow(chains[a]), [at |-> now, victim |-> v])

JoinsChain(a, v) == IsEnemyDemo(a, v) /\ ResolveByShortcut(a).known

ChainOut(a, v) ==
  IF ~JoinsChain(a, v) \/ Len(RecordChain(a, v)) < 2 THEN {}
  ELSE {[name |-> "_DemoChain", attacker |-> a,
         victims |-> [i \in DOMAIN RecordChain(a, v) |-> RecordChain(a, v)[i].victim]]}

DemolishOut(a, v) == {Demolition(a, v)} \cup ChainOut(a, v)

DemolishStep(a, v) ==
  /\ demolishLog' = Append(demolishLog, Demolition(a, v))
  /\ chains' = IF JoinsChain(a, v) THEN [chains EXCEPT ![a] = RecordChain(a, v)] ELSE chains

\* The chains of the last match are kept.
BugDemosReset == demolishLog' = <<>> /\ UNCHANGED chains

DemosReset == demolishLog' = <<>> /\ chains' = [p \in Players |-> <<>>]
-----------------------------------------------------------------------------
(***************************************************************************)
(* One action per event.  Each is the whole of pipeline.process for it.    *)
(***************************************************************************)
UpdateState(t, phase) ==
  LET a == Previous(t)
      b == Latest(t)
  IN  /\ ObserveRoster(t)
      /\ ObserveTick(t)
      /\ TickDiffStep(a, b, phase)
      /\ ObserveReplay(b)
      /\ ObserveOvertime(t)
      /\ flipArmed' = flipArmed \ Landed(a, b, phase)
      /\ published' = RosterOut(t) \cup ReplayOut(b) \cup OwnGoals(a, b, phase)
                        \cup TickDiffOut(a, b, phase) \cup OvertimeOut(t)
      /\ UNCHANGED <<buffer, lastGoal, realGoals, flipCount, fastest, now, demosVars, lastHit>>

\* Touches count in the live phases only.
BallHit(p, speed, phase) ==
  /\ IF phase \in LivePhases
     THEN HitStep(p, speed) /\ published' = HitOut(p, speed)
     ELSE UNCHANGED <<buffer, scoringVars>> /\ published' = {}
  /\ UNCHANGED <<tickVars, now, demosVars, lastHit>>

\* A goal without a scorer is the phantom the game sends at a round restart.
GoalScored(p, touch, speed) ==
  /\ IF p = Absent
     THEN UNCHANGED <<buffer, scoringVars>> /\ published' = {}
     ELSE GoalStep(p, touch, speed) /\ published' = GoalOut(p, touch, speed)
  /\ UNCHANGED <<tickVars, now, demosVars, lastHit>>

\* A statistic about p, if it has a main target; a Demolish is about an attacker
\* and a victim.
StatfeedEvent(stat, p, victim) ==
  LET demolished == stat = "Demolish" /\ Absent \notin {p, victim}
  IN  /\ StatStep(stat, p)
      /\ IF demolished THEN DemolishStep(p, victim) ELSE UNCHANGED demosVars
      /\ published' = StatOut(stat, p) \cup IF demolished THEN DemolishOut(p, victim) ELSE {}
      /\ UNCHANGED <<tickVars, now, lastHit>>

MatchCreated ==
  /\ NewMatch /\ ForgetBoosts /\ DemosReset
  /\ published' = {}
  /\ UNCHANGED <<roster, prevTick, tick, buffer, now, lastHit>>

MatchDestroyed ==
  /\ NewMatch /\ ForgetBoosts /\ DemosReset
  /\ ClearRoster
  /\ published' = RosterGone
  /\ UNCHANGED <<prevTick, tick, buffer, now, lastHit>>

ConnectionStatus ==
  /\ ClearRoster
  /\ published' = RosterGone
  /\ UNCHANGED <<prevTick, tick, streaks, suppress, buffer, scoringVars, now, demosVars, lastHit>>

CountdownBegin ==
  /\ ArmKickoffSuppression
  /\ published' = {}
  /\ UNCHANGED <<roster, prevTick, tick, buffer, scoringVars, now, demosVars, lastHit>>

RoundStarted ==
  /\ DisarmKickoffSuppression
  /\ first' = [first EXCEPT !.awaitingTouch = TRUE]
  /\ published' = {}
  /\ UNCHANGED <<roster, prevTick, tick, buffer, lastGoal, prevReplay, realGoals, flipArmed,
                 flipCount, fastest, now, demosVars, lastHit>>

\* A hit within the window of the one before extends the window.
CrossbarHit ==
  /\ lastHit' = IF InReplay THEN lastHit ELSE now
  /\ published' = IF InReplay \/ (lastHit # Absent /\ now - lastHit < Debounce) THEN {}
                  ELSE {[name |-> "_CrossbarHit"]}
  /\ UNCHANGED <<tickVars, buffer, scoringVars, now, demosVars>>

\* The winner the game leaves out is made of the last scores it sent.
Winner(given) ==
  CASE given # Absent -> given
    [] tick = Absent -> Absent
    [] tick.score[0] = tick.score[1] -> Absent
    [] OTHER -> CHOOSE n \in {0, 1} : tick.score[n] > tick.score[1 - n]

MatchEnded(given) ==
  /\ published' = {[name |-> "_MatchEnded", winner |-> Winner(given),
                    score |-> IF tick = Absent THEN Absent ELSE tick.score]}
  /\ UNCHANGED <<tickVars, buffer, scoringVars, now, demosVars, lastHit>>
-----------------------------------------------------------------------------
Deliver(in) ==
  \/ in.event = "UpdateState" /\ UpdateState(in.tick, in.phase)
  \/ in.event = "BallHit" /\ BallHit(in.who, in.speed, in.phase)
  \/ in.event = "GoalScored" /\ GoalScored(in.who, in.touch, in.speed)
  \/ in.event = "StatfeedEvent" /\ StatfeedEvent(in.stat, in.who, in.victim)
  \/ in.event = "MatchCreated" /\ MatchCreated
  \/ in.event = "MatchDestroyed" /\ MatchDestroyed
  \/ in.event = "_ConnectionStatus" /\ ConnectionStatus
  \/ in.event = "CountdownBegin" /\ CountdownBegin
  \/ in.event = "RoundStarted" /\ RoundStarted
  \/ in.event = "CrossbarHit" /\ CrossbarHit
  \/ in.event = "MatchEnded" /\ MatchEnded(in.winner)

Next == Elapse \/ \E in \in Inputs : Deliver(in)

Spec == Init /\ [][Next]_vars
=============================================================================
