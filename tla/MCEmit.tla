------------------------------- MODULE MCEmit -------------------------------
(***************************************************************************)
(* Instances of EmitBooks.  A behaviour follows one of several feeds, each *)
(* a set of events about one concern, for as many events as Steps allows.  *)
(***************************************************************************)
EXTENDS EmitBooks, TLC

CONSTANT Feeds  \* the feeds of this run

VARIABLES
  feed,    \* the feed of this behaviour
  left     \* bound: events still to come

MCTeam == [p \in Players |-> IF p = "Cy" THEN 1 ELSE 0]

Car == [boost |-> 0, ground |-> TRUE, down |-> FALSE, score |-> 0]
Field(guid, names) ==
  [guid |-> guid, teams |-> TRUE, score |-> [n \in {0, 1} |-> 0],
   players |-> [p \in names |-> Car], ball |-> Absent, replay |-> FALSE, overtime |-> FALSE]
All == Field("m1", Players)

State(t, phase) == [event |-> "UpdateState", tick |-> t, phase |-> phase]
Hit(p, speed) == [event |-> "BallHit", who |-> p, speed |-> speed, phase |-> "live"]
Goal(p, touch) == [event |-> "GoalScored", who |-> p, touch |-> touch, speed |-> 2]
Stat(stat, p) == [event |-> "StatfeedEvent", stat |-> stat, who |-> p, victim |-> Absent]
Demo(p, v) == [event |-> "StatfeedEvent", stat |-> "Demolish", who |-> p, victim |-> v]
Plain(event) == [event |-> event]

\* What Ann alone does with her boost.
Ann(boost, down) ==
  [Field("m1", {"Ann"}) EXCEPT !.players["Ann"].boost = boost, !.players["Ann"].down = down]
InAir == [All EXCEPT !.players["Ann"].ground = FALSE]
Partial == [All EXCEPT !.teams = FALSE, !.overtime = Absent]

Feed == [
  credit |-> {State(All, "live"), Stat("AerialGoal", "Ann"), Stat("AerialGoal", "Bob"),
              Stat("HatTrick", "Ann"), Goal("Ann", Absent), Goal("Bob", "Cy"),
              Plain("MatchDestroyed")},
  hat |-> {State(All, "live"), Stat("HatTrick", "Ann"), Goal("Ann", Absent), Goal("Ann", "Cy"),
           Plain("MatchCreated")},
  steal |-> {State(All, "live"), Hit("Ann", 1), Hit("Bob", 1), Hit("Cy", 1),
             Stat("Shot", "Bob"), Goal("Ann", Absent)},
  flip |-> {State(All, "live"), State(InAir, "live"), State(InAir, "replay"),
            State(All, "replay"), Stat("FlipReset", "Ann"), Goal("Ann", Absent),
            Plain("MatchDestroyed")},
  replay |-> {State(All, "live"), State([All EXCEPT !.replay = TRUE], "replay"),
              State(Partial, "live"), Goal("Ann", Absent), Goal("Cy", "Cy"),
              Goal(Absent, Absent), Plain("MatchCreated"), Plain("MatchDestroyed")},
  boost |-> {State(Ann(b, FALSE), ph) : b \in {Absent} \cup 0..3, ph \in {"live", "replay"}}
            \cup {State(Ann(b, TRUE), "live") : b \in {Absent, 2}}
            \cup {State(Partial, "live"), Plain("CountdownBegin"), Plain("RoundStarted")},
  roster |-> {State(Field(g, names), "lobby") :
                g \in {"", "m1"}, names \in {{}, {"Ann"}, {"Bob", "Cy"}, Players}}
             \cup {State(Partial, "lobby"), Plain("MatchDestroyed"), Plain("_ConnectionStatus")},
  demos |-> {State(All, "live"), Demo("Cy", "Bob"), Demo("Ann", "Bob"), Demo("Ann", "Ann"),
             Demo("Cy", "Ann"), Demo("Cy", Absent), Demo(Absent, "Bob"), Plain("MatchDestroyed"), Plain("_ConnectionStatus")},
  marks |-> {State(All, "live"), State([All EXCEPT !.overtime = TRUE, !.score = [n \in {0, 1} |-> 1]], "live"),
             State([All EXCEPT !.score[1] = 1, !.ball = 1], "live"), Hit("Ann", 1),
             [Hit(Absent, 2) EXCEPT !.phase = "podium"], Hit(Absent, 1), Goal("Ann", Absent),
             Plain("RoundStarted"), Plain("CrossbarHit"), Stat("EpicSave", "Cy"),
             Stat("Shot", "Ann"), Stat("Shot", Absent), Stat("Assist", "Bob"),
             Stat("Oddity", "Bob"), Stat("Oddity", Absent),
             [event |-> "MatchEnded", winner |-> Absent]}]

MCInputs == UNION {Feed[f] : f \in DOMAIN Feed}

\* bound: the events of a behaviour, by feed.
Steps == [credit |-> 6, hat |-> 7, steal |-> 7, flip |-> 6, replay |-> 6, boost |-> 7,
          roster |-> 5, demos |-> 6, marks |-> 4]
Horizon == 2  \* bound: the clock
MCInit == BooksInit /\ feed \in Feeds /\ left = Steps[feed]

Follow(in) == Receive(in) /\ left' = left - 1 /\ UNCHANGED feed

MCNext ==
  \/ now < Horizon /\ feed \in {"demos", "marks"} /\ Wait /\ UNCHANGED <<feed, left>>
  \/ left > 0 /\ \E in \in Feed[feed] : Follow(in)

mcVars == <<booksVars, feed, left>>
MCSpec == MCInit /\ [][MCNext]_mcVars
=============================================================================
