------------------------------ MODULE MatchWire ------------------------------
(***************************************************************************)
(* What the subscribers of the bus learn from MatchState: the last         *)
(* _MatchState frame, and the matches opened by _MatchStarted and closed   *)
(* by _MatchAbandoned or by a frame without an active match.               *)
(*                                                                         *)
(* The watchdog and the pipeline publish from two goroutines without a     *)
(* common lock, so frames of a timeout and of an event handled at the same *)
(* time may swap.  "overlap" records that this happened; the properties    *)
(* about order are claimed for executions in which it has not.             *)
(***************************************************************************)
EXTENDS MatchState

VARIABLES
  frame,    \* the last _MatchState frame broadcast
  heard,    \* the last match announced: open until abandoned, torn once a
            \* frame said that no match is active, over once the game
            \* destroyed it or the connection was lost
  overlap   \* a timeout and an event were handled at the same time

observer == <<frame, heard, overlap>>
wireVars == <<vars, observer>>

WireInit ==
  /\ Init
  /\ frame = [snap |-> cur, freeplay |-> TRUE]
  /\ heard = [guid |-> NoGuid, open |-> FALSE, torn |-> TRUE, over |-> TRUE]
  /\ overlap = FALSE

\* The watchdog has fired and not yet sent what it took.
Firing == pc["watchdog"] \notin {"idle", "check", "fire"}

HearState(g) ==
  /\ BroadcastState(g)
  /\ frame' = [snap |-> batch[g].snap, freeplay |-> batch[g].freeplay]
  /\ heard' = [heard EXCEPT !.torn = @ \/ ~batch[g].snap.active]
  /\ UNCHANGED overlap

HearAbandoned(g) ==
  /\ BroadcastAbandoned(g)
  /\ heard' = [heard EXCEPT !.open = FALSE]
  /\ UNCHANGED <<frame, overlap>>

HearStarted(g) ==
  /\ BroadcastStarted(g)
  /\ heard' = [guid |-> batch[g].started, open |-> TRUE, torn |-> FALSE, over |-> FALSE]
  /\ UNCHANGED <<frame, overlap>>

WireNext ==
  \/ /\ Observe
     /\ overlap' = (overlap \/ Firing)
     /\ heard' = [heard EXCEPT !.over = @ \/ evt'.name \in Teardowns]
     /\ UNCHANGED frame
  \/ /\ Fire
     /\ overlap' = (overlap \/ pc["pipeline"] # "idle")
     /\ UNCHANGED <<frame, heard>>
  \/ /\ \/ ReplayEdge \/ LoadActive \/ BackfillGuid \/ Apply
        \/ Process("pipeline") \/ Process("watchdog")
        \/ CheckActive \/ CheckTick \/ Elapse
     /\ UNCHANGED observer
  \/ \E g \in Goroutines : HearState(g) \/ HearAbandoned(g) \/ HearStarted(g)

WireSpec == WireInit /\ [][WireNext]_wireVars
-----------------------------------------------------------------------------
Frames == [snap : Snapshots, freeplay : BOOLEAN]

\* The observer has its type, and so has the machine it observes.
WireTypeOK ==
  /\ TypeOK
  /\ frame \in Frames
  /\ heard \in [guid : MaybeGuid, open : BOOLEAN, torn : BOOLEAN,
               over : BOOLEAN]
  /\ overlap \in BOOLEAN

Resting == pc["pipeline"] = "idle" /\ ~Firing

\* Once everything staged was sent, what subscribers were last told is the
\* state: no transition is lost in the single pending slot.
SubscribersAgree ==
  Resting /\ ~overlap =>
    /\ ~emit
    /\ frame.snap.phase = cur.phase
    /\ frame.snap.active = cur.active

\* "if false, sets matchActive=false and (when guid=="clear") clears the
\* matchGuid" (match.go:254): a frame that says no match is active names none.
\* When the watchdog ends a match between the load of matchActive and the
\* backfill it selects, the backfill puts the guid back: no run checks this.
NoGuidOutsideMatch == ~frame.snap.active => frame.snap.guid = NoGuid

\* "If a _MatchStarted was also staged, it follows the _MatchState in the
\* same batch": when it goes out, subscribers already are in a live-ish phase
\* of that very match.
StartFollowsItsFrame ==
  [][\A g \in Goroutines : HearStarted(g) /\ ~overlap =>
       frame.snap.phase \in LiveIsh /\ frame.snap.guid = batch[g].started]_wireVars

\* "fire _MatchStarted exactly once per new match": a match already announced
\* is announced again only after subscribers saw it torn down.
NoSecondStart ==
  [][\A g \in Goroutines : HearStarted(g) /\ ~overlap =>
       heard.guid # batch[g].started \/ heard.torn]_wireVars

\* _MatchAbandoned names the match subscribers were last told has started,
\* and fires at most once for it.
AbandonsTheOpenMatch ==
  [][\A g \in Goroutines : HearAbandoned(g) /\ ~overlap =>
       heard.open /\ heard.guid = batch[g].abandoned]_wireVars

\* docs/PLUGINS.md: "One event per match"; "Cleared on MatchDestroyed, so a
\* reconnect or replay of the same match re-emits".  A match is announced again
\* only if the game destroyed it or the connection was lost in between.  A
\* timeout breaks it: no run checks this.
OneStartPerMatch ==
  [][\A g \in Goroutines : HearStarted(g) /\ ~overlap =>
       heard.guid # batch[g].started \/ heard.over]_wireVars
=============================================================================
