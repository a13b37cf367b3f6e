----------------------------- MODULE Correlation -----------------------------
(***************************************************************************)
(* The correlation buffer of backend/internal/correlation: a window of the *)
(* last events by which an emitter relates the event in hand to earlier    *)
(* ones.  An entry holds the player an event was about, as the roster      *)
(* resolved it at that time.  Nothing ever empties the buffer: the entries *)
(* of one match are still there in the next.                               *)
(***************************************************************************)
EXTENDS Naturals, Sequences, FiniteSets, SequencesExt

CONSTANT Capacity  \* bound: correlation.New(32) in the program

ASSUME CapacityAssumption == Capacity \in Nat \ {0}

\* A player as ResolveByShortcut returns it: without the roster entry it is a
\* stub that has a name and a team but an empty id.
Resolved(p, known) == [name |-> p, known |-> known]

\* "BallHit" and "_GoalScored" entries are about one player; a "StatfeedEvent"
\* also has the name of the statistic.
Entry(name, player, stat) == [name |-> name, player |-> player, stat |-> stat]

\* A Bug... is a faulty variant of the definition after it, by which the runs
\* check that a property notices such a fault.  Here: one entry too many.
BugRecord(buf, entry) ==
  Append(IF Len(buf) > Capacity THEN Tail(buf) ELSE buf, entry)

\* The oldest entry makes room for the newest.
Record(buf, entry) ==
  Append(IF Len(buf) >= Capacity THEN Tail(buf) ELSE buf, entry)

\* The elements of s at these positions, in their order.
Nth(keep, k) == CHOOSE i \in keep : Cardinality({j \in keep : j <= i}) = k
Kept(s, keep) == [k \in 1..Cardinality(keep) |-> s[Nth(keep, k)]]

FirstN(s, n) == SubSeq(s, 1, IF n < Len(s) THEN n ELSE Len(s))

\* The newest n entries with one of these names, newest first.
WalkRecent(buf, names, n) ==
  FirstN(Reverse(Kept(buf, {i \in 1..Len(buf) : buf[i].name \in names})), n)

Recent(buf, name, n) == WalkRecent(buf, {name}, n)

\* Without the entries of this name that are among these.
RemoveByName(buf, name, unwanted) ==
  Kept(buf, {i \in 1..Len(buf) : ~(buf[i].name = name /\ buf[i] \in unwanted)})
=============================================================================
