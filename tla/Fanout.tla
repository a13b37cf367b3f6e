------------------------------- MODULE Fanout -------------------------------
(***************************************************************************)
(* What backend/internal/bus promises, without channels, locks or          *)
(* snapshots: publishers number their events, and a subscription is handed *)
(* every publisher's events one after the other, from the first event      *)
(* published after it began, with no hole for as long as it is kept.  A    *)
(* publisher never runs ahead of a subscription: one that cannot take an   *)
(* event is dropped before the next event is published.                    *)
(***************************************************************************)
EXTENDS Naturals

CONSTANTS Publishers, Subscribers

VARIABLES
  sent,       \* number of events each publisher has published
  attached,   \* the subscriptions the bus keeps
  handed      \* handed[s][p]: the events of p that s is done with

vars == <<sent, attached, handed>>

Init ==
  /\ sent = [p \in Publishers |-> 0]
  /\ attached = {}
  /\ handed = [s \in Subscribers |-> [p \in Publishers |-> 0]]

Publish(p) ==
  /\ \A s \in attached : handed[s][p] = sent[p]
  /\ sent' = [sent EXCEPT ![p] = @ + 1]
  /\ UNCHANGED <<attached, handed>>

\* An event being published when the subscription begins may be in or out.
Attach(s) ==
  /\ s \notin attached
  /\ attached' = attached \cup {s}
  /\ \E awaited \in SUBSET {p \in Publishers : sent[p] > 0} :
       handed' = [handed EXCEPT ![s] =
                    [p \in Publishers |-> IF p \in awaited THEN sent[p] - 1 ELSE sent[p]]]
  /\ UNCHANGED sent

Hand(s, p) ==
  /\ s \in attached
  /\ handed[s][p] < sent[p]
  /\ handed' = [handed EXCEPT ![s][p] = @ + 1]
  /\ UNCHANGED <<sent, attached>>

Detach(dropped) ==
  /\ dropped # {}
  /\ attached' = attached \ dropped
  /\ UNCHANGED <<sent, handed>>

Next ==
  \/ \E p \in Publishers : Publish(p)
  \/ \E s \in Subscribers : Attach(s)
  \/ \E s \in Subscribers, p \in Publishers : Hand(s, p)
  \/ \E dropped \in SUBSET attached : Detach(dropped)

Spec == Init /\ [][Next]_vars
=============================================================================
