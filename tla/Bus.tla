-------------------------------- MODULE Bus --------------------------------
(***************************************************************************)
(* The event bus of backend/internal/bus.                                  *)
(*                                                                         *)
(* Broadcast copies the subscriber set under the locks and then sends with *)
(* no lock held, so other broadcasts, new subscriptions and cancellations  *)
(* run between any two of its sends.  A subscriber whose channel is full   *)
(* is noted as slow and removed when the sends are over.                   *)
(*                                                                         *)
(* A send on a closed channel panics.  The model stops there: the pipeline *)
(* and the watchdog take the process down with them.                       *)
(***************************************************************************)
EXTENDS Naturals, Sequences, FiniteSets

CONSTANTS
  Publishers,    \* goroutines that call Broadcast
  Subscribers,   \* one per call of Subscribe
  Cap,           \* subscriberBufSize
  MaxSent        \* bound: events a publisher publishes

ASSUME CapAssumption == Cap \in Nat \ {0}
ASSUME MaxSentAssumption == MaxSent \in Nat

\* "framing" events bypass every filter; a picky subscriber's filter accepts
\* none of the "plain" ones, an unfiltered one accepts all.
Kinds == {"framing", "plain"}
Event(p, n, kind) == [pub |-> p, seq |-> n, kind |-> kind]
Events == [pub : Publishers, seq : 1..MaxSent, kind : Kinds]

VARIABLES
  subs,        \* b.subs
  picky,       \* s.events # nil
  chan,        \* the messages in s.ch
  closed,      \* s.ch and s.closed are closed
  fresh,       \* subscribers that have not subscribed yet
  pc,          \* where each publisher is in broadcastRaw
  msg,         \* the event it is broadcasting
  dst,         \* the subscribers it still has to serve
  slow,        \* the subscribers it found full
  evictions,   \* metrics.evictions
  panicked,    \* a send hit a closed channel
  sent,        \* observer: events published so far
  handed,      \* observer: the last event of each publisher sent or declined
  evicted      \* observer: subscribers removed for being slow

registry == <<subs, picky, closed, fresh>>
calls == <<pc, msg, dst, slow>>
observer == <<sent, handed, evicted>>
vars == <<registry, chan, calls, evictions, panicked, observer>>

Init ==
  /\ subs = {} /\ closed = {}
  /\ fresh = Subscribers
  /\ picky = {}
  /\ chan = [s \in Subscribers |-> <<>>]
  /\ pc = [p \in Publishers |-> "idle"]
  /\ msg = [p \in Publishers |-> Event(p, 0, "plain")]
  /\ dst = [p \in Publishers |-> {}]
  /\ slow = [p \in Publishers |-> {}]
  /\ evictions = 0 /\ panicked = FALSE
  /\ sent = [p \in Publishers |-> 0]
  /\ handed = [s \in Subscribers |-> [p \in Publishers |-> 0]]
  /\ evicted = {}

-----------------------------------------------------------------------------
Goto(p, label) == pc' = [pc EXCEPT ![p] = label]

\* A Bug... is a faulty variant of the definition after it, by which the runs
\* check that a property notices such a fault.  Here: the channels are closed,
\* the subscriber stays in the set.
BugRemove(gone) ==
  /\ closed' = closed \cup (gone \cap subs)
  /\ UNCHANGED <<subs, picky, fresh>>

\* removeLocked, for every subscriber of a set that is still registered.
Remove(gone) ==
  /\ subs' = subs \ gone
  /\ closed' = closed \cup (gone \cap subs)
  /\ UNCHANGED <<picky, fresh>>

Subscribe(s, filtered) ==
  /\ s \in fresh
  /\ fresh' = fresh \ {s}
  /\ subs' = subs \cup {s}
  /\ picky' = IF filtered THEN picky \cup {s} ELSE picky
  /\ handed' = [handed EXCEPT ![s] =
                  [p \in Publishers |-> IF pc[p] = "snapshot" THEN sent[p] - 1 ELSE sent[p]]]
  /\ UNCHANGED <<closed, chan, calls, evictions, panicked, sent, evicted>>

\* The cancel func; its sync.Once and removeLocked's check make it idempotent.
Cancel(s) ==
  /\ s \in subs
  /\ Remove({s})
  /\ UNCHANGED <<chan, calls, evictions, panicked, observer>>

\* <-ch; a closed channel still yields what it holds.
Receive(s) ==
  /\ chan[s] # <<>>
  /\ chan' = [chan EXCEPT ![s] = Tail(@)]
  /\ UNCHANGED <<registry, calls, evictions, panicked, observer>>

-----------------------------------------------------------------------------
(***************************************************************************)
(* broadcastRaw                                                            *)
(***************************************************************************)
Broadcast(p, kind) ==
  /\ pc[p] = "idle" /\ sent[p] < MaxSent
  /\ sent' = [sent EXCEPT ![p] = @ + 1]
  /\ msg' = [msg EXCEPT ![p] = Event(p, sent'[p], kind)]
  /\ Goto(p, "snapshot")
  /\ UNCHANGED <<registry, chan, dst, slow, evictions, panicked, handed, evicted>>

Snapshot(p) ==
  /\ pc[p] = "snapshot"
  /\ dst' = [dst EXCEPT ![p] = subs]
  /\ Goto(p, "send")
  /\ UNCHANGED <<registry, chan, msg, slow, evictions, panicked, observer>>

\* A filter also holds back framing signals.
BugDeclines(s, e) == s \in picky

Declines(s, e) == e.kind # "framing" /\ s \in picky

Serve(p, s) ==
  /\ pc[p] = "send" /\ s \in dst[p]
  /\ dst' = [dst EXCEPT ![p] = @ \ {s}]
  /\ UNCHANGED <<registry, pc, msg, evictions, sent, evicted>>

Handed(p, s) ==
  handed' = IF s \in subs THEN [handed EXCEPT ![s][p] = msg[p].seq] ELSE handed

Decline(p, s) ==
  /\ Serve(p, s)
  /\ Declines(s, msg[p])
  /\ Handed(p, s)
  /\ UNCHANGED <<chan, slow, panicked>>

\* The select: with both channels closed, either case may be chosen.
SkipClosed(p, s) ==
  /\ Serve(p, s)
  /\ ~Declines(s, msg[p]) /\ s \in closed
  /\ UNCHANGED <<chan, slow, panicked, handed>>

SendOnClosed(p, s) ==
  /\ Serve(p, s)
  /\ ~Declines(s, msg[p]) /\ s \in closed
  /\ panicked' = TRUE
  /\ UNCHANGED <<chan, slow, handed>>

Deliver(p, s) ==
  /\ Serve(p, s)
  /\ ~Declines(s, msg[p]) /\ s \notin closed
  /\ Len(chan[s]) < Cap
  /\ chan' = [chan EXCEPT ![s] = Append(@, msg[p])]
  /\ Handed(p, s)
  /\ UNCHANGED <<slow, panicked>>

\* The event is dropped, its subscriber kept.
BugDropEvent(p, s) ==
  /\ Serve(p, s)
  /\ ~Declines(s, msg[p]) /\ s \notin closed
  /\ Len(chan[s]) = Cap
  /\ UNCHANGED <<chan, slow, panicked, handed>>

\* The select has no default: the publisher stays where it is.
BugWaitForRoom(p, s) ==
  /\ pc[p] = "send" /\ s \in dst[p]
  /\ ~Declines(s, msg[p]) /\ s \notin closed
  /\ Len(chan[s]) = Cap
  /\ UNCHANGED vars

MarkSlow(p, s) ==
  /\ Serve(p, s)
  /\ ~Declines(s, msg[p]) /\ s \notin closed
  /\ Len(chan[s]) = Cap
  /\ slow' = [slow EXCEPT ![p] = @ \cup {s}]
  /\ UNCHANGED <<chan, panicked, handed>>

\* The removals and recordPublish.
Finish(p) ==
  /\ pc[p] = "send" /\ dst[p] = {}
  /\ Remove(slow[p])
  /\ evictions' = evictions + Cardinality(slow[p])
  /\ evicted' = evicted \cup (slow[p] \cap subs)
  /\ slow' = [slow EXCEPT ![p] = {}]
  /\ Goto(p, "idle")
  /\ UNCHANGED <<chan, msg, dst, panicked, sent, handed>>

-----------------------------------------------------------------------------
SendStep(p) == \E s \in Subscribers :
  \/ Decline(p, s) \/ SkipClosed(p, s) \/ SendOnClosed(p, s)
  \/ Deliver(p, s) \/ MarkSlow(p, s)

PublishStep(p) == ~panicked /\ (Snapshot(p) \/ SendStep(p) \/ Finish(p))

SubscriberStep(s) ==
  /\ ~panicked
  /\ \/ \E filtered \in BOOLEAN : Subscribe(s, filtered)
     \/ Cancel(s)
     \/ Receive(s)

Next ==
  \/ \E p \in Publishers : PublishStep(p)
  \/ \E p \in Publishers, kind \in Kinds : ~panicked /\ Broadcast(p, kind)
  \/ \E s \in Subscribers : SubscriberStep(s)

Spec == Init /\ [][Next]_vars

\* Only the publishers run on: no subscriber need ever read.
FairSpec == Spec /\ \A p \in Publishers : WF_vars(PublishStep(p))
-----------------------------------------------------------------------------
\* Every variable has its type; a registered subscriber's channels are open, and
\* no channel holds more than its buffer.
BusTypeOK ==
  /\ subs \subseteq Subscribers /\ closed \subseteq Subscribers
  /\ subs \cap closed = {}
  /\ \A s \in Subscribers : Len(chan[s]) <= Cap
  /\ fresh \subseteq Subscribers /\ picky \subseteq Subscribers
  /\ chan \in [Subscribers -> Seq(Events)]
  /\ pc \in [Publishers -> {"idle", "snapshot", "send"}]
  /\ msg \in [Publishers -> [pub : Publishers, seq : 0..MaxSent, kind : Kinds]]
  /\ dst \in [Publishers -> SUBSET Subscribers]
  /\ slow \in [Publishers -> SUBSET Subscribers]
  /\ evictions \in Nat /\ panicked \in BOOLEAN
  /\ sent \in [Publishers -> 0..MaxSent]
  /\ handed \in [Subscribers -> [Publishers -> 0..MaxSent]]
  /\ evicted \subseteq Subscribers

\* "Drops over hangs": what a subscriber reads of one publisher is gap-free,
\* and a publisher is never ahead of a subscriber the bus keeps.
Promise == INSTANCE Fanout WITH attached <- subs
FanoutSpec == Promise!Spec

\* "Broadcast never blocks", whatever the subscribers do.
NeverBlocks == \A p \in Publishers : pc[p] # "idle" ~> pc[p] = "idle" \/ panicked

\* The select on s.closed is there so that a subscriber that went away is
\* skipped: no send reaches a closed channel.
NoSendOnClosed == ~panicked

\* evictions_total "Counts unique-detachments, not occasions of fullness".  Two
\* overlapping broadcasts count one twice: no run checks this.
EvictionsAreUnique ==
  (\A p \in Publishers : pc[p] = "idle") => evictions = Cardinality(evicted)
=============================================================================
