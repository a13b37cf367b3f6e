---------------------------- MODULE StreamProofs ----------------------------
(***************************************************************************)
(* Theorems of Bus and SSE, for any publishers, subscribers and channel    *)
(* sizes: the bus implements Fanout, and a connection that has read what   *)
(* it was sent shows a fresh version of every owner and the demolitions.   *)
(***************************************************************************)
EXTENDS SSE, FiniteSetTheorems, SequenceTheorems, TLAPS

\* A subscriber is fresh, then registered, then closed; a broadcast serves and
\* drops only those that were registered.
Registered ==
  /\ fresh \cap (subs \cup closed) = {}
  /\ \A p \in Publishers : dst[p] \cup slow[p] \subseteq subs \cup closed
  /\ \A s \in fresh : chan[s] = <<>>

\* What a broadcast under way still has to do, and which event it is about.
InTurn ==
  \A p \in Publishers :
    /\ pc[p] # "send" => dst[p] = {} /\ slow[p] = {}
    /\ pc[p] # "idle" => msg[p].pub = p /\ msg[p].seq = sent[p] /\ sent[p] > 0
    /\ dst[p] \cap slow[p] = {}
    /\ IsFiniteSet(slow[p])

\* The event p is broadcasting has still to reach s, or s to be dropped for it.
Due(s, p) == pc[p] = "snapshot" \/ s \in dst[p] \/ s \in slow[p]

\* A registered subscriber was handed everything but what is due.
KeepsPace ==
  \A s \in subs, p \in Publishers :
    handed[s][p] = IF Due(s, p) THEN sent[p] - 1 ELSE sent[p]

BusInv == BusTypeOK /\ Registered /\ InTurn /\ KeepsPace

\* The owners whose frames a publisher may take; of the match there are two
\* publishers, and of the identity all that serve requests.
Speaks(p) ==
  CASE p = Pipeline -> {"none", "status", "match", "roster", "demolition"}
    [] p = Watchdog -> {"none", "match", "identity"}
    [] OTHER        -> {"none", "identity"}

\* Who holds and carries what; a publisher that is broadcasting holds nothing,
\* and the frames of owners bypass the filters.
Holders ==
  \A p \in Publishers :
    /\ held[p].owner \in Speaks(p)
    /\ \A n \in 1..MaxSent : carried[p][n].owner \in Speaks(p)
    /\ pc[p] # "idle" => held[p] = NoFrame
    /\ pc[p] # "idle" /\ Tells(msg[p]).owner \in Owners => msg[p].kind = "framing"

\* A channel holds no event its publisher has not sent.
SentBefore ==
  \A s \in Subscribers : \A i \in 1..Len(chan[s]) : chan[s][i].seq <= sent[chan[s][i].pub]

\* A staged frame is the newest; of the statuses, the stored one is the newest,
\* the one being pushed is that one, and the channel ends with the last queued.
NewestIsStaged ==
  /\ \A o \in Owners : slot[o] \in {0, state[o]}
  /\ slot["status"] = 0 /\ slot["identity"] = 0
  /\ queued <= state["status"] /\ pushing \in {0, state["status"]}
  /\ outbox # <<>> => outbox[Len(outbox)] = queued
  /\ late["roster"] = {}

\* What goroutines have taken and not broadcast is fresh; a status, if none
\* waits behind it.
Settled(o) == o = "status" => outbox = <<>>
FlightIsFresh == \A o \in Owners : Settled(o) => InFlight(o) \subseteq Fresh(o)

\* The last frame of o in the channel is fresh.
LastFrameTells(s, o) ==
  \A i \in 1..Len(chan[s]) :
    /\ Tells(chan[s][i]).owner = o
    /\ \A j \in (i + 1)..Len(chan[s]) : Tells(chan[s][j]).owner # o
    => Tells(chan[s][i]).version \in Fresh(o)

\* Without a frame of o in the channel the client was told a fresh version.
ViewTells(s, o) ==
  o \notin unread[s] /\ (\A i \in 1..Len(chan[s]) : Tells(chan[s][i]).owner # o)
    => view[s][o] \in Fresh(o)

\* A frame of o has still to be broadcast, or to reach s.
Owed(s, o) == Untold(o) \/ \E p \in Publishers : Due(s, p) /\ Tells(msg[p]).owner = o

Told == \A s \in subs, o \in Owners :
          ~Owed(s, o) => LastFrameTells(s, o) /\ ViewTells(s, o)

\* A logged demolition was seen, is queued, is being broadcast, or is about to be.
Demo(n) == Frame("demolition", n)
Queued(s, n) == \E i \in 1..Len(chan[s]) : Tells(chan[s][i]) = Demo(n)
LogDue(s, n) == Due(s, Pipeline) /\ Tells(msg[Pipeline]) = Demo(n)
Reaches(s, n) ==
  n \in seen[s] \/ Queued(s, n) \/ LogDue(s, n) \/ held[Pipeline] = Demo(n)

LogReaches ==
  \A s \in subs : handler[s] = "stream" /\ s \notin picky => \A n \in log : Reaches(s, n)

\* Where a handler is, what it has written and whether it is registered agree.
HandlerFollows ==
  \A s \in Subscribers :
    /\ handler[s] = "none" <=> s \in fresh
    /\ s \in subs => handler[s] # "gone"
    /\ handler[s] = "none" => unread[s] = Owners
    /\ handler[s] \in {"log", "stream"} => unread[s] = {}

SSEInv ==
  /\ BusInv /\ SSETypeOK /\ HandlerFollows
  /\ Holders /\ SentBefore /\ NewestIsStaged /\ FlightIsFresh
  /\ Told /\ LogReaches
-----------------------------------------------------------------------------
(***************************************************************************)
(* The bus: types, and who is registered                                   *)
(***************************************************************************)
LEMMA InitBus == Init => BusInv
<1> USE CapAssumption, MaxSentAssumption, FS_EmptySet
<1>1. Init => BusTypeOK
  <2>1. Init => chan \in [Subscribers -> Seq(Events)] /\ \A s \in Subscribers : Len(chan[s]) = 0
    BY DEF Init
  <2>. QED
    <3> SUFFICES ASSUME Init PROVE BusTypeOK
      OBVIOUS
    <3>1. /\ msg \in [Publishers -> [pub : Publishers, seq : 0..MaxSent, kind : Kinds]]
          /\ handed \in [Subscribers -> [Publishers -> 0..MaxSent]]
      BY DEF Init, Event, Kinds
    <3>2. \A s \in Subscribers : Len(chan[s]) <= Cap
      BY <2>1
    <3>3. /\ pc \in [Publishers -> {"idle", "snapshot", "send"}]
          /\ dst \in [Publishers -> SUBSET Subscribers]
          /\ slow \in [Publishers -> SUBSET Subscribers]
          /\ sent \in [Publishers -> 0..MaxSent]
      BY DEF Init
    <3>. QED
      BY <2>1, <3>1, <3>2, <3>3 DEF Init, BusTypeOK
<1>2. Init => Registered /\ InTurn /\ KeepsPace
  BY DEF Init, Registered, InTurn, KeepsPace
<1>. QED
  BY <1>1, <1>2 DEF BusInv

LEMMA BusTypeStep == BusTypeOK /\ Registered /\ InTurn /\ [Next]_vars => BusTypeOK'
<1> SUFFICES ASSUME BusTypeOK, Registered, InTurn, [Next]_vars PROVE BusTypeOK'
  OBVIOUS
<1> USE CapAssumption, MaxSentAssumption DEF registry, calls, observer
<1>1. ASSUME NEW p \in Publishers, NEW kind \in Kinds, Broadcast(p, kind) PROVE BusTypeOK'
  <2>1. sent[p] + 1 \in 0..MaxSent
    BY <1>1 DEF Broadcast, BusTypeOK
  <2>2. sent' \in [Publishers -> 0..MaxSent] /\ sent'[p] \in 0..MaxSent
    BY <1>1, <2>1 DEF Broadcast, BusTypeOK
  <2>3. msg' \in [Publishers -> [pub : Publishers, seq : 0..MaxSent, kind : Kinds]]
    BY <1>1, <2>2 DEF Broadcast, BusTypeOK, Event
  <2>4. pc' \in [Publishers -> {"idle", "snapshot", "send"}]
    BY <1>1 DEF Broadcast, Goto, BusTypeOK
  <2>. QED
    BY <1>1, <2>2, <2>3, <2>4 DEF Broadcast, BusTypeOK
<1>2. ASSUME NEW p \in Publishers, Snapshot(p) PROVE BusTypeOK'
  BY <1>2 DEF Snapshot, Goto, BusTypeOK
<1>3. ASSUME NEW p \in Publishers, NEW s \in Subscribers, Serve(p, s),
             chan' = chan \/ Deliver(p, s),
             handed' = handed \/ Handed(p, s),
             slow' = slow \/ slow' = [slow EXCEPT ![p] = @ \cup {s}],
             panicked' \in {panicked, TRUE}
      PROVE  BusTypeOK'
  <2>1. msg[p] \in Events
    <3>1. msg[p] \in [pub : Publishers, seq : 0..MaxSent, kind : Kinds] /\ msg[p].seq > 0
      BY <1>3 DEF Serve, InTurn, BusTypeOK
    <3>2. msg[p].seq \in 1..MaxSent
      BY <3>1
    <3>. QED
      BY <3>1, <3>2 DEF Events
  <2>2. chan' \in [Subscribers -> Seq(Events)] /\ \A t \in Subscribers : Len(chan'[t]) <= Cap
    <3>1. CASE chan' = chan
      BY <3>1 DEF BusTypeOK
    <3>2. CASE Deliver(p, s)
      <4>1. /\ Append(chan[s], msg[p]) \in Seq(Events)
            /\ Len(Append(chan[s], msg[p])) = Len(chan[s]) + 1
        BY <2>1, AppendProperties DEF BusTypeOK
      <4>2. Len(chan[s]) \in Nat
        BY LenProperties DEF BusTypeOK
      <4>. QED
        BY <3>2, <4>1, <4>2 DEF Deliver, BusTypeOK
    <3>. QED
      BY <1>3, <3>1, <3>2
  <2>3. handed' \in [Subscribers -> [Publishers -> 0..MaxSent]]
    <3>1. msg[p].seq \in 0..MaxSent /\ handed[s] \in [Publishers -> 0..MaxSent]
      BY DEF BusTypeOK
    <3>2. [handed[s] EXCEPT ![p] = msg[p].seq] \in [Publishers -> 0..MaxSent]
      BY <3>1
    <3>. QED
      BY <1>3, <3>2 DEF Handed, BusTypeOK
  <2>4. dst' \in [Publishers -> SUBSET Subscribers]
    BY <1>3 DEF Serve, BusTypeOK
  <2>5. slow' \in [Publishers -> SUBSET Subscribers]
    <3>1. slow[p] \cup {s} \in SUBSET Subscribers
      BY DEF BusTypeOK
    <3>. QED
      BY <1>3, <3>1 DEF BusTypeOK
  <2>. QED
    BY <1>3, <2>2, <2>3, <2>4, <2>5 DEF Serve, BusTypeOK
<1>4. ASSUME NEW p \in Publishers, Finish(p) PROVE BusTypeOK'
  <2>1. Cardinality(slow[p]) \in Nat
    BY FS_CardinalityType DEF InTurn
  <2>2. evictions' \in Nat
    BY <1>4, <2>1 DEF Finish, BusTypeOK
  <2>. QED
    BY <1>4, <2>2 DEF Finish, Remove, Goto, BusTypeOK
<1>5. ASSUME NEW s \in Subscribers, NEW filtered \in BOOLEAN, Subscribe(s, filtered)
      PROVE  BusTypeOK'
  <2>1. handed' \in [Subscribers -> [Publishers -> 0..MaxSent]]
    <3>1. \A p \in Publishers :
            (IF pc[p] = "snapshot" THEN sent[p] - 1 ELSE sent[p]) \in 0..MaxSent
      <4> TAKE p \in Publishers
      <4>1. sent[p] \in 0..MaxSent /\ (pc[p] = "snapshot" => sent[p] > 0)
        BY DEF BusTypeOK, InTurn
      <4>. QED
        BY <4>1
    <3>2. [p \in Publishers |-> IF pc[p] = "snapshot" THEN sent[p] - 1 ELSE sent[p]]
            \in [Publishers -> 0..MaxSent]
      BY <3>1
    <3>. QED
      BY <1>5, <3>2 DEF Subscribe, BusTypeOK
  <2>. QED
    BY <1>5, <2>1 DEF Subscribe, BusTypeOK, Registered
<1>6. ASSUME NEW s \in Subscribers, Cancel(s) PROVE BusTypeOK'
  BY <1>6 DEF Cancel, Remove, BusTypeOK
<1>7. ASSUME NEW s \in Subscribers, Receive(s) PROVE BusTypeOK'
  <2>1. Tail(chan[s]) \in Seq(Events) /\ Len(Tail(chan[s])) = Len(chan[s]) - 1
    BY <1>7, HeadTailProperties DEF Receive, BusTypeOK
  <2>2. Len(chan[s]) \in Nat
    BY LenProperties DEF BusTypeOK
  <2>. QED
    BY <1>7, <2>1, <2>2 DEF Receive, BusTypeOK
<1>8. CASE UNCHANGED vars
  BY <1>8 DEF BusTypeOK, vars
<1>. QED
  BY <1>1, <1>2, <1>3, <1>4, <1>5, <1>6, <1>7, <1>8
     DEF Next, PublishStep, SendStep, Decline, SkipClosed, SendOnClosed, MarkSlow, Deliver, SubscriberStep

LEMMA RegisteredStep == BusTypeOK /\ Registered /\ InTurn /\ [Next]_vars => Registered'
<1> SUFFICES ASSUME BusTypeOK, Registered, InTurn, [Next]_vars PROVE Registered'
  OBVIOUS
<1> USE DEF registry, calls, observer, Registered
<1>1. ASSUME NEW p \in Publishers, NEW kind \in Kinds, Broadcast(p, kind) PROVE Registered'
  BY <1>1 DEF Broadcast, BusTypeOK
<1>2. ASSUME NEW p \in Publishers, Snapshot(p) PROVE Registered'
  BY <1>2 DEF Snapshot, BusTypeOK
<1>3. ASSUME NEW p \in Publishers, NEW s \in Subscribers, Serve(p, s),
             chan' = chan \/ Deliver(p, s),
             slow' = slow \/ slow' = [slow EXCEPT ![p] = @ \cup {s}]
      PROVE  Registered'
  <2>1. s \in subs \cup closed /\ s \notin fresh
    BY <1>3 DEF Serve
  <2>2. \A t \in fresh : chan'[t] = <<>>
    BY <1>3, <2>1 DEF Deliver, BusTypeOK
  <2>3. \A q \in Publishers : dst'[q] \subseteq subs \cup closed
    <3> TAKE q \in Publishers
    <3>1. dst'[q] = IF q = p THEN dst[q] \ {s} ELSE dst[q]
      BY <1>3 DEF Serve, BusTypeOK
    <3>2. dst[q] \subseteq subs \cup closed
      OBVIOUS
    <3>. QED
      BY <3>1, <3>2
  <2>4. \A q \in Publishers : slow'[q] \subseteq subs \cup closed
    <3> TAKE q \in Publishers
    <3>1. slow'[q] \subseteq slow[q] \cup {s}
      BY <1>3 DEF BusTypeOK
    <3>2. slow[q] \subseteq subs \cup closed
      OBVIOUS
    <3>. QED
      BY <2>1, <3>1, <3>2
  <2>. QED
    BY <1>3, <2>2, <2>3, <2>4 DEF Serve
<1>4. ASSUME NEW p \in Publishers, Finish(p) PROVE Registered'
  BY <1>4 DEF Finish, Remove, BusTypeOK
<1>5. ASSUME NEW s \in Subscribers, NEW filtered \in BOOLEAN, Subscribe(s, filtered)
      PROVE  Registered'
  BY <1>5 DEF Subscribe, BusTypeOK
<1>6. ASSUME NEW s \in Subscribers, Cancel(s) PROVE Registered'
  BY <1>6 DEF Cancel, Remove
<1>7. ASSUME NEW s \in Subscribers, Receive(s) PROVE Registered'
  BY <1>7 DEF Receive, BusTypeOK
<1>8. CASE UNCHANGED vars
  BY <1>8 DEF vars
<1>. QED
  BY <1>1, <1>2, <1>3, <1>4, <1>5, <1>6, <1>7, <1>8
     DEF Next, PublishStep, SendStep, Decline, SkipClosed, SendOnClosed, MarkSlow, Deliver, SubscriberStep

LEMMA InTurnStep == BusTypeOK /\ InTurn /\ [Next]_vars => InTurn'
<1> SUFFICES ASSUME BusTypeOK, InTurn, [Next]_vars PROVE InTurn'
  OBVIOUS
<1> USE MaxSentAssumption DEF registry, calls, observer, InTurn
<1>1. ASSUME NEW p \in Publishers, NEW kind \in Kinds, Broadcast(p, kind) PROVE InTurn'
  <2>1. sent[p] \in Nat
    BY DEF BusTypeOK
  <2>2. sent'[p] = sent[p] + 1 /\ msg'[p].pub = p /\ msg'[p].seq = sent'[p]
    BY <1>1 DEF Broadcast, Event, BusTypeOK
  <2>. QED
    BY <1>1, <2>1, <2>2 DEF Broadcast, Goto, BusTypeOK
<1>2. ASSUME NEW p \in Publishers, Snapshot(p) PROVE InTurn'
  BY <1>2 DEF Snapshot, Goto, BusTypeOK
<1>3. ASSUME NEW p \in Publishers, NEW s \in Subscribers, Serve(p, s),
             slow' = slow \/ slow' = [slow EXCEPT ![p] = @ \cup {s}]
      PROVE  InTurn'
  <2>1. \A q \in Publishers : IsFiniteSet(slow'[q])
    <3> TAKE q \in Publishers
    <3>1. IsFiniteSet(slow[q]) /\ IsFiniteSet(slow[p] \cup {s})
      BY FS_AddElement
    <3>2. slow'[q] = slow[q] \/ (q = p /\ slow'[q] = slow[p] \cup {s})
      BY <1>3 DEF BusTypeOK
    <3>. QED
      BY <3>1, <3>2
  <2>2. \A q \in Publishers : dst'[q] \cap slow'[q] = {}
    BY <1>3 DEF Serve, BusTypeOK
  <2>3. ASSUME NEW q \in Publishers, pc[q] # "send" PROVE dst'[q] = {} /\ slow'[q] = {}
    BY <1>3, <2>3 DEF Serve, BusTypeOK
  <2>. QED
    BY <1>3, <2>1, <2>2, <2>3 DEF Serve
<1>4. ASSUME NEW p \in Publishers, Finish(p) PROVE InTurn'
  BY <1>4, FS_EmptySet DEF Finish, Goto, BusTypeOK
<1>5. ASSUME NEW s \in Subscribers, NEW filtered \in BOOLEAN, Subscribe(s, filtered)
      PROVE  InTurn'
  BY <1>5 DEF Subscribe
<1>6. ASSUME NEW s \in Subscribers, Cancel(s) PROVE InTurn'
  BY <1>6 DEF Cancel
<1>7. ASSUME NEW s \in Subscribers, Receive(s) PROVE InTurn'
  BY <1>7 DEF Receive
<1>8. CASE UNCHANGED vars
  BY <1>8 DEF vars
<1>. QED
  BY <1>1, <1>2, <1>3, <1>4, <1>5, <1>6, <1>7, <1>8
     DEF Next, PublishStep, SendStep, Decline, SkipClosed, SendOnClosed, MarkSlow, Deliver, SubscriberStep

\* A subscriber is handed the event that was due to it, and nothing else.
LEMMA KeepsPaceStep == BusInv /\ [Next]_vars => KeepsPace'
<1> SUFFICES ASSUME BusTypeOK, Registered, InTurn, KeepsPace, [Next]_vars PROVE KeepsPace'
  BY DEF BusInv
<1> USE MaxSentAssumption DEF registry, calls, observer, KeepsPace, Due
<1>1. ASSUME NEW p \in Publishers, NEW kind \in Kinds, Broadcast(p, kind) PROVE KeepsPace'
  <2>1. sent[p] \in Nat /\ sent' = [sent EXCEPT ![p] = sent[p] + 1]
    BY <1>1 DEF Broadcast, BusTypeOK
  <2>2. ASSUME NEW s \in subs PROVE handed[s][p] = sent'[p] - 1
    <3>1. handed[s][p] = sent[p]
      BY <1>1 DEF Broadcast, InTurn
    <3>2. sent'[p] = sent[p] + 1
      BY <2>1 DEF BusTypeOK
    <3>. QED
      BY <2>1, <3>1, <3>2
  <2>. QED
    BY <1>1, <2>1, <2>2 DEF Broadcast, Goto, BusTypeOK
<1>2. ASSUME NEW p \in Publishers, Snapshot(p) PROVE KeepsPace'
  BY <1>2 DEF Snapshot, Goto, BusTypeOK
<1>3. ASSUME NEW p \in Publishers, NEW s \in Subscribers, Serve(p, s), slow' = slow, Handed(p, s)
      PROVE  KeepsPace'
  <2>1. handed' = IF s \in subs THEN [handed EXCEPT ![s][p] = sent[p]] ELSE handed
    BY <1>3 DEF Serve, Handed, InTurn
  <2>2. s \notin slow'[p] /\ s \notin dst'[p] /\ pc'[p] = "send"
    BY <1>3 DEF Serve, InTurn, BusTypeOK
  <2>. QED
    BY <1>3, <2>1, <2>2 DEF Serve, BusTypeOK
<1>4. ASSUME NEW p \in Publishers, NEW s \in Subscribers, Serve(p, s), handed' = handed,
             (s \in closed /\ slow' = slow) \/ slow' = [slow EXCEPT ![p] = @ \cup {s}]
      PROVE  KeepsPace'
  BY <1>4 DEF Serve, BusTypeOK
<1>5. ASSUME NEW p \in Publishers, Finish(p) PROVE KeepsPace'
  BY <1>5 DEF Finish, Remove, Goto, InTurn, BusTypeOK
<1>6. ASSUME NEW s \in Subscribers, NEW filtered \in BOOLEAN, Subscribe(s, filtered)
      PROVE  KeepsPace'
  <2>1. s \notin subs /\ \A p \in Publishers : s \notin dst[p] /\ s \notin slow[p]
    BY <1>6 DEF Subscribe, Registered
  <2>. QED
    BY <1>6, <2>1 DEF Subscribe, BusTypeOK
<1>7. ASSUME NEW s \in Subscribers, Cancel(s) PROVE KeepsPace'
  BY <1>7 DEF Cancel, Remove
<1>8. ASSUME NEW s \in Subscribers, Receive(s) PROVE KeepsPace'
  BY <1>8 DEF Receive
<1>9. CASE UNCHANGED vars
  BY <1>9 DEF vars
<1>. QED
  BY <1>1, <1>2, <1>3, <1>4, <1>5, <1>6, <1>7, <1>8, <1>9
     DEF Next, PublishStep, SendStep, Decline, SkipClosed, SendOnClosed, MarkSlow, Deliver, SubscriberStep

LEMMA BusStep == BusInv /\ [Next]_vars => BusInv'
BY BusTypeStep, RegisteredStep, InTurnStep, KeepsPaceStep DEF BusInv
-----------------------------------------------------------------------------
(***************************************************************************)
(* The bus implements Fanout                                               *)
(***************************************************************************)
LEMMA InitPromise == Init => Promise!Init
BY DEF Init, Promise!Init

\* Every step of the bus is a step of Fanout or changes nothing Fanout sees:
\* a broadcast publishes, a delivery or a declined event hands, the end of a
\* broadcast and a cancellation detach.
LEMMA PromiseStep == BusInv /\ [Next]_vars => [Promise!Next]_(Promise!vars)
<1> SUFFICES ASSUME BusTypeOK, Registered, InTurn, KeepsPace, [Next]_vars
             PROVE  [Promise!Next]_(Promise!vars)
  BY DEF BusInv
<1> USE MaxSentAssumption DEF registry, calls, observer
<1>0. ASSUME UNCHANGED <<subs, sent, handed>> PROVE UNCHANGED Promise!vars
  BY <1>0 DEF Promise!vars
<1>1. ASSUME NEW p \in Publishers, NEW kind \in Kinds, Broadcast(p, kind) PROVE Promise!Next
  <2>1. \A s \in subs : handed[s][p] = sent[p]
    BY <1>1 DEF Broadcast, KeepsPace, Due, InTurn
  <2>. QED
    BY <1>1, <2>1 DEF Broadcast, Promise!Publish, Promise!Next
<1>2. ASSUME NEW p \in Publishers, Snapshot(p) PROVE UNCHANGED Promise!vars
  BY <1>0, <1>2 DEF Snapshot
<1>3. ASSUME NEW p \in Publishers, NEW s \in Subscribers, Serve(p, s), Handed(p, s)
      PROVE  Promise!Next \/ UNCHANGED Promise!vars
  <2>1. CASE s \in subs
    <3>1. handed[s][p] = sent[p] - 1 /\ msg[p].seq = sent[p]
      BY <1>3, <2>1 DEF Serve, KeepsPace, Due, InTurn
    <3>2. sent[p] \in Nat /\ handed[s][p] < sent[p] /\ handed[s][p] + 1 = sent[p]
      BY <3>1 DEF BusTypeOK
    <3>3. handed' = [handed EXCEPT ![s][p] = handed[s][p] + 1]
      BY <1>3, <2>1, <3>1, <3>2 DEF Handed
    <3>4. Promise!Hand(s, p)
      BY <1>3, <2>1, <3>2, <3>3 DEF Serve, Promise!Hand
    <3>. QED
      BY <3>4 DEF Promise!Next
  <2>2. CASE s \notin subs
    BY <1>0, <1>3, <2>2 DEF Serve, Handed
  <2>. QED
    BY <2>1, <2>2
<1>4. ASSUME NEW p \in Publishers, NEW s \in Subscribers, Serve(p, s), handed' = handed
      PROVE  UNCHANGED Promise!vars
  BY <1>0, <1>4 DEF Serve
<1>5. ASSUME NEW gone \in SUBSET Subscribers, Remove(gone), sent' = sent, handed' = handed
      PROVE  Promise!Next \/ UNCHANGED Promise!vars
  <2>1. CASE gone \cap subs = {}
    <3>1. subs' = subs
      BY <1>5, <2>1 DEF Remove
    <3>. QED
      BY <1>0, <1>5, <3>1
  <2>2. CASE gone \cap subs # {}
    <3>1. subs' = subs \ (gone \cap subs)
      BY <1>5 DEF Remove
    <3>2. Promise!Detach(gone \cap subs)
      BY <1>5, <2>2, <3>1 DEF Promise!Detach
    <3>. QED
      BY <3>2 DEF Promise!Next
  <2>. QED
    BY <2>1, <2>2
<1>6. ASSUME NEW p \in Publishers, Finish(p) PROVE Promise!Next \/ UNCHANGED Promise!vars
  <2>1. slow[p] \in SUBSET Subscribers
    BY DEF BusTypeOK
  <2>. QED
    BY <1>5, <1>6, <2>1 DEF Finish
<1>7. ASSUME NEW s \in Subscribers, NEW filtered \in BOOLEAN, Subscribe(s, filtered)
      PROVE  Promise!Next
  <2> DEFINE awaited == {p \in Publishers : pc[p] = "snapshot"}
  <2>1. awaited \in SUBSET {p \in Publishers : sent[p] > 0}
    BY DEF InTurn
  <2>2. handed' = [handed EXCEPT ![s] =
                     [p \in Publishers |-> IF p \in awaited THEN sent[p] - 1 ELSE sent[p]]]
    BY <1>7 DEF Subscribe
  <2>3. s \notin subs
    BY <1>7 DEF Subscribe, Registered
  <2>4. Promise!Attach(s)
    BY <1>7, <2>1, <2>2, <2>3 DEF Subscribe, Promise!Attach
  <2>. QED
    BY <2>4 DEF Promise!Next
<1>8. ASSUME NEW s \in Subscribers, Cancel(s) PROVE Promise!Next \/ UNCHANGED Promise!vars
  BY <1>5, <1>8 DEF Cancel
<1>9. ASSUME NEW s \in Subscribers, Receive(s) PROVE UNCHANGED Promise!vars
  BY <1>0, <1>9 DEF Receive
<1>10. CASE UNCHANGED vars
  BY <1>0, <1>10 DEF vars
<1>. QED
  BY <1>1, <1>2, <1>3, <1>4, <1>6, <1>7, <1>8, <1>9, <1>10
     DEF Next, PublishStep, SendStep, Decline, SkipClosed, SendOnClosed, MarkSlow, Deliver, SubscriberStep

\* A subscription and the events due to it agree in every reachable state:
\* what the bus keeps is never more than one event behind, and that only while
\* the event is being sent.
THEOREM BusInvariant == Spec => []BusInv
<1>1. Init => BusInv
  BY InitBus
<1>2. BusInv /\ [Next]_vars => BusInv'
  BY BusStep
<1>. QED
  BY <1>1, <1>2, PTL DEF Spec

\* "Drops over hangs": whatever the subscribers and the publishers, what a
\* subscriber reads of one publisher has no gap, and a subscriber that cannot
\* take an event is dropped before that publisher's next one.
THEOREM BusImplementsFanout == Spec => FanoutSpec
<1>1. Init => Promise!Init
  BY InitPromise
<1>2. BusInv /\ [Next]_vars => [Promise!Next]_(Promise!vars)
  BY PromiseStep
<1>. QED
  BY <1>1, <1>2, BusInvariant, PTL DEF Spec, FanoutSpec, Promise!Spec
-----------------------------------------------------------------------------
(***************************************************************************)
(* The handler: what a connection does to the bus, and types               *)
(***************************************************************************)
\* The owners' steps but two leave the bus alone.
LEMMA OwnersAndBus ==
  OwnerStep =>
    \/ UNCHANGED vars
    \/ \E p \in Publishers, kind \in Kinds : Broadcast(p, kind)
BY DEF OwnerStep, SetStatus, Push, GiveUp, TakeStatus, Demolish, ResetLog, Alter, Take, Save,
       Announce, Other, Publish, Kinds

\* A step of the connections is a step of the bus or leaves it alone.
LEMMA SSEIsBus == [SSENext]_sseVars => [Next]_vars
<1> SUFFICES ASSUME [SSENext]_sseVars PROVE [Next]_vars
  OBVIOUS
<1>1. ASSUME ~panicked, OwnerStep PROVE [Next]_vars
  BY <1>1, OwnersAndBus DEF Next
<1>2. ASSUME NEW s \in Subscribers, ~panicked, HandlerStep(s) PROVE [Next]_vars
  BY <1>2 DEF HandlerStep, Connect, Replay, ReplayLog, Leave, Next, SubscriberStep
<1>3. ASSUME NEW s \in Subscribers, Drain(s) PROVE [Next]_vars
  BY <1>3 DEF Drain, Forward, HangUp, Next, SubscriberStep
<1>. QED
  BY <1>1, <1>2, <1>3 DEF SSENext, sseVars, Next

\* Every step is one of the bus alone, one of an owner, or one of a handler.
LEMMA SSECases ==
  ASSUME [SSENext]_sseVars
  PROVE  \/ \E p \in Publishers : PublishStep(p) /\ UNCHANGED sse
         \/ SetStatus \/ Push \/ GiveUp \/ TakeStatus \/ Demolish \/ ResetLog
         \/ \E p \in Publishers, o \in Owners : Alter(p, o) \/ Take(p, o)
         \/ \E r \in Requests : Save(r)
         \/ \E p \in Publishers : Announce(p) \/ Other(p)
         \/ \E s \in Subscribers, filtered \in BOOLEAN : Connect(s, filtered)
         \/ \E s \in Subscribers, o \in Owners : Replay(s, o)
         \/ \E s \in Subscribers : ReplayLog(s) \/ Leave(s) \/ HangUp(s)
         \/ \E s \in Subscribers : Forward(s)
         \/ UNCHANGED sseVars
BY DEF SSENext, OwnerStep, HandlerStep, Drain

LEMMA FrameFacts ==
  /\ \A o, v : Frame(o, v).owner = o /\ Frame(o, v).version = v
  /\ \A o \in Owners, v \in Nat : Frame(o, v) \in Frames
  /\ \A n \in 1..MaxSent : Demo(n) \in Frames
  /\ NoFrame \in Frames /\ NoFrame.owner = "none"
  /\ \A f \in Frames : /\ f.owner \in Owners \cup {"demolition", "none"}
                       /\ f.owner \in Owners => f.version \in Nat
                       /\ f.owner = "demolition" => f.version \in 1..MaxSent /\ f = Demo(f.version)
                       /\ f.owner = "none" <=> f = NoFrame
  /\ {"demolition", "none"} \cap Owners = {}
<1> USE DEF Frame, Frames, NoFrame, Demo, Owners
<1>1. /\ \A o, v : Frame(o, v).owner = o /\ Frame(o, v).version = v
      /\ \A o \in Owners, v \in Nat : Frame(o, v) \in Frames
      /\ \A n \in 1..MaxSent : Demo(n) \in Frames
      /\ NoFrame \in Frames /\ NoFrame.owner = "none"
  OBVIOUS
<1>2. ASSUME NEW f \in Frames
      PROVE  /\ f.owner \in Owners \cup {"demolition", "none"}
             /\ f.owner \in Owners => f.version \in Nat
             /\ f.owner = "demolition" => f.version \in 1..MaxSent /\ f = Demo(f.version)
             /\ f.owner = "none" <=> f = NoFrame
  OBVIOUS
<1>. QED
  BY <1>1, <1>2

LEMMA InitSSE == SSEInit => SSEInv
<1> SUFFICES ASSUME SSEInit PROVE SSEInv
  OBVIOUS
<1> USE PipelineAssumption, MaxSentAssumption, MaxChangesAssumption, FrameFacts DEF SSEInit
<1>1. BusInv
  BY InitBus
<1>2. SSETypeOK
  BY <1>1 DEF BusInv, SSETypeOK, Owners
<1>3. Holders
  BY DEF Holders, Speaks, Init
<1>4. SentBefore /\ HandlerFollows
  BY DEF Init, SentBefore, HandlerFollows
<1>5. NewestIsStaged
  BY DEF NewestIsStaged, Owners
<1>6. FlightIsFresh
  <2>1. \A o \in Owners : InFlight(o) = {}
    BY DEF InFlight, Init
  <2>. QED
    BY <2>1 DEF FlightIsFresh
<1>7. Told /\ LogReaches
  BY DEF Init, Told, LogReaches
<1>. QED
  BY <1>1, <1>2, <1>3, <1>4, <1>5, <1>6, <1>7 DEF SSEInv

\* What a broadcast is about lies within the bounds.
LEMMA MsgInBounds ==
  ASSUME BusInv, NEW p \in Publishers, pc[p] # "idle"
  PROVE  msg[p] \in Events /\ msg[p].pub = p /\ msg[p].seq = sent[p] /\ msg[p].seq \in 1..MaxSent
<1>1. /\ msg[p] \in [pub : Publishers, seq : 0..MaxSent, kind : Kinds]
      /\ msg[p].seq > 0 /\ msg[p].pub = p /\ msg[p].seq = sent[p]
  BY DEF BusInv, BusTypeOK, InTurn
<1>2. msg[p].seq \in 1..MaxSent
  BY <1>1, MaxSentAssumption
<1>. QED
  BY <1>1, <1>2 DEF Events

\* Broadcast of an event that tells f.
LEMMA PublishFacts ==
  ASSUME BusInv, SSETypeOK, NEW p \in Publishers, NEW kind \in Kinds, NEW f \in Frames,
         Publish(p, kind, f)
  PROVE  /\ pc[p] = "idle" /\ pc' = [pc EXCEPT ![p] = "snapshot"]
         /\ sent' = [sent EXCEPT ![p] = sent[p] + 1] /\ sent'[p] \in 1..MaxSent
         /\ msg' = [msg EXCEPT ![p] = Event(p, sent[p] + 1, kind)]
         /\ msg'[p].pub = p /\ msg'[p].seq = sent[p] + 1 /\ msg'[p].kind = kind
         /\ carried' = [carried EXCEPT ![p][sent[p] + 1] = f]
         /\ Tells(msg[p])' = f
         /\ \A q \in Publishers, n \in 1..MaxSent :
              n <= sent[q] => carried'[q][n] = carried[q][n]
         /\ UNCHANGED <<registry, chan, dst, slow, panicked>>
         /\ UNCHANGED <<state, slot, pushing, outbox, log, clients, queued, late>>
<1>1. /\ sent \in [Publishers -> 0..MaxSent] /\ pc \in [Publishers -> {"idle", "snapshot", "send"}]
      /\ msg \in [Publishers -> [pub : Publishers, seq : 0..MaxSent, kind : Kinds]]
      /\ carried \in [Publishers -> [1..MaxSent -> Frames]]
  BY DEF BusInv, BusTypeOK, SSETypeOK
<1>2. /\ pc[p] = "idle" /\ sent[p] < MaxSent
      /\ sent' = [sent EXCEPT ![p] = sent[p] + 1]
      /\ msg' = [msg EXCEPT ![p] = Event(p, sent'[p], kind)]
      /\ pc' = [pc EXCEPT ![p] = "snapshot"]
      /\ carried' = [carried EXCEPT ![p][sent'[p]] = f]
      /\ UNCHANGED <<registry, chan, dst, slow, panicked>>
      /\ UNCHANGED <<state, slot, pushing, outbox, log, clients, queued, late>>
  BY DEF Publish, Broadcast, Goto
<1>3. sent'[p] = sent[p] + 1 /\ sent'[p] \in 1..MaxSent
  BY <1>1, <1>2, MaxSentAssumption
<1>4. msg'[p] = Event(p, sent[p] + 1, kind)
  BY <1>1, <1>2, <1>3
<1>5. msg'[p].pub = p /\ msg'[p].seq = sent[p] + 1 /\ msg'[p].kind = kind
  BY <1>4 DEF Event
<1>6. carried' = [carried EXCEPT ![p][sent[p] + 1] = f] /\ sent[p] + 1 \in 1..MaxSent
  BY <1>2, <1>3
<1>7. Tells(msg[p])' = f
  BY <1>1, <1>5, <1>6 DEF Tells
<1>8. ASSUME NEW q \in Publishers, NEW n \in 1..MaxSent, n <= sent[q]
      PROVE  carried'[q][n] = carried[q][n]
  <2>1. CASE q = p
    <3>1. n # sent[p] + 1
      BY <1>1, <1>8, <2>1
    <3>. QED
      BY <1>1, <1>6, <2>1, <3>1
  <2>2. CASE q # p
    BY <1>1, <1>6, <2>2
  <2>. QED
    BY <2>1, <2>2
<1>. QED
  BY <1>1, <1>2, <1>3, <1>4, <1>5, <1>6, <1>7, <1>8

\* Both kinds of broadcast publish a frame, the one held or none.
LEMMA AnnounceFacts ==
  ASSUME SSETypeOK, NEW p \in Publishers, Announce(p) \/ Other(p)
  PROVE  \E kind \in Kinds :
           /\ Publish(p, kind, held[p]) /\ held' = [held EXCEPT ![p] = NoFrame]
           /\ held[p] \in Frames
           /\ held[p].owner \in Owners => kind = "framing"
<1>1. held \in [Publishers -> Frames]
  BY DEF SSETypeOK
<1>2. CASE Announce(p)
  <2>1. held[p].owner \in Owners => held[p].owner # "demolition"
    BY FrameFacts
  <2>. QED
    BY <1>1, <1>2, <2>1 DEF Announce, Kinds
<1>3. CASE Other(p)
  <2>1. held' = [held EXCEPT ![p] = NoFrame]
    BY <1>1, <1>3 DEF Other
  <2>2. Publish(p, "plain", held[p])
    BY <1>3 DEF Other
  <2>. QED
    BY <1>1, <1>3, <2>1, <2>2, FrameFacts DEF Other, Kinds
<1>. QED
  BY <1>2, <1>3

LEMMA SSETypeStep == SSEInv /\ [SSENext]_sseVars => SSETypeOK'
<1> SUFFICES ASSUME BusInv, SSETypeOK, NewestIsStaged, [SSENext]_sseVars PROVE SSETypeOK'
  BY DEF SSEInv
<1>0. BusTypeOK'
  BY SSEIsBus, BusStep DEF BusInv
<1> USE MaxSentAssumption, PipelineAssumption, MaxChangesAssumption, FrameFacts DEF SSETypeOK
<1>1. ASSUME UNCHANGED sse PROVE SSETypeOK'
  BY <1>0, <1>1 DEF sse, owners, clients, told
<1>2. ASSUME NEW o \in Owners PROVE state[o] + 1 \in Nat
  OBVIOUS
<1>3. ASSUME NEW o \in Owners, late' = [late EXCEPT ![o] = InFlight(o)]
      PROVE  late' \in [Owners -> SUBSET Nat]
  <2>1. \A q \in Publishers : held[q].owner = o => held[q].version \in Nat
    OBVIOUS
  <2>2. \A q \in Publishers : pc[q] # "idle" /\ Tells(msg[q]).owner = o => Tells(msg[q]).version \in Nat
    <3> TAKE q \in Publishers
    <3> HAVE pc[q] # "idle" /\ Tells(msg[q]).owner = o
    <3>1. msg[q].pub = q /\ msg[q].seq \in 1..MaxSent
      BY MsgInBounds
    <3>2. Tells(msg[q]) \in Frames
      BY <3>1 DEF Tells
    <3>. QED
      BY <3>2
  <2>3. InFlight(o) \subseteq Nat
    BY <2>1, <2>2 DEF InFlight
  <2>. QED
    BY <1>3, <2>3
<1>4. CASE SetStatus
  <2>1. "status" \in Owners
    BY DEF Owners
  <2>. QED
    BY <1>0, <1>2, <1>4, <2>1 DEF SetStatus, clients, told
<1>5. CASE Push
  BY <1>0, <1>5 DEF Push, clients
<1>6. CASE GiveUp
  BY <1>0, <1>6 DEF GiveUp, clients, told
<1>7. CASE TakeStatus
  <2>1. "status" \in Owners
    BY DEF Owners
  <2>2. Head(outbox) \in Nat /\ Tail(outbox) \in Seq(Nat)
    BY <1>7, HeadTailProperties DEF TakeStatus
  <2>3. held' \in [Publishers -> Frames]
    BY <1>7, <2>1, <2>2 DEF TakeStatus
  <2>. QED
    BY <1>0, <1>7, <2>2, <2>3 DEF TakeStatus, clients, told
<1>8. CASE Demolish
  <2>1. sent[Pipeline] + 1 \in 1..MaxSent
    BY <1>8 DEF Demolish, BusInv, BusTypeOK
  <2>2. held' \in [Publishers -> Frames]
    BY <1>8, <2>1 DEF Demolish, Demo
  <2>. QED
    BY <1>0, <1>8, <2>1, <2>2 DEF Demolish, clients, told
<1>9. CASE ResetLog
  BY <1>0, <1>9 DEF ResetLog, clients, told
<1>10. ASSUME NEW p \in Publishers, NEW o \in Owners, Alter(p, o) PROVE SSETypeOK'
  <2>1. state' = [state EXCEPT ![o] = state[o] + 1] /\ late' = [late EXCEPT ![o] = InFlight(o)]
    BY <1>10 DEF Alter, Change
  <2>2. state' \in [Owners -> Nat] /\ state'[o] \in Nat
    BY <1>2, <2>1
  <2>3. slot' \in [Owners -> Nat]
    BY <1>10, <2>2 DEF Alter
  <2>. QED
    BY <1>0, <1>3, <1>10, <2>1, <2>2, <2>3 DEF Alter, clients
<1>11. ASSUME NEW p \in Publishers, NEW o \in Owners, Take(p, o) PROVE SSETypeOK'
  BY <1>0, <1>11 DEF Take, clients, told
<1>12. ASSUME NEW r \in Requests, Save(r) PROVE SSETypeOK'
  <2>1. "identity" \in Owners /\ r \in Publishers
    BY DEF Owners, Requests
  <2>2. /\ state' = [state EXCEPT !["identity"] = state["identity"] + 1]
        /\ late' = [late EXCEPT !["identity"] = InFlight("identity")]
    BY <1>12 DEF Save, Change
  <2>3. state' \in [Owners -> Nat] /\ state'["identity"] \in Nat
    BY <1>2, <2>1, <2>2
  <2>4. held' \in [Publishers -> Frames]
    BY <1>12, <2>1, <2>3 DEF Save
  <2>. QED
    BY <1>0, <1>3, <1>12, <2>1, <2>2, <2>3, <2>4 DEF Save, clients
<1>13. ASSUME NEW p \in Publishers, Announce(p) \/ Other(p) PROVE SSETypeOK'
  <2>1. PICK kind \in Kinds :
          Publish(p, kind, held[p]) /\ held' = [held EXCEPT ![p] = NoFrame] /\ held[p] \in Frames
    BY <1>13, AnnounceFacts
  <2>2. /\ carried' = [carried EXCEPT ![p][sent[p] + 1] = held[p]]
        /\ UNCHANGED <<state, slot, pushing, outbox, log, clients, queued, late>>
    BY <2>1, PublishFacts
  <2>3. carried' \in [Publishers -> [1..MaxSent -> Frames]]
    BY <2>1, <2>2
  <2>. QED
    BY <1>0, <2>1, <2>2, <2>3 DEF clients
<1>14. ASSUME NEW s \in Subscribers, NEW filtered \in BOOLEAN, Connect(s, filtered)
       PROVE  SSETypeOK'
  BY <1>0, <1>14 DEF Connect, owners, told
<1>15. ASSUME NEW s \in Subscribers, NEW o \in Owners, Replay(s, o) PROVE SSETypeOK'
  <2>1. [view[s] EXCEPT ![o] = state[o]] \in [Owners -> Nat]
    OBVIOUS
  <2>2. view' \in [Subscribers -> [Owners -> Nat]]
    BY <1>15, <2>1 DEF Replay
  <2>3. unread' \in [Subscribers -> SUBSET Owners]
    BY <1>15 DEF Replay
  <2>. QED
    BY <1>0, <1>15, <2>2, <2>3 DEF Replay, owners, told
<1>16. ASSUME NEW s \in Subscribers, ReplayLog(s) PROVE SSETypeOK'
  <2>1. seen' \in [Subscribers -> SUBSET (1..MaxSent)]
    BY <1>16 DEF ReplayLog
  <2>. QED
    BY <1>0, <1>16, <2>1 DEF ReplayLog, owners, told
<1>17. ASSUME NEW s \in Subscribers, Forward(s) PROVE SSETypeOK'
  <2> DEFINE f == Tells(Head(chan[s]))
  <2>1. Head(chan[s]) \in Events
    BY <1>17, HeadTailProperties DEF Forward, Receive, BusInv, BusTypeOK
  <2>2. f \in Frames
    BY <2>1 DEF Events, Tells
  <2>3. /\ view' = IF f.owner \in Owners THEN [view EXCEPT ![s][f.owner] = f.version] ELSE view
        /\ seen' = IF f.owner = "demolition" THEN [seen EXCEPT ![s] = @ \cup {f.version}] ELSE seen
        /\ UNCHANGED <<owners, handler, unread, told>>
    BY <1>17 DEF Forward
  <2> HIDE DEF f
  <2>4. view' \in [Subscribers -> [Owners -> Nat]]
    <3>1. CASE f.owner \in Owners
      <4>1. [view[s] EXCEPT ![f.owner] = f.version] \in [Owners -> Nat]
        BY <2>2, <3>1
      <4>2. view' = [view EXCEPT ![s] = [view[s] EXCEPT ![f.owner] = f.version]]
        BY <2>3, <3>1
      <4>. QED
        BY <4>1, <4>2
    <3>2. CASE f.owner \notin Owners
      BY <2>3, <3>2
    <3>. QED
      BY <3>1, <3>2
  <2>5. seen' \in [Subscribers -> SUBSET (1..MaxSent)]
    BY <2>2, <2>3
  <2>. QED
    BY <1>0, <2>3, <2>4, <2>5 DEF owners, told
<1>18. ASSUME NEW s \in Subscribers, HangUp(s) \/ Leave(s) PROVE SSETypeOK'
  <2>1. Over(s) /\ UNCHANGED <<owners, told>>
    BY <1>18 DEF HangUp, Leave
  <2>2. handler' \in [Subscribers -> {"none", "replay", "log", "stream", "gone"}]
    BY <2>1 DEF Over
  <2>3. unread' \in [Subscribers -> SUBSET Owners] /\ seen' \in [Subscribers -> SUBSET (1..MaxSent)]
    BY <2>1 DEF Over
  <2>4. view' \in [Subscribers -> [Owners -> Nat]]
    <3>1. [o \in Owners |-> 0] \in [Owners -> Nat]
      OBVIOUS
    <3>. QED
      BY <2>1, <3>1 DEF Over
  <2>. QED
    BY <1>0, <2>1, <2>2, <2>3, <2>4 DEF owners, told
<1>19. CASE UNCHANGED sseVars
  BY <1>1, <1>19 DEF sseVars
<1> HIDE MaxSentAssumption, PipelineAssumption, MaxChangesAssumption, FrameFacts DEF SSETypeOK
<1>. QED
  BY <1>1, <1>4, <1>5, <1>6, <1>7, <1>8, <1>9, <1>10, <1>11, <1>12, <1>13, <1>14, <1>15, <1>16, <1>17,
     <1>18, <1>19, SSECases

\* The steps of a broadcast change neither what it is about nor whose turn it is,
\* but to end it.
LEMMA PublishStepFacts ==
  ASSUME BusTypeOK, NEW p \in Publishers, PublishStep(p)
  PROVE  /\ msg' = msg /\ sent' = sent /\ fresh' = fresh /\ picky' = picky /\ subs' \subseteq subs
         /\ \A q \in Publishers : pc'[q] # "idle" => pc[q] # "idle"
BY DEF PublishStep, Snapshot, SendStep, Decline, SkipClosed, SendOnClosed, Deliver, MarkSlow,
       Serve, Finish, Remove, Goto, BusTypeOK, observer, registry

LEMMA HandlerFollowsStep == SSEInv /\ [SSENext]_sseVars => HandlerFollows'
<1> SUFFICES ASSUME BusInv, SSETypeOK, HandlerFollows, [SSENext]_sseVars PROVE HandlerFollows'
  BY DEF SSEInv
<1> USE DEF HandlerFollows, SSETypeOK, clients, registry
<1>1. ASSUME fresh' = fresh, subs' \subseteq subs, UNCHANGED <<handler, unread>>
      PROVE  HandlerFollows'
  BY <1>1
<1>2. ASSUME NEW p \in Publishers, PublishStep(p), UNCHANGED sse PROVE HandlerFollows'
  BY <1>1, <1>2, PublishStepFacts DEF sse, BusInv
<1>3. CASE SetStatus \/ Push \/ GiveUp \/ TakeStatus \/ Demolish \/ ResetLog
  BY <1>1, <1>3 DEF SetStatus, Push, GiveUp, TakeStatus, Demolish, ResetLog, vars
<1>4. ASSUME NEW p \in Publishers, NEW o \in Owners, Alter(p, o) \/ Take(p, o) PROVE HandlerFollows'
  BY <1>1, <1>4 DEF Alter, Take, vars
<1>5. ASSUME NEW r \in Requests, Save(r) PROVE HandlerFollows'
  BY <1>1, <1>5 DEF Save, vars
<1>6. ASSUME NEW p \in Publishers, Announce(p) \/ Other(p) PROVE HandlerFollows'
  BY <1>1, <1>6 DEF Announce, Other, Publish, Broadcast
<1>7. ASSUME NEW s \in Subscribers, NEW filtered \in BOOLEAN, Connect(s, filtered)
      PROVE  HandlerFollows'
  BY <1>7 DEF Connect, Subscribe
<1>8. ASSUME NEW s \in Subscribers, NEW o \in Owners, Replay(s, o) PROVE HandlerFollows'
  BY <1>8 DEF Replay, vars
<1>9. ASSUME NEW s \in Subscribers, ReplayLog(s) PROVE HandlerFollows'
  BY <1>9 DEF ReplayLog, vars
<1>10. ASSUME NEW s \in Subscribers, Forward(s) PROVE HandlerFollows'
  BY <1>10 DEF Forward, Receive
<1>11. ASSUME NEW s \in Subscribers, HangUp(s) PROVE HandlerFollows'
  BY <1>11 DEF HangUp, Over, vars, BusInv, BusTypeOK
<1>12. ASSUME NEW s \in Subscribers, Leave(s) PROVE HandlerFollows'
  <2>1. fresh' = fresh /\ subs' = subs \ {s}
    BY <1>12 DEF Leave, Cancel, Remove, vars
  <2>. QED
    BY <1>12, <2>1 DEF Leave, Over
<1>13. CASE UNCHANGED sseVars
  BY <1>1, <1>13 DEF sseVars, vars, sse
<1>. QED
  BY <1>2, <1>3, <1>4, <1>5, <1>6, <1>7, <1>8, <1>9, <1>10, <1>11, <1>12, <1>13, SSECases

\* A connection that is over is registered no more, and no other is touched.
LEMMA OverFacts ==
  ASSUME BusTypeOK, SSETypeOK, NEW s \in Subscribers, HangUp(s) \/ Leave(s)
  PROVE  /\ UNCHANGED <<pc, msg, dst, slow, owners, told, chan, picky>>
         /\ subs' \subseteq subs \ {s}
         /\ \A t \in Subscribers \ {s} : /\ unread'[t] = unread[t] /\ view'[t] = view[t]
                                         /\ seen'[t] = seen[t] /\ handler'[t] = handler[t]
<1>1. \A t \in Subscribers \ {s} : /\ unread'[t] = unread[t] /\ view'[t] = view[t]
                                  /\ seen'[t] = seen[t] /\ handler'[t] = handler[t]
  BY DEF HangUp, Leave, Over, SSETypeOK
<1>2. CASE HangUp(s)
  BY <1>1, <1>2 DEF HangUp, BusTypeOK, vars, registry, calls
<1>3. CASE Leave(s)
  BY <1>1, <1>3 DEF Leave, Cancel, Remove, vars, registry, calls
<1>. QED
  BY <1>2, <1>3
-----------------------------------------------------------------------------
(***************************************************************************)
(* The owners: who holds which frame, and which are fresh                  *)
(***************************************************************************)
LEMMA SpeaksFacts ==
  /\ \A p \in Publishers : /\ Stages(p) \subseteq Speaks(p) \cap Owners
                           /\ "none" \in Speaks(p)
                           /\ "status" \in Speaks(p) => p = Pipeline
                           /\ "roster" \in Speaks(p) => p = Pipeline
                           /\ "roster" \in Stages(p) => p = Pipeline
                           /\ "demolition" \in Speaks(p) => p = Pipeline
                           /\ {"status", "identity"} \cap Stages(p) = {}
  /\ {"status", "demolition"} \subseteq Speaks(Pipeline)
  /\ \A r \in Requests : r \in Publishers /\ "identity" \in Speaks(r)
BY PipelineAssumption DEF Stages, Speaks, Owners, Requests

LEMMA HoldersStep == SSEInv /\ [SSENext]_sseVars => Holders'
<1> SUFFICES ASSUME BusInv, SSETypeOK, Holders, [SSENext]_sseVars PROVE Holders'
  BY DEF SSEInv
<1>0. /\ held \in [Publishers -> Frames] /\ carried \in [Publishers -> [1..MaxSent -> Frames]]
      /\ BusTypeOK
  BY DEF SSETypeOK, BusInv
<1> USE PipelineAssumption, FrameFacts, SpeaksFacts DEF Holders
<1>1. ASSUME UNCHANGED <<held, carried, msg>>, \A q \in Publishers : pc'[q] # "idle" => pc[q] # "idle"
      PROVE  Holders'
  BY <1>1 DEF Tells
<1>2. ASSUME NEW p \in Publishers, NEW f, f.owner \in Speaks(p), pc[p] = "idle",
             held' = [held EXCEPT ![p] = f], UNCHANGED <<carried, msg, pc>>
      PROVE  Holders'
  BY <1>0, <1>2 DEF Tells
<1>3. ASSUME NEW p \in Publishers, PublishStep(p), UNCHANGED sse PROVE Holders'
  BY <1>0, <1>1, <1>3, PublishStepFacts DEF sse, owners, told
<1>4. CASE SetStatus \/ Push \/ GiveUp \/ ResetLog
  BY <1>1, <1>4 DEF SetStatus, Push, GiveUp, ResetLog, vars, calls, told
<1>5. CASE TakeStatus
  <2> DEFINE f == Frame("status", Head(outbox))
  <2>1. f.owner = "status" /\ f.owner \in Speaks(Pipeline)
    OBVIOUS
  <2> HIDE DEF f
  <2>2. /\ pc[Pipeline] = "idle" /\ held' = [held EXCEPT ![Pipeline] = f]
        /\ UNCHANGED <<carried, msg, pc>>
    BY <1>5 DEF TakeStatus, Free, vars, calls, told, f
  <2>. QED
    BY <1>2, <2>1, <2>2
<1>6. CASE Demolish
  <2> DEFINE f == Frame("demolition", sent[Pipeline] + 1)
  <2>1. f.owner = "demolition" /\ f.owner \in Speaks(Pipeline)
    OBVIOUS
  <2> HIDE DEF f
  <2>2. /\ pc[Pipeline] = "idle" /\ held' = [held EXCEPT ![Pipeline] = f]
        /\ UNCHANGED <<carried, msg, pc>>
    BY <1>6 DEF Demolish, Free, vars, calls, told, f
  <2>. QED
    BY <1>2, <2>1, <2>2
<1>7. ASSUME NEW p \in Publishers, NEW o \in Owners, Alter(p, o) PROVE Holders'
  BY <1>1, <1>7 DEF Alter, vars, calls
<1>8. ASSUME NEW p \in Publishers, NEW o \in Owners, Take(p, o) PROVE Holders'
  <2> DEFINE f == Frame(o, slot[o])
  <2>1. f.owner = o /\ f.owner \in Speaks(p)
    BY <1>8 DEF Take
  <2> HIDE DEF f
  <2>2. /\ pc[p] = "idle" /\ held' = [held EXCEPT ![p] = f]
        /\ UNCHANGED <<carried, msg, pc>>
    BY <1>8 DEF Take, Free, vars, calls, told, f
  <2>. QED
    BY <1>2, <2>1, <2>2
<1>9. ASSUME NEW r \in Requests, Save(r) PROVE Holders'
  <2> DEFINE f == Frame("identity", state'["identity"])
  <2>1. f.owner = "identity" /\ f.owner \in Speaks(r)
    OBVIOUS
  <2> HIDE DEF f
  <2>2. /\ pc[r] = "idle" /\ held' = [held EXCEPT ![r] = f]
        /\ UNCHANGED <<carried, msg, pc>>
    BY <1>9 DEF Save, Free, vars, calls, told, f
  <2>. QED
    BY <1>2, <2>1, <2>2
<1>10. ASSUME NEW p \in Publishers, Announce(p) \/ Other(p) PROVE Holders'
  <2>1. PICK kind \in Kinds :
          /\ Publish(p, kind, held[p]) /\ held' = [held EXCEPT ![p] = NoFrame] /\ held[p] \in Frames
          /\ held[p].owner \in Owners => kind = "framing"
    BY <1>10, AnnounceFacts
  <2>2. /\ pc[p] = "idle" /\ pc' = [pc EXCEPT ![p] = "snapshot"]
        /\ msg' = [msg EXCEPT ![p] = Event(p, sent[p] + 1, kind)] /\ msg'[p].kind = kind
        /\ carried' = [carried EXCEPT ![p][sent[p] + 1] = held[p]] /\ Tells(msg[p])' = held[p]
        /\ \A q \in Publishers, n \in 1..MaxSent : n <= sent[q] => carried'[q][n] = carried[q][n]
    BY <2>1, PublishFacts
  <2> TAKE q \in Publishers
  <2>3. CASE q = p
    BY <1>0, <2>1, <2>2, <2>3
  <2>4. CASE q # p
    <3>1. held'[q] = held[q] /\ carried'[q] = carried[q] /\ pc'[q] = pc[q] /\ msg'[q] = msg[q]
      BY <1>0, <2>1, <2>2, <2>4 DEF BusTypeOK
    <3>2. pc[q] # "idle" => Tells(msg[q])' = Tells(msg[q])
      BY <3>1, MsgInBounds DEF Tells
    <3>. QED
      BY <3>1, <3>2
  <2>. QED
    BY <2>3, <2>4
<1>11. ASSUME NEW s \in Subscribers, NEW filtered \in BOOLEAN, Connect(s, filtered) PROVE Holders'
  BY <1>1, <1>11 DEF Connect, Subscribe, owners, told, calls
<1>12. ASSUME NEW s \in Subscribers, NEW o \in Owners, Replay(s, o) PROVE Holders'
  BY <1>1, <1>12 DEF Replay, owners, told, vars, calls
<1>13. ASSUME NEW s \in Subscribers, ReplayLog(s) \/ Leave(s) \/ HangUp(s) PROVE Holders'
  BY <1>1, <1>13 DEF ReplayLog, Leave, Cancel, HangUp, owners, told, vars, calls
<1>14. ASSUME NEW s \in Subscribers, Forward(s) PROVE Holders'
  BY <1>1, <1>14 DEF Forward, Receive, owners, told, calls
<1>15. CASE UNCHANGED sseVars
  BY <1>1, <1>15 DEF sseVars, vars, calls, sse, owners, told
<1>. QED
  BY <1>3, <1>4, <1>5, <1>6, <1>7, <1>8, <1>9, <1>10, <1>11, <1>12, <1>13, <1>14, <1>15, SSECases

\* Only a send and a receive change a channel.
LEMMA ChanSteps ==
  ASSUME BusTypeOK, NEW p \in Publishers, PublishStep(p)
  PROVE  chan' = chan \/ \E s \in Subscribers : Deliver(p, s)
BY DEF PublishStep, Snapshot, SendStep, Decline, SkipClosed, SendOnClosed, MarkSlow, Serve, Finish

LEMMA SentBeforeStep == SSEInv /\ [SSENext]_sseVars => SentBefore'
<1> SUFFICES ASSUME BusInv, SSETypeOK, SentBefore, [SSENext]_sseVars PROVE SentBefore'
  BY DEF SSEInv
<1>0. BusTypeOK /\ BusTypeOK'
  BY SSEIsBus, BusStep DEF BusInv
<1> USE MaxSentAssumption DEF SentBefore
<1>1. ASSUME UNCHANGED <<chan, sent>> PROVE SentBefore'
  BY <1>1
<1>2. ASSUME NEW p \in Publishers, PublishStep(p) PROVE SentBefore'
  <2>1. sent' = sent
    BY <1>0, <1>2, PublishStepFacts
  <2>2. ASSUME NEW s \in Subscribers, Deliver(p, s) PROVE SentBefore'
    <3>1. /\ chan' = [chan EXCEPT ![s] = Append(chan[s], msg[p])]
          /\ msg[p].pub = p /\ msg[p].seq = sent[p] /\ msg[p] \in Events /\ pc[p] # "idle"
      BY <1>0, <2>2, MsgInBounds DEF Deliver, Serve
    <3> TAKE t \in Subscribers
    <3>2. CASE t = s
      <4> DEFINE n == Len(chan[s])
      <4>1. /\ n \in Nat /\ chan[s] \in Seq(Events) /\ Len(chan'[s]) = n + 1 /\ chan'[s][n + 1] = msg[p]
            /\ \A i \in 1..n : chan'[s][i] = chan[s][i]
        BY <1>0, <3>1, AppendProperties, LenProperties DEF BusTypeOK
      <4> HIDE DEF n
      <4> SUFFICES ASSUME NEW i \in 1..(n + 1) PROVE chan'[s][i].seq <= sent[chan'[s][i].pub]
        BY <2>1, <3>2, <4>1
      <4>2. CASE i = n + 1
        BY <1>0, <3>1, <4>1, <4>2 DEF BusTypeOK
      <4>3. CASE i # n + 1
        <5>1. i \in 1..n
          BY <4>1, <4>3
        <5>. QED
          BY <4>1, <5>1 DEF n
      <4>. QED
        BY <4>2, <4>3
    <3>3. CASE t # s
      BY <1>0, <2>1, <3>1, <3>3 DEF BusTypeOK
    <3>. QED
      BY <3>2, <3>3
  <2>. QED
    BY <1>0, <1>1, <1>2, <2>1, <2>2, ChanSteps
<1>3. CASE SetStatus \/ Push \/ GiveUp \/ TakeStatus \/ Demolish \/ ResetLog
  BY <1>1, <1>3 DEF SetStatus, Push, GiveUp, TakeStatus, Demolish, ResetLog, vars, observer
<1>4. ASSUME NEW p \in Publishers, NEW o \in Owners, Alter(p, o) \/ Take(p, o) PROVE SentBefore'
  BY <1>1, <1>4 DEF Alter, Take, vars, observer
<1>5. ASSUME NEW r \in Requests, Save(r) PROVE SentBefore'
  BY <1>1, <1>5 DEF Save, vars, observer
<1>6. ASSUME NEW p \in Publishers, Announce(p) \/ Other(p) PROVE SentBefore'
  <2>1. chan' = chan /\ sent' = [sent EXCEPT ![p] = sent[p] + 1]
    BY <1>6, AnnounceFacts, PublishFacts
  <2>2. \A q \in Publishers : sent[q] \in Nat /\ sent'[q] \in Nat /\ sent[q] <= sent'[q]
    BY <1>0, <2>1 DEF BusTypeOK
  <2> TAKE s \in Subscribers
  <2> TAKE i \in 1..Len(chan'[s])
  <2>3. chan[s][i] \in Events
    BY <1>0, <2>1, ElementOfSeq DEF BusTypeOK
  <2>4. chan[s][i].pub \in Publishers /\ chan[s][i].seq \in Nat
    BY <2>3 DEF Events
  <2>. QED
    BY <2>1, <2>2, <2>4
<1>7. ASSUME NEW s \in Subscribers, NEW filtered \in BOOLEAN, Connect(s, filtered) PROVE SentBefore'
  BY <1>1, <1>7 DEF Connect, Subscribe
<1>8. ASSUME NEW s \in Subscribers, NEW o \in Owners, Replay(s, o) PROVE SentBefore'
  BY <1>1, <1>8 DEF Replay, vars, observer
<1>9. ASSUME NEW s \in Subscribers, ReplayLog(s) \/ Leave(s) \/ HangUp(s) PROVE SentBefore'
  BY <1>1, <1>9 DEF ReplayLog, Leave, Cancel, HangUp, vars, observer
<1>10. ASSUME NEW s \in Subscribers, Forward(s) PROVE SentBefore'
  <2>1. chan[s] # <<>> /\ chan' = [chan EXCEPT ![s] = Tail(chan[s])] /\ sent' = sent
    BY <1>10 DEF Forward, Receive, observer
  <2> TAKE t \in Subscribers
  <2>2. CASE t = s
    <3>1. /\ Len(chan[s]) \in Nat /\ Len(chan[s]) > 0 /\ Len(chan'[s]) = Len(chan[s]) - 1
          /\ \A i \in 1..(Len(chan[s]) - 1) : chan'[s][i] = chan[s][i + 1]
      BY <1>0, <2>1, HeadTailProperties, EmptySeq, LenProperties DEF BusTypeOK
    <3>2. \A i \in 1..(Len(chan[s]) - 1) : i + 1 \in 1..Len(chan[s])
      BY <3>1
    <3>. QED
      BY <2>1, <2>2, <3>1, <3>2
  <2>3. CASE t # s
    BY <1>0, <2>1, <2>3 DEF BusTypeOK
  <2>. QED
    BY <2>2, <2>3
<1>11. CASE UNCHANGED sseVars
  BY <1>1, <1>11 DEF sseVars, vars, observer
<1>. QED
  BY <1>2, <1>3, <1>4, <1>5, <1>6, <1>7, <1>8, <1>9, <1>10, <1>11, SSECases

LEMMA NewestStep == SSEInv /\ [SSENext]_sseVars => NewestIsStaged'
<1> SUFFICES ASSUME BusInv, SSETypeOK, Holders, NewestIsStaged, [SSENext]_sseVars
             PROVE  NewestIsStaged'
  BY DEF SSEInv
<1>0. /\ state \in [Owners -> Nat] /\ slot \in [Owners -> Nat] /\ late \in [Owners -> SUBSET Nat]
      /\ pushing \in Nat /\ outbox \in Seq(Nat) /\ queued \in Nat /\ held \in [Publishers -> Frames]
      /\ {"status", "match", "identity", "roster"} = Owners
  BY DEF SSETypeOK, Owners
<1> USE DEF NewestIsStaged
<1>1. ASSUME UNCHANGED <<state, slot, pushing, outbox, queued, late>> PROVE NewestIsStaged'
  BY <1>1
<1>2. ASSUME NEW p \in Publishers, PublishStep(p), UNCHANGED sse PROVE NewestIsStaged'
  BY <1>1, <1>2 DEF sse, owners, told
<1>3. CASE SetStatus
  <2>1. /\ state' = [state EXCEPT !["status"] = state["status"] + 1] /\ pushing' = state'["status"]
        /\ UNCHANGED <<slot, outbox, queued, late>>
    BY <1>3 DEF SetStatus, told
  <2>. QED
    BY <1>0, <2>1
<1>4. CASE Push
  <2>1. /\ outbox' = Append(outbox, pushing) /\ queued' = pushing /\ pushing # 0 /\ pushing' = 0
        /\ UNCHANGED <<state, slot, late>>
    BY <1>4 DEF Push
  <2>2. outbox'[Len(outbox')] = pushing
    BY <1>0, <2>1, AppendProperties
  <2>3. queued' <= state'["status"]
    BY <1>0, <2>1
  <2>. QED
    BY <2>1, <2>2, <2>3
<1>5. CASE GiveUp
  BY <1>5 DEF GiveUp, told
<1>6. CASE TakeStatus
  <2>1. outbox # <<>> /\ outbox' = Tail(outbox) /\ UNCHANGED <<state, slot, pushing, queued, late>>
    BY <1>6 DEF TakeStatus, told
  <2>2. outbox' # <<>> => outbox'[Len(outbox')] = outbox[Len(outbox)]
    <3>1. Len(outbox) \in Nat /\ Len(outbox) > 0 /\ Len(outbox') = Len(outbox) - 1
      BY <1>0, <2>1, HeadTailProperties, EmptySeq, LenProperties
    <3>2. outbox' # <<>> => Len(outbox') > 0
      BY <1>0, <2>1, HeadTailProperties, EmptySeq, LenProperties
    <3>3. \A i \in 1..(Len(outbox) - 1) : outbox'[i] = outbox[i + 1]
      BY <1>0, <2>1, HeadTailProperties
    <3>. QED
      BY <3>1, <3>2, <3>3
  <2>. QED
    BY <2>1, <2>2
<1>7. CASE Demolish \/ ResetLog
  BY <1>1, <1>7 DEF Demolish, ResetLog, told
<1>8. ASSUME NEW p \in Publishers, NEW o \in Owners, Alter(p, o) PROVE NewestIsStaged'
  <2>1. /\ state' = [state EXCEPT ![o] = state[o] + 1] /\ slot' = [slot EXCEPT ![o] = state'[o]]
        /\ late' = [late EXCEPT ![o] = InFlight(o)] /\ o \in Stages(p)
        /\ pc[p] = "idle" /\ held[p].owner \in {"none", "status"}
        /\ UNCHANGED <<pushing, outbox, queued>>
    BY <1>8 DEF Alter, Change
  <2>2. o \notin {"status", "identity"}
    BY <2>1, SpeaksFacts
  <2>3. late'["roster"] = {}
    <3>1. CASE o = "roster"
      <4>1. p = Pipeline
        BY <2>1, <3>1, SpeaksFacts
      <4>2. \A q \in Publishers : held[q].owner # "roster"
        BY <2>1, <4>1, SpeaksFacts DEF Holders
      <4>3. ASSUME NEW q \in Publishers, pc[q] # "idle" PROVE Tells(msg[q]).owner # "roster"
        <5>1. msg[q].pub = q /\ msg[q].seq \in 1..MaxSent /\ q # Pipeline
          BY <2>1, <4>1, <4>3, MsgInBounds
        <5>2. Tells(msg[q]).owner \in Speaks(q)
          BY <5>1 DEF Tells, Holders
        <5>. QED
          BY <5>1, <5>2, SpeaksFacts
      <4>4. InFlight("roster") = {}
        BY <4>2, <4>3 DEF InFlight
      <4>. QED
        BY <1>0, <2>1, <3>1, <4>4
    <3>2. CASE o # "roster"
      BY <1>0, <2>1, <3>2
    <3>. QED
      BY <3>1, <3>2
  <2>4. \A q \in Owners : slot'[q] \in {0, state'[q]}
    BY <1>0, <2>1
  <2>5. slot'["status"] = 0 /\ slot'["identity"] = 0 /\ state'["status"] = state["status"]
    BY <1>0, <2>1, <2>2
  <2>. QED
    BY <2>1, <2>3, <2>4, <2>5
<1>9. ASSUME NEW p \in Publishers, NEW o \in Owners, Take(p, o) PROVE NewestIsStaged'
  <2>1. slot' = [slot EXCEPT ![o] = 0] /\ UNCHANGED <<state, pushing, outbox, queued, late>>
    BY <1>9 DEF Take, told
  <2>. QED
    BY <1>0, <2>1
<1>10. ASSUME NEW r \in Requests, Save(r) PROVE NewestIsStaged'
  <2>1. /\ state' = [state EXCEPT !["identity"] = state["identity"] + 1]
        /\ late' = [late EXCEPT !["identity"] = InFlight("identity")]
        /\ UNCHANGED <<slot, pushing, outbox, queued>>
    BY <1>10 DEF Save, Change
  <2>2. /\ \A q \in Owners : slot'[q] \in {0, state'[q]}
        /\ state'["status"] = state["status"] /\ late'["roster"] = {}
    BY <1>0, <2>1
  <2>. QED
    BY <2>1, <2>2
<1>11. ASSUME NEW p \in Publishers, Announce(p) \/ Other(p) PROVE NewestIsStaged'
  BY <1>1, <1>11 DEF Announce, Other, Publish
<1>12. ASSUME NEW s \in Subscribers, NEW filtered \in BOOLEAN, Connect(s, filtered) PROVE NewestIsStaged'
  BY <1>1, <1>12 DEF Connect, owners, told
<1>13. ASSUME NEW s \in Subscribers, NEW o \in Owners, Replay(s, o) PROVE NewestIsStaged'
  BY <1>1, <1>13 DEF Replay, owners, told
<1>14. ASSUME NEW s \in Subscribers, ReplayLog(s) \/ Leave(s) \/ HangUp(s) PROVE NewestIsStaged'
  BY <1>1, <1>14 DEF ReplayLog, Leave, HangUp, owners, told
<1>15. ASSUME NEW s \in Subscribers, Forward(s) PROVE NewestIsStaged'
  BY <1>1, <1>15 DEF Forward, owners, told
<1>16. CASE UNCHANGED sseVars
  BY <1>1, <1>16 DEF sseVars, sse, owners, told
<1>. QED
  BY <1>2, <1>3, <1>4, <1>5, <1>6, <1>7, <1>8, <1>9, <1>10, <1>11, <1>12, <1>13, <1>14, <1>15, <1>16,
     SSECases

\* What is fresh stays fresh while the owner does not change.
LEMMA FreshKept ==
  ASSUME NEW o \in Owners, state'[o] = state[o], queued' = queued, late'[o] = late[o]
  PROVE  Fresh(o)' = Fresh(o)
BY DEF Fresh

\* What p takes is under way from then on; nothing else changes there.
LEMMA FlightTaken ==
  ASSUME SSETypeOK, NEW p \in Publishers, NEW f, held' = [held EXCEPT ![p] = f],
         UNCHANGED <<pc, msg, carried>>, NEW o \in Owners
  PROVE  /\ InFlight(o)' \subseteq InFlight(o) \cup {f.version}
         /\ f.owner # o => InFlight(o)' \subseteq InFlight(o)
<1>1. \A q \in Publishers : q # p => held'[q] = held[q]
  BY DEF SSETypeOK
<1>2. held'[p] = f
  BY DEF SSETypeOK
<1>3. \A q \in Publishers : Tells(msg[q])' = Tells(msg[q])
  BY DEF Tells
<1>. QED
  BY <1>1, <1>2, <1>3 DEF InFlight

LEMMA FlightStep == SSEInv /\ [SSENext]_sseVars => FlightIsFresh'
<1> SUFFICES ASSUME BusInv, SSETypeOK, Holders, NewestIsStaged, FlightIsFresh, [SSENext]_sseVars,
                    NEW o \in Owners
             PROVE  Settled(o)' => InFlight(o)' \subseteq Fresh(o)'
  BY DEF SSEInv, FlightIsFresh
<1>0. Settled(o) => InFlight(o) \subseteq Fresh(o)
  BY DEF FlightIsFresh
<1>a. /\ state \in [Owners -> Nat] /\ slot \in [Owners -> Nat] /\ late \in [Owners -> SUBSET Nat]
      /\ pushing \in Nat /\ outbox \in Seq(Nat) /\ queued \in Nat /\ held \in [Publishers -> Frames]
      /\ "status" \in Owners /\ "identity" \in Owners
  BY DEF SSETypeOK, Owners
<1>b. state[o] \in Fresh(o)
  BY <1>a DEF Fresh, NewestIsStaged
<1>1. ASSUME UNCHANGED <<held, msg, carried, state, queued, late, outbox>>,
             \A q \in Publishers : pc'[q] # "idle" => pc[q] # "idle"
      PROVE  Settled(o)' => InFlight(o)' \subseteq Fresh(o)'
  <2>1. InFlight(o)' \subseteq InFlight(o)
    BY <1>1 DEF InFlight, Tells
  <2>. QED
    BY <1>0, <1>1, <2>1, FreshKept DEF Settled
<1>2. ASSUME NEW p \in Publishers, PublishStep(p), UNCHANGED sse
      PROVE  Settled(o)' => InFlight(o)' \subseteq Fresh(o)'
  BY <1>1, <1>2, PublishStepFacts DEF sse, owners, told, BusInv
<1>3. CASE SetStatus
  <2>1. /\ state' = [state EXCEPT !["status"] = state["status"] + 1]
        /\ UNCHANGED <<held, msg, carried, queued, late, outbox, pc>>
    BY <1>3 DEF SetStatus, vars, calls, told
  <2>2. InFlight(o)' = InFlight(o)
    BY <2>1 DEF InFlight, Tells
  <2>3. Fresh(o) \subseteq Fresh(o)'
    <3>1. CASE o = "status"
      <4>1. state'[o] = state[o] + 1
        BY <1>a, <2>1, <3>1
      <4>. QED
        BY <1>a, <2>1, <3>1, <4>1 DEF Fresh
    <3>2. CASE o # "status"
      BY <1>a, <2>1, <3>2 DEF Fresh
    <3>. QED
      BY <3>1, <3>2
  <2>. QED
    BY <1>0, <2>1, <2>2, <2>3 DEF Settled
<1>4. CASE Push
  <2>1. /\ outbox' = Append(outbox, pushing)
        /\ UNCHANGED <<held, msg, carried, state, late, pc>>
    BY <1>4 DEF Push, vars, calls
  <2>2. outbox' # <<>>
    BY <1>a, <2>1, AppendProperties
  <2>3. InFlight(o)' = InFlight(o)
    BY <2>1 DEF InFlight, Tells
  <2>4. o # "status" => Fresh(o)' = Fresh(o)
    BY <2>1 DEF Fresh
  <2>. QED
    BY <1>0, <2>2, <2>3, <2>4 DEF Settled
<1>5. CASE GiveUp \/ ResetLog
  BY <1>1, <1>5 DEF GiveUp, ResetLog, vars, calls, told
<1>6. CASE TakeStatus
  <2> DEFINE f == Frame("status", Head(outbox))
  <2>1. f.owner = "status" /\ f.version = Head(outbox)
    BY FrameFacts
  <2> HIDE DEF f
  <2>2. /\ held' = [held EXCEPT ![Pipeline] = f] /\ outbox # <<>> /\ outbox' = Tail(outbox)
        /\ UNCHANGED <<msg, carried, state, queued, late, pc>>
        /\ pc[Pipeline] = "idle" /\ held[Pipeline] = NoFrame
    BY <1>6 DEF TakeStatus, Free, vars, calls, told, f
  <2>3. Fresh(o)' = Fresh(o)
    BY <2>2, FreshKept
  <2>4. CASE o # "status"
    <3>1. InFlight(o)' \subseteq InFlight(o)
      BY <2>1, <2>2, <2>4, FlightTaken, PipelineAssumption
    <3>. QED
      BY <1>0, <2>3, <2>4, <3>1 DEF Settled
  <2>5. CASE o = "status"
    <3>0. Settled(o)' => outbox' = <<>>
      BY <2>5 DEF Settled
    <3> SUFFICES ASSUME outbox' = <<>> PROVE InFlight(o)' \subseteq Fresh(o)
      BY <2>3, <3>0
    <3>1. InFlight(o) = {}
      <4>1. ASSUME NEW q \in Publishers PROVE held[q].owner # "status"
        BY <2>2, SpeaksFacts, FrameFacts DEF Holders
      <4>2. ASSUME NEW q \in Publishers, pc[q] # "idle" PROVE Tells(msg[q]).owner # "status"
        <5>1. msg[q].pub = q /\ msg[q].seq \in 1..MaxSent /\ q # Pipeline
          BY <2>2, <4>2, MsgInBounds
        <5>2. Tells(msg[q]).owner \in Speaks(q)
          BY <5>1 DEF Tells, Holders
        <5>. QED
          BY <5>1, <5>2, SpeaksFacts
      <4>. QED
        BY <2>5, <4>1, <4>2 DEF InFlight
    <3>2. f.version = queued
      <4>0. Len(outbox) \in Nat /\ Len(outbox') = Len(outbox) - 1
        BY <1>a, <2>2, HeadTailProperties, LenProperties
      <4>1. Len(outbox) \in Nat /\ Len(outbox') = Len(outbox) - 1 /\ Len(outbox') = 0
        BY <4>0
      <4>2. Len(outbox) = 1 /\ Head(outbox) = outbox[1]
        BY <1>a, <2>2, <4>1, HeadTailProperties
      <4>. QED
        BY <2>1, <2>2, <4>2 DEF NewestIsStaged
    <3>3. InFlight(o)' \subseteq {queued}
      BY <2>2, <3>1, <3>2, FlightTaken, PipelineAssumption
    <3>4. queued \in Fresh(o)
      BY <1>a, <2>5 DEF Fresh, NewestIsStaged
    <3>. QED
      BY <3>3, <3>4
  <2>. QED
    BY <2>4, <2>5
<1>7. CASE Demolish
  <2> DEFINE f == Frame("demolition", sent[Pipeline] + 1)
  <2>1. f.owner # o
    BY FrameFacts
  <2> HIDE DEF f
  <2>2. /\ held' = [held EXCEPT ![Pipeline] = f]
        /\ UNCHANGED <<msg, carried, state, queued, late, pc, outbox>>
    BY <1>7 DEF Demolish, vars, calls, told, f
  <2>3. InFlight(o)' \subseteq InFlight(o)
    BY <2>1, <2>2, FlightTaken, PipelineAssumption
  <2>. QED
    BY <1>0, <2>2, <2>3, FreshKept DEF Settled
<1>8. ASSUME NEW p \in Publishers, NEW q \in Owners, Alter(p, q)
      PROVE  Settled(o)' => InFlight(o)' \subseteq Fresh(o)'
  <2>1. /\ state' = [state EXCEPT ![q] = state[q] + 1] /\ late' = [late EXCEPT ![q] = InFlight(q)]
        /\ q \in Stages(p) /\ UNCHANGED <<held, msg, carried, queued, pc, outbox>>
    BY <1>8 DEF Alter, Change, vars, calls
  <2>2. InFlight(o)' = InFlight(o)
    BY <2>1 DEF InFlight, Tells
  <2>3. CASE o = q
    <3>1. o # "status"
      BY <2>1, <2>3, SpeaksFacts
    <3>2. late'[o] = InFlight(o)
      BY <1>a, <2>1, <2>3
    <3>. QED
      BY <2>2, <3>1, <3>2 DEF Fresh
  <2>4. CASE o # q
    <3>1. state'[o] = state[o] /\ late'[o] = late[o]
      BY <1>a, <2>1, <2>4
    <3>. QED
      BY <1>0, <2>1, <2>2, <3>1, FreshKept DEF Settled
  <2>. QED
    BY <2>3, <2>4
<1>9. ASSUME NEW p \in Publishers, NEW q \in Owners, Take(p, q)
      PROVE  Settled(o)' => InFlight(o)' \subseteq Fresh(o)'
  <2> DEFINE f == Frame(q, slot[q])
  <2>1. f.owner = q /\ f.version = slot[q]
    BY FrameFacts
  <2> HIDE DEF f
  <2>2. /\ held' = [held EXCEPT ![p] = f] /\ slot[q] # 0
        /\ UNCHANGED <<msg, carried, state, queued, late, pc, outbox>>
    BY <1>9 DEF Take, vars, calls, told, f
  <2>3. Fresh(o)' = Fresh(o)
    BY <2>2, FreshKept
  <2>4. f.owner = o => f.version \in Fresh(o)
    BY <1>b, <2>1, <2>2 DEF NewestIsStaged
  <2>5. InFlight(o)' \subseteq InFlight(o) \cup {f.version} /\ (f.owner # o => InFlight(o)' \subseteq InFlight(o))
    BY <2>2, FlightTaken
  <2>. QED
    BY <1>0, <2>2, <2>3, <2>4, <2>5 DEF Settled
<1>10. ASSUME NEW r \in Requests, Save(r)
       PROVE  Settled(o)' => InFlight(o)' \subseteq Fresh(o)'
  <2> DEFINE f == Frame("identity", state'["identity"])
  <2>1. f.owner = "identity" /\ f.version = state'["identity"]
    BY FrameFacts
  <2> HIDE DEF f
  <2>2. /\ state' = [state EXCEPT !["identity"] = state["identity"] + 1]
        /\ late' = [late EXCEPT !["identity"] = InFlight("identity")]
        /\ held' = [held EXCEPT ![r] = f]
        /\ UNCHANGED <<msg, carried, queued, pc, outbox>>
    BY <1>10 DEF Save, Change, vars, calls, f
  <2>3. InFlight(o)' \subseteq InFlight(o) \cup {f.version} /\ (f.owner # o => InFlight(o)' \subseteq InFlight(o))
    BY <2>2, FlightTaken DEF Requests
  <2>4. CASE o = "identity"
    <3>1. late'[o] = InFlight(o) /\ f.version = state'[o]
      BY <1>a, <2>1, <2>2, <2>4
    <3>2. Fresh(o)' = {state'[o]} \cup late'[o]
      BY <2>4 DEF Fresh
    <3>. QED
      BY <2>3, <3>1, <3>2
  <2>5. CASE o # "identity"
    <3>1. state'[o] = state[o] /\ late'[o] = late[o]
      BY <1>a, <2>2, <2>5
    <3>. QED
      BY <1>0, <2>1, <2>2, <2>3, <2>5, <3>1, FreshKept DEF Settled
  <2>. QED
    BY <2>4, <2>5
<1>11. ASSUME NEW p \in Publishers, Announce(p) \/ Other(p)
       PROVE  Settled(o)' => InFlight(o)' \subseteq Fresh(o)'
  <2>1. PICK kind \in Kinds :
          Publish(p, kind, held[p]) /\ held' = [held EXCEPT ![p] = NoFrame] /\ held[p] \in Frames
    BY <1>11, AnnounceFacts
  <2>2. /\ pc' = [pc EXCEPT ![p] = "snapshot"]
        /\ msg' = [msg EXCEPT ![p] = Event(p, sent[p] + 1, kind)] /\ Tells(msg[p])' = held[p]
        /\ \A q \in Publishers, n \in 1..MaxSent : n <= sent[q] => carried'[q][n] = carried[q][n]
        /\ UNCHANGED <<state, outbox, queued, late>>
    BY <2>1, PublishFacts
  <2>3. held'[p].owner # o
    BY <1>a, <2>1, FrameFacts
  <2>4. ASSUME NEW q \in Publishers, q # p
        PROVE  /\ held'[q] = held[q] /\ pc'[q] = pc[q]
               /\ pc[q] # "idle" => Tells(msg[q])' = Tells(msg[q])
    <3>1. held'[q] = held[q] /\ pc'[q] = pc[q] /\ msg'[q] = msg[q]
      BY <1>a, <2>1, <2>2, <2>4 DEF BusInv, BusTypeOK
    <3>2. sent[q] <= sent[q]
      BY DEF BusInv, BusTypeOK
    <3>3. pc[q] # "idle" => Tells(msg[q])' = Tells(msg[q])
      BY <2>2, <3>1, <3>2, MsgInBounds DEF Tells
    <3>. QED
      BY <3>1, <3>3
  <2>5. InFlight(o)' \subseteq InFlight(o)
    <3> SUFFICES ASSUME NEW v \in InFlight(o)' PROVE v \in InFlight(o)
      OBVIOUS
    <3>1. PICK q \in Publishers :
            \/ held'[q].owner = o /\ v = held'[q].version
            \/ pc'[q] # "idle" /\ Tells(msg[q])'.owner = o /\ v = Tells(msg[q])'.version
      BY DEF InFlight
    <3>2. CASE q = p
      <4>1. held[p].owner = o /\ v = held[p].version
        BY <2>2, <2>3, <3>1, <3>2
      <4>. QED
        BY <4>1 DEF InFlight
    <3>3. CASE q # p
      <4>1. \/ held[q].owner = o /\ v = held[q].version
            \/ pc[q] # "idle" /\ Tells(msg[q]).owner = o /\ v = Tells(msg[q]).version
        BY <2>4, <3>1, <3>3
      <4>. QED
        BY <4>1 DEF InFlight
    <3>. QED
      BY <3>2, <3>3
  <2>. QED
    BY <1>0, <2>2, <2>5, FreshKept DEF Settled
<1>12. ASSUME NEW s \in Subscribers, NEW filtered \in BOOLEAN, Connect(s, filtered)
       PROVE  Settled(o)' => InFlight(o)' \subseteq Fresh(o)'
  BY <1>1, <1>12 DEF Connect, Subscribe, owners, told, calls
<1>13. ASSUME NEW s \in Subscribers, NEW q \in Owners, Replay(s, q)
       PROVE  Settled(o)' => InFlight(o)' \subseteq Fresh(o)'
  BY <1>1, <1>13 DEF Replay, owners, told, vars, calls
<1>14. ASSUME NEW s \in Subscribers, ReplayLog(s) \/ Leave(s) \/ HangUp(s)
       PROVE  Settled(o)' => InFlight(o)' \subseteq Fresh(o)'
  BY <1>1, <1>14 DEF ReplayLog, Leave, Cancel, HangUp, owners, told, vars, calls
<1>15. ASSUME NEW s \in Subscribers, Forward(s)
       PROVE  Settled(o)' => InFlight(o)' \subseteq Fresh(o)'
  BY <1>1, <1>15 DEF Forward, Receive, owners, told, calls
<1>16. CASE UNCHANGED sseVars
  BY <1>1, <1>16 DEF sseVars, vars, calls, sse, owners, told
<1>. QED
  BY <1>2, <1>3, <1>4, <1>5, <1>6, <1>7, <1>8, <1>9, <1>10, <1>11, <1>12, <1>13, <1>14, <1>15, <1>16,
     SSECases
-----------------------------------------------------------------------------
(***************************************************************************)
(* The handler: what the client was told                                   *)
(***************************************************************************)
\* What s's channel, backlog and view say of o together survives a step that
\* leaves them alone and makes nothing of o stale.
LEMMA ToldAsBefore ==
  ASSUME NEW s, NEW o, chan'[s] = chan[s], unread'[s] = unread[s], view'[s][o] = view[s][o],
         \A i \in 1..Len(chan[s]) : Tells(chan[s][i])' = Tells(chan[s][i]),
         Fresh(o) \subseteq Fresh(o)',
         LastFrameTells(s, o), ViewTells(s, o)
  PROVE  LastFrameTells(s, o)' /\ ViewTells(s, o)'
<1>1. LastFrameTells(s, o)'
  BY DEF LastFrameTells
<1>2. ViewTells(s, o)'
  BY DEF ViewTells
<1>. QED
  BY <1>1, <1>2

\* The same if carried is left alone.
LEMMA ToldUntouched ==
  ASSUME NEW s, NEW o, chan'[s] = chan[s], unread'[s] = unread[s], view'[s][o] = view[s][o],
         carried' = carried, Fresh(o) \subseteq Fresh(o)', LastFrameTells(s, o), ViewTells(s, o)
  PROVE  LastFrameTells(s, o)' /\ ViewTells(s, o)'
<1>1. \A i \in 1..Len(chan[s]) : Tells(chan[s][i])' = Tells(chan[s][i])
  BY DEF Tells
<1>. QED
  BY <1>1, ToldAsBefore

\* Appending a fresh frame, or no frame of o, keeps s told.
LEMMA ToldByAppend ==
  ASSUME BusTypeOK, NEW s \in Subscribers, NEW o \in Owners, NEW e \in Events,
         chan'[s] = Append(chan[s], e), UNCHANGED <<unread, view, carried>>, Fresh(o)' = Fresh(o),
         Tells(e).owner = o => Tells(e).version \in Fresh(o),
         Tells(e).owner # o => LastFrameTells(s, o) /\ ViewTells(s, o)
  PROVE  LastFrameTells(s, o)' /\ ViewTells(s, o)'
<1> DEFINE n == Len(chan[s])
           IsFrame(x) == Tells(x).owner = o
<1>1. /\ chan[s] \in Seq(Events) /\ n \in Nat
      /\ Len(chan'[s]) = n + 1 /\ chan'[s][n + 1] = e
      /\ \A i \in 1..n : chan'[s][i] = chan[s][i]
  BY AppendProperties, LenProperties DEF BusTypeOK
<1>2. LastFrameTells(s, o)' <=>
        \A i \in 1..(n + 1) :
          IsFrame(chan'[s][i]) /\ (\A j \in (i + 1)..(n + 1) : ~IsFrame(chan'[s][j]))
          => Tells(chan'[s][i]).version \in Fresh(o)
  BY <1>1 DEF LastFrameTells, Tells
<1>3. ViewTells(s, o)' <=>
        (o \notin unread[s] /\ (\A i \in 1..(n + 1) : ~IsFrame(chan'[s][i])) => view[s][o] \in Fresh(o))
  BY <1>1 DEF ViewTells, Tells
<1>4. LastFrameTells(s, o) <=>
        \A i \in 1..n :
          IsFrame(chan[s][i]) /\ (\A j \in (i + 1)..n : ~IsFrame(chan[s][j]))
          => Tells(chan[s][i]).version \in Fresh(o)
  BY DEF LastFrameTells
<1>5. ViewTells(s, o) <=>
        (o \notin unread[s] /\ (\A i \in 1..n : ~IsFrame(chan[s][i])) => view[s][o] \in Fresh(o))
  BY DEF ViewTells
<1>6. IsFrame(e) => Tells(e).version \in Fresh(o)
  OBVIOUS
<1>7. ~IsFrame(e) => LastFrameTells(s, o) /\ ViewTells(s, o)
  OBVIOUS
<1> HIDE DEF n, IsFrame
<1>8. CASE IsFrame(e)
  <2>1. LastFrameTells(s, o)'
    <3> SUFFICES ASSUME NEW i \in 1..(n + 1), IsFrame(chan'[s][i]),
                        \A j \in (i + 1)..(n + 1) : ~IsFrame(chan'[s][j])
                 PROVE  Tells(chan'[s][i]).version \in Fresh(o)
      BY <1>2
    <3>1. i = n + 1
      <4>1. IsFrame(chan'[s][n + 1])
        BY <1>1, <1>8
      <4>2. n + 1 \notin (i + 1)..(n + 1)
        BY <4>1
      <4>3. n \in Nat
        BY <1>1
      <4>. QED
        BY <4>2, <4>3
    <3>. QED
      BY <1>1, <1>6, <1>8, <3>1
  <2>2. ViewTells(s, o)'
    <3>1. n + 1 \in 1..(n + 1) /\ IsFrame(chan'[s][n + 1])
      BY <1>1, <1>8
    <3>. QED
      BY <1>3, <3>1
  <2>. QED
    BY <2>1, <2>2
<1>9. CASE ~IsFrame(e)
  <2>1. LastFrameTells(s, o)'
    <3> SUFFICES ASSUME NEW i \in 1..(n + 1), IsFrame(chan'[s][i]),
                        \A j \in (i + 1)..(n + 1) : ~IsFrame(chan'[s][j])
                 PROVE  Tells(chan'[s][i]).version \in Fresh(o)
      BY <1>2
    <3>1. i \in 1..n
      BY <1>1, <1>9
    <3>2. \A j \in (i + 1)..n : ~IsFrame(chan[s][j])
      BY <1>1, <3>1
    <3>. QED
      BY <1>1, <1>4, <1>7, <1>9, <3>1, <3>2
  <2>2. ViewTells(s, o)'
    <3> SUFFICES ASSUME o \notin unread[s], \A i \in 1..(n + 1) : ~IsFrame(chan'[s][i])
                 PROVE  view[s][o] \in Fresh(o)
      BY <1>3
    <3>1. \A i \in 1..n : ~IsFrame(chan[s][i])
      BY <1>1
    <3>. QED
      BY <1>5, <1>7, <1>9, <3>1
  <2>. QED
    BY <2>1, <2>2
<1>. QED
  BY <1>8, <1>9

\* Taking the head, and telling the client if it is a frame, keeps s told.
LEMMA ToldByTail ==
  ASSUME BusTypeOK, NEW s \in Subscribers, NEW o \in Owners,
         chan[s] # <<>>, chan'[s] = Tail(chan[s]), unread[s] = {}, UNCHANGED <<unread, carried>>,
         Fresh(o)' = Fresh(o),
         view'[s][o] = IF Tells(Head(chan[s])).owner = o THEN Tells(Head(chan[s])).version ELSE view[s][o],
         LastFrameTells(s, o), ViewTells(s, o)
  PROVE  LastFrameTells(s, o)' /\ ViewTells(s, o)'
<1> DEFINE n == Len(chan[s])
           IsFrame(x) == Tells(x).owner = o
<1>1. /\ chan[s] \in Seq(Events) /\ n \in Nat /\ n > 0
      /\ Head(chan[s]) = chan[s][1]
      /\ Len(chan'[s]) = n - 1
      /\ \A i \in 1..(n - 1) : chan'[s][i] = chan[s][i + 1]
  BY HeadTailProperties, EmptySeq, LenProperties DEF BusTypeOK
<1>2. LastFrameTells(s, o)' <=>
        \A i \in 1..(n - 1) :
          IsFrame(chan'[s][i]) /\ (\A j \in (i + 1)..(n - 1) : ~IsFrame(chan'[s][j]))
          => Tells(chan'[s][i]).version \in Fresh(o)
  BY <1>1 DEF LastFrameTells, Tells
<1>3. ViewTells(s, o)' <=>
        (o \notin unread[s] /\ (\A i \in 1..(n - 1) : ~IsFrame(chan'[s][i])) => view'[s][o] \in Fresh(o))
  BY <1>1 DEF ViewTells, Tells
<1>4. \A i \in 1..n :
          IsFrame(chan[s][i]) /\ (\A j \in (i + 1)..n : ~IsFrame(chan[s][j]))
          => Tells(chan[s][i]).version \in Fresh(o)
  BY DEF LastFrameTells
<1>5. (\A i \in 1..n : ~IsFrame(chan[s][i])) => view[s][o] \in Fresh(o)
  BY DEF ViewTells
<1>6. view'[s][o] = IF IsFrame(Head(chan[s])) THEN Tells(Head(chan[s])).version ELSE view[s][o]
  OBVIOUS
<1> HIDE DEF n, IsFrame
<1>7. LastFrameTells(s, o)'
  <2> SUFFICES ASSUME NEW i \in 1..(n - 1), IsFrame(chan'[s][i]),
                      \A j \in (i + 1)..(n - 1) : ~IsFrame(chan'[s][j])
               PROVE  Tells(chan'[s][i]).version \in Fresh(o)
    BY <1>2
  <2>1. i + 1 \in 1..n /\ chan'[s][i] = chan[s][i + 1]
    BY <1>1
  <2>2. \A j \in (i + 2)..n : ~IsFrame(chan[s][j])
    <3> SUFFICES ASSUME NEW j \in (i + 2)..n PROVE ~IsFrame(chan[s][j])
      OBVIOUS
    <3>1. j - 1 \in (i + 1)..(n - 1) /\ j - 1 \in 1..(n - 1) /\ (j - 1) + 1 = j
      BY <1>1
    <3>. QED
      BY <1>1, <3>1
  <2>3. (i + 1) + 1 = i + 2
    OBVIOUS
  <2>. QED
    BY <1>4, <2>1, <2>2, <2>3
<1>8. ViewTells(s, o)'
  <2> SUFFICES ASSUME \A i \in 1..(n - 1) : ~IsFrame(chan'[s][i])
               PROVE  view'[s][o] \in Fresh(o)
    BY <1>3
  <2>1. \A j \in 2..n : ~IsFrame(chan[s][j])
    <3> SUFFICES ASSUME NEW j \in 2..n PROVE ~IsFrame(chan[s][j])
      OBVIOUS
    <3>1. j - 1 \in 1..(n - 1) /\ (j - 1) + 1 = j
      BY <1>1
    <3>. QED
      BY <1>1, <3>1
  <2>2. CASE IsFrame(Head(chan[s]))
    <3>1. 1 \in 1..n /\ IsFrame(chan[s][1]) /\ \A j \in (1 + 1)..n : ~IsFrame(chan[s][j])
      BY <1>1, <2>1, <2>2
    <3>2. Tells(chan[s][1]).version \in Fresh(o)
      BY <1>4, <3>1
    <3>. QED
      BY <1>1, <1>6, <2>2, <3>2
  <2>3. CASE ~IsFrame(Head(chan[s]))
    <3>1. \A j \in 1..n : ~IsFrame(chan[s][j])
      BY <1>1, <2>1, <2>3
    <3>. QED
      BY <1>5, <1>6, <2>3, <3>1
  <2>. QED
    BY <2>2, <2>3
<1>. QED
  BY <1>7, <1>8

\* What an owner's own step leaves untold, if anything.
LEMMA OwnersOwe ==
  ASSUME SSETypeOK, NewestIsStaged, NEW o \in Owners, ~Untold(o)',
         \/ SetStatus \/ Push \/ GiveUp \/ TakeStatus \/ Demolish \/ ResetLog
         \/ \E p \in Publishers, q \in Owners : Alter(p, q) \/ Take(p, q)
         \/ \E r \in Requests : Save(r)
  PROVE  ~Untold(o) /\ Fresh(o) \subseteq Fresh(o)' /\ UNCHANGED <<vars, unread, view, carried>>
<1>0. /\ state \in [Owners -> Nat] /\ slot \in [Owners -> Nat] /\ late \in [Owners -> SUBSET Nat]
      /\ pushing \in Nat /\ outbox \in Seq(Nat) /\ queued \in Nat /\ held \in [Publishers -> Frames]
      /\ "status" \in Owners /\ "identity" \in Owners
  BY DEF SSETypeOK, Owners
<1>a. /\ slot'[o] = 0 /\ (o = "status" => outbox' = <<>>)
      /\ \A p \in Publishers : held'[p].owner # o
  BY DEF Untold
<1>1. ASSUME UNCHANGED <<vars, slot, outbox, held, state, queued, late, unread, view, carried>>
      PROVE  ~Untold(o) /\ Fresh(o) \subseteq Fresh(o)' /\ UNCHANGED <<vars, unread, view, carried>>
  BY <1>1, FreshKept DEF Untold
<1>2. CASE GiveUp \/ ResetLog
  BY <1>1, <1>2 DEF GiveUp, ResetLog, clients, told
<1>3. CASE SetStatus
  <2>1. /\ state' = [state EXCEPT !["status"] = state["status"] + 1]
        /\ UNCHANGED <<vars, slot, outbox, held, queued, late, unread, view, carried>>
    BY <1>3 DEF SetStatus, clients, told
  <2>2. ~Untold(o)
    BY <2>1 DEF Untold
  <2>3. CASE o = "status"
    <3>1. state'[o] = state[o] + 1
      BY <1>0, <2>1, <2>3
    <3>. QED
      BY <1>0, <2>1, <2>2, <2>3, <3>1 DEF Fresh
  <2>4. CASE o # "status"
    BY <1>0, <2>1, <2>2, <2>4 DEF Fresh
  <2>. QED
    BY <2>3, <2>4
<1>4. CASE Push
  <2>1. /\ outbox' = Append(outbox, pushing)
        /\ UNCHANGED <<vars, slot, held, state, late, unread, view, carried>>
    BY <1>4 DEF Push, clients
  <2>2. o # "status"
    BY <1>0, <1>a, <2>1, AppendProperties
  <2>. QED
    BY <2>1, <2>2 DEF Untold, Fresh
<1>5. CASE TakeStatus
  <2>1. /\ held' = [held EXCEPT ![Pipeline] = Frame("status", Head(outbox))]
        /\ held[Pipeline] = NoFrame
        /\ UNCHANGED <<vars, slot, state, queued, late, unread, view, carried>>
    BY <1>5 DEF TakeStatus, Free, clients, told
  <2>2. held'[Pipeline].owner = "status"
    BY <1>0, <2>1, PipelineAssumption, FrameFacts
  <2>3. o # "status"
    BY <1>a, <2>2, PipelineAssumption
  <2>4. \A p \in Publishers : held[p].owner # o
    BY <1>0, <1>a, <2>1, FrameFacts
  <2>5. ~Untold(o)
    BY <1>a, <2>1, <2>3, <2>4 DEF Untold
  <2>. QED
    BY <2>1, <2>5, FreshKept
<1>6. CASE Demolish
  <2>1. /\ held' = [held EXCEPT ![Pipeline] = Frame("demolition", sent[Pipeline] + 1)]
        /\ held[Pipeline] = NoFrame
        /\ UNCHANGED <<vars, slot, outbox, state, queued, late, unread, view, carried>>
    BY <1>6 DEF Demolish, Free, clients, told
  <2>2. \A p \in Publishers : held[p].owner # o
    BY <1>0, <1>a, <2>1, FrameFacts
  <2>3. ~Untold(o)
    BY <1>a, <2>1, <2>2 DEF Untold
  <2>. QED
    BY <2>1, <2>3, FreshKept
<1>7. ASSUME NEW p \in Publishers, NEW q \in Owners, Alter(p, q)
      PROVE  ~Untold(o) /\ Fresh(o) \subseteq Fresh(o)' /\ UNCHANGED <<vars, unread, view, carried>>
  <2>1. /\ state' = [state EXCEPT ![q] = state[q] + 1] /\ slot' = [slot EXCEPT ![q] = state'[q]]
        /\ late' = [late EXCEPT ![q] = InFlight(q)]
        /\ UNCHANGED <<vars, outbox, held, queued, unread, view, carried>>
    BY <1>7 DEF Alter, Change, clients
  <2>2. slot'[q] = state[q] + 1 /\ slot'[q] # 0
    BY <1>0, <2>1
  <2>3. o # q
    BY <1>a, <2>2
  <2>4. slot'[o] = slot[o] /\ state'[o] = state[o] /\ late'[o] = late[o]
    BY <1>0, <2>1, <2>3
  <2>5. ~Untold(o)
    BY <1>a, <2>1, <2>4 DEF Untold
  <2>. QED
    BY <2>1, <2>4, <2>5, FreshKept
<1>8. ASSUME NEW p \in Publishers, NEW q \in Owners, Take(p, q)
      PROVE  ~Untold(o) /\ Fresh(o) \subseteq Fresh(o)' /\ UNCHANGED <<vars, unread, view, carried>>
  <2>1. /\ held' = [held EXCEPT ![p] = Frame(q, slot[q])] /\ slot' = [slot EXCEPT ![q] = 0]
        /\ held[p] = NoFrame
        /\ UNCHANGED <<vars, outbox, state, queued, late, unread, view, carried>>
    BY <1>8 DEF Take, Free, clients, told
  <2>2. held'[p].owner = q
    BY <1>0, <2>1, FrameFacts
  <2>3. o # q
    BY <1>a, <2>2
  <2>4. slot'[o] = slot[o] /\ \A r \in Publishers : held[r].owner # o
    BY <1>0, <1>a, <2>1, <2>3, FrameFacts
  <2>5. ~Untold(o)
    BY <1>a, <2>1, <2>4 DEF Untold
  <2>. QED
    BY <2>1, <2>5, FreshKept
<1>9. ASSUME NEW r \in Requests, Save(r)
      PROVE  ~Untold(o) /\ Fresh(o) \subseteq Fresh(o)' /\ UNCHANGED <<vars, unread, view, carried>>
  <2>1. /\ state' = [state EXCEPT !["identity"] = state["identity"] + 1]
        /\ late' = [late EXCEPT !["identity"] = InFlight("identity")]
        /\ held' = [held EXCEPT ![r] = Frame("identity", state'["identity"])] /\ held[r] = NoFrame
        /\ UNCHANGED <<vars, slot, outbox, queued, unread, view, carried>>
    BY <1>9 DEF Save, Change, Free, clients
  <2>2. held'[r].owner = "identity" /\ r \in Publishers
    BY <1>0, <2>1, FrameFacts DEF Requests
  <2>3. o # "identity"
    BY <1>a, <2>2
  <2>4. state'[o] = state[o] /\ late'[o] = late[o] /\ \A q \in Publishers : held[q].owner # o
    BY <1>0, <1>a, <2>1, <2>3, FrameFacts
  <2>5. ~Untold(o)
    BY <1>a, <2>1, <2>4 DEF Untold
  <2>. QED
    BY <2>1, <2>4, <2>5, FreshKept
<1>. QED
  BY <1>2, <1>3, <1>4, <1>5, <1>6, <1>7, <1>8, <1>9

LEMMA ToldStep == SSEInv /\ [SSENext]_sseVars => Told'
<1> SUFFICES ASSUME SSEInv, [SSENext]_sseVars PROVE Told'
  OBVIOUS
<1>0. /\ BusInv /\ BusTypeOK /\ Registered /\ InTurn /\ SSETypeOK /\ Holders /\ SentBefore
      /\ NewestIsStaged /\ FlightIsFresh /\ Told /\ HandlerFollows
  BY DEF SSEInv, BusInv
<1> USE DEF registry, calls, observer, clients
\* It is enough to look at what is not owed after the step.
<1>1. ASSUME \A s \in subs', o \in Owners : ~Owed(s, o)' => LastFrameTells(s, o)' /\ ViewTells(s, o)'
      PROVE  Told'
  BY <1>1 DEF Told
\* What was not owed before it either, and that the step does not touch, is told.
<1>2. ASSUME NEW s \in subs, NEW o \in Owners, ~Owed(s, o), chan'[s] = chan[s], unread'[s] = unread[s],
             view'[s][o] = view[s][o], carried' = carried, Fresh(o) \subseteq Fresh(o)'
      PROVE  LastFrameTells(s, o)' /\ ViewTells(s, o)'
  BY <1>0, <1>2, ToldUntouched DEF Told
<1>3. ASSUME NEW o \in Owners, UNCHANGED sse PROVE Fresh(o)' = Fresh(o) /\ (Untold(o)' <=> Untold(o))
  BY <1>3 DEF sse, owners, told, Fresh, Untold
<1>4. ASSUME \/ SetStatus \/ Push \/ GiveUp \/ TakeStatus \/ Demolish \/ ResetLog
             \/ \E p \in Publishers, q \in Owners : Alter(p, q) \/ Take(p, q)
             \/ \E r \in Requests : Save(r)
      PROVE  Told'
  <2> SUFFICES ASSUME NEW s \in subs', NEW o \in Owners, ~Owed(s, o)'
               PROVE  LastFrameTells(s, o)' /\ ViewTells(s, o)'
    BY <1>1
  <2>1. ~Untold(o)'
    BY DEF Owed
  <2>2. ~Untold(o) /\ Fresh(o) \subseteq Fresh(o)' /\ UNCHANGED <<vars, unread, view, carried>>
    BY <1>0, <1>4, <2>1, OwnersOwe
  <2>3. s \in subs /\ ~Owed(s, o)
    BY <2>2 DEF Owed, Due, Tells, vars
  <2>. QED
    BY <1>2, <2>2, <2>3 DEF vars
<1>5. ASSUME NEW p \in Publishers, Announce(p) \/ Other(p) PROVE Told'
  <2>1. PICK kind \in Kinds :
          Publish(p, kind, held[p]) /\ held' = [held EXCEPT ![p] = NoFrame] /\ held[p] \in Frames
    BY <1>0, <1>5, AnnounceFacts
  <2>2. /\ pc[p] = "idle" /\ pc' = [pc EXCEPT ![p] = "snapshot"]
        /\ msg' = [msg EXCEPT ![p] = Event(p, sent[p] + 1, kind)] /\ Tells(msg[p])' = held[p]
        /\ \A q \in Publishers, n \in 1..MaxSent : n <= sent[q] => carried'[q][n] = carried[q][n]
        /\ UNCHANGED <<state, slot, outbox, queued, late, handler, unread, view, subs, chan, dst, slow>>
    BY <1>0, <2>1, PublishFacts
  <2> SUFFICES ASSUME NEW s \in subs', NEW o \in Owners, ~Owed(s, o)'
               PROVE  LastFrameTells(s, o)' /\ ViewTells(s, o)'
    BY <1>1
  <2>3. s \in subs /\ s \in Subscribers
    BY <1>0, <2>2 DEF BusTypeOK
  <2>4. held[p].owner # o
    BY <1>0, <2>2 DEF Owed, Due, BusTypeOK
  <2>5. ASSUME NEW q \in Publishers, q # p
        PROVE  /\ held'[q] = held[q]
               /\ Due(s, q) => Due(s, q)' /\ Tells(msg[q])' = Tells(msg[q])
    <3>1. held'[q] = held[q] /\ pc'[q] = pc[q] /\ msg'[q] = msg[q]
      BY <1>0, <2>1, <2>2, <2>5 DEF SSETypeOK, BusTypeOK
    <3>2. Due(s, q) => pc[q] # "idle"
      BY <1>0 DEF Due, InTurn
    <3>3. sent[q] <= sent[q]
      BY <1>0 DEF BusTypeOK
    <3>4. pc[q] # "idle" => Tells(msg[q])' = Tells(msg[q])
      BY <1>0, <2>2, <3>1, <3>3, MsgInBounds DEF Tells
    <3>. QED
      BY <2>2, <3>1, <3>2, <3>4 DEF Due
  <2>6. ~Untold(o)
    <3>1. ~Untold(o)'
      BY DEF Owed
    <3>2. \A q \in Publishers : held[q].owner # o
      BY <2>4, <2>5, <3>1 DEF Untold
    <3>. QED
      BY <2>2, <3>1, <3>2 DEF Untold
  <2>7. ~Due(s, p)
    BY <1>0, <2>2 DEF Due, InTurn
  <2>8. ~Owed(s, o)
    BY <2>5, <2>6, <2>7 DEF Owed
  <2>9. \A i \in 1..Len(chan[s]) : Tells(chan[s][i])' = Tells(chan[s][i])
    <3> TAKE i \in 1..Len(chan[s])
    <3>1. chan[s][i] \in Events
      BY <1>0, <2>3, ElementOfSeq DEF BusTypeOK
    <3>2. chan[s][i].pub \in Publishers /\ chan[s][i].seq \in 1..MaxSent
      BY <3>1 DEF Events
    <3>3. chan[s][i].seq <= sent[chan[s][i].pub]
      BY <1>0, <2>3 DEF SentBefore
    <3>. QED
      BY <2>2, <3>2, <3>3 DEF Tells
  <2>10. LastFrameTells(s, o) /\ ViewTells(s, o)
    BY <1>0, <2>3, <2>8 DEF Told
  <2>11. Fresh(o)' = Fresh(o)
    BY <2>2, FreshKept
  <2>. QED
    BY <2>2, <2>9, <2>10, <2>11, ToldAsBefore
<1>6. ASSUME NEW p \in Publishers, Snapshot(p), UNCHANGED sse PROVE Told'
  <2> SUFFICES ASSUME NEW s \in subs', NEW o \in Owners, ~Owed(s, o)'
               PROVE  LastFrameTells(s, o)' /\ ViewTells(s, o)'
    BY <1>1
  <2>1. s \in subs /\ UNCHANGED <<subs, chan, unread, view, carried, msg, slow>>
    BY <1>6 DEF Snapshot, sse, told
  <2>2. \A q \in Publishers : Due(s, q) => Due(s, q)'
    BY <1>0, <1>6, <2>1 DEF Snapshot, Goto, Due, BusTypeOK
  <2>3. ~Owed(s, o)
    BY <1>3, <1>6, <2>1, <2>2 DEF Owed, Tells
  <2>. QED
    BY <1>2, <1>3, <1>6, <2>1, <2>3
<1>7. ASSUME NEW p \in Publishers, NEW s \in Subscribers, Deliver(p, s), UNCHANGED sse PROVE Told'
  <2> SUFFICES ASSUME NEW t \in subs', NEW o \in Owners, ~Owed(t, o)'
               PROVE  LastFrameTells(t, o)' /\ ViewTells(t, o)'
    BY <1>1
  <2>1. /\ t \in subs /\ t \in Subscribers /\ UNCHANGED <<unread, view, carried, msg, pc, slow>>
        /\ dst' = [dst EXCEPT ![p] = @ \ {s}]
        /\ chan' = [chan EXCEPT ![s] = Append(chan[s], msg[p])]
    BY <1>0, <1>7 DEF Deliver, Serve, BusTypeOK, sse, told
  <2>2. ~Untold(o) /\ Fresh(o)' = Fresh(o)
    BY <1>3, <1>7 DEF Owed
  <2>3. \A q \in Publishers : ~(t = s /\ q = p) => (Due(t, q) => Due(t, q)')
    BY <1>0, <2>1 DEF Due, BusTypeOK
  <2>4. \A q \in Publishers : Due(t, q)' => Tells(msg[q]).owner # o
    BY <2>1 DEF Owed, Tells
  <2>5. CASE t = s
    <3>1. chan'[s] = Append(chan[s], msg[p])
      BY <1>0, <2>1 DEF BusTypeOK
    <3>2. pc[p] # "idle"
      BY <1>7 DEF Deliver, Serve
    <3>3. msg[p] \in Events
      BY <1>0, <3>2, MsgInBounds
    <3>4. Settled(o)
      BY <2>2 DEF Untold, Settled
    <3>5. Tells(msg[p]).owner = o => Tells(msg[p]).version \in Fresh(o)
      BY <1>0, <3>2, <3>4 DEF FlightIsFresh, InFlight
    <3>6. Tells(msg[p]).owner # o => ~Owed(s, o)
      BY <2>2, <2>3, <2>4, <2>5 DEF Owed
    <3>7. Tells(msg[p]).owner # o => LastFrameTells(s, o) /\ ViewTells(s, o)
      BY <1>0, <2>1, <2>5, <3>6 DEF Told
    <3>. QED
      BY <1>0, <2>1, <2>2, <2>5, <3>1, <3>3, <3>5, <3>7, ToldByAppend
  <2>6. CASE t # s
    <3>1. chan'[t] = chan[t]
      BY <1>0, <2>1, <2>6 DEF BusTypeOK
    <3>2. ~Owed(t, o)
      BY <2>2, <2>3, <2>4, <2>6 DEF Owed
    <3>. QED
      BY <1>2, <2>1, <2>2, <3>1, <3>2
  <2>. QED
    BY <2>5, <2>6
<1>8. ASSUME NEW p \in Publishers, NEW s \in Subscribers, Serve(p, s), chan' = chan, UNCHANGED sse,
             \/ s \in subs => Declines(s, msg[p])
             \/ slow' = [slow EXCEPT ![p] = @ \cup {s}],
             slow' = slow \/ slow' = [slow EXCEPT ![p] = @ \cup {s}]
      PROVE  Told'
  <2> SUFFICES ASSUME NEW t \in subs', NEW o \in Owners, ~Owed(t, o)'
               PROVE  LastFrameTells(t, o)' /\ ViewTells(t, o)'
    BY <1>1
  <2>1. t \in subs /\ UNCHANGED <<chan, unread, view, carried, msg, pc>> /\ dst' = [dst EXCEPT ![p] = @ \ {s}]
    BY <1>8 DEF Serve, sse, told
  <2>2. pc[p] # "idle"
    BY <1>8 DEF Serve
  <2>3. ASSUME NEW q \in Publishers, Due(t, q), Tells(msg[q]).owner = o PROVE Due(t, q)'
    <3>1. CASE t = s /\ q = p
      <4>1. msg[p].kind = "framing"
        BY <1>0, <2>2, <2>3, <3>1 DEF Holders
      <4>2. slow' = [slow EXCEPT ![p] = @ \cup {s}]
        BY <1>8, <2>1, <3>1, <4>1 DEF Declines
      <4>. QED
        BY <1>0, <3>1, <4>2 DEF Due, BusTypeOK
    <3>2. CASE ~(t = s /\ q = p)
      <4>1. t \in dst[q] => t \in dst'[q]
        <5>1. dst \in [Publishers -> SUBSET Subscribers]
          BY <1>0 DEF BusTypeOK
        <5>. QED
          BY <2>1, <3>2, <5>1
      <4>2. t \in slow[q] => t \in slow'[q]
        BY <1>0, <1>8 DEF BusTypeOK
      <4>. QED
        BY <2>1, <2>3, <4>1, <4>2 DEF Due
    <3>. QED
      BY <3>1, <3>2
  <2>4. ~Owed(t, o)
    BY <1>3, <1>8, <2>1, <2>3 DEF Owed, Tells
  <2>. QED
    BY <1>2, <1>3, <1>8, <2>1, <2>4
<1>9. ASSUME NEW p \in Publishers, Finish(p), UNCHANGED sse PROVE Told'
  <2> SUFFICES ASSUME NEW s \in subs', NEW o \in Owners, ~Owed(s, o)'
               PROVE  LastFrameTells(s, o)' /\ ViewTells(s, o)'
    BY <1>1
  <2>1. s \in subs /\ s \notin slow[p] /\ UNCHANGED <<chan, unread, view, carried, msg, dst>>
    BY <1>9 DEF Finish, Remove, sse, told
  <2>2. ASSUME NEW q \in Publishers, Due(s, q) PROVE Due(s, q)'
    <3>1. CASE q = p
      BY <1>9, <2>1, <2>2, <3>1 DEF Finish, Due
    <3>2. CASE q # p
      BY <1>0, <1>9, <2>1, <2>2, <3>2 DEF Finish, Goto, Due, BusTypeOK
    <3>. QED
      BY <3>1, <3>2
  <2>3. ~Owed(s, o)
    BY <1>3, <1>9, <2>1, <2>2 DEF Owed, Tells
  <2>. QED
    BY <1>2, <1>3, <1>9, <2>1, <2>3
<1>10. ASSUME NEW p \in Publishers, PublishStep(p), UNCHANGED sse PROVE Told'
  <2>1. ASSUME NEW s \in Subscribers,
               Decline(p, s) \/ SkipClosed(p, s) \/ SendOnClosed(p, s) \/ MarkSlow(p, s)
        PROVE  Told'
    <3>1. /\ Serve(p, s) /\ chan' = chan
          /\ \/ s \in subs => Declines(s, msg[p])
             \/ slow' = [slow EXCEPT ![p] = @ \cup {s}]
          /\ slow' = slow \/ slow' = [slow EXCEPT ![p] = @ \cup {s}]
      BY <1>0, <2>1 DEF Decline, SkipClosed, SendOnClosed, MarkSlow, BusTypeOK
    <3>. QED
      BY <1>8, <1>10, <3>1
  <2>. QED
    BY <1>6, <1>7, <1>9, <1>10, <2>1 DEF PublishStep, SendStep
<1>11. ASSUME UNCHANGED <<pc, msg, dst, slow, owners, told>>
       PROVE  /\ \A o \in Owners : Fresh(o)' = Fresh(o)
              /\ \A s, o : Owed(s, o)' <=> Owed(s, o)
  BY <1>11 DEF Owed, Due, Untold, Tells, owners, told, Fresh
<1>12. ASSUME UNCHANGED <<pc, msg, dst, slow, owners, told, chan>>, subs' \subseteq subs,
              \A s \in subs' : unread'[s] = unread[s] /\ view'[s] = view[s]
       PROVE  Told'
  <2> SUFFICES ASSUME NEW s \in subs', NEW o \in Owners, ~Owed(s, o)'
               PROVE  LastFrameTells(s, o)' /\ ViewTells(s, o)'
    BY <1>1
  <2>1. carried' = carried
    BY <1>12 DEF told
  <2>2. s \in subs /\ ~Owed(s, o) /\ Fresh(o) \subseteq Fresh(o)'
    BY <1>11, <1>12
  <2>. QED
    BY <1>2, <1>12, <2>1, <2>2
<1>13. ASSUME NEW s \in Subscribers, NEW filtered \in BOOLEAN, Connect(s, filtered) PROVE Told'
  <2> SUFFICES ASSUME NEW t \in subs', NEW o \in Owners, ~Owed(t, o)'
               PROVE  LastFrameTells(t, o)' /\ ViewTells(t, o)'
    BY <1>1
  <2>1. UNCHANGED <<pc, msg, dst, slow, chan, unread, view, owners, told>> /\ subs' = subs \cup {s}
    BY <1>13 DEF Connect, Subscribe
  <2>2. CASE t = s
    <3>1. chan[s] = <<>> /\ unread[s] = Owners
      BY <1>0, <1>13 DEF Connect, Subscribe, Registered, HandlerFollows
    <3>2. Len(chan'[t]) = 0
      BY <2>1, <2>2, <3>1
    <3>. QED
      BY <2>1, <2>2, <3>1, <3>2 DEF LastFrameTells, ViewTells
  <2>3. CASE t # s
    <3>1. t \in subs /\ ~Owed(t, o) /\ Fresh(o)' = Fresh(o)
      BY <1>11, <2>1, <2>3
    <3>2. carried' = carried
      BY <2>1 DEF told
    <3>. QED
      BY <1>2, <2>1, <3>1, <3>2
  <2>. QED
    BY <2>2, <2>3
<1>14. ASSUME NEW s \in Subscribers, NEW q \in Owners, Replay(s, q) PROVE Told'
  <2> SUFFICES ASSUME NEW t \in subs', NEW o \in Owners, ~Owed(t, o)'
               PROVE  LastFrameTells(t, o)' /\ ViewTells(t, o)'
    BY <1>1
  <2>1. /\ UNCHANGED <<pc, msg, dst, slow, chan, owners, told, subs>>
        /\ view' = [view EXCEPT ![s][q] = state[q]] /\ unread' = [unread EXCEPT ![s] = @ \ {q}]
    BY <1>14 DEF Replay, vars
  <2>2. t \in subs /\ t \in Subscribers /\ ~Owed(t, o) /\ Fresh(o)' = Fresh(o) /\ carried' = carried
    BY <1>0, <1>11, <2>1 DEF BusTypeOK, told
  <2>3. LastFrameTells(t, o) /\ ViewTells(t, o)
    BY <1>0, <2>2 DEF Told
  <2>4. LastFrameTells(t, o)'
    BY <2>1, <2>2, <2>3 DEF LastFrameTells, Tells
  <2>5. ViewTells(t, o)'
    <3>1. CASE t = s /\ o = q
      <4>1. view'[t][o] = state[o]
        BY <1>0, <2>1, <2>2, <3>1 DEF SSETypeOK
      <4>2. state[o] \in Fresh(o)
        BY <1>0 DEF Fresh, NewestIsStaged, SSETypeOK
      <4>. QED
        BY <2>2, <4>1, <4>2 DEF ViewTells
    <3>2. CASE ~(t = s /\ o = q)
      <4>1. view'[t][o] = view[t][o]
        BY <1>0, <2>1, <2>2, <3>2 DEF SSETypeOK
      <4>2. o \in unread[t] => o \in unread'[t]
        BY <1>0, <2>1, <2>2, <3>2 DEF SSETypeOK
      <4>. QED
        BY <2>1, <2>2, <2>3, <4>1, <4>2 DEF ViewTells, Tells
    <3>. QED
      BY <3>1, <3>2
  <2>. QED
    BY <2>4, <2>5
<1>15. ASSUME NEW s \in Subscribers, Forward(s) PROVE Told'
  <2> SUFFICES ASSUME NEW t \in subs', NEW o \in Owners, ~Owed(t, o)'
               PROVE  LastFrameTells(t, o)' /\ ViewTells(t, o)'
    BY <1>1
  <2> DEFINE f == Tells(Head(chan[s]))
  <2>1. /\ UNCHANGED <<pc, msg, dst, slow, owners, told, unread, subs>>
        /\ chan[s] # <<>> /\ chan' = [chan EXCEPT ![s] = Tail(chan[s])]
        /\ view' = IF f.owner \in Owners THEN [view EXCEPT ![s][f.owner] = f.version] ELSE view
    BY <1>15 DEF Forward, Receive
  <2>2. /\ t \in subs /\ t \in Subscribers /\ ~Owed(t, o) /\ Fresh(o)' = Fresh(o)
        /\ carried' = carried /\ unread' = unread
    BY <1>0, <1>11, <2>1 DEF BusTypeOK, told
  <2>3. LastFrameTells(t, o) /\ ViewTells(t, o)
    BY <1>0, <2>2 DEF Told
  <2>4. CASE t = s
    <3>1. chan'[s] = Tail(chan[s]) /\ unread[s] = {}
      BY <1>0, <1>15, <2>1 DEF Forward, HandlerFollows, BusTypeOK
    <3>2. view'[s][o] = IF f.owner = o THEN f.version ELSE view[s][o]
      <4>1. view \in [Subscribers -> [Owners -> Nat]]
        BY <1>0 DEF SSETypeOK
      <4> HIDE DEF f
      <4>. QED
        BY <2>1, <4>1
    <3>. QED
      BY <1>0, <2>1, <2>2, <2>3, <2>4, <3>1, <3>2, ToldByTail
  <2>5. CASE t # s
    <3>1. chan'[t] = chan[t] /\ view'[t][o] = view[t][o]
      BY <1>0, <2>1, <2>2, <2>5 DEF BusTypeOK, SSETypeOK
    <3>. QED
      BY <1>2, <2>1, <2>2, <3>1
  <2>. QED
    BY <2>4, <2>5
<1>16. ASSUME NEW s \in Subscribers, ReplayLog(s) \/ Leave(s) \/ HangUp(s) PROVE Told'
  <2>1. CASE ReplayLog(s)
    BY <1>12, <2>1 DEF ReplayLog, vars
  <2>2. CASE HangUp(s) \/ Leave(s)
    <3>1. /\ UNCHANGED <<pc, msg, dst, slow, owners, told, chan>> /\ subs' \subseteq subs
          /\ \A t \in subs' : unread'[t] = unread[t] /\ view'[t] = view[t]
      BY <1>0, <2>2, OverFacts DEF BusTypeOK
    <3>. QED
      BY <1>12, <3>1
  <2>. QED
    BY <1>16, <2>1, <2>2
<1>17. CASE UNCHANGED sseVars
  <2>1. UNCHANGED <<pc, msg, dst, slow, owners, told, chan, unread, view>> /\ subs' = subs
    BY <1>17 DEF sseVars, sse, vars
  <2>. QED
    BY <1>12, <2>1
<1>. QED
  BY <1>4, <1>5, <1>10, <1>13, <1>14, <1>15, <1>16, <1>17, SSECases
-----------------------------------------------------------------------------
(***************************************************************************)
(* The handler: the demolition log                                         *)
(***************************************************************************)
LEMMA QueuedByAppend ==
  ASSUME BusTypeOK, NEW s \in Subscribers, NEW e \in Events, chan'[s] = Append(chan[s], e),
         carried' = carried
  PROVE  /\ \A n : Queued(s, n) => Queued(s, n)'
         /\ \A n : Tells(e) = Demo(n) => Queued(s, n)'
<1> DEFINE m == Len(chan[s])
<1>1. /\ m \in Nat /\ Len(chan'[s]) = m + 1 /\ chan'[s][m + 1] = e
      /\ \A i \in 1..m : chan'[s][i] = chan[s][i]
  BY AppendProperties, LenProperties DEF BusTypeOK
<1>2. m + 1 \in 1..Len(chan'[s]) /\ 1..m \subseteq 1..Len(chan'[s])
  BY <1>1
<1>. QED
  BY <1>1, <1>2 DEF Queued, Tells

LEMMA QueuedByTail ==
  ASSUME BusTypeOK, NEW s \in Subscribers, chan[s] # <<>>, chan'[s] = Tail(chan[s]),
         carried' = carried, NEW n, Queued(s, n)
  PROVE  Queued(s, n)' \/ Tells(Head(chan[s])) = Demo(n)
<1> DEFINE m == Len(chan[s])
<1>1. /\ m \in Nat /\ m > 0 /\ Head(chan[s]) = chan[s][1] /\ Len(chan'[s]) = m - 1
      /\ \A i \in 1..(m - 1) : chan'[s][i] = chan[s][i + 1]
  BY HeadTailProperties, EmptySeq, LenProperties DEF BusTypeOK
<1>2. PICK i \in 1..m : Tells(chan[s][i]) = Demo(n)
  BY DEF Queued
<1>3. CASE i = 1
  BY <1>1, <1>2, <1>3
<1>4. CASE i # 1
  <2>1. i - 1 \in 1..(m - 1) /\ (i - 1) + 1 = i
    BY <1>1, <1>4
  <2>2. chan'[s][i - 1] = chan[s][i]
    BY <1>1, <2>1
  <2>. QED
    BY <1>1, <1>2, <2>1, <2>2 DEF Queued, Tells
<1>. QED
  BY <1>3, <1>4

\* What the client has seen, and what a channel that is left alone holds, stay.
LEMMA ReachesAsBefore ==
  ASSUME NEW s, NEW n, Reaches(s, n), seen'[s] = seen[s], chan'[s] = chan[s],
         carried' = carried, held'[Pipeline] = held[Pipeline], LogDue(s, n) => LogDue(s, n)'
  PROVE  Reaches(s, n)'
BY DEF Reaches, Queued, Tells

LEMMA LogReachesStep == SSEInv /\ [SSENext]_sseVars => LogReaches'
<1> SUFFICES ASSUME SSEInv, [SSENext]_sseVars PROVE LogReaches'
  OBVIOUS
<1>0. /\ BusInv /\ BusTypeOK /\ Registered /\ InTurn /\ SSETypeOK /\ Holders /\ SentBefore /\ LogReaches
      /\ held \in [Publishers -> Frames]
  BY DEF SSEInv, BusInv, SSETypeOK
<1> USE PipelineAssumption DEF registry, calls, observer, clients
<1>1. \A s \in subs : handler[s] = "stream" /\ s \notin picky => \A n \in log : Reaches(s, n)
  BY <1>0 DEF LogReaches
<1>2. ASSUME \A s \in subs' : handler'[s] = "stream" /\ s \notin picky' => \A n \in log' : Reaches(s, n)'
      PROVE  LogReaches'
  BY <1>2 DEF LogReaches
<1>3. ASSUME UNCHANGED <<pc, msg, dst, slow, chan, picky, carried>>, held'[Pipeline] = held[Pipeline],
             log' \subseteq log, subs' \subseteq subs, \A s \in subs' : seen'[s] = seen[s],
             \A s \in subs' : handler'[s] = "stream" => handler[s] = "stream"
      PROVE  LogReaches'
  <2> SUFFICES ASSUME NEW s \in subs', handler'[s] = "stream", s \notin picky', NEW n \in log'
               PROVE  Reaches(s, n)'
    BY <1>2
  <2>1. Reaches(s, n)
    BY <1>1, <1>3
  <2>2. LogDue(s, n) => LogDue(s, n)'
    BY <1>3 DEF LogDue, Due, Tells
  <2>. QED
    BY <1>3, <2>1, <2>2, ReachesAsBefore
\* The pipeline takes a frame: it held none.
<1>4. ASSUME NEW f, Free(Pipeline), held' = [held EXCEPT ![Pipeline] = f],
             UNCHANGED <<pc, msg, dst, slow, chan, seen, picky, carried, subs, handler>>,
             \A n \in log' : n \in log \/ f = Demo(n)
      PROVE  LogReaches'
  <2> SUFFICES ASSUME NEW s \in subs', handler'[s] = "stream", s \notin picky', NEW n \in log'
               PROVE  Reaches(s, n)'
    BY <1>2
  <2>1. CASE f = Demo(n)
    <3>1. held'[Pipeline] = Demo(n)
      BY <1>0, <1>4, <2>1
    <3>. QED
      BY <3>1 DEF Reaches, Demo, Frame
  <2>2. CASE n \in log
    <3>1. Reaches(s, n)
      BY <1>1, <1>4, <2>2
    <3>2. held[Pipeline] # Demo(n)
      BY <1>4, FrameFacts DEF Free, Demo
    <3>. QED
      BY <1>4, <3>1, <3>2 DEF Reaches, Queued, LogDue, Due, Tells
  <2>. QED
    BY <1>4, <2>1, <2>2
<1>5. CASE SetStatus \/ Push \/ GiveUp \/ ResetLog
  <2>1. /\ UNCHANGED <<pc, msg, dst, slow, chan, seen, picky, carried, held, subs, handler>>
        /\ log' \subseteq log
    BY <1>5 DEF SetStatus, Push, GiveUp, ResetLog, vars, told
  <2>. QED
    BY <1>3, <2>1
<1>6. CASE TakeStatus
  BY <1>4, <1>6 DEF TakeStatus, vars, told
<1>7. CASE Demolish
  <2>1. /\ Free(Pipeline) /\ held' = [held EXCEPT ![Pipeline] = Demo(sent[Pipeline] + 1)]
        /\ log' = log \cup {sent[Pipeline] + 1}
        /\ UNCHANGED <<pc, msg, dst, slow, chan, seen, picky, carried, subs, handler>>
    BY <1>7 DEF Demolish, vars, told, Demo
  <2>. QED
    BY <1>4, <2>1
<1>8. ASSUME NEW p \in Publishers, NEW o \in Owners, Alter(p, o) PROVE LogReaches'
  <2>1. UNCHANGED <<pc, msg, dst, slow, chan, seen, picky, carried, held, subs, handler, log>>
    BY <1>8 DEF Alter, vars
  <2>. QED
    BY <1>3, <2>1
<1>9. ASSUME NEW p \in Publishers, NEW f, Free(p), held' = [held EXCEPT ![p] = f],
             UNCHANGED <<pc, msg, dst, slow, chan, seen, picky, carried, subs, handler, log>>
      PROVE  LogReaches'
  <2>1. CASE p = Pipeline
    BY <1>4, <1>9, <2>1
  <2>2. CASE p # Pipeline
    <3>1. held'[Pipeline] = held[Pipeline]
      BY <1>0, <1>9, <2>2
    <3>. QED
      BY <1>3, <1>9, <3>1
  <2>. QED
    BY <2>1, <2>2
<1>10. ASSUME NEW p \in Publishers, NEW o \in Owners, Take(p, o) PROVE LogReaches'
  BY <1>9, <1>10 DEF Take, vars, told
<1>11. ASSUME NEW r \in Requests, Save(r) PROVE LogReaches'
  BY <1>9, <1>11 DEF Save, vars, Requests
<1>12. ASSUME NEW p \in Publishers, Announce(p) \/ Other(p) PROVE LogReaches'
  <2>1. PICK kind \in Kinds :
          Publish(p, kind, held[p]) /\ held' = [held EXCEPT ![p] = NoFrame] /\ held[p] \in Frames
    BY <1>0, <1>12, AnnounceFacts
  <2>2. /\ pc[p] = "idle" /\ pc' = [pc EXCEPT ![p] = "snapshot"]
        /\ msg' = [msg EXCEPT ![p] = Event(p, sent[p] + 1, kind)] /\ Tells(msg[p])' = held[p]
        /\ \A q \in Publishers, n \in 1..MaxSent : n <= sent[q] => carried'[q][n] = carried[q][n]
        /\ UNCHANGED <<log, handler, seen, subs, picky, chan, dst, slow>>
    BY <1>0, <2>1, PublishFacts
  <2> SUFFICES ASSUME NEW s \in subs', handler'[s] = "stream", s \notin picky', NEW n \in log'
               PROVE  Reaches(s, n)'
    BY <1>2
  <2>3. s \in subs /\ s \in Subscribers /\ Reaches(s, n)
    BY <1>0, <1>1, <2>2 DEF BusTypeOK
  <2>4. Queued(s, n) => Queued(s, n)'
    <3>1. ASSUME NEW i \in 1..Len(chan[s]) PROVE Tells(chan[s][i])' = Tells(chan[s][i])
      <4>1. chan[s][i] \in Events
        BY <1>0, <2>3, ElementOfSeq DEF BusTypeOK
      <4>2. chan[s][i].pub \in Publishers /\ chan[s][i].seq \in 1..MaxSent
        BY <4>1 DEF Events
      <4>3. chan[s][i].seq <= sent[chan[s][i].pub]
        BY <1>0, <2>3 DEF SentBefore
      <4>. QED
        BY <2>2, <4>2, <4>3 DEF Tells
    <3>. QED
      BY <2>2, <3>1 DEF Queued, Demo, Frame
  <2>5. CASE p = Pipeline
    <3>1. ~LogDue(s, n)
      BY <1>0, <2>2, <2>5 DEF LogDue, Due, InTurn
    <3>2. held[Pipeline] = Demo(n) => LogDue(s, n)'
      <4>1. pc'[Pipeline] = "snapshot"
        BY <1>0, <2>2, <2>5 DEF BusTypeOK
      <4>. QED
        BY <2>2, <2>5, <4>1 DEF LogDue, Due, Demo, Frame
    <3>. QED
      BY <2>2, <2>3, <2>4, <3>1, <3>2 DEF Reaches
  <2>6. CASE p # Pipeline
    <3>1. /\ held'[Pipeline] = held[Pipeline] /\ pc'[Pipeline] = pc[Pipeline]
          /\ msg'[Pipeline] = msg[Pipeline]
      BY <1>0, <2>1, <2>2, <2>6 DEF BusTypeOK
    <3>2. LogDue(s, n) => pc[Pipeline] # "idle"
      BY <1>0 DEF LogDue, Due, InTurn
    <3>3. sent[Pipeline] <= sent[Pipeline]
      BY <1>0 DEF BusTypeOK
    <3>4. pc[Pipeline] # "idle" => Tells(msg[Pipeline])' = Tells(msg[Pipeline])
      BY <1>0, <2>2, <3>1, <3>3, MsgInBounds DEF Tells
    <3>5. LogDue(s, n) => LogDue(s, n)'
      BY <2>2, <3>1, <3>2, <3>4 DEF LogDue, Due, Demo, Frame
    <3>. QED
      BY <2>2, <2>3, <2>4, <3>1, <3>5 DEF Reaches, Demo, Frame
  <2>. QED
    BY <2>5, <2>6
<1>13. ASSUME NEW p \in Publishers, Snapshot(p), UNCHANGED sse PROVE LogReaches'
  <2> SUFFICES ASSUME NEW s \in subs', handler'[s] = "stream", s \notin picky', NEW n \in log'
               PROVE  Reaches(s, n)'
    BY <1>2
  <2>1. s \in subs /\ Reaches(s, n) /\ UNCHANGED <<chan, seen, msg, carried, held>>
    BY <1>1, <1>13 DEF Snapshot, sse, owners, told
  <2>2. Due(s, Pipeline) => Due(s, Pipeline)'
    BY <1>0, <1>13, <2>1 DEF Snapshot, Goto, Due, BusTypeOK
  <2>. QED
    BY <2>1, <2>2, ReachesAsBefore DEF LogDue, Tells
<1>14. ASSUME NEW p \in Publishers, NEW s \in Subscribers, Deliver(p, s), UNCHANGED sse
       PROVE  LogReaches'
  <2> SUFFICES ASSUME NEW t \in subs', handler'[t] = "stream", t \notin picky', NEW n \in log'
               PROVE  Reaches(t, n)'
    BY <1>2
  <2>1. /\ t \in subs /\ t \in Subscribers /\ Reaches(t, n)
        /\ UNCHANGED <<seen, msg, pc, slow, carried, held>>
        /\ dst' = [dst EXCEPT ![p] = @ \ {s}] /\ chan' = [chan EXCEPT ![s] = Append(chan[s], msg[p])]
    BY <1>0, <1>1, <1>14 DEF Deliver, Serve, BusTypeOK, sse, owners, told
  <2>2. CASE t = s
    <3>1. chan'[t] = Append(chan[t], msg[p])
      BY <1>0, <2>1, <2>2 DEF BusTypeOK
    <3>2. msg[p] \in Events
      BY <1>0, <1>14, MsgInBounds DEF Deliver, Serve
    <3>3. Queued(t, n) => Queued(t, n)'
      BY <1>0, <2>1, <3>1, <3>2, QueuedByAppend
    <3>4. LogDue(t, n) => LogDue(t, n)' \/ Queued(t, n)'
      <4>1. CASE p = Pipeline
        BY <1>0, <2>1, <3>1, <3>2, <4>1, QueuedByAppend DEF LogDue
      <4>2. CASE p # Pipeline
        BY <1>0, <2>1, <4>2 DEF LogDue, Due, Tells, BusTypeOK
      <4>. QED
        BY <4>1, <4>2
    <3>. QED
      BY <2>1, <3>3, <3>4 DEF Reaches
  <2>3. CASE t # s
    <3>1. chan'[t] = chan[t]
      BY <1>0, <2>1, <2>3 DEF BusTypeOK
    <3>2. LogDue(t, n) => LogDue(t, n)'
      BY <1>0, <2>1, <2>3 DEF LogDue, Due, Tells, BusTypeOK
    <3>. QED
      BY <2>1, <3>1, <3>2, ReachesAsBefore
  <2>. QED
    BY <2>2, <2>3
<1>15. ASSUME NEW p \in Publishers, NEW s \in Subscribers, Serve(p, s), chan' = chan, UNCHANGED sse,
              \/ s \in subs => Declines(s, msg[p])
              \/ slow' = [slow EXCEPT ![p] = @ \cup {s}],
              slow' = slow \/ slow' = [slow EXCEPT ![p] = @ \cup {s}]
       PROVE  LogReaches'
  <2> SUFFICES ASSUME NEW t \in subs', handler'[t] = "stream", t \notin picky', NEW n \in log'
               PROVE  Reaches(t, n)'
    BY <1>2
  <2>1. /\ t \in subs /\ t \notin picky /\ Reaches(t, n) /\ UNCHANGED <<seen, chan, msg, pc, carried, held>>
        /\ dst' = [dst EXCEPT ![p] = @ \ {s}]
    BY <1>1, <1>15 DEF Serve, sse, owners, told
  <2>2. Due(t, Pipeline) => Due(t, Pipeline)'
    <3>1. CASE t = s /\ p = Pipeline
      BY <1>0, <1>15, <2>1, <3>1 DEF Declines, Due, BusTypeOK
    <3>2. CASE ~(t = s /\ p = Pipeline)
      <4>1. t \in dst[Pipeline] => t \in dst'[Pipeline]
        <5>1. dst \in [Publishers -> SUBSET Subscribers]
          BY <1>0 DEF BusTypeOK
        <5>. QED
          BY <2>1, <3>2, <5>1
      <4>2. t \in slow[Pipeline] => t \in slow'[Pipeline]
        <5>1. slow \in [Publishers -> SUBSET Subscribers]
          BY <1>0 DEF BusTypeOK
        <5>. QED
          BY <1>15, <5>1
      <4>. QED
        BY <2>1, <4>1, <4>2 DEF Due
    <3>. QED
      BY <3>1, <3>2
  <2>. QED
    BY <2>1, <2>2, ReachesAsBefore DEF LogDue, Tells
<1>16. ASSUME NEW p \in Publishers, Finish(p), UNCHANGED sse PROVE LogReaches'
  <2> SUFFICES ASSUME NEW s \in subs', handler'[s] = "stream", s \notin picky', NEW n \in log'
               PROVE  Reaches(s, n)'
    BY <1>2
  <2>1. /\ s \in subs /\ s \notin slow[p] /\ Reaches(s, n)
        /\ UNCHANGED <<chan, seen, msg, dst, carried, held>>
    BY <1>1, <1>16 DEF Finish, Remove, sse, owners, told
  <2>2. Due(s, Pipeline) => Due(s, Pipeline)'
    BY <1>0, <1>16, <2>1 DEF Finish, Goto, Due, BusTypeOK
  <2>. QED
    BY <2>1, <2>2, ReachesAsBefore DEF LogDue, Tells
<1>17. ASSUME NEW p \in Publishers, PublishStep(p), UNCHANGED sse PROVE LogReaches'
  <2>1. ASSUME NEW s \in Subscribers,
               Decline(p, s) \/ SkipClosed(p, s) \/ SendOnClosed(p, s) \/ MarkSlow(p, s)
        PROVE  LogReaches'
    <3>1. /\ Serve(p, s) /\ chan' = chan
          /\ \/ s \in subs => Declines(s, msg[p])
             \/ slow' = [slow EXCEPT ![p] = @ \cup {s}]
          /\ slow' = slow \/ slow' = [slow EXCEPT ![p] = @ \cup {s}]
      BY <1>0, <2>1 DEF Decline, SkipClosed, SendOnClosed, MarkSlow, BusTypeOK
    <3>. QED
      BY <1>15, <1>17, <3>1
  <2>. QED
    BY <1>13, <1>14, <1>16, <1>17, <2>1 DEF PublishStep, SendStep
<1>18. ASSUME NEW s \in Subscribers, NEW filtered \in BOOLEAN, Connect(s, filtered)
       PROVE  LogReaches'
  <2> SUFFICES ASSUME NEW t \in subs', handler'[t] = "stream", t \notin picky', NEW n \in log'
               PROVE  Reaches(t, n)'
    BY <1>2
  <2>1. t # s
    BY <1>0, <1>18 DEF Connect, SSETypeOK
  <2>2. /\ UNCHANGED <<pc, msg, dst, slow, chan, seen, log, held, carried>> /\ handler'[t] = handler[t]
        /\ t \in subs /\ t \notin picky
    BY <1>0, <1>18, <2>1 DEF Connect, Subscribe, SSETypeOK, owners, told
  <2>3. Reaches(t, n)
    BY <1>1, <2>2
  <2>4. LogDue(t, n) => LogDue(t, n)'
    BY <2>2 DEF LogDue, Due, Tells
  <2>. QED
    BY <2>2, <2>3, <2>4, ReachesAsBefore
<1>19. ASSUME NEW s \in Subscribers, NEW o \in Owners, Replay(s, o) PROVE LogReaches'
  <2>1. /\ UNCHANGED <<pc, msg, dst, slow, chan, log, seen, picky, subs, held, carried>>
        /\ \A t \in Subscribers : handler'[t] = "stream" => handler[t] = "stream"
    BY <1>0, <1>19 DEF Replay, vars, SSETypeOK, owners, told
  <2>. QED
    BY <1>0, <1>3, <2>1 DEF BusTypeOK
<1>20. ASSUME NEW s \in Subscribers, ReplayLog(s) PROVE LogReaches'
  <2> SUFFICES ASSUME NEW t \in subs', handler'[t] = "stream", t \notin picky', NEW n \in log'
               PROVE  Reaches(t, n)'
    BY <1>2
  <2>1. UNCHANGED <<pc, msg, dst, slow, chan, log, picky, subs, held, carried>>
    BY <1>20 DEF ReplayLog, vars, owners, told
  <2>2. CASE t = s
    <3>1. n \in seen'[t]
      BY <1>0, <1>20, <2>1, <2>2 DEF ReplayLog, SSETypeOK
    <3>. QED
      BY <3>1 DEF Reaches
  <2>3. CASE t # s
    <3>1. handler[t] = "stream" /\ seen'[t] = seen[t]
      BY <1>0, <1>20, <2>1, <2>3 DEF ReplayLog, SSETypeOK, BusTypeOK
    <3>2. Reaches(t, n)
      BY <1>1, <2>1, <3>1
    <3>3. LogDue(t, n) => LogDue(t, n)'
      BY <2>1 DEF LogDue, Due, Tells
    <3>. QED
      BY <2>1, <3>1, <3>2, <3>3, ReachesAsBefore
  <2>. QED
    BY <2>2, <2>3
<1>21. ASSUME NEW s \in Subscribers, Forward(s) PROVE LogReaches'
  <2> SUFFICES ASSUME NEW t \in subs', handler'[t] = "stream", t \notin picky', NEW n \in log'
               PROVE  Reaches(t, n)'
    BY <1>2
  <2> DEFINE f == Tells(Head(chan[s]))
  <2>1. /\ UNCHANGED <<pc, msg, dst, slow, log, picky, subs, handler, held, carried>>
        /\ chan[s] # <<>> /\ chan' = [chan EXCEPT ![s] = Tail(chan[s])]
        /\ seen' = IF f.owner = "demolition" THEN [seen EXCEPT ![s] = @ \cup {f.version}] ELSE seen
    BY <1>21 DEF Forward, Receive, owners, told
  <2>2. t \in Subscribers /\ t \in subs /\ Reaches(t, n)
    BY <1>0, <1>1, <2>1 DEF BusTypeOK
  <2>3. seen \in [Subscribers -> SUBSET (1..MaxSent)]
    BY <1>0 DEF SSETypeOK
  <2>4. LogDue(t, n) => LogDue(t, n)'
    BY <2>1 DEF LogDue, Due, Tells
  <2>5. CASE t = s
    <3>1. chan'[t] = Tail(chan[t])
      BY <1>0, <2>1, <2>5 DEF BusTypeOK
    <3>2. Queued(t, n) => Queued(t, n)' \/ f = Demo(n)
      BY <1>0, <2>1, <2>5, <3>1, QueuedByTail
    <3>3. f = Demo(n) => f.owner = "demolition" /\ f.version = n
      BY FrameFacts DEF Demo
    <3> HIDE DEF f
    <3>4. f = Demo(n) => n \in seen'[t]
      BY <2>1, <2>3, <2>5, <3>3
    <3>5. n \in seen[t] => n \in seen'[t]
      BY <2>1, <2>2, <2>3
    <3>6. held'[Pipeline] = held[Pipeline]
      BY <2>1
    <3>. QED
      BY <2>2, <2>4, <3>2, <3>4, <3>5, <3>6 DEF Reaches, Demo, Frame
  <2>6. CASE t # s
    <3>1. chan'[t] = chan[t]
      BY <1>0, <2>1, <2>2, <2>6 DEF BusTypeOK
    <3> HIDE DEF f
    <3>2. seen'[t] = seen[t]
      BY <2>1, <2>2, <2>3, <2>6
    <3>. QED
      BY <2>1, <2>2, <2>4, <3>1, <3>2, ReachesAsBefore
  <2>. QED
    BY <2>5, <2>6
<1>22. ASSUME NEW s \in Subscribers, HangUp(s) \/ Leave(s) PROVE LogReaches'
  <2>1. /\ UNCHANGED <<pc, msg, dst, slow, chan, log, picky, held, carried>> /\ subs' \subseteq subs
        /\ \A t \in subs' : seen'[t] = seen[t] /\ handler'[t] = handler[t]
    BY <1>0, <1>22, OverFacts DEF BusTypeOK, owners, told
  <2>. QED
    BY <1>3, <2>1
<1>23. CASE UNCHANGED sseVars
  <2>1. UNCHANGED <<pc, msg, dst, slow, chan, log, seen, picky, held, carried, subs, handler>>
    BY <1>23 DEF sseVars, vars, sse, owners, told
  <2>. QED
    BY <1>3, <2>1
<1>. QED
  BY <1>5, <1>6, <1>7, <1>8, <1>10, <1>11, <1>12, <1>17, <1>18, <1>19, <1>20, <1>21, <1>22, <1>23, SSECases

-----------------------------------------------------------------------------
(***************************************************************************)
(* The theorems of the handler                                             *)
(***************************************************************************)
LEMMA SSEStep == SSEInv /\ [SSENext]_sseVars => SSEInv'
<1> SUFFICES ASSUME SSEInv, [SSENext]_sseVars PROVE SSEInv'
  OBVIOUS
<1>1. BusInv'
  BY SSEIsBus, BusStep DEF SSEInv
<1>2. SSETypeOK' /\ HandlerFollows' /\ Holders' /\ SentBefore'
  BY SSETypeStep, HandlerFollowsStep, HoldersStep, SentBeforeStep
<1>3. NewestIsStaged' /\ FlightIsFresh' /\ Told' /\ LogReaches'
  BY NewestStep, FlightStep, ToldStep, LogReachesStep
<1>. QED
  BY <1>1, <1>2, <1>3 DEF SSEInv

\* Nothing due is forgotten: with no frame of an owner staged, held or under
\* way, an empty channel means a fresh view.
LEMMA NothingDueNothingMissing == SSEInv => ViewConverges
<1> SUFFICES ASSUME SSEInv, NEW s \in Subscribers
             PROVE  /\ \A o \in Owners : CaughtUp(s, o) => view[s][o] \in Fresh(o)
                    /\ CaughtUp(s, "roster") => view[s]["roster"] = state["roster"]
                    /\ CaughtUp(s, "demolition") /\ s \notin picky => log \subseteq seen[s]
  BY DEF ViewConverges
<1>1. ASSUME NEW p \in Publishers, Due(s, p) PROVE pc[p] # "idle"
  BY <1>1 DEF Due, SSEInv, BusInv, InTurn
<1>2. ASSUME NEW o \in Owners, CaughtUp(s, o) PROVE view[s][o] \in Fresh(o)
  <2>1. ~Owed(s, o)
    BY <1>1, <1>2 DEF CaughtUp, Owed
  <2>2. ViewTells(s, o)
    BY <1>2, <2>1 DEF CaughtUp, SSEInv, Told
  <2>3. o \notin unread[s] /\ \A i \in 1..Len(chan[s]) : Tells(chan[s][i]).owner # o
    BY <1>2 DEF CaughtUp, SSEInv, HandlerFollows
  <2>. QED
    BY <2>2, <2>3 DEF ViewTells
<1>3. ASSUME CaughtUp(s, "roster") PROVE view[s]["roster"] = state["roster"]
  <2>1. "roster" \in Owners
    BY DEF Owners
  <2>2. view[s]["roster"] \in Fresh("roster") /\ late["roster"] = {}
    BY <1>2, <1>3, <2>1 DEF SSEInv, NewestIsStaged
  <2>. QED
    BY <2>2 DEF Fresh
<1>4. ASSUME CaughtUp(s, "demolition"), s \notin picky, NEW n \in log PROVE n \in seen[s]
  <2>1. Demo(n).owner = "demolition"
    BY FrameFacts DEF Demo
  <2>2. ~LogDue(s, n) /\ ~Queued(s, n) /\ held[Pipeline] # Demo(n)
    BY <1>1, <1>4, <2>1, PipelineAssumption DEF CaughtUp, Untold, LogDue, Queued
  <2>3. Reaches(s, n)
    BY <1>4 DEF CaughtUp, SSEInv, LogReaches
  <2>. QED
    BY <2>2, <2>3 DEF Reaches
<1>. QED
  BY <1>2, <1>3, <1>4

\* In every reachable state the slots, the frames held and under way, each
\* channel and the backlog together hold what a client has still to be told, and
\* what they hold last is fresh (server.go:377-491, pipeline.go:59-82).
THEOREM SSEInvariant == SSESpec => []SSEInv
<1>1. SSEInit => SSEInv
  BY InitSSE
<1>2. SSEInv /\ [SSENext]_sseVars => SSEInv'
  BY SSEStep
<1>. QED
  BY <1>1, <1>2, PTL DEF SSESpec

\* The connections and the owners use the bus as any subscriber and publisher
\* may: what is proved of the bus alone holds under them, and Fanout with it.
THEOREM SSEUsesBus == SSESpec => Spec
<1>1. SSEInit => Init
  BY DEF SSEInit
<1>2. [SSENext]_sseVars => [Next]_vars
  BY SSEIsBus
<1>. QED
  BY <1>1, <1>2, PTL DEF SSESpec, Spec

\* Whatever the connections, a handler, its view, the frames of the owners, the
\* log and the bus keep their types; no channel outgrows its buffer.
THEOREM SSETypeCorrect == SSESpec => []SSETypeOK
<1>1. SSEInv => SSETypeOK
  BY DEF SSEInv
<1>. QED
  BY <1>1, SSEInvariant, PTL

\* Subscribing before reading loses nothing, for any number of request
\* goroutines and clients and any channel size, with every change a step before
\* the frame that tells of it and two goroutines announcing the match: a client
\* that has read what it was sent shows the roster as it is, of every other
\* owner the state or a version that another goroutine was broadcasting as that
\* state came about (of the status, none older than the last one queued), and,
\* unless it filters them out, every demolition of the match.
THEOREM SSEConverges == SSESpec => []ViewConverges
<1>1. SSEInv => ViewConverges
  BY NothingDueNothingMissing
<1>. QED
  BY <1>1, SSEInvariant, PTL
=============================================================================
