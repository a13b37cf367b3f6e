-------------------------------- MODULE SSE --------------------------------
(***************************************************************************)
(* The event-stream handler of backend/internal/server and the owners of   *)
(* what it tells a client, on top of Bus.                                  *)
(*                                                                         *)
(* A connection subscribes first, then writes the present state of each    *)
(* owner (connection status, match state, identity, roster), then forwards *)
(* its channel.  An owner's state is the number of its last change.  The   *)
(* change and the frame that announces it are steps apart:                 *)
(*   - match state and roster stage a frame that a later Process takes,    *)
(*     the match state by the pipeline or by the watchdog's goroutine;     *)
(*   - a status is stored, then queued for the pipeline, or given up;      *)
(*   - a request changes the identity under a lock and calls the hook that *)
(*     broadcasts it after unlocking.                                      *)
(* The pipeline also logs demolitions before it broadcasts them, and a     *)
(* connection that wants those is sent the log.  The boot id is constant,  *)
(* and a heartbeat is a write that may fail, like any other.               *)
(*                                                                         *)
(* A publisher other than the pipeline stands for goroutines that call     *)
(* Broadcast one after the other: handlers of REST requests, and in one of *)
(* the publishers the watchdog too.                                        *)
(***************************************************************************)
EXTENDS Bus

CONSTANTS
  Pipeline,  \* the publisher that runs the processors
  Watchdog,  \* the publisher the watchdog of match.go is among
  MaxChanges \* bound: changes of the owners' states, all together

Owners == {"status", "match", "identity", "roster"}

ASSUME PipelineAssumption == Pipeline \in Publishers /\ Watchdog \in Publishers \ {Pipeline}
ASSUME MaxChangesAssumption == MaxChanges \in Nat

\* The publishers that serve requests.
Requests == Publishers \ {Pipeline}

\* What an event tells: the version of an owner, a demolition, or nothing that
\* a client keeps.
Frame(o, v) == [owner |-> o, version |-> v]
NoFrame == Frame("none", 0)

VARIABLES
  state,    \* the state of each owner
  slot,     \* the change whose frame is staged, 0 if none is
  pushing,  \* the status being pushed, 0 if none is
  outbox,   \* the statuses in the source's channel
  held,     \* the frame each publisher has taken and not broadcast yet
  log,      \* demolishLog: the demolitions of this match
  handler,  \* where each connection is in handleSSE
  unread,   \* the owners whose state it has still to write
  view,     \* what the client was last told of each owner
  seen,     \* the demolitions the client was told of
  carried,  \* observer: the frame in each event of a publisher
  queued,   \* observer: the last status that got into the channel
  late      \* observer: versions under way when the newest was made

owners == <<state, slot, pushing, outbox, held, log>>
clients == <<handler, unread, view, seen>>
told == <<carried, queued, late>>
sse == <<owners, clients, told>>
sseVars == <<vars, sse>>

SSEInit ==
  /\ Init
  /\ state = [o \in Owners |-> 0] /\ slot = [o \in Owners |-> 0]
  /\ pushing = 0 /\ outbox = <<>>
  /\ held = [p \in Publishers |-> NoFrame]
  /\ log = {}
  /\ handler = [s \in Subscribers |-> "none"]
  /\ unread = [s \in Subscribers |-> Owners]
  /\ view = [s \in Subscribers |-> [o \in Owners |-> 0]]
  /\ seen = [s \in Subscribers |-> {}]
  /\ carried = [p \in Publishers |-> [n \in 1..MaxSent |-> NoFrame]]
  /\ queued = 0
  /\ late = [o \in Owners |-> {}]

-----------------------------------------------------------------------------
(***************************************************************************)
(* The owners                                                              *)
(***************************************************************************)
Tells(e) == carried[e.pub][e.seq]

\* The versions of o that goroutines have taken and not finished broadcasting.
InFlight(o) ==
  {held[p].version : p \in {q \in Publishers : held[q].owner = o}}
    \cup {Tells(msg[p]).version :
            p \in {q \in Publishers : pc[q] # "idle" /\ Tells(msg[q]).owner = o}}

\* A publisher is between two calls of Broadcast and has taken nothing.
Free(p) == pc[p] = "idle" /\ held[p] = NoFrame

\* Bound: there may be one more change.
MayChange ==
  state["status"] + state["match"] + state["identity"] + state["roster"] < MaxChanges

\* o changes; what is under way is older from now on.
Change(o) ==
  /\ MayChange
  /\ state' = [state EXCEPT ![o] = @ + 1]
  /\ late' = [late EXCEPT ![o] = InFlight(o)]

\* setStatus: the status is stored and the push is tried after that.
SetStatus ==
  /\ pushing = 0 /\ MayChange
  /\ state' = [state EXCEPT !["status"] = @ + 1]
  /\ pushing' = state'["status"]
  /\ UNCHANGED <<vars, slot, outbox, held, log, clients, told>>

Push ==
  /\ pushing # 0
  /\ outbox' = Append(outbox, pushing) /\ queued' = pushing
  /\ pushing' = 0
  /\ UNCHANGED <<vars, state, slot, held, log, clients, carried, late>>

\* The channel, which packets fill too, had no room for a second.
GiveUp ==
  /\ pushing # 0
  /\ pushing' = 0
  /\ UNCHANGED <<vars, state, slot, outbox, held, log, clients, told>>

\* The pipeline reads a status event.
TakeStatus ==
  /\ Free(Pipeline) /\ outbox # <<>>
  /\ held' = [held EXCEPT ![Pipeline] = Frame("status", Head(outbox))]
  /\ outbox' = Tail(outbox)
  /\ UNCHANGED <<vars, state, slot, pushing, log, clients, told>>

\* Whose processors may take a staged frame.
Stages(p) == IF p = Pipeline THEN {"match", "roster"} ELSE IF p = Watchdog THEN {"match"} ELSE {}

\* Observe or a timeout changes the state of o and stages its frame.  Observe
\* runs before the event itself, a status for one, is broadcast.
Alter(p, o) ==
  /\ o \in Stages(p)
  /\ pc[p] = "idle" /\ held[p].owner \in {"none", "status"}
  /\ Change(o)
  /\ slot' = [slot EXCEPT ![o] = state'[o]]
  /\ UNCHANGED <<vars, pushing, outbox, held, log, clients, carried, queued>>

\* Process takes the staged frame, whoever staged it.
Take(p, o) ==
  /\ o \in Stages(p) /\ Free(p) /\ slot[o] # 0
  /\ held' = [held EXCEPT ![p] = Frame(o, slot[o])]
  /\ slot' = [slot EXCEPT ![o] = 0]
  /\ UNCHANGED <<vars, state, pushing, outbox, log, clients, told>>

\* Set or Clear of the identity; its hook runs after the lock is released.
Save(r) ==
  /\ Free(r)
  /\ Change("identity")
  /\ held' = [held EXCEPT ![r] = Frame("identity", state'["identity"])]
  /\ UNCHANGED <<vars, slot, pushing, outbox, log, clients, carried, queued>>

\* A demolition is logged before it is broadcast.
Demolish ==
  /\ Free(Pipeline) /\ sent[Pipeline] < MaxSent
  /\ log' = log \cup {sent[Pipeline] + 1}
  /\ held' = [held EXCEPT ![Pipeline] = Frame("demolition", sent[Pipeline] + 1)]
  /\ UNCHANGED <<vars, state, slot, pushing, outbox, clients, told>>

\* MatchCreated and MatchDestroyed, which were broadcast before.
ResetLog ==
  /\ Free(Pipeline) /\ log # {}
  /\ log' = {}
  /\ UNCHANGED <<vars, state, slot, pushing, outbox, held, clients, told>>

\* p calls Broadcast with an event that tells f.
Publish(p, kind, f) ==
  /\ Broadcast(p, kind)
  /\ carried' = [carried EXCEPT ![p][sent'[p]] = f]
  /\ UNCHANGED <<state, slot, pushing, outbox, log, clients, queued, late>>

\* The frame p has taken: those of owners bypass every filter.
Announce(p) ==
  /\ held[p] # NoFrame
  /\ Publish(p, IF held[p].owner = "demolition" THEN "plain" ELSE "framing", held[p])
  /\ held' = [held EXCEPT ![p] = NoFrame]

\* Any other event: a filter may decline it.
Other(p) ==
  /\ held[p] = NoFrame
  /\ Publish(p, "plain", NoFrame)
  /\ UNCHANGED held

-----------------------------------------------------------------------------
(***************************************************************************)
(* handleSSE                                                               *)
(***************************************************************************)
Connect(s, filtered) ==
  /\ handler[s] = "none"
  /\ Subscribe(s, filtered)
  /\ handler' = [handler EXCEPT ![s] = "replay"]
  /\ UNCHANGED <<owners, unread, view, seen, told>>

\* The order in which the states are read and written.
Turn == [status |-> 1, match |-> 2, identity |-> 3, roster |-> 4]

\* An empty roster is not written: the client starts with none.
Replay(s, o) ==
  /\ handler[s] = "replay"
  /\ o \in unread[s] /\ \A q \in unread[s] : Turn[o] <= Turn[q]
  /\ view' = [view EXCEPT ![s][o] = state[o]]
  /\ unread' = [unread EXCEPT ![s] = @ \ {o}]
  /\ handler' = [handler EXCEPT ![s] = IF unread'[s] = {} THEN "log" ELSE "replay"]
  /\ UNCHANGED <<vars, owners, seen, told>>

\* The demolitions so far, unless the client's filter leaves them out.
ReplayLog(s) ==
  /\ handler[s] = "log"
  /\ seen' = IF s \in picky THEN seen ELSE [seen EXCEPT ![s] = @ \cup log]
  /\ handler' = [handler EXCEPT ![s] = "stream"]
  /\ UNCHANGED <<vars, owners, unread, view, told>>

Forward(s) ==
  /\ handler[s] = "stream"
  /\ Receive(s)
  /\ LET f == Tells(Head(chan[s]))
     IN  /\ view' = IF f.owner \in Owners THEN [view EXCEPT ![s][f.owner] = f.version] ELSE view
         /\ seen' = IF f.owner = "demolition" THEN [seen EXCEPT ![s] = @ \cup {f.version}] ELSE seen
  /\ UNCHANGED <<owners, handler, unread, told>>

\* The connection is over, and what it was told goes with it.
Over(s) ==
  /\ handler' = [handler EXCEPT ![s] = "gone"]
  /\ unread' = [unread EXCEPT ![s] = Owners]
  /\ view' = [view EXCEPT ![s] = [o \in Owners |-> 0]]
  /\ seen' = [seen EXCEPT ![s] = {}]

\* The ok of the receive is ignored.
BugHangUp(s) ==
  /\ handler[s] = "stream"
  /\ s \in closed /\ chan[s] = <<>>
  /\ UNCHANGED sseVars

\* The channel is closed and empty.
HangUp(s) ==
  /\ handler[s] = "stream"
  /\ s \in closed /\ chan[s] = <<>>
  /\ Over(s)
  /\ UNCHANGED <<vars, owners, told>>

\* A write failed or the request was cancelled; the deferred cancel runs.
Leave(s) ==
  /\ handler[s] \in {"replay", "log", "stream"}
  /\ Over(s)
  /\ IF s \in subs THEN Cancel(s) ELSE UNCHANGED vars
  /\ UNCHANGED <<owners, told>>

Drain(s) == ~panicked /\ (Forward(s) \/ HangUp(s))

OwnerStep ==
  \/ SetStatus \/ Push \/ GiveUp \/ TakeStatus \/ Demolish \/ ResetLog
  \/ \E p \in Publishers, o \in Owners : Alter(p, o) \/ Take(p, o)
  \/ \E r \in Requests : Save(r)
  \/ \E p \in Publishers : Announce(p) \/ Other(p)

HandlerStep(s) ==
  \/ \E filtered \in BOOLEAN : Connect(s, filtered)
  \/ \E o \in Owners : Replay(s, o)
  \/ ReplayLog(s) \/ Leave(s)

SSENext ==
  \/ \E p \in Publishers : PublishStep(p) /\ UNCHANGED sse
  \/ ~panicked /\ OwnerStep
  \/ \E s \in Subscribers : Drain(s) \/ (~panicked /\ HandlerStep(s))

SSESpec == SSEInit /\ [][SSENext]_sseVars

\* Publishers run on.  A client may stop reading for as long as it likes, so a
\* handler is only promised to run on once its channel is closed.
SSEFairSpec ==
  /\ SSESpec
  /\ \A p \in Publishers : WF_sseVars(PublishStep(p) /\ UNCHANGED sse)
  /\ \A s \in Subscribers : WF_sseVars(s \in closed /\ Drain(s))
-----------------------------------------------------------------------------
Frames ==
  [owner : Owners, version : Nat] \cup [owner : {"demolition"}, version : 1..MaxSent] \cup {NoFrame}

\* Every variable has its type, those of the bus included.
SSETypeOK ==
  /\ BusTypeOK
  /\ state \in [Owners -> Nat] /\ slot \in [Owners -> Nat]
  /\ pushing \in Nat /\ outbox \in Seq(Nat) /\ queued \in Nat
  /\ held \in [Publishers -> Frames]
  /\ carried \in [Publishers -> [1..MaxSent -> Frames]]
  /\ late \in [Owners -> SUBSET Nat]
  /\ handler \in [Subscribers -> {"none", "replay", "log", "stream", "gone"}]
  /\ unread \in [Subscribers -> SUBSET Owners]
  /\ view \in [Subscribers -> [Owners -> Nat]]
  /\ log \subseteq 1..MaxSent /\ seen \in [Subscribers -> SUBSET (1..MaxSent)]

\* No frame of o waits to be broadcast.
Untold(o) ==
  \/ o \in Owners /\ slot[o] # 0
  \/ o = "status" /\ outbox # <<>>
  \/ \E p \in Publishers : held[p].owner = o

\* A client that is still attached and has read every frame of o.
CaughtUp(s, o) ==
  /\ s \in subs /\ handler[s] = "stream" /\ ~Untold(o)
  /\ \A p \in Publishers : pc[p] # "idle" => Tells(msg[p]).owner # o
  /\ \A i \in 1..Len(chan[s]) : Tells(chan[s][i]).owner # o

\* What a caught-up client may be showing of o: its state, or a version another
\* goroutine was about to broadcast, or was broadcasting, when that state came
\* about; of the status, nothing older than the last one that was not given up.
Fresh(o) == IF o = "status" THEN queued..state[o] ELSE {state[o]} \cup late[o]

\* handleSSE subscribes before it reads states and log, frames are staged with
\* the change they tell of and demolitions are logged before they are
\* broadcast, so nothing falls between the two.  A client that has read what it
\* was sent shows a fresh version of every owner, of the roster (which the
\* pipeline alone changes and broadcasts) the present one, and, if it wants
\* demolitions, has every one of this match (server.go:377, 465).
ViewConverges ==
  \A s \in Subscribers :
    /\ \A o \in Owners : CaughtUp(s, o) => view[s][o] \in Fresh(o)
    /\ CaughtUp(s, "roster") => view[s]["roster"] = state["roster"]
    /\ CaughtUp(s, "demolition") /\ s \notin picky => log \subseteq seen[s]

\* "every subscriber receives this ... so the SDK can hydrate RLT.me without a
\* separate fetch" (catalog.go:108): a client that has read every frame of the
\* identity shows the one that is stored.  The hooks of two requests may swap, so
\* it does not have to: no run checks this.
IdentityIsCurrent ==
  \A s \in Subscribers :
    CaughtUp(s, "identity") => view[s]["identity"] = state["identity"]

\* A client the bus has dropped finds out: its stream ends, and EventSource
\* reconnects.
DroppedStreamEnds ==
  \A s \in Subscribers :
    handler[s] = "stream" /\ s \in closed ~> handler[s] = "gone" \/ panicked
=============================================================================
