------------------------------- MODULE Source -------------------------------
(***************************************************************************)
(* The game socket source of backend/internal/source: a goroutine that     *)
(* dials the game, reads its packets and puts them on a bounded channel    *)
(* from which the pipeline takes them.  The game blocks in send() when the *)
(* kernel's buffers are full, so the reader never waits for the pipeline:  *)
(* packets are dropped, and a connection status is given up after a while. *)
(***************************************************************************)
EXTENDS Naturals, Sequences

CONSTANTS
  Packets,    \* what the game sends
  OutCap,     \* bound: outboxBufSize
  KernelCap,  \* bound: packets the socket buffers hold
  Nothing     \* no status is being pushed

ASSUME CapAssumption == OutCap \in Nat \ {0} /\ KernelCap \in Nat \ {0}

Statuses == {"disconnected", "connecting", "connected"}
Pushes == [status : Statuses, next : {"dial", "read", "sleep"}]

\* The game's own events; the names that begin with _ are the toolkit's.
ASSUME PacketsAssumption ==
  Packets \subseteq [name : STRING \ {"_ConnectionStatus"}, bot : STRING]

ASSUME NothingAssumption == Nothing \notin Pushes

VARIABLES
  pc,         \* where Run is
  status,     \* the status, as Status() gives it
  pushing,    \* the status event that waits for room, and what follows it
  out,        \* the channel to the pipeline
  cancelled,  \* the context
  peer,       \* the game's side of the connection
  kernel,     \* bytes the game sent and Run has not read
  heard,      \* the last status the pipeline took
  lost        \* the last status event was given up

run == <<pc, status, pushing>>
vars == <<pc, status, pushing, out, cancelled, peer, kernel, heard, lost>>

Init ==
  /\ pc = "top" /\ status = "disconnected" /\ pushing = Nothing
  /\ out = <<>> /\ cancelled = FALSE
  /\ peer = "none" /\ kernel = <<>>
  /\ heard = "disconnected" /\ lost = FALSE

Room == Len(out) < OutCap
StatusEvent(st) == [name |-> "_ConnectionStatus", status |-> st]
IsStatus(e) == e.name = "_ConnectionStatus"
-----------------------------------------------------------------------------
(***************************************************************************)
(* setStatus and enqueue                                                   *)
(***************************************************************************)
\* The status is kept for Status() and not sent.
BugSetStatus(st, next) ==
  /\ status' = st /\ pc' = next /\ UNCHANGED <<pushing, out, lost>>

\* A status that did not change is not sent; without room the send waits.
SetStatus(st, next) ==
  /\ status' = st
  /\ IF status = st \/ Room
     THEN /\ pc' = next
          /\ out' = IF status = st THEN out ELSE Append(out, StatusEvent(st))
          /\ lost' = IF status = st THEN lost ELSE FALSE
          /\ UNCHANGED pushing
     ELSE pc' = "push" /\ pushing' = [status |-> st, next |-> next] /\ UNCHANGED <<out, lost>>

Push ==
  /\ pc = "push" /\ Room
  /\ out' = Append(out, StatusEvent(pushing.status))
  /\ pc' = pushing.next /\ pushing' = Nothing
  /\ lost' = FALSE
  /\ UNCHANGED <<status, cancelled, peer, kernel, heard>>

\* The timeout is taken only when there is room.
BugGiveUp ==
  /\ pc = "push" /\ Room
  /\ pc' = pushing.next /\ pushing' = Nothing
  /\ lost' = TRUE
  /\ UNCHANGED <<status, out, cancelled, peer, kernel, heard>>

\* statusPushTimeout
GiveUp ==
  /\ pc = "push"
  /\ pc' = pushing.next /\ pushing' = Nothing
  /\ lost' = TRUE
  /\ UNCHANGED <<status, out, cancelled, peer, kernel, heard>>

\* RewriteUpdateStateBotIds: a bot with a name gets an id made of it.
Rewrite(packet) ==
  IF packet.name = "UpdateState" /\ packet.bot = "named" THEN [packet EXCEPT !.bot = "own id"]
  ELSE packet

\* The reader waits until there is room.
BugEnqueue(packet) == Room /\ out' = Append(out, Rewrite(packet))

\* The channel grows.
BugGrow(packet) == out' = Append(out, Rewrite(packet))

\* A packet that does not fit is dropped.
Enqueue(packet) == out' = IF Room THEN Append(out, Rewrite(packet)) ELSE out
-----------------------------------------------------------------------------
(***************************************************************************)
(* Run                                                                     *)
(***************************************************************************)
Top ==
  /\ pc = "top"
  /\ IF cancelled THEN pc' = "done" /\ UNCHANGED <<status, pushing, out, lost>>
     ELSE SetStatus("connecting", "dial")
  /\ UNCHANGED <<cancelled, peer, kernel, heard>>

\* A fresh client is always sent to, whatever became of the connection before.
Connect ==
  /\ pc = "dial" /\ ~cancelled
  /\ peer' = "sends" /\ kernel' = <<>>
  /\ SetStatus("connected", "read")
  /\ UNCHANGED <<cancelled, heard>>

\* Refused, timed out or cancelled.
DialFails ==
  /\ pc = "dial"
  /\ SetStatus("disconnected", "sleep")
  /\ UNCHANGED <<cancelled, peer, kernel, heard>>

Leave ==
  /\ peer' = "none" /\ kernel' = <<>>
  /\ SetStatus("disconnected", "sleep")
  /\ UNCHANGED <<cancelled, heard>>

\* The context is looked at before each Decode, not during it.
LoopHead ==
  /\ pc = "read"
  /\ IF cancelled THEN Leave
     ELSE pc' = "decode" /\ UNCHANGED <<status, pushing, out, cancelled, peer, kernel, heard, lost>>

Decode ==
  /\ pc = "decode" /\ kernel # <<>>
  /\ Enqueue(Head(kernel))
  /\ kernel' = Tail(kernel)
  /\ pc' = "read"
  /\ UNCHANGED <<status, pushing, cancelled, peer, heard, lost>>

\* The end of the stream comes after its bytes; a reset, or bytes that do not
\* parse, end it at once.
HangUp ==
  /\ pc = "decode"
  /\ peer = "reset" \/ (peer = "closed" /\ kernel = <<>>)
  /\ Leave

\* The silence ends only connections the game has closed.
BugIdleTimeout == pc = "decode" /\ kernel = <<>> /\ peer = "closed" /\ Leave

\* rlIdleTimeout without a packet.
IdleTimeout == pc = "decode" /\ kernel = <<>> /\ peer \in {"sends", "mute"} /\ Leave

Sleep ==
  /\ pc = "sleep"
  /\ pc' = IF cancelled THEN "done" ELSE "top"
  /\ UNCHANGED <<status, pushing, out, cancelled, peer, kernel, heard, lost>>

Runs ==
  Push \/ GiveUp \/ Top \/ Connect \/ DialFails \/ LoopHead \/ Decode \/ HangUp \/ IdleTimeout \/ Sleep
-----------------------------------------------------------------------------
(***************************************************************************)
(* The game, the pipeline and the shutdown                                 *)
(***************************************************************************)
Send(packet) ==
  /\ peer = "sends" /\ Len(kernel) < KernelCap
  /\ kernel' = Append(kernel, packet)
  /\ UNCHANGED <<run, out, cancelled, peer, heard, lost>>

\* The game falls silent on a connection it leaves open, or ends it.
Fades(how) ==
  /\ peer = "sends" \/ (peer = "mute" /\ how # "mute")
  /\ peer' = how
  /\ UNCHANGED <<run, out, cancelled, kernel, heard, lost>>

Take ==
  /\ out # <<>>
  /\ out' = Tail(out)
  /\ heard' = IF IsStatus(Head(out)) THEN Head(out).status ELSE heard
  /\ UNCHANGED <<run, cancelled, peer, kernel, lost>>

Shutdown ==
  /\ ~cancelled /\ cancelled' = TRUE
  /\ UNCHANGED <<run, out, peer, kernel, heard, lost>>

Next ==
  \/ Runs
  \/ \E packet \in Packets : Send(packet)
  \/ \E how \in {"mute", "closed", "reset"} : Fades(how)
  \/ Take
  \/ Shutdown

\* Run's goroutine is scheduled and its timers fire; nothing is assumed of the
\* pipeline or of the game.
Spec == Init /\ [][Next]_vars /\ WF_vars(Runs)
-----------------------------------------------------------------------------
\* Every variable has its type; the channel and the kernel are within bounds.
SourceTypeOK ==
  /\ pc \in {"top", "dial", "read", "decode", "sleep", "push", "done"}
  /\ status \in Statuses /\ heard \in Statuses
  /\ pc = "push" <=> pushing # Nothing
  /\ Len(out) <= OutCap /\ Len(kernel) <= KernelCap
  /\ lost \in BOOLEAN /\ cancelled \in BOOLEAN
  /\ peer \in {"none", "sends", "mute", "closed", "reset"}

\* st is the last status in the channel or, with none there, the last one taken.
WillHear(st) ==
  \/ \E i \in 1..Len(out) :
       /\ IsStatus(out[i]) /\ out[i].status = st
       /\ \A j \in (i + 1)..Len(out) : ~IsStatus(out[j])
  \/ heard = st /\ \A i \in 1..Len(out) : ~IsStatus(out[i])

\* Unless a status event was given up, the pipeline will have heard the present
\* status once it has taken what is queued, and every packet is read under
\* "connected": a consumer can tell the packets of one connection from those of
\* the next (setStatus, readLoop).
StatusArrives ==
  /\ pushing = Nothing /\ ~lost => WillHear(status)
  /\ pc \in {"read", "decode"} => status = "connected"

\* The game never freezes for good on our side: a full kernel buffer is read,
\* though the pipeline may never take anything again (enqueue).
GameIsRead == Len(kernel) = KernelCap ~> Len(kernel) < KernelCap

\* A connection on which the game fell silent is left (rlIdleTimeout).
SilenceIsLeft == peer = "mute" ~> peer # "mute"

\* Run returns after a shutdown, wherever it was, without help of the game or
\* the pipeline.
RunReturns == cancelled ~> pc = "done"
=============================================================================
