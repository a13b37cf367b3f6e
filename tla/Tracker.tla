------------------------------ MODULE Tracker ------------------------------
(***************************************************************************)
(* The tracker.gg client of backend/internal/tracker: a lookup is answered *)
(* from the cache, turned away by the circuit breaker, or waits for the    *)
(* token bucket and asks upstream.  Requests share the cache, the breaker  *)
(* and the bucket, each behind a mutex of its own, and interleave anywhere *)
(* else.                                                                   *)
(*                                                                         *)
(* Time passes in ticks.  Tokens are counted in ticks too: what refills in *)
(* one tick is the unit, and a request costs Cost of them.                 *)
(***************************************************************************)
EXTENDS Naturals, FiniteSets

CONSTANTS
  Callers,    \* requests for /api/mmr that run at the same time
  Keys,       \* platform and player
  Cost,       \* ticks in which one token refills
  Capacity,   \* the burst, in ticks
  Budget,     \* the longest single wait
  Threshold,  \* blocked answers that open the circuit
  Cooldown,   \* how long it stays open
  TTL,        \* how long an answer may be served from the cache
  Horizon,    \* bound: ticks of a behaviour
  None        \* no time, no key

ASSUME BucketAssumption == Cost \in Nat \ {0} /\ Capacity \in Nat /\ Budget \in Nat
ASSUME BreakerAssumption == Threshold \in Nat \ {0} /\ Cooldown \in Nat
ASSUME HorizonAssumption == Horizon \in Nat /\ TTL \in Nat \ {0} /\ None \notin Nat \cup Keys

Ticks == 0..Horizon
Stamps == Ticks \cup {None}
Entries == [Keys -> Stamps]  \* when the answer for a key was fetched
Empty == [k \in Keys |-> None]

VARIABLES
  now,
  level, last,      \* limiter.tokens and limiter.last
  count, openedAt,  \* breaker.count and breaker.openedAt
  entries,          \* cache.entries
  file,             \* tracker-mmr-cache.json; Empty also when there is none
  at,               \* where each request is in Lookup
  key,              \* what it asks for
  until,            \* when its timer fires, or when it was answered
  spent,            \* observer: ticks' worth of tokens handed out since a time
  run, blocked      \* observer: blocked answers in a row, and the last of them

bucket == <<level, last, spent>>
circuit == <<count, openedAt, run, blocked>>
cache == <<entries, file>>
calls == <<at, key, until>>
vars == <<now, bucket, circuit, cache, calls>>

Init ==
  /\ now = 0 /\ level = Capacity /\ last = 0
  /\ count = 0 /\ openedAt = None
  /\ entries = Empty /\ file = Empty
  /\ at = [c \in Callers |-> "idle"]
  /\ key = [c \in Callers |-> None] /\ until = [c \in Callers |-> 0]
  /\ spent = [t \in Ticks |-> 0] /\ run = 0 /\ blocked = 0
-----------------------------------------------------------------------------
\* A request holds the cache's mutex while it writes the file.
CacheIsFree == \A c \in Callers : at[c] \notin {"flush", "swap"}

Goto(c, label) == at' = [at EXCEPT ![c] = label]

\* Whether the answer fetched at t has not been kept for longer than TTL ...
Kept(t) == t # None /\ t + TTL >= now

\* ... and whether Get still serves it: at exactly TTL they differ.
Fresh(t) == t # None /\ now < t + TTL

Request(c, k) ==
  /\ at[c] = "idle"
  /\ key' = [key EXCEPT ![c] = k]
  /\ Goto(c, "get")
  /\ UNCHANGED <<now, bucket, circuit, cache, until>>

\* cache.Get
Get(c) ==
  /\ at[c] = "get" /\ CacheIsFree
  /\ IF Fresh(entries[key[c]])
     THEN Goto(c, "idle") /\ UNCHANGED entries
     ELSE Goto(c, "check") /\ entries' = [entries EXCEPT ![key[c]] = None]
  /\ UNCHANGED <<now, bucket, circuit, file, key, until>>

\* breaker.IsOpen: once the cooldown is over it lets everyone through, and
\* keeps the count, so that one more blocked answer opens it again.
IsOpen(c) ==
  /\ at[c] = "check"
  /\ IF openedAt # None /\ now - openedAt < Cooldown
     THEN Goto(c, "idle") /\ UNCHANGED openedAt
     ELSE Goto(c, "acquire") /\ openedAt' = None
  /\ UNCHANGED <<now, bucket, count, run, blocked, cache, key, until>>
-----------------------------------------------------------------------------
(***************************************************************************)
(* limiter.Acquire, one turn of its loop                                   *)
(***************************************************************************)
Least(m, n) == IF m <= n THEN m ELSE n

\* What the bucket holds by now, not limited to its burst.
BugLevel == level + (now - last)

\* What the bucket holds by now.
Level == Least(level + (now - last), Capacity)

Take(c) ==
  /\ Level >= Cost
  /\ level' = Level - Cost
  /\ spent' = [t \in Ticks |-> IF t <= now THEN spent[t] + Cost ELSE spent[t]]
  /\ Goto(c, "ask")
  /\ UNCHANGED until

\* The wait is compared with the budget, the waits before it are not counted.
Wait(c) ==
  /\ Level < Cost
  /\ level' = Level
  /\ IF Cost - Level > Budget
     THEN Goto(c, "idle") /\ UNCHANGED until
     ELSE Goto(c, "wait") /\ until' = [until EXCEPT ![c] = now + (Cost - Level)]
  /\ UNCHANGED spent

Acquire(c) ==
  /\ at[c] = "acquire"
  /\ Take(c) \/ Wait(c)
  /\ last' = now
  /\ UNCHANGED <<now, circuit, cache, key>>

WakeUp(c) ==
  /\ at[c] = "wait" /\ until[c] <= now
  /\ Goto(c, "acquire")
  /\ until' = [until EXCEPT ![c] = 0]
  /\ UNCHANGED <<now, bucket, circuit, cache, key>>
-----------------------------------------------------------------------------
(***************************************************************************)
(* The answer                                                              *)
(***************************************************************************)
\* RecordSuccess, also of a request sent before the circuit opened.
Answered(c) ==
  /\ at[c] = "ask"
  /\ count' = 0 /\ openedAt' = None
  /\ run' = 0 /\ UNCHANGED blocked
  /\ until' = [until EXCEPT ![c] = now]
  /\ Goto(c, "put")
  /\ UNCHANGED <<now, bucket, cache, key>>

\* Only the answer that reaches the threshold opens the circuit.
BugBlocked(c) ==
  /\ at[c] = "ask"
  /\ count' = Least(count + 1, Threshold)
  /\ openedAt' = IF count + 1 = Threshold THEN now ELSE openedAt
  /\ run' = Least(run + 1, Threshold) /\ blocked' = now
  /\ Goto(c, "idle")
  /\ UNCHANGED <<now, bucket, cache, key, until>>

\* RecordBlocked: 403 or 429.  The count is capped here, not in the code.
Blocked(c) ==
  /\ at[c] = "ask"
  /\ count' = Least(count + 1, Threshold)
  /\ openedAt' = IF count + 1 >= Threshold THEN now ELSE openedAt
  /\ run' = Least(run + 1, Threshold) /\ blocked' = now
  /\ Goto(c, "idle")
  /\ UNCHANGED <<now, bucket, cache, key, until>>

\* Not found, any other status, a body that does not parse, no connection.
Failed(c) ==
  /\ at[c] = "ask"
  /\ Goto(c, "idle")
  /\ UNCHANGED <<now, bucket, circuit, cache, key, until>>

\* The client of the request went away while it waited.
GiveUp(c) ==
  /\ at[c] \in {"wait", "ask"}
  /\ Goto(c, "idle")
  /\ until' = [until EXCEPT ![c] = 0]
  /\ UNCHANGED <<now, bucket, circuit, cache, key>>

\* cache.Put: the entry carries the time of the answer ...
Put(c) ==
  /\ at[c] = "put" /\ CacheIsFree
  /\ entries' = [entries EXCEPT ![key[c]] = until[c]]
  /\ Goto(c, "flush")
  /\ until' = [until EXCEPT ![c] = 0]
  /\ UNCHANGED <<now, bucket, circuit, file, key>>

\* ... flushLocked writes a copy and removes the file ...
Flush(c) ==
  /\ at[c] = "flush"
  /\ \/ file' = Empty /\ Goto(c, "swap")
     \/ UNCHANGED file /\ Goto(c, "idle")
  /\ UNCHANGED <<now, bucket, circuit, entries, key, until>>

\* ... and renames the copy.  A step that fails is logged, nothing more.
Swap(c) ==
  /\ at[c] = "swap"
  /\ \/ file' = [k \in Keys |-> IF Kept(entries[k]) THEN entries[k] ELSE None]
     \/ UNCHANGED file
  /\ Goto(c, "idle")
  /\ UNCHANGED <<now, bucket, circuit, entries, key, until>>
-----------------------------------------------------------------------------
\* The process starts again: New.  Nothing but the file survives.
Restart ==
  /\ entries' = [k \in Keys |-> IF Kept(file[k]) THEN file[k] ELSE None]
  /\ level' = Capacity /\ last' = now /\ spent' = [t \in Ticks |-> 0]
  /\ count' = 0 /\ openedAt' = None /\ run' = 0 /\ blocked' = now
  /\ at' = [c \in Callers |-> "idle"] /\ until' = [c \in Callers |-> 0]
  /\ UNCHANGED <<now, file, key>>

Elapse ==
  /\ now < Horizon
  /\ now' = now + 1
  /\ UNCHANGED <<bucket, circuit, cache, calls>>

Lookup(c) ==
  \/ \E k \in Keys : Request(c, k)
  \/ Get(c) \/ IsOpen(c) \/ Acquire(c) \/ WakeUp(c)
  \/ Answered(c) \/ Blocked(c) \/ Failed(c) \/ GiveUp(c)
  \/ Put(c) \/ Flush(c) \/ Swap(c)

Next == Restart \/ Elapse \/ \E c \in Callers : Lookup(c)

Spec == Init /\ [][Next]_vars
-----------------------------------------------------------------------------
\* Every variable has its type, the bucket holds no more than the burst, and
\* no stamp is later than now.
TrackerTypeOK ==
  /\ now \in Ticks /\ last \in 0..now /\ level \in 0..Capacity
  /\ count \in 0..Threshold /\ run \in 0..Threshold
  /\ blocked \in 0..now /\ openedAt \in (0..now) \cup {None}
  /\ entries \in Entries /\ file \in Entries
  /\ at \in [Callers -> {"idle", "get", "check", "acquire", "wait", "ask",
                         "put", "flush", "swap"}]
  /\ key \in [Callers -> Keys \cup {None}]
  /\ until \in [Callers -> Nat] /\ spent \in [Ticks -> Nat]

\* From any moment on, tracker.gg is sent no more requests than the burst and
\* what refilled since, however waits, wake-ups and cancellations of several
\* callers interleave (limiter.go:42).
RateHolds == \A t \in 0..now : spent[t] <= Capacity + (now - t)

\* A caller gets past the breaker only if fewer than Threshold answers in a
\* row were blocked, or the last of them is a cooldown ago: late answers of
\* requests sent before the circuit opened do not open it early (limiter.go:103).
CircuitHolds ==
  [][\A c \in Callers : at[c] = "check" /\ at'[c] = "acquire" =>
       run < Threshold \/ now - blocked >= Cooldown]_vars
=============================================================================
