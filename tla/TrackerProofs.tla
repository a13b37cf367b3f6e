--------------------------- MODULE TrackerProofs ---------------------------
(***************************************************************************)
(* Proofs about Tracker for any number of requests, any token price, burst,*)
(* threshold and cooldown.                                                 *)
(*                                                                         *)
(* RateHolds is not inductive: that no more than the burst and the refill  *)
(* was spent does not say what is left to spend.  Ledger adds what the     *)
(* bucket holds.  CircuitHolds needs Opened: when the circuit has seen     *)
(* enough blocked answers, either it was opened by the last of them, or    *)
(* somebody found the cooldown over since.                                 *)
(***************************************************************************)
EXTENDS Tracker, TLAPS

\* What was handed out since t and what could be handed out now together are
\* the burst and the refill; nothing is booked for a time to come.
Ledger ==
  /\ \A t \in 0..now : spent[t] + Level <= Capacity + (now - t)
  /\ \A t \in Ticks : t > now => spent[t] = 0

Opened ==
  /\ run = count
  /\ run >= Threshold =>
       \/ openedAt = blocked
       \/ openedAt = None /\ now - blocked >= Cooldown

LEMMA LevelType ==
  ASSUME level \in 0..Capacity, now \in Nat, last \in 0..now, Capacity \in Nat
  PROVE  Level \in 0..Capacity /\ Level >= level
BY DEF Level, Least

\* An answer waits for the cache with the time it came at.
Stamped == \A c \in Callers : at[c] = "put" => until[c] \in Ticks

LEMMA InitType == Init => TrackerTypeOK /\ Stamped
BY BucketAssumption, BreakerAssumption, HorizonAssumption
   DEF Init, TrackerTypeOK, Stamped, Ticks, Stamps, Entries, Empty

-----------------------------------------------------------------------------
(***************************************************************************)
(* Types                                                                   *)
(***************************************************************************)
LEMMA TypeStep == TrackerTypeOK /\ Stamped /\ [Next]_vars => TrackerTypeOK'
<1> SUFFICES ASSUME TrackerTypeOK, Stamped, [Next]_vars PROVE TrackerTypeOK'
  OBVIOUS
<1> USE BucketAssumption, BreakerAssumption, HorizonAssumption
<1>0. Level \in 0..Capacity
  BY LevelType DEF TrackerTypeOK, Ticks
<1>1. CASE Restart
  BY <1>1 DEF Restart, TrackerTypeOK, Ticks, Entries, Stamps
<1>2. CASE Elapse
  <2>1. now' \in Ticks /\ 0..now \subseteq 0..now'
    BY <1>2 DEF Elapse, TrackerTypeOK, Ticks
  <2>. QED
    BY <1>2, <2>1 DEF Elapse, TrackerTypeOK, bucket, circuit, cache, calls
<1>3. ASSUME NEW c \in Callers, NEW k \in Keys, Request(c, k) PROVE TrackerTypeOK'
  BY <1>3 DEF Request, Goto, TrackerTypeOK, bucket, circuit, cache
<1>4. ASSUME NEW c \in Callers, Get(c) PROVE TrackerTypeOK'
  BY <1>4 DEF Get, Goto, TrackerTypeOK, Entries, Stamps, bucket, circuit
<1>5. ASSUME NEW c \in Callers, IsOpen(c) PROVE TrackerTypeOK'
  BY <1>5 DEF IsOpen, Goto, TrackerTypeOK, bucket, cache
<1>6. ASSUME NEW c \in Callers, Acquire(c) PROVE TrackerTypeOK'
  <2>1. CASE Take(c)
    BY <1>0, <1>6, <2>1 DEF Acquire, Take, Goto, TrackerTypeOK, Ticks, circuit, cache
  <2>2. CASE Wait(c)
    <3>1. until' \in [Callers -> Nat]
      <4>1. now + (Cost - Level) \in Nat
        <5>1. now \in Nat /\ Level \in Nat /\ Cost \in Nat /\ Level < Cost
          BY <1>0, <2>2 DEF Wait, TrackerTypeOK, Ticks
        <5>. QED
          BY <5>1
      <4>2. until' = until \/ until' = [until EXCEPT ![c] = now + (Cost - Level)]
        BY <2>2 DEF Wait
      <4>. QED
        BY <4>1, <4>2 DEF TrackerTypeOK
    <3>2. at' \in [Callers -> {"idle", "get", "check", "acquire", "wait", "ask",
                              "put", "flush", "swap"}]
      BY <2>2 DEF Wait, Goto, TrackerTypeOK
    <3>3. last' \in 0..now' /\ level' \in 0..Capacity
      BY <1>0, <1>6, <2>2 DEF Acquire, Wait, TrackerTypeOK, Ticks
    <3>. QED
      BY <1>6, <2>2, <3>1, <3>2, <3>3 DEF Acquire, Wait, TrackerTypeOK, circuit, cache
  <2>. QED
    BY <1>6, <2>1, <2>2 DEF Acquire
<1>7. ASSUME NEW c \in Callers, WakeUp(c) PROVE TrackerTypeOK'
  BY <1>7 DEF WakeUp, Goto, TrackerTypeOK, bucket, circuit, cache
<1>8. ASSUME NEW c \in Callers, Answered(c) PROVE TrackerTypeOK'
  BY <1>8 DEF Answered, Goto, TrackerTypeOK, Ticks, bucket, cache
<1>9. ASSUME NEW c \in Callers, Blocked(c) PROVE TrackerTypeOK'
  BY <1>9 DEF Blocked, Goto, Least, TrackerTypeOK, Ticks, bucket, cache
<1>10. ASSUME NEW c \in Callers, Failed(c) \/ GiveUp(c) PROVE TrackerTypeOK'
  BY <1>10 DEF Failed, GiveUp, Goto, TrackerTypeOK, bucket, circuit, cache
<1>11. ASSUME NEW c \in Callers, Put(c) PROVE TrackerTypeOK'
  <2>1. until[c] \in Stamps
    BY <1>11 DEF Put, Stamped, Stamps
  <2>2. entries' \in Entries
    BY <1>11, <2>1 DEF Put, TrackerTypeOK, Entries
  <2>. QED
    BY <1>11, <2>2 DEF Put, Goto, TrackerTypeOK, bucket, circuit
<1>12. ASSUME NEW c \in Callers, Flush(c) PROVE TrackerTypeOK'
  BY <1>12 DEF Flush, Goto, Empty, TrackerTypeOK, Entries, Stamps, bucket, circuit
<1>13. ASSUME NEW c \in Callers, Swap(c) PROVE TrackerTypeOK'
  BY <1>13 DEF Swap, Goto, TrackerTypeOK, Entries, Stamps, bucket, circuit
<1>14. CASE UNCHANGED vars
  BY <1>14 DEF TrackerTypeOK, vars, bucket, circuit, cache, calls
<1>. QED
  BY <1>1, <1>2, <1>3, <1>4, <1>5, <1>6, <1>7, <1>8, <1>9, <1>10, <1>11,
     <1>12, <1>13, <1>14 DEF Next, Lookup

LEMMA StampedStep == TrackerTypeOK /\ Stamped /\ [Next]_vars => Stamped'
<1> SUFFICES ASSUME TrackerTypeOK, Stamped, [Next]_vars,
                    NEW d \in Callers, at'[d] = "put"
             PROVE  until'[d] \in Ticks
  BY DEF Stamped
<1>1. CASE Restart
  BY <1>1 DEF Restart
<1>2. CASE Elapse \/ UNCHANGED vars
  BY <1>2 DEF Elapse, Stamped, vars, calls
<1>3. ASSUME NEW c \in Callers, Answered(c) PROVE until'[d] \in Ticks
  BY <1>3 DEF Answered, Goto, Stamped, TrackerTypeOK
<1>4. ASSUME NEW c \in Callers, Lookup(c), ~Answered(c) PROVE until'[d] \in Ticks
  <2>1. CASE d = c
    BY <1>4, <2>1 DEF Lookup, Request, Get, IsOpen, Acquire, Take, Wait, WakeUp,
       Blocked, Failed, GiveUp, Put, Flush, Swap, Goto, TrackerTypeOK
  <2>2. CASE d # c
    <3>1. at'[d] = at[d] /\ until'[d] = until[d]
      BY <1>4, <2>2 DEF Lookup, Request, Get, IsOpen, Acquire, Take, Wait, WakeUp,
         Blocked, Failed, GiveUp, Put, Flush, Swap, Goto, TrackerTypeOK
    <3>. QED
      BY <3>1 DEF Stamped
  <2>. QED
    BY <2>1, <2>2
<1>. QED
  BY <1>1, <1>2, <1>3, <1>4 DEF Next

\* Every variable has its type, the bucket never holds more than the burst, and
\* no stamp of the limiter or the breaker is later than now.
THEOREM TrackerTypeCorrect == Spec => []TrackerTypeOK
BY InitType, TypeStep, StampedStep, PTL DEF Spec
-----------------------------------------------------------------------------
(***************************************************************************)
(* The bucket                                                              *)
(***************************************************************************)
LEMMA LedgerStep == TrackerTypeOK /\ Ledger /\ [Next]_vars => Ledger'
<1> SUFFICES ASSUME TrackerTypeOK, Ledger, [Next]_vars PROVE Ledger'
  OBVIOUS
<1> USE BucketAssumption, HorizonAssumption
<1>0. /\ now \in Nat /\ last \in 0..now /\ level \in 0..Capacity
      /\ spent \in [Ticks -> Nat] /\ 0..now \subseteq Ticks
      /\ Level \in 0..Capacity
  BY LevelType DEF TrackerTypeOK, Ticks
<1>1. CASE Restart
  <2>1. now' = now /\ Level' <= Capacity
    BY <1>0, <1>1 DEF Restart, Level, Least
  <2>2. \A t \in Ticks : spent'[t] = 0
    BY <1>1 DEF Restart
  <2>3. Level' \in Nat
    BY <1>0, <1>1 DEF Restart, Level, Least
  <2>. QED
    BY <1>0, <2>1, <2>2, <2>3 DEF Ledger
<1>2. CASE Elapse
  <2>1. now' = now + 1 /\ spent' = spent
    BY <1>2 DEF Elapse, bucket
  <2>2. Level' \in Nat /\ Level' <= Level + 1 /\ Level' <= Capacity
    BY <1>0, <1>2 DEF Elapse, bucket, Level, Least
  <2>3. now' \in Ticks
    BY <1>0, <1>2 DEF Elapse, Ticks
  <2>4. ASSUME NEW t \in 0..now' PROVE spent'[t] + Level' <= Capacity + (now' - t)
    <3>1. CASE t \in 0..now
      <4>1. spent[t] \in Nat /\ spent[t] + Level <= Capacity + (now - t)
        BY <1>0, <3>1 DEF Ledger
      <4>. QED
        BY <1>0, <2>1, <2>2, <3>1, <4>1, BucketAssumption
    <3>2. CASE t = now'
      <4>1. spent[t] = 0
        BY <1>0, <2>1, <2>3, <3>2 DEF Ledger
      <4>. QED
        <5>1. spent'[t] = 0 /\ now' - t = 0
          BY <1>0, <2>1, <3>2, <4>1
        <5>. QED
          BY <2>2, <5>1
    <3>. QED
      BY <1>0, <2>1, <3>1, <3>2
  <2>. QED
    BY <1>0, <2>1, <2>4 DEF Ledger, Ticks
<1>3. ASSUME NEW c \in Callers, Acquire(c) PROVE Ledger'
  <2>1. now' = now /\ last' = now
    BY <1>3 DEF Acquire
  <2>2. CASE Take(c)
    <3>1. level' = Level - Cost /\ Level >= Cost
      BY <2>2 DEF Take
    <3>2. Level' = Level - Cost
      BY <1>0, <2>1, <3>1 DEF Level, Least
    <3>3. ASSUME NEW t \in Ticks
          PROVE  spent'[t] = IF t <= now THEN spent[t] + Cost ELSE spent[t]
      BY <2>2 DEF Take
    <3>4. ASSUME NEW t \in 0..now PROVE spent'[t] + Level' <= Capacity + (now - t)
      <4>1. spent[t] \in Nat /\ spent[t] + Level <= Capacity + (now - t)
        BY <1>0 DEF Ledger
      <4>2. spent'[t] = spent[t] + Cost
        BY <1>0, <3>3
      <4>. QED
        BY <1>0, <3>2, <4>1, <4>2
    <3>5. ASSUME NEW t \in Ticks, t > now PROVE spent'[t] = 0
      BY <1>0, <3>3, <3>5 DEF Ledger, Ticks
    <3>. QED
      BY <2>1, <3>4, <3>5 DEF Ledger
  <2>3. CASE Wait(c)
    <3>1. Level' = Level /\ spent' = spent
      BY <1>0, <2>1, <2>3 DEF Wait, Level, Least
    <3>. QED
      BY <2>1, <3>1 DEF Ledger
  <2>. QED
    BY <1>3, <2>2, <2>3 DEF Acquire
<1>4. ASSUME NEW c \in Callers, Lookup(c), ~Acquire(c) PROVE UNCHANGED <<now, bucket>>
  BY <1>4 DEF Lookup, Request, Get, IsOpen, WakeUp, Answered, Blocked, Failed,
     GiveUp, Put, Flush, Swap
<1>5. CASE UNCHANGED <<now, bucket>>
  BY <1>5 DEF Ledger, Level, Least, bucket
<1>. QED
  BY <1>1, <1>2, <1>3, <1>4, <1>5 DEF Next, vars

\* In any stretch of time tracker.gg gets no more requests than the burst and
\* what refilled in it, however many requests wait and give up.
THEOREM RateIsLimited == Spec => []RateHolds
<1>1. Init => Ledger
  BY BucketAssumption, HorizonAssumption DEF Init, Ledger, Level, Least, Ticks
<1>2. TrackerTypeOK /\ Ledger => RateHolds
  <2> SUFFICES ASSUME TrackerTypeOK, Ledger, NEW t \in 0..now
               PROVE  spent[t] <= Capacity + (now - t)
    BY DEF RateHolds
  <2>1. Level \in 0..Capacity
    BY LevelType, BucketAssumption DEF TrackerTypeOK, Ticks
  <2>2. spent[t] \in Nat /\ now \in Nat
    BY HorizonAssumption DEF TrackerTypeOK, Ticks
  <2>. QED
    BY <2>1, <2>2, BucketAssumption DEF Ledger
<1>. QED
  BY <1>1, <1>2, LedgerStep, TrackerTypeCorrect, PTL DEF Spec
-----------------------------------------------------------------------------
(***************************************************************************)
(* The breaker                                                             *)
(***************************************************************************)
LEMMA OpenedStep == TrackerTypeOK /\ Opened /\ [Next]_vars => Opened'
<1> SUFFICES ASSUME TrackerTypeOK, Opened, [Next]_vars PROVE Opened'
  OBVIOUS
<1> USE BreakerAssumption, HorizonAssumption
<1>0. now \in Nat /\ blocked \in 0..now /\ openedAt \in (0..now) \cup {None}
      /\ run \in Nat /\ count \in Nat
  BY DEF TrackerTypeOK, Ticks
<1>1. CASE Restart
  BY <1>1 DEF Restart, Opened
<1>2. CASE Elapse
  BY <1>0, <1>2 DEF Elapse, Opened, circuit
<1>3. ASSUME NEW c \in Callers, IsOpen(c) PROVE Opened'
  BY <1>0, <1>3 DEF IsOpen, Opened
<1>4. ASSUME NEW c \in Callers, Answered(c) PROVE Opened'
  BY <1>4 DEF Answered, Opened
<1>5. ASSUME NEW c \in Callers, Blocked(c) PROVE Opened'
  BY <1>0, <1>5 DEF Blocked, Opened, Least
<1>6. ASSUME NEW c \in Callers, Lookup(c), ~IsOpen(c), ~Answered(c), ~Blocked(c)
      PROVE  UNCHANGED <<now, circuit>>
  BY <1>6 DEF Lookup, Request, Get, Acquire, WakeUp, Failed, GiveUp, Put, Flush, Swap
<1>7. CASE UNCHANGED <<now, circuit>>
  BY <1>7 DEF Opened, circuit
<1>. QED
  BY <1>1, <1>2, <1>3, <1>4, <1>5, <1>6, <1>7 DEF Next, vars

\* Nobody passes the breaker within a cooldown of the last of Threshold blocked
\* answers in a row, whatever requests were under way when it opened.
THEOREM CircuitIsHeld == Spec => CircuitHolds
<1>1. Init => Opened
  BY BreakerAssumption DEF Init, Opened
<1>2. TrackerTypeOK /\ Opened /\ [Next]_vars =>
        [\A c \in Callers : at[c] = "check" /\ at'[c] = "acquire" =>
           run < Threshold \/ now - blocked >= Cooldown]_vars
  <2> SUFFICES ASSUME TrackerTypeOK, Opened, Next, NEW c \in Callers,
                      at[c] = "check", at'[c] = "acquire"
               PROVE  run < Threshold \/ now - blocked >= Cooldown
    OBVIOUS
  <2>0. now \in Nat /\ blocked \in 0..now /\ openedAt \in (0..now) \cup {None}
        /\ run \in Nat /\ Threshold \in Nat /\ Cooldown \in Nat
    BY BreakerAssumption, HorizonAssumption DEF TrackerTypeOK, Ticks
  <2>1. IsOpen(c)
    <3>1. ~Restart /\ ~Elapse
      BY DEF Restart, Elapse, calls
    <3>2. PICK d \in Callers : Lookup(d)
      BY <3>1 DEF Next
    <3>. QED
      BY <3>2 DEF Lookup, Request, Get, IsOpen, Acquire, Take, Wait, WakeUp, Answered,
         Blocked, Failed, GiveUp, Put, Flush, Swap, Goto, TrackerTypeOK
  <2>2. ~(openedAt # None /\ now - openedAt < Cooldown)
    BY <2>1 DEF IsOpen, Goto, TrackerTypeOK
  <2>. QED
    BY <2>0, <2>2, HorizonAssumption DEF Opened
<1>. QED
  BY <1>1, <1>2, OpenedStep, TrackerTypeCorrect, PTL DEF Spec, CircuitHolds
=============================================================================
