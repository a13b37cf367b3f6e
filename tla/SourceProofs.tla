---------------------------- MODULE SourceProofs ----------------------------
(***************************************************************************)
(* Theorems of Source, for any packets and any buffer sizes: types, and    *)
(* the pipeline hears the status the source has.                           *)
(***************************************************************************)
EXTENDS Source, SequenceTheorems, TLAPS

Queueable == {StatusEvent(st) : st \in Statuses} \cup {Rewrite(packet) : packet \in Packets}

\* What waits in the channel and in the socket, and the push that waits for
\* room: it is of the present status, and leads to a read only when connected.
Queues ==
  /\ out \in Seq(Queueable) /\ kernel \in Seq(Packets)
  /\ pushing # Nothing =>
       /\ pushing \in Pushes /\ pushing.status = status
       /\ pushing.next = "read" => status = "connected"

SourceInv == SourceTypeOK /\ StatusArrives /\ Queues
-----------------------------------------------------------------------------
(***************************************************************************)
(* The channel, and the last status in it                                  *)
(***************************************************************************)
LEMMA Named ==
  ASSUME NEW packet \in Packets PROVE ~IsStatus(Rewrite(packet))
BY PacketsAssumption DEF Rewrite, IsStatus

LEMMA QueueableStatus ==
  ASSUME NEW e \in Queueable, IsStatus(e) PROVE e.status \in Statuses
BY Named DEF Queueable, StatusEvent

\* A status sent is the last one; any other event leaves the last one.
LEMMA HeardByAppend ==
  ASSUME out \in Seq(Queueable), NEW e \in Queueable, out' = Append(out, e), heard' = heard
  PROVE  /\ Len(out') = Len(out) + 1
         /\ out' \in Seq(Queueable)
         /\ \A st : e = StatusEvent(st) => WillHear(st)'
         /\ \A st : ~IsStatus(e) /\ WillHear(st) => WillHear(st)'
<1> DEFINE n == Len(out)
<1>1. /\ n \in Nat /\ Len(out') = n + 1 /\ out' \in Seq(Queueable)
      /\ out'[n + 1] = e /\ \A i \in 1..n : out'[i] = out[i]
  BY AppendProperties, LenProperties
<1> HIDE DEF n
<1>2. ASSUME NEW st, e = StatusEvent(st) PROVE WillHear(st)'
  <2>1. n + 1 \in 1..Len(out') /\ \A j \in (n + 2)..Len(out') : FALSE
    BY <1>1
  <2>2. IsStatus(out'[n + 1]) /\ out'[n + 1].status = st
    BY <1>1, <1>2 DEF IsStatus, StatusEvent
  <2>3. (n + 1) + 1 = n + 2
    BY <1>1
  <2>. QED
    BY <2>1, <2>2, <2>3 DEF WillHear, IsStatus
<1>3. ASSUME NEW st, ~IsStatus(e), WillHear(st) PROVE WillHear(st)'
  <2>1. CASE heard = st /\ \A i \in 1..n : ~IsStatus(out[i])
    <3>1. \A i \in 1..(n + 1) : ~IsStatus(out'[i])
      BY <1>1, <1>3, <2>1
    <3>. QED
      BY <1>1, <2>1, <3>1 DEF WillHear, IsStatus
  <2>2. CASE \E i \in 1..n : /\ IsStatus(out[i]) /\ out[i].status = st
                             /\ \A j \in (i + 1)..n : ~IsStatus(out[j])
    <3>1. PICK i \in 1..n : /\ IsStatus(out[i]) /\ out[i].status = st
                            /\ \A j \in (i + 1)..n : ~IsStatus(out[j])
      BY <2>2
    <3>2. \A j \in (i + 1)..(n + 1) : ~IsStatus(out'[j])
      <4> TAKE j \in (i + 1)..(n + 1)
      <4>1. j \in 1..n \/ j = n + 1
        BY <1>1
      <4>. QED
        BY <1>1, <1>3, <3>1, <4>1
    <3>3. i \in 1..(n + 1) /\ out'[i] = out[i]
      BY <1>1
    <3>. QED
      BY <1>1, <3>1, <3>2, <3>3 DEF WillHear, IsStatus
  <2>. QED
    BY <1>3, <2>1, <2>2 DEF WillHear, n
<1>. QED
  BY <1>1, <1>2, <1>3 DEF n

\* Taking the first event moves a status from the channel to what was heard.
LEMMA HeardByTake ==
  ASSUME out \in Seq(Queueable), heard \in Statuses, Take
  PROVE  /\ Len(out') = Len(out) - 1
         /\ out' \in Seq(Queueable)
         /\ heard' \in Statuses
         /\ \A st : WillHear(st) => WillHear(st)'
<1> DEFINE n == Len(out)
<1>1. /\ n \in Nat /\ n > 0 /\ Len(out') = n - 1 /\ out' \in Seq(Queueable)
      /\ Head(out) = out[1] /\ Head(out) \in Queueable
      /\ \A i \in 1..(n - 1) : out'[i] = out[i + 1]
  BY HeadTailProperties, EmptySeq, LenProperties DEF Take
<1>2. heard' = IF IsStatus(out[1]) THEN out[1].status ELSE heard
  BY <1>1 DEF Take
<1>3. heard' \in Statuses
  BY <1>1, <1>2, QueueableStatus
<1> HIDE DEF n
<1>4. \A j \in 1..(n - 1) : j + 1 \in 1..n /\ out'[j] = out[j + 1]
  BY <1>1
<1>5. ASSUME NEW st, WillHear(st) PROVE WillHear(st)'
  <2>1. CASE \A i \in 2..n : ~IsStatus(out[i])
    <3>1. \A j \in 1..(n - 1) : ~IsStatus(out'[j])
      <4> TAKE j \in 1..(n - 1)
      <4>1. j + 1 \in 2..n
        BY <1>1
      <4>. QED
        BY <1>4, <2>1, <4>1
    <3>2. heard' = st
      <4>1. CASE heard = st /\ \A i \in 1..n : ~IsStatus(out[i])
        BY <1>1, <1>2, <4>1
      <4>2. CASE \E i \in 1..n : IsStatus(out[i]) /\ out[i].status = st
        <5>1. PICK i \in 1..n : IsStatus(out[i]) /\ out[i].status = st
          BY <4>2
        <5>2. i = 1
          BY <1>1, <2>1, <5>1
        <5>. QED
          BY <1>2, <5>1, <5>2
      <4>. QED
        BY <1>5, <4>1, <4>2 DEF WillHear, n
    <3>. QED
      BY <1>1, <3>1, <3>2 DEF WillHear, IsStatus
  <2>2. CASE \E i \in 2..n : IsStatus(out[i])
    <3>1. PICK i \in 1..n : /\ IsStatus(out[i]) /\ out[i].status = st
                            /\ \A j \in (i + 1)..n : ~IsStatus(out[j])
      BY <1>1, <1>5, <2>2 DEF WillHear, n
    <3>2. i \in 2..n
      BY <1>1, <2>2, <3>1
    <3>3. i - 1 \in 1..(n - 1) /\ (i - 1) + 1 = i /\ out'[i - 1] = out[i]
      BY <1>1, <1>4, <3>2
    <3>4. \A j \in i..(n - 1) : ~IsStatus(out'[j])
      <4> TAKE j \in i..(n - 1)
      <4>1. j + 1 \in (i + 1)..n /\ j \in 1..(n - 1)
        BY <1>1, <3>2
      <4>. QED
        BY <1>4, <3>1, <4>1
    <3>. QED
      BY <1>1, <3>1, <3>3, <3>4 DEF WillHear, IsStatus
  <2>. QED
    BY <2>1, <2>2
<1>. QED
  BY <1>1, <1>3, <1>5 DEF n

LEMMA HeardAsBefore ==
  ASSUME UNCHANGED <<out, heard>> PROVE \A st : WillHear(st) => WillHear(st)'
BY DEF WillHear, IsStatus
-----------------------------------------------------------------------------
(***************************************************************************)
(* The steps                                                               *)
(***************************************************************************)
LEMMA InitSource == Init => SourceInv
<1> SUFFICES ASSUME Init PROVE SourceInv
  OBVIOUS
<1>1. Len(out) = 0 /\ Len(kernel) = 0 /\ out \in Seq(Queueable) /\ kernel \in Seq(Packets)
  BY DEF Init
<1>2. SourceTypeOK
  <2>1. Len(out) <= OutCap /\ Len(kernel) <= KernelCap
    BY <1>1, CapAssumption
  <2>2. pc \in {"top", "dial", "read", "decode", "sleep", "push", "done"}
    BY DEF Init
  <2>3. pc = "push" <=> pushing # Nothing
    BY DEF Init
  <2>. QED
    BY <2>1, <2>2, <2>3 DEF Init, SourceTypeOK, Statuses
<1>3. StatusArrives
  BY <1>1 DEF Init, StatusArrives, WillHear
<1>. QED
  BY <1>1, <1>2, <1>3 DEF Init, SourceInv, Queues

\* setStatus, wherever Run calls it.
LEMMA SetStatusStep ==
  ASSUME SourceInv, NEW st \in Statuses, NEW next \in {"dial", "read", "sleep"},
         next = "read" => st = "connected", pc # "push",
         SetStatus(st, next), UNCHANGED <<cancelled, heard>>,
         kernel' \in Seq(Packets), Len(kernel') <= KernelCap,
         peer' \in {"none", "sends", "mute", "closed", "reset"}
  PROVE  SourceInv'
<1> USE CapAssumption DEF SourceInv
<1>0. out \in Seq(Queueable) /\ Len(out) \in Nat /\ pushing = Nothing
  BY LenProperties DEF Queues, SourceTypeOK
<1>1. status' = st
  BY DEF SetStatus
<1>2. CASE status = st
  <2>1. pc' = next /\ UNCHANGED <<out, lost, pushing>>
    BY <1>2 DEF SetStatus
  <2>2. SourceTypeOK'
    BY <1>0, <1>1, <2>1 DEF SourceTypeOK
  <2>3. StatusArrives'
    BY <1>0, <1>1, <1>2, <2>1, HeardAsBefore DEF StatusArrives
  <2>. QED
    BY <1>0, <2>1, <2>2, <2>3 DEF Queues
<1>3. CASE status # st /\ Room
  <2>1. pc' = next /\ lost' = FALSE /\ out' = Append(out, StatusEvent(st)) /\ pushing' = pushing
    BY <1>3 DEF SetStatus
  <2>2. StatusEvent(st) \in Queueable
    BY DEF Queueable
  <2>3. Len(out') = Len(out) + 1 /\ out' \in Seq(Queueable) /\ WillHear(st)'
    BY <1>0, <2>1, <2>2, HeardByAppend
  <2>4. Len(out') <= OutCap
    BY <1>0, <1>3, <2>3 DEF Room
  <2>5. pc' = "push" <=> pushing' # Nothing
    BY <1>0, <2>1
  <2>6. SourceTypeOK'
    BY <1>1, <2>1, <2>4, <2>5 DEF SourceTypeOK
  <2>7. StatusArrives'
    BY <1>1, <2>1, <2>3 DEF StatusArrives
  <2>. QED
    BY <1>0, <2>1, <2>3, <2>6, <2>7 DEF Queues
<1>4. CASE status # st /\ ~Room
  <2>1. /\ pc' = "push" /\ UNCHANGED <<out, lost>>
        /\ pushing' = [status |-> st, next |-> next]
    BY <1>4 DEF SetStatus
  <2>2. pushing' \in Pushes /\ pushing'.status = st /\ pushing'.next = next
    BY <2>1 DEF Pushes
  <2>3. pushing' # Nothing
    BY <2>2, NothingAssumption
  <2>4. SourceTypeOK'
    BY <1>0, <1>1, <2>1, <2>3 DEF SourceTypeOK
  <2>5. StatusArrives'
    BY <2>1, <2>3 DEF StatusArrives
  <2>. QED
    BY <1>0, <1>1, <2>1, <2>2, <2>4, <2>5 DEF Queues
<1>. QED
  BY <1>2, <1>3, <1>4

LEMMA LeaveStep == ASSUME SourceInv, pc # "push", Leave PROVE SourceInv'
<1>1. Len(kernel') = 0 /\ kernel' \in Seq(Packets) /\ 0 <= KernelCap
  BY CapAssumption DEF Leave
<1>. QED
  BY <1>1, SetStatusStep DEF Leave, Statuses

LEMMA SourceStep == SourceInv /\ [Next]_vars => SourceInv'
<1> SUFFICES ASSUME SourceInv, [Next]_vars PROVE SourceInv'
  OBVIOUS
<1>0. /\ SourceTypeOK /\ StatusArrives /\ Queues
      /\ out \in Seq(Queueable) /\ kernel \in Seq(Packets)
      /\ Len(out) \in Nat /\ Len(kernel) \in Nat
  BY LenProperties DEF SourceInv, Queues
<1> USE CapAssumption DEF run
<1>1. CASE Push
  <2>1. pushing \in Pushes /\ pushing.status = status
    BY <1>0, <1>1 DEF Push, Queues, SourceTypeOK
  <2>2. status \in Statuses /\ pushing.next \in {"dial", "read", "sleep"}
    BY <2>1 DEF Pushes
  <2>3. StatusEvent(status) \in Queueable
    BY <2>2 DEF Queueable
  <2>4. Len(out') = Len(out) + 1 /\ out' \in Seq(Queueable) /\ WillHear(status)'
    BY <1>0, <1>1, <2>1, <2>3, HeardByAppend DEF Push
  <2>5. SourceTypeOK'
    <3>1. Len(out') <= OutCap
      BY <1>0, <1>1, <2>4 DEF Push, Room
    <3>2. pc' \in {"dial", "read", "sleep"} /\ pushing' = Nothing /\ lost' = FALSE
      BY <1>1, <2>2 DEF Push
    <3>3. pc' = "push" <=> pushing' # Nothing
      BY <3>2
    <3>. QED
      BY <1>0, <1>1, <3>1, <3>2, <3>3 DEF Push, SourceTypeOK
  <2>6. StatusArrives'
    <3>1. status' = status /\ pc' = pushing.next
      BY <1>1 DEF Push
    <3>2. pushing.next = "read" => status = "connected"
      BY <1>0, <1>1 DEF Push, Queues, SourceTypeOK
    <3>. QED
      BY <2>2, <2>4, <3>1, <3>2 DEF StatusArrives
  <2>. QED
    BY <1>0, <1>1, <2>4, <2>5, <2>6 DEF Push, SourceInv, Queues
<1>2. CASE GiveUp
  <2>1. /\ pushing.next \in {"dial", "read", "sleep"}
        /\ pushing.next = "read" => status = "connected"
    BY <1>0, <1>2 DEF GiveUp, Queues, Pushes, SourceTypeOK
  <2>2. SourceTypeOK'
    BY <1>0, <1>2, <2>1 DEF GiveUp, SourceTypeOK
  <2>3. StatusArrives'
    BY <1>2, <2>1 DEF GiveUp, StatusArrives
  <2>. QED
    BY <1>0, <1>2, <2>2, <2>3 DEF GiveUp, SourceInv, Queues
<1>3. ASSUME UNCHANGED <<status, pushing, out, heard, lost>>,
             pc' = pc \/ pc' \in {"done", "top", "decode"}, pc # pc' => pc # "push",
             pc' = "decode" => pc \in {"read", "decode"},
             kernel' \in Seq(Packets), Len(kernel') <= KernelCap, cancelled' \in BOOLEAN,
             peer' \in {"none", "sends", "mute", "closed", "reset"}
      PROVE  SourceInv'
  <2>1. SourceTypeOK'
    BY <1>0, <1>3 DEF SourceTypeOK
  <2>2. StatusArrives'
    BY <1>0, <1>3, HeardAsBefore DEF StatusArrives
  <2>. QED
    BY <1>0, <1>3, <2>1, <2>2 DEF SourceInv, Queues
<1>4. CASE Top
  <2>1. CASE cancelled
    BY <1>0, <1>3, <1>4, <2>1 DEF Top, SourceTypeOK
  <2>2. CASE ~cancelled
    BY <1>0, <1>4, <2>2, SetStatusStep DEF Top, SourceTypeOK, Statuses
  <2>. QED
    BY <2>1, <2>2
<1>5. CASE Connect
  <2>1. Len(kernel') = 0 /\ kernel' \in Seq(Packets)
    BY <1>5 DEF Connect
  <2>. QED
    BY <1>5, <2>1, SetStatusStep DEF Connect, Statuses
<1>6. CASE DialFails
  BY <1>0, <1>6, SetStatusStep DEF DialFails, SourceTypeOK, Statuses
<1>7. CASE LoopHead
  <2>1. CASE cancelled
    BY <1>7, <2>1, LeaveStep DEF LoopHead
  <2>2. CASE ~cancelled
    BY <1>0, <1>3, <1>7, <2>2 DEF LoopHead, SourceTypeOK
  <2>. QED
    BY <2>1, <2>2
<1>8. CASE Decode
  <2>1. Head(kernel) \in Packets /\ kernel' \in Seq(Packets) /\ Len(kernel') = Len(kernel) - 1
    BY <1>0, <1>8, HeadTailProperties DEF Decode
  <2>2. Rewrite(Head(kernel)) \in Queueable /\ ~IsStatus(Rewrite(Head(kernel)))
    BY <2>1, Named DEF Queueable
  <2>3. /\ out' \in Seq(Queueable) /\ Len(out') <= OutCap
        /\ \A st : WillHear(st) => WillHear(st)'
    <3>1. CASE Room
      BY <1>0, <1>8, <2>2, <3>1, HeardByAppend DEF Decode, Enqueue, Room
    <3>2. CASE ~Room
      BY <1>0, <1>8, <3>2, HeardAsBefore DEF Decode, Enqueue, SourceTypeOK
    <3>. QED
      BY <3>1, <3>2
  <2>4. SourceTypeOK'
    BY <1>0, <1>8, <2>1, <2>3 DEF Decode, SourceTypeOK
  <2>5. StatusArrives'
    BY <1>0, <1>8, <2>3 DEF Decode, StatusArrives
  <2>. QED
    BY <1>0, <1>8, <2>1, <2>3, <2>4, <2>5 DEF Decode, SourceInv, Queues
<1>9. CASE HangUp
  BY <1>9, LeaveStep DEF HangUp
<1>10. CASE IdleTimeout
  BY <1>10, LeaveStep DEF IdleTimeout
<1>11. CASE Sleep
  BY <1>0, <1>3, <1>11 DEF Sleep, SourceTypeOK
<1>12. ASSUME NEW packet \in Packets, Send(packet) PROVE SourceInv'
  <2>1. kernel' \in Seq(Packets) /\ Len(kernel') = Len(kernel) + 1
    BY <1>0, <1>12, AppendProperties DEF Send
  <2>. QED
    BY <1>0, <1>3, <1>12, <2>1 DEF Send, SourceTypeOK
<1>13. ASSUME NEW how \in {"mute", "closed", "reset"}, Fades(how) PROVE SourceInv'
  BY <1>0, <1>3, <1>13 DEF Fades, SourceTypeOK
<1>14. CASE Take
  <2>1. /\ out' \in Seq(Queueable) /\ Len(out') = Len(out) - 1 /\ heard' \in Statuses
        /\ \A st : WillHear(st) => WillHear(st)'
    BY <1>0, <1>14, HeardByTake DEF SourceTypeOK
  <2>2. SourceTypeOK'
    BY <1>0, <1>14, <2>1 DEF Take, SourceTypeOK
  <2>3. StatusArrives'
    BY <1>0, <1>14, <2>1 DEF Take, StatusArrives
  <2>. QED
    BY <1>0, <1>14, <2>1, <2>2, <2>3 DEF Take, SourceInv, Queues
<1>15. CASE Shutdown
  BY <1>0, <1>3, <1>15 DEF Shutdown, SourceTypeOK
<1>16. CASE UNCHANGED vars
  BY <1>0, <1>3, <1>16 DEF vars, SourceTypeOK
<1>. QED
  BY <1>1, <1>2, <1>4, <1>5, <1>6, <1>7, <1>8, <1>9, <1>10, <1>11, <1>12, <1>13, <1>14, <1>15, <1>16
     DEF Next, Runs
-----------------------------------------------------------------------------
\* In every reachable state what the channel, the push and the pipeline hold of
\* the status fit together.
THEOREM SourceInvariant == Spec => []SourceInv
<1>1. Init => SourceInv
  BY InitSource
<1>2. SourceInv /\ [Next]_vars => SourceInv'
  BY SourceStep
<1>. QED
  BY <1>1, <1>2, PTL DEF Spec

\* The source never holds more than its channel and the socket can, and waits
\* for room exactly while it has a status to push, for any sizes and packets.
THEOREM SourceTypeCorrect == Spec => []SourceTypeOK
<1>1. SourceInv => SourceTypeOK
  BY DEF SourceInv
<1>. QED
  BY <1>1, SourceInvariant, PTL

\* Packets may be dropped, a status is not: unless the push timed out, the last
\* status the pipeline takes is the present one, and packets are read only
\* while that is "connected".
THEOREM StatusIsHeard == Spec => []StatusArrives
<1>1. SourceInv => StatusArrives
  BY DEF SourceInv
<1>. QED
  BY <1>1, SourceInvariant, PTL
=============================================================================
