--------------------------- MODULE SettingsProofs ---------------------------
(***************************************************************************)
(* Theorems of Settings: its variables keep their types, memory and file   *)
(* agree when nobody writes, and the program never corrupts a file; for    *)
(* any number of requests, plugins and sizes.                              *)
(***************************************************************************)
EXTENDS Settings, TLAPS

\* What a store may hold in memory while its file is as it is.
Matches(s, cells) == file[s] = cells \/ (file[s] = Torn /\ cells = Blank[s])

\* A request that is writing can go back to what the file holds.
CanUndo ==
  \A w \in Writers : pc[w] \in Writing =>
    /\ op[w].store \in Stores
    /\ op[w].prev \in Contents[op[w].store]
    /\ Matches(op[w].store, op[w].prev)

\* Requests end with the process.
DownIsIdle == ~up => \A w \in Writers : pc[w] = "idle"

SettingsInv ==
  SettingsTypeOK /\ CanUndo /\ DownIsIdle /\ MemoryMatchesFile /\ OnlyEditsCorrupt

-----------------------------------------------------------------------------
\* What a store holds at first is among what it may hold, and is no damaged file.
LEMMA BlankFacts ==
  /\ \A s \in Stores : Blank[s] \in Contents[s]
  /\ DOMAIN Blank = Stores /\ DOMAIN Contents = Stores
  /\ \A s \in Stores : Contents[s] \subseteq Contents.overrides \cup Contents.surface
<1>1. Blank.overrides \in Contents.overrides /\ Blank.surface \in Contents.surface
  BY DEF Blank, Contents, Entries
<1>2. DOMAIN Blank = Stores /\ DOMAIN Contents = Stores
  BY DEF Blank, Contents, Stores
<1>. QED
  BY <1>1, <1>2 DEF Stores

\* What a request that is not writing remembers.
LEMMA OpFacts ==
  /\ NoOp \in Ops
  /\ \A id \in People : [store |-> Unset, prev |-> Unset, id |-> id] \in Ops
BY DEF NoOp, Ops

LEMMA SettingsInit == Init => SettingsInv
<1> SUFFICES ASSUME Init PROVE SettingsInv
  OBVIOUS
<1>1. SettingsTypeOK
  BY BlankFacts DEF Init, SettingsTypeOK, Ops, NoOp, Labels, Writing
<1>2. CanUndo /\ DownIsIdle /\ MemoryMatchesFile
  BY DEF Init, CanUndo, DownIsIdle, MemoryMatchesFile, Writing
<1>3. OnlyEditsCorrupt
  BY BlankFacts, SettingsAssumption DEF Init, OnlyEditsCorrupt
<1>. QED
  BY <1>1, <1>2, <1>3 DEF SettingsInv

\* Any change of a store by a request that found the mutex free.
LEMMA ChangeStep ==
  ASSUME SettingsInv, up, NEW w \in Writers, NEW s \in Stores, NEW next \in Contents[s],
         Change(w, s, next)
  PROVE  SettingsInv'
<1> USE DEF SettingsInv
<1>1. lock[s] = Unset /\ lock' = [lock EXCEPT ![s] = w] /\ pc[w] = "idle"
  BY DEF Change, Lock
<1>2. pc' \in [Writers -> Labels] /\ pc'[w] \in {"remove", "write"}
      /\ \A v \in Writers \ {w} : pc'[v] = pc[v]
  BY DEF Change, Goto, SettingsTypeOK, Labels, Writing
<1>3. op' = [op EXCEPT ![w] = [store |-> s, prev |-> data[s], id |-> Unset]]
  BY DEF Change
<1>4. op' \in [Writers -> Ops] /\ \A v \in Writers \ {w} : op'[v] = op[v]
  BY <1>3, BlankFacts DEF SettingsTypeOK, Ops
<1>5. op'[w].store = s /\ op'[w].prev = data[s]
  BY <1>3 DEF SettingsTypeOK
<1>6. /\ DOMAIN data' = Stores /\ data'[s] = next
      /\ \A t \in Stores \ {s} : data'[t] = data[t]
  BY DEF Change, SettingsTypeOK
<1>7. UNCHANGED <<up, file, edited, identity>>
  BY DEF Change
<1>8. \A v \in Writers \ {w} : pc[v] \in Writing => op[v].store \in Stores \ {s}
  BY <1>1, SettingsAssumption DEF CanUndo, SettingsTypeOK
<1>9. SettingsTypeOK'
  <2>1. \A v \in Writers : pc'[v] \in Writing => lock'[op'[v].store] = v
    BY <1>1, <1>2, <1>4, <1>5, <1>8 DEF SettingsTypeOK, CanUndo
  <2>2. lock' \in [Stores -> Writers \cup {Unset}]
    BY <1>1 DEF SettingsTypeOK
  <2>. QED
    BY <2>1, <2>2, <1>2, <1>4, <1>6, <1>7 DEF SettingsTypeOK, identity
<1>10. CanUndo'
  <2>1. Matches(s, data[s])
    BY <1>1 DEF MemoryMatchesFile, Matches
  <2>. QED
    BY <2>1, <1>2, <1>4, <1>5, <1>7 DEF CanUndo, Matches, SettingsTypeOK
<1>11. DownIsIdle'
  BY <1>7 DEF DownIsIdle
<1>12. MemoryMatchesFile'
  BY <1>1, <1>6, <1>7, SettingsAssumption DEF MemoryMatchesFile, SettingsTypeOK
<1>13. OnlyEditsCorrupt'
  BY <1>7 DEF OnlyEditsCorrupt
<1>. QED
  BY <1>9, <1>10, <1>11, <1>12, <1>13

\* Every request on overrides or surface is such a change.
LEMMA RequestIsChange ==
  ASSUME SettingsInv, NEW w \in Writers
  PROVE  /\ \A p \in Plugins, partial \in Entries \ {Unset} : MergeOne(w, p, partial) =>
              \E next \in Contents["overrides"] : Change(w, "overrides", next)
         /\ \A p \in Plugins : KeepPositionAndEnabled(w, p) \/ Delete(w, p) =>
              \E next \in Contents["overrides"] : Change(w, "overrides", next)
         /\ \A size \in Sizes \cup {Unset} : SetSurface(w, size) =>
              \E next \in Contents["surface"] : Change(w, "surface", next)
<1>1. ASSUME NEW p \in Plugins, NEW entry \in Entries, SetEntry(w, p, entry)
      PROVE  \E next \in Contents["overrides"] : Change(w, "overrides", next)
  <2>1. data.overrides \in [Plugins -> Entries]
    BY DEF SettingsInv, SettingsTypeOK, Stores, Contents
  <2>2. [data.overrides EXCEPT ![p] = entry] \in Contents["overrides"]
    BY <2>1 DEF Contents
  <2>. QED
    BY <2>2, <1>1 DEF SetEntry
<1>2. \A p \in Plugins : data.overrides[p] \in Entries
  BY DEF SettingsInv, SettingsTypeOK, Stores, Contents
<1>3. \A p \in Plugins, partial \in Entries \ {Unset} :
        (IF data.overrides[p] = Unset THEN partial ELSE data.overrides[p] \cup partial)
          \in Entries
  BY <1>2 DEF Entries
<1>4. \A p \in Plugins :
        (IF "placed" \in data.overrides[p] THEN {"placed"} ELSE Unset) \in Entries
  BY DEF Entries
<1>5. Unset \in Entries
  BY DEF Entries
<1>6. \A size \in Sizes \cup {Unset} : size \in Contents["surface"]
  BY DEF Contents
<1>. QED
  BY <1>1, <1>3, <1>4, <1>5, <1>6 DEF MergeOne, KeepPositionAndEnabled, Delete, SetSurface

-----------------------------------------------------------------------------
\* Steps that leave the two stores alone and no request writing that was not.
LEMMA ElsewhereStep ==
  ASSUME SettingsInv, up, NEW w \in Writers, UNCHANGED <<up, stores>>,
         pc[w] \notin Writing \/ (pc[w] = "write" /\ op' = op),
         pc' \in [Writers -> Labels], \A v \in Writers \ {w} : pc'[v] = pc[v],
         pc'[w] \notin Writing \/ pc[w] = "write",
         op' \in [Writers -> Ops], \A v \in Writers \ {w} : op'[v] = op[v],
         me' \in People \cup {Unset}, idFile' \in People \cup {Unset, Torn},
         handles' \subseteq Writers
  PROVE  SettingsInv'
<1> USE DEF SettingsInv, stores
<1>1. \A v \in Writers : pc'[v] \in Writing => pc[v] \in Writing /\ op'[v] = op[v]
  BY DEF Writing
<1>2. SettingsTypeOK'
  BY <1>1 DEF SettingsTypeOK
<1>3. CanUndo'
  BY <1>1 DEF CanUndo, Matches
<1>. QED
  BY <1>2, <1>3 DEF DownIsIdle, MemoryMatchesFile, OnlyEditsCorrupt

\* The end of a write, successful or not, by the request that holds the mutex.
LEMMA UnlockStep ==
  ASSUME SettingsInv, up, NEW w \in Writers, Commit(w) \/ Fail(w)
  PROVE  SettingsInv'
<1> USE DEF SettingsInv
<1> DEFINE s == op[w].store
<1>1. /\ s \in Stores /\ lock[s] = w /\ op[w].prev \in Contents[s]
      /\ Matches(s, op[w].prev) /\ pc[w] \in Writing
  BY DEF Commit, Fail, CanUndo, SettingsTypeOK, Writing
<1>2. /\ lock' = [lock EXCEPT ![s] = Unset]
      /\ UNCHANGED <<up, identity>>
  BY DEF Commit, Fail, Unlock
<1>3. /\ pc' \in [Writers -> Labels] /\ pc'[w] \notin Writing
      /\ \A v \in Writers \ {w} : pc'[v] = pc[v]
  BY DEF Commit, Fail, Goto, SettingsTypeOK, Labels, Writing
<1>4. op' \in [Writers -> Ops] /\ \A v \in Writers \ {w} : op'[v] = op[v]
  <2>1. CASE Commit(w)
    BY <2>1 DEF Commit, SettingsTypeOK, Ops
  <2>2. CASE Fail(w)
    BY <2>2 DEF Fail, SettingsTypeOK, Ops, NoOp
  <2>. QED
    BY <2>1, <2>2
<1>5. \A v \in Writers \ {w} : pc[v] \in Writing => op[v].store \in Stores \ {s}
  BY <1>1 DEF CanUndo, SettingsTypeOK
<1>6. /\ DOMAIN data' = Stores /\ DOMAIN file' = Stores
      /\ \A t \in Stores \ {s} : data'[t] = data[t] /\ file'[t] = file[t]
      /\ data'[s] \in Contents[s] /\ file'[s] \in Contents[s] \cup {Torn}
      /\ file'[s] = data'[s] \/ (file'[s] = Torn /\ data'[s] = Blank[s])
      /\ edited' \subseteq Stores
      /\ \A t \in Stores : file'[t] = Torn => t \in edited'
  <2>1. CASE Commit(w)
    <3>1. /\ file' = [file EXCEPT ![s] = data[s]] /\ data' = data
          /\ edited' = edited \ {s}
      BY <2>1 DEF Commit
    <3>2. data[s] # Torn
      BY <1>1, SettingsAssumption DEF SettingsTypeOK
    <3>. QED
      BY <1>1, <3>1, <3>2 DEF SettingsTypeOK, OnlyEditsCorrupt
  <2>2. CASE Fail(w)
    <3>1. /\ data' = [data EXCEPT ![s] = op[w].prev] /\ file' = file
          /\ edited' = edited
      BY <2>2 DEF Fail
    <3>. QED
      BY <1>1, <3>1 DEF SettingsTypeOK, OnlyEditsCorrupt, Matches
  <2>. QED
    BY <2>1, <2>2
<1>7. SettingsTypeOK'
  <2>1. \A v \in Writers : pc'[v] \in Writing => lock'[op'[v].store] = v
    BY <1>2, <1>3, <1>4, <1>5 DEF SettingsTypeOK
  <2>2. lock' \in [Stores -> Writers \cup {Unset}]
    BY <1>2 DEF SettingsTypeOK
  <2>. QED
    BY <2>1, <2>2, <1>2, <1>3, <1>4, <1>6 DEF SettingsTypeOK, identity
<1>8. CanUndo'
  BY <1>3, <1>4, <1>5, <1>6 DEF CanUndo, Matches
<1>9. MemoryMatchesFile'
  BY <1>1, <1>2, <1>6 DEF MemoryMatchesFile, SettingsTypeOK
<1>. QED
  BY <1>2, <1>6, <1>7, <1>8, <1>9 DEF DownIsIdle, OnlyEditsCorrupt

\* The process dies: nothing is left but the files.
LEMMA CrashStep == ASSUME SettingsInv, Crash PROVE SettingsInv'
<1> USE DEF SettingsInv, Crash
<1>1. SettingsTypeOK'
  BY BlankFacts DEF SettingsTypeOK, Labels, Ops, NoOp, Writing
<1>. QED
  BY <1>1 DEF CanUndo, Writing, DownIsIdle, MemoryMatchesFile, OnlyEditsCorrupt

\* The process starts on whatever files there are.
LEMMA BootStep == ASSUME SettingsInv, Boot PROVE SettingsInv'
<1> USE DEF SettingsInv
<1>1. PICK moved \in SUBSET {s \in Stores : file[s] = Torn} :
        file' = [s \in Stores |-> IF s \in moved THEN Blank[s] ELSE file[s]]
  BY DEF Boot
<1>2. /\ data' = [s \in Stores |-> IF file[s] = Torn THEN Blank[s] ELSE file[s]]
      /\ up' /\ me' = idFile /\ idFile # Torn
      /\ UNCHANGED <<lock, edited, idFile, handles, pc, op>>
      /\ \A w \in Writers : pc[w] = "idle"
  BY DEF Boot, DownIsIdle
<1>3. SettingsTypeOK'
  BY <1>1, <1>2, BlankFacts DEF SettingsTypeOK
<1>4. MemoryMatchesFile'
  BY <1>1, <1>2 DEF MemoryMatchesFile
<1>5. OnlyEditsCorrupt'
  BY <1>1, <1>2, BlankFacts, SettingsAssumption DEF OnlyEditsCorrupt
<1>. QED
  BY <1>2, <1>3, <1>4, <1>5 DEF CanUndo, Writing, DownIsIdle

LEMMA EditStep ==
  ASSUME SettingsInv, NEW s \in Stores, EditByHand(s)
  PROVE  SettingsInv'
<1> USE DEF SettingsInv, EditByHand
<1>1. SettingsTypeOK'
  BY DEF SettingsTypeOK, identity
<1>2. CanUndo' /\ DownIsIdle'
  BY DEF CanUndo, DownIsIdle, Writing
<1>. QED
  BY <1>1, <1>2 DEF MemoryMatchesFile, OnlyEditsCorrupt, SettingsTypeOK

LEMMA SettingsStep == SettingsInv /\ [Next]_vars => SettingsInv'
<1> SUFFICES ASSUME SettingsInv, [Next]_vars PROVE SettingsInv'
  OBVIOUS
<1>1. ASSUME up, NEW w \in Writers, Request(w) PROVE SettingsInv'
  <2>1. CASE \E p \in Plugins : \/ \E partial \in Entries \ {Unset} : MergeOne(w, p, partial)
                                \/ KeepPositionAndEnabled(w, p) \/ Delete(w, p)
    <3>1. \E next \in Contents["overrides"] : Change(w, "overrides", next)
      BY <2>1, RequestIsChange
    <3>. QED
      BY <3>1, <1>1, ChangeStep DEF Stores
  <2>2. CASE \E size \in Sizes \cup {Unset} : SetSurface(w, size)
    <3>1. \E next \in Contents["surface"] : Change(w, "surface", next)
      BY <2>2, RequestIsChange
    <3>. QED
      BY <3>1, <1>1, ChangeStep DEF Stores
  <2>3. CASE \E id \in People : OpenIdentity(w, id)
    <3>1. op' \in [Writers -> Ops] /\ \A v \in Writers \ {w} : op'[v] = op[v]
      BY <2>3, OpFacts DEF OpenIdentity, SettingsInv, SettingsTypeOK
    <3>2. /\ pc' \in [Writers -> Labels] /\ \A v \in Writers \ {w} : pc'[v] = pc[v]
          /\ pc[w] \notin Writing /\ pc'[w] \notin Writing
      BY <2>3 DEF OpenIdentity, SettingsInv, SettingsTypeOK, Goto, Labels, Writing
    <3>3. /\ UNCHANGED <<up, stores>> /\ handles' \subseteq Writers
          /\ me' \in People \cup {Unset} /\ idFile' \in People \cup {Unset, Torn}
      BY <2>3 DEF OpenIdentity, SettingsInv, SettingsTypeOK
    <3>. QED
      BY <3>1, <3>2, <3>3, <1>1, ElsewhereStep
  <2>4. CASE ClearIdentity(w)
    BY <2>4, <1>1, ElsewhereStep
    DEF ClearIdentity, SettingsInv, SettingsTypeOK, Goto, Labels, Writing
  <2>. QED
    BY <1>1, <2>1, <2>2, <2>3, <2>4 DEF Request
<1>2. ASSUME up, NEW w \in Writers, RunOn(w) PROVE SettingsInv'
  <2>1. CASE WriteTmp(w)
    BY <2>1, <1>2, ElsewhereStep
    DEF WriteTmp, SettingsInv, SettingsTypeOK, Goto, Labels, Writing, identity
  <2>2. CASE Commit(w) \/ Fail(w)
    BY <2>2, <1>2, UnlockStep
  <2>3. CASE HookRead(w)
    BY <2>3, <1>2, ElsewhereStep
    DEF HookRead, SettingsInv, SettingsTypeOK, Goto, Labels, Writing, identity
  <2>4. CASE Announce(w)
    <3>1. op' \in [Writers -> Ops] /\ \A v \in Writers \ {w} : op'[v] = op[v]
      BY <2>4, OpFacts DEF Announce, SettingsInv, SettingsTypeOK
    <3>2. /\ pc' \in [Writers -> Labels] /\ \A v \in Writers \ {w} : pc'[v] = pc[v]
          /\ pc[w] \notin Writing /\ pc'[w] \notin Writing
      BY <2>4 DEF Announce, SettingsInv, SettingsTypeOK, Goto, Labels, Writing
    <3>3. /\ UNCHANGED <<up, stores>> /\ handles' \subseteq Writers
          /\ me' \in People \cup {Unset} /\ idFile' \in People \cup {Unset, Torn}
      BY <2>4 DEF Announce, SettingsInv, SettingsTypeOK, identity
    <3>. QED
      BY <3>1, <3>2, <3>3, <1>2, ElsewhereStep
  <2>5. CASE FillIdentity(w)
    <3>1. op[w].id \in People \cup {Unset}
      BY DEF SettingsInv, SettingsTypeOK, Ops
    <3>. QED
      BY <2>5, <3>1, <1>2, ElsewhereStep
      DEF FillIdentity, SettingsInv, SettingsTypeOK, Goto, Labels, Writing
  <2>6. CASE FillFails(w)
    <3>1. op' \in [Writers -> Ops] /\ \A v \in Writers \ {w} : op'[v] = op[v]
      BY <2>6, OpFacts DEF FillFails, SettingsInv, SettingsTypeOK
    <3>2. /\ pc' \in [Writers -> Labels] /\ \A v \in Writers \ {w} : pc'[v] = pc[v]
          /\ pc[w] \notin Writing /\ pc'[w] \notin Writing
      BY <2>6 DEF FillFails, SettingsInv, SettingsTypeOK, Goto, Labels, Writing
    <3>3. /\ UNCHANGED <<up, stores>> /\ handles' \subseteq Writers
          /\ me' \in People \cup {Unset} /\ idFile' \in People \cup {Unset, Torn}
      BY <2>6 DEF FillFails, SettingsInv, SettingsTypeOK
    <3>. QED
      BY <3>1, <3>2, <3>3, <1>2, ElsewhereStep
  <2>7. CASE SwapIdentity(w)
    <3>1. op[w].id \in People \cup {Unset}
      BY DEF SettingsInv, SettingsTypeOK, Ops
    <3>. QED
      BY <2>7, <3>1, <1>2, ElsewhereStep
      DEF SwapIdentity, SettingsInv, SettingsTypeOK, Goto, Labels, Writing
  <2>. QED
    BY <1>2, <2>1, <2>2, <2>3, <2>4, <2>5, <2>6, <2>7 DEF RunOn
<1>3. CASE UNCHANGED vars
  BY <1>3 DEF vars, stores, identity, SettingsInv, SettingsTypeOK, CanUndo, Matches,
              DownIsIdle, MemoryMatchesFile, OnlyEditsCorrupt
<1>. QED
  BY <1>1, <1>2, <1>3, CrashStep, BootStep, EditStep DEF Next

THEOREM SettingsInvariant == Spec => []SettingsInv
BY SettingsInit, SettingsStep, PTL DEF Spec

\* Every reachable state has its type, and a request that is writing holds the
\* mutex of its store.
THEOREM SettingsTypeCorrect == Spec => []SettingsTypeOK
<1>1. SettingsInv => SettingsTypeOK
  BY DEF SettingsInv
<1>. QED
  BY <1>1, SettingsInvariant, PTL

\* persistLocked and its roll-backs keep memory and file together, however many
\* requests there are and wherever writes fail.
THEOREM MemoryIsBacked == Spec => []MemoryMatchesFile
<1>1. SettingsInv => MemoryMatchesFile
  BY DEF SettingsInv
<1>. QED
  BY <1>1, SettingsInvariant, PTL

\* Writing to a temporary file and renaming it leaves no damaged file behind,
\* wherever the process dies.
THEOREM SavesAreAtomic == Spec => []OnlyEditsCorrupt
<1>1. SettingsInv => OnlyEditsCorrupt
  BY DEF SettingsInv
<1>. QED
  BY <1>1, SettingsInvariant, PTL
=============================================================================
