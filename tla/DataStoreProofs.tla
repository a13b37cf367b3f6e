-------------------------- MODULE DataStoreProofs --------------------------
(***************************************************************************)
(* Theorems of DataStore, for any keys and values: its variables keep      *)
(* their types, the file can always be loaded, and neither it nor the      *)
(* cache keeps anything of an operation that failed.                       *)
(***************************************************************************)
EXTENDS DataStore, TLAPS

Holding == {"marshal", "write", "fill", "rename"}

\* What a reader or a restart may find in a cell.
Permitted(k) == {committed[k], None}

\* While an operation runs only its own cell differs from what was stored, and
\* that cell can be undone.
OperationIsLocal ==
  pc \in Holding =>
    /\ loaded
    /\ op.key \in Keys /\ op.prev \in Permitted(op.key)
    /\ data[op.key] = op.cell
    /\ \A k \in Keys \ {op.key} : data[k] \in Permitted(k)

\* Only values that could be marshalled get as far as the file, and only a
\* file written to its end is renamed.
WritesAreWhole ==
  /\ pc \in {"write", "fill", "rename"} => op.cell # Bad /\ data \in Contents
  /\ pc = "rename" => tmp = Saved(data)

DataInv ==
  DataTypeOK /\ FileIsWhole /\ OnlyCommitted /\ OperationIsLocal /\ WritesAreWhole

-----------------------------------------------------------------------------
LEMMA DataInit == Init => DataInv
<1> SUFFICES ASSUME Init PROVE DataInv
  OBVIOUS
<1>1. Empty \in Contents /\ Empty \in [Keys -> Cell \cup {Bad}]
  BY DEF Empty, Contents, Cell
<1>2. Saved(Empty) \in Files /\ Saved(Empty).whole /\ Saved(Empty).cells = Empty
  BY <1>1 DEF Saved, Files
<1>3. DataTypeOK
  BY <1>1, <1>2 DEF Init, DataTypeOK, NoOp, Cell
<1>4. \A k \in Keys : Empty[k] = None
  BY DEF Empty
<1>. QED
  BY <1>2, <1>3, <1>4
  DEF Init, DataInv, FileIsWhole, OnlyCommitted, OperationIsLocal, WritesAreWhole, Holding

\* What the cache holds once it is loaded.
LEMMA CachedFacts ==
  ASSUME DataInv, pc = "unlocked"
  PROVE  /\ Cached \in [Keys -> Cell \cup {Bad}]
         /\ \A k \in Keys : Cached[k] \in Permitted(k) /\ Cached[k] \in Cell
<1>1. file.cells \in Contents /\ committed \in Contents
  BY DEF DataInv, DataTypeOK, Files
<1>2. Cached \in [Keys -> Cell \cup {Bad}]
  BY <1>1 DEF Cached, Contents, DataInv, DataTypeOK
<1>3. \A k \in Keys : Cached[k] \in Permitted(k)
  BY DEF Cached, Permitted, DataInv, OnlyCommitted
<1>. QED
  BY <1>1, <1>2, <1>3 DEF Permitted, Contents, Cell

LEMMA BeginStep ==
  ASSUME DataInv, NEW kind \in {"set", "delete"}, NEW k \in Keys,
         NEW cell \in Cell \cup {Bad}, Begin(kind, k, cell)
  PROVE  DataInv'
<1>1. /\ pc = "unlocked" /\ loaded' = TRUE /\ data' = [Cached EXCEPT ![k] = cell]
      /\ op' = [kind |-> kind, key |-> k, cell |-> cell, prev |-> Cached[k]]
      /\ pc' = "marshal" /\ UNCHANGED <<file, tmp, committed>>
  BY DEF Begin, Lock
<1>2. /\ Cached \in [Keys -> Cell \cup {Bad}]
      /\ \A j \in Keys : Cached[j] \in Permitted(j) /\ Cached[j] \in Cell
  BY <1>1, CachedFacts
<1>3. DataTypeOK'
  BY <1>1, <1>2 DEF DataInv, DataTypeOK
<1>4. OperationIsLocal'
  BY <1>1, <1>2 DEF OperationIsLocal, Permitted
<1>. QED
  BY <1>1, <1>3, <1>4 DEF DataInv, FileIsWhole, OnlyCommitted, WritesAreWhole

LEMMA LoadStep == ASSUME DataInv, Load PROVE DataInv'
<1>1. pc = "unlocked" /\ data' = Cached /\ UNCHANGED <<file, tmp, pc, op, committed>>
  BY DEF Load, Lock
<1>2. DataTypeOK'
  BY <1>1, CachedFacts DEF DataInv, DataTypeOK, Load, Lock
<1>3. OnlyCommitted'
  BY <1>1, CachedFacts DEF DataInv, OnlyCommitted, Permitted
<1>. QED
  BY <1>1, <1>2, <1>3
  DEF DataInv, FileIsWhole, OperationIsLocal, WritesAreWhole, Holding

\* The roll-back leaves a cache of stored values, though a value that was
\* replaced may be missing from it.
LEMMA RollbackStep ==
  ASSUME DataInv, pc \in Holding, Rollback, UNCHANGED tmp
  PROVE  DataInv'
<1>1. /\ op.key \in Keys /\ op.prev \in Permitted(op.key) /\ op.prev \in Cell
      /\ \A k \in Keys \ {op.key} : data[k] \in Permitted(k)
  BY DEF DataInv, OperationIsLocal, DataTypeOK
<1>2. /\ data' = [data EXCEPT ![op.key] = IF op.kind = "set" THEN None ELSE op.prev]
      /\ pc' = "unlocked" /\ op' = NoOp /\ UNCHANGED <<loaded, file, committed, tmp>>
  BY DEF Rollback, Unlock
<1>3. DataTypeOK'
  BY <1>1, <1>2 DEF DataInv, DataTypeOK, NoOp, Cell
<1>4. \A k \in Keys : data'[k] \in Permitted(k)
  BY <1>1, <1>2 DEF DataInv, DataTypeOK, Permitted
<1>5. OnlyCommitted'
  BY <1>2, <1>4 DEF DataInv, OnlyCommitted, Permitted
<1>. QED
  BY <1>2, <1>3, <1>5
  DEF DataInv, FileIsWhole, OperationIsLocal, WritesAreWhole, Holding

LEMMA MarshalStep == ASSUME DataInv, Marshal PROVE DataInv'
<1>1. CASE \E k \in Keys : data[k] = Bad
  BY <1>1, RollbackStep DEF Marshal, Holding
<1>2. CASE ~ \E k \in Keys : data[k] = Bad
  <2>1. /\ pc = "marshal" /\ pc' = "write"
        /\ UNCHANGED <<loaded, data, file, tmp, op, committed>>
    BY <1>2 DEF Marshal
  <2>2. data \in Contents /\ op.cell # Bad
    BY <1>2, <2>1 DEF DataInv, DataTypeOK, Contents, OperationIsLocal, Holding
  <2>. QED
    BY <2>1, <2>2
    DEF DataInv, DataTypeOK, FileIsWhole, OnlyCommitted, OperationIsLocal, WritesAreWhole,
        Holding, Permitted
<1>. QED
  BY <1>1, <1>2

\* The two steps of writing the temporary file.
LEMMA TmpStep == ASSUME DataInv, WriteTmp \/ FillTmp PROVE DataInv'
<1>1. /\ pc \in {"write", "fill"} /\ pc' \in {"fill", "rename"}
      /\ UNCHANGED <<loaded, data, file, op, committed>>
      /\ pc' = "rename" => tmp' = Saved(data)
      /\ tmp' \in {Torn, Saved(data)}
  BY DEF WriteTmp, FillTmp
<1>2. data \in Contents /\ op.cell # Bad
  BY <1>1 DEF DataInv, WritesAreWhole
<1>3. Torn \in Files /\ Saved(data) \in Files
  BY <1>2 DEF Torn, Saved, Files, Empty, Contents, Cell
<1>. QED
  BY <1>1, <1>2, <1>3
  DEF DataInv, DataTypeOK, FileIsWhole, OnlyCommitted, OperationIsLocal, WritesAreWhole,
      Holding, Permitted

\* The rename makes the file what the cache is, and the operation a success.
LEMMA RenameStep == ASSUME DataInv, Rename PROVE DataInv'
<1>1. /\ pc = "rename" /\ file' = tmp /\ pc' = "unlocked" /\ op' = NoOp
      /\ committed' = [committed EXCEPT ![op.key] = op.cell]
      /\ UNCHANGED <<loaded, data, tmp>>
  BY DEF Rename, Unlock
<1>2. /\ tmp = Saved(data) /\ data \in Contents
      /\ op.key \in Keys /\ data[op.key] = op.cell
      /\ \A k \in Keys \ {op.key} : data[k] \in Permitted(k)
  BY <1>1 DEF DataInv, WritesAreWhole, OperationIsLocal, Holding
<1>3. file'.whole /\ file'.cells = data
  BY <1>1, <1>2 DEF Saved
<1>4. committed' \in Contents
  BY <1>1, <1>2 DEF DataInv, DataTypeOK, Contents
<1>5. \A k \in Keys : data[k] \in {committed'[k], None}
  BY <1>1, <1>2 DEF DataInv, DataTypeOK, Contents, Permitted
<1>6. DataTypeOK'
  BY <1>1, <1>4 DEF DataInv, DataTypeOK, NoOp, Cell
<1>7. OnlyCommitted'
  BY <1>1, <1>3, <1>5 DEF OnlyCommitted
<1>. QED
  BY <1>1, <1>3, <1>6, <1>7
  DEF DataInv, FileIsWhole, OperationIsLocal, WritesAreWhole, Holding

LEMMA CrashStep == ASSUME DataInv, Crash PROVE DataInv'
<1>1. /\ loaded' = FALSE /\ data' = Empty /\ pc' = "unlocked" /\ op' = NoOp
      /\ UNCHANGED <<file, tmp, committed>>
  BY DEF Crash, Unlock
<1>2. DataTypeOK'
  BY <1>1 DEF DataInv, DataTypeOK, Empty, NoOp, Cell
<1>. QED
  BY <1>1, <1>2
  DEF DataInv, FileIsWhole, OnlyCommitted, OperationIsLocal, WritesAreWhole, Holding

LEMMA DataStep == DataInv /\ [Next]_vars => DataInv'
<1> SUFFICES ASSUME DataInv, [Next]_vars PROVE DataInv'
  OBVIOUS
<1>1. ASSUME NEW k \in Keys, NEW v \in Values \cup {Bad}, Set(k, v) PROVE DataInv'
  BY <1>1, BeginStep DEF Set, Cell
<1>2. ASSUME NEW k \in Keys, Delete(k) PROVE DataInv'
  BY <1>2, BeginStep DEF Delete, Cell
<1>3. CASE IOError
  BY <1>3, RollbackStep DEF IOError, Holding
<1>4. CASE UNCHANGED vars
  BY <1>4 DEF vars, DataInv, DataTypeOK, FileIsWhole, OnlyCommitted, OperationIsLocal,
              WritesAreWhole, Permitted
<1>. QED
  BY <1>1, <1>2, <1>3, <1>4, LoadStep, MarshalStep, TmpStep, RenameStep, CrashStep DEF Next

THEOREM DataInvariant == Spec => []DataInv
BY DataInit, DataStep, PTL DEF Spec

\* Every reachable state has its type.
THEOREM DataTypeCorrect == Spec => []DataTypeOK
<1>1. DataInv => DataTypeOK
  BY DEF DataInv
<1>. QED
  BY <1>1, DataInvariant, PTL

\* "a crash mid-write never corrupts the existing file", for any keys, values
\* and order of operations, failures and crashes.
THEOREM FileAlwaysLoads == Spec => []FileIsWhole
<1>1. DataInv => FileIsWhole
  BY DEF DataInv
<1>. QED
  BY <1>1, DataInvariant, PTL

\* Nothing of a failed operation is read, or saved by a later one.
THEOREM FailuresLeaveNothing == Spec => []OnlyCommitted
<1>1. DataInv => OnlyCommitted
  BY DEF DataInv
<1>. QED
  BY <1>1, DataInvariant, PTL
=============================================================================
