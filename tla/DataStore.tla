----------------------------- MODULE DataStore -----------------------------
(***************************************************************************)
(* One plugin's shard of backend/internal/datastore and its JSON file.     *)
(*                                                                         *)
(* Set and Delete hold the shard's lock from the change of the cache to    *)
(* the end of the write, so they run one at a time, but the process may    *)
(* die between any two of their steps, and each file operation may fail.   *)
(* Reads take the same lock: they see the cache when no operation runs.    *)
(***************************************************************************)
CONSTANTS
  Keys,
  Values,   \* what plugins store
  Bad,      \* a body that is not JSON, or was cut off by the size limit
  None      \* the key is not there

ASSUME DataAssumption == Bad \notin Values /\ None \notin Values /\ Bad # None

Cell == Values \cup {None}
Contents == [Keys -> Cell]
Empty == [k \in Keys |-> None]

\* A file; one that was not written to its end does not parse.
Files == [whole : BOOLEAN, cells : Contents]
Saved(cells) == [whole |-> TRUE, cells |-> cells]
Torn == [whole |-> FALSE, cells |-> Empty]

VARIABLES
  loaded,     \* sh.loaded
  data,       \* sh.data
  file,       \* <plugin>.json; a missing file reads as an empty one
  tmp,        \* <plugin>.json.tmp
  pc,         \* the step of the operation that holds the lock
  op,         \* its key, its new cell, and the cell it replaced
  committed   \* observer: what the renames so far were asked to store

vars == <<loaded, data, file, tmp, pc, op, committed>>

NoOp == [kind |-> "none", key |-> None, cell |-> None, prev |-> None]

Init ==
  /\ loaded = FALSE /\ data = Empty
  /\ file = Saved(Empty) /\ tmp = Saved(Empty)
  /\ pc = "unlocked" /\ op = NoOp
  /\ committed = Empty

\* loadInto: the cache an operation starts from.  A file that does not parse
\* makes the operation fail.
Cached == IF loaded THEN data ELSE file.cells

Lock(cache) ==
  /\ pc = "unlocked" /\ (loaded \/ file.whole)
  /\ loaded' = TRUE /\ data' = cache

Unlock == pc' = "unlocked" /\ op' = NoOp

\* Get, LoadAll, and Delete of a key that is not there.
Load ==
  /\ Lock(Cached)
  /\ UNCHANGED <<file, tmp, pc, op, committed>>

Begin(kind, k, cell) ==
  /\ Lock([Cached EXCEPT ![k] = cell])
  /\ op' = [kind |-> kind, key |-> k, cell |-> cell, prev |-> Cached[k]]
  /\ pc' = "marshal"
  /\ UNCHANGED <<file, tmp, committed>>

Set(k, v) == Begin("set", k, v)
Delete(k) == Cached[k] # None /\ Begin("delete", k, None)

\* A Bug... is a faulty variant of the definition after it, by which the runs
\* check that a property notices such a fault.  Here: the cache keeps the value
\* that could not be written.
BugRollback ==
  /\ Unlock
  /\ UNCHANGED <<loaded, data, file, committed>>

\* The error path: Set removes the key, Delete puts the old cell back.
Rollback ==
  /\ data' = [data EXCEPT ![op.key] = IF op.kind = "set" THEN None ELSE op.prev]
  /\ Unlock
  /\ UNCHANGED <<loaded, file, committed>>

\* Values are written without being parsed.
BugMarshal ==
  /\ pc = "marshal"
  /\ pc' = "write"
  /\ UNCHANGED <<loaded, data, file, tmp, op, committed>>

Marshal ==
  /\ pc = "marshal"
  /\ IF \E k \in Keys : data[k] = Bad
     THEN Rollback
     ELSE pc' = "write" /\ UNCHANGED <<loaded, data, file, op, committed>>
  /\ UNCHANGED tmp

\* The file is written in place.
BugWriteTmp ==
  /\ pc = "write"
  /\ file' = Torn /\ tmp' = Torn
  /\ pc' = "fill"
  /\ UNCHANGED <<loaded, data, op, committed>>

\* os.WriteFile begins by truncating the file.
WriteTmp ==
  /\ pc = "write"
  /\ tmp' = Torn
  /\ pc' = "fill"
  /\ UNCHANGED <<loaded, data, file, op, committed>>

FillTmp ==
  /\ pc = "fill"
  /\ tmp' = Saved(data)
  /\ pc' = "rename"
  /\ UNCHANGED <<loaded, data, file, op, committed>>

Rename ==
  /\ pc = "rename"
  /\ file' = tmp
  /\ committed' = [committed EXCEPT ![op.key] = op.cell]
  /\ Unlock
  /\ UNCHANGED <<loaded, data, tmp>>

\* A full disk, a locked file, a missing directory.
IOError ==
  /\ pc \in {"write", "fill", "rename"}
  /\ Rollback
  /\ UNCHANGED tmp

\* The process dies and is started again; the shard is loaded on first use.
Crash ==
  /\ loaded' = FALSE /\ data' = Empty
  /\ Unlock
  /\ UNCHANGED <<file, tmp, committed>>

Next ==
  \/ Load
  \/ \E k \in Keys, v \in Values \cup {Bad} : Set(k, v)
  \/ \E k \in Keys : Delete(k)
  \/ Marshal \/ WriteTmp \/ FillTmp \/ Rename \/ IOError \/ Crash

Spec == Init /\ [][Next]_vars
-----------------------------------------------------------------------------
\* Every variable has its type; a value that is not JSON reaches the cache only,
\* and the operation under way names a key of the shard.
DataTypeOK ==
  /\ loaded \in BOOLEAN
  /\ data \in [Keys -> Cell \cup {Bad}]
  /\ file \in Files /\ tmp \in Files
  /\ pc \in {"unlocked", "marshal", "write", "fill", "rename"}
  /\ op.kind \in {"none", "set", "delete"} /\ op.key \in Keys \cup {None}
  /\ op.cell \in Cell \cup {Bad} /\ op.prev \in Cell
  /\ committed \in Contents

\* "a crash mid-write never corrupts the existing file": whenever the process
\* dies, the next one can load the file.
FileIsWhole == file.whole

\* What a reader gets, or a restart finds, was stored by the last operation on
\* that key to succeed: a failed one leaves nothing behind for a later write of
\* another key to save.  (A key may be missing: see CacheMatchesDisk.)
OnlyCommitted ==
  \A k \in Keys :
    /\ file.cells[k] \in {committed[k], None}
    /\ pc = "unlocked" /\ loaded => data[k] \in {committed[k], None}

\* "Roll back the in-memory change so cache and disk stay in sync."  A failed
\* overwrite drops the key instead of restoring it: no run checks this.
CacheMatchesDisk == pc = "unlocked" /\ loaded => data = file.cells
=============================================================================
