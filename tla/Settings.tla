------------------------------ MODULE Settings ------------------------------
(***************************************************************************)
(* The small stores of the backend (overrides, surface, identity), their   *)
(* JSON files, the hooks of main.go that announce a change, and restarts.  *)
(*                                                                         *)
(* Overrides and surface hold a lock from the change to the end of the     *)
(* write, into a temporary file that is renamed, and run their hook, which *)
(* reads the store again, after unlocking.  Identity writes its file in    *)
(* place and outside its lock.  A REST handler runs each request; the      *)
(* process may die between any two steps, and file operations may fail.    *)
(*                                                                         *)
(* The temporary file is read only by the rename that ends the write that  *)
(* filled it, so it has no variable.  A size reported by the launcher is   *)
(* kept in memory only and left out.                                       *)
(***************************************************************************)
CONSTANTS
  Writers,     \* requests handled at the same time
  Plugins,
  Sizes,       \* configured sizes that pass Validate
  People,      \* identities
  Unset,       \* no entry, no configured size, no identity, no lock holder
  Torn         \* a file that does not parse

Stores == {"overrides", "surface"}

\* The fields of an override, by what an update of its plugin does with them:
\* "placed" (anchor, offsets, enabled) is kept, "sized" is discarded.
Entries == (SUBSET {"placed", "sized"}) \cup {Unset}
Contents == [overrides |-> [Plugins -> Entries], surface |-> Sizes \cup {Unset}]
Blank == [overrides |-> [p \in Plugins |-> Unset], surface |-> Unset]

ASSUME SettingsAssumption ==
  /\ Unset \notin Writers \cup Sizes \cup People
  /\ Torn \notin People \cup {Unset}
  /\ \A s \in Stores : Torn \notin Contents[s]

VARIABLES
  up,        \* the process runs
  data,      \* what the two stores hold in memory
  file,      \* their files; a missing or empty one reads as Blank
  lock,      \* who holds each store's mutex
  me,        \* identity: s.cur
  idFile,    \* identity.json
  handles,   \* writers whose open handle is the present identity.json
  pc, op,    \* each request's next step, and what it remembers
  edited     \* stores whose file was damaged by hand

stores == <<data, file, lock, edited>>
identity == <<me, idFile, handles>>
vars == <<up, stores, identity, pc, op>>

NoOp == [store |-> Unset, prev |-> Unset, id |-> Unset]

Init ==
  /\ up = TRUE
  /\ data = Blank /\ file = Blank
  /\ lock = [s \in Stores |-> Unset]
  /\ me = Unset /\ idFile = Unset /\ handles = {}
  /\ pc = [w \in Writers |-> "idle"]
  /\ op = [w \in Writers |-> NoOp]
  /\ edited = {}

Goto(w, label) == pc' = [pc EXCEPT ![w] = label]
-----------------------------------------------------------------------------
(***************************************************************************)
(* Overrides and surface.                                                  *)
(***************************************************************************)

\* A Bug... is a faulty variant of the definition after it, by which the runs
\* check that a property notices such a fault.  Here: the mutex is not taken,
\* and it is kept until the hook has run.
BugLock(w, s) == UNCHANGED lock
BugUnlock(s) == UNCHANGED lock

Lock(w, s) == lock[s] = Unset /\ lock' = [lock EXCEPT ![s] = w]
Unlock(s) == lock' = [lock EXCEPT ![s] = Unset]

\* Take the lock and change the value in memory.
Change(w, s, next) ==
  /\ pc[w] = "idle"
  /\ Lock(w, s)
  /\ data' = [data EXCEPT ![s] = next]
  /\ op' = [op EXCEPT ![w] = [store |-> s, prev |-> data[s], id |-> Unset]]
  /\ Goto(w, IF s = "surface" /\ next = Unset THEN "remove" ELSE "write")
  /\ UNCHANGED <<up, file, edited, identity>>

SetEntry(w, p, entry) ==
  Change(w, "overrides", [data.overrides EXCEPT ![p] = entry])

MergeOne(w, p, partial) ==
  SetEntry(w, p, IF data.overrides[p] = Unset THEN partial
                 ELSE data.overrides[p] \cup partial)

KeepPositionAndEnabled(w, p) ==
  /\ data.overrides[p] # Unset
  /\ SetEntry(w, p, IF "placed" \in data.overrides[p] THEN {"placed"} ELSE Unset)

Delete(w, p) ==
  /\ data.overrides[p] # Unset
  /\ SetEntry(w, p, Unset)

SetSurface(w, size) == Change(w, "surface", size)

\* The file is written in place.
BugWriteTmp(w) ==
  /\ pc[w] = "write"
  /\ file' = [file EXCEPT ![op[w].store] = Torn]
  /\ Goto(w, "rename")
  /\ UNCHANGED <<up, data, lock, edited, identity, op>>

WriteTmp(w) ==
  /\ pc[w] = "write"
  /\ Goto(w, "rename")
  /\ UNCHANGED <<up, stores, identity, op>>

\* The rename of the temporary file, or the removal of the file of a cleared
\* size, and the unlock.
Commit(w) ==
  /\ pc[w] \in {"rename", "remove"}
  /\ LET s == op[w].store
     IN  /\ file' = [file EXCEPT ![s] = data[s]]
         /\ edited' = edited \ {s}
         /\ op' = [op EXCEPT ![w].prev = Unset]
         /\ Unlock(s)
  /\ Goto(w, "hook")
  /\ UNCHANGED <<up, data, identity>>

\* The entry is removed, whatever it was before.
BugFail(w) ==
  /\ pc[w] \in {"write", "rename", "remove"}
  /\ LET s == op[w].store
     IN  data' = [data EXCEPT ![s] = Blank[s]] /\ Unlock(s)
  /\ op' = [op EXCEPT ![w] = NoOp]
  /\ Goto(w, "idle")
  /\ UNCHANGED <<up, file, edited, identity>>

\* Writing, renaming or removing failed: the change is undone.
Fail(w) ==
  /\ pc[w] \in {"write", "rename", "remove"}
  /\ LET s == op[w].store
     IN  data' = [data EXCEPT ![s] = op[w].prev] /\ Unlock(s)
  /\ op' = [op EXCEPT ![w] = NoOp]
  /\ Goto(w, "idle")
  /\ UNCHANGED <<up, file, edited, identity>>

\* The hook reads the store under its lock.  The surface hook takes three
\* reads (Get, Detected, Effective), one after the other.
HookRead(w) ==
  /\ pc[w] = "hook" /\ lock[op[w].store] = Unset
  /\ Goto(w, "announce")
  /\ UNCHANGED <<up, stores, identity, op>>

\* The broadcast of _OverridesChanged, _SurfaceChanged or _IdentityChanged.
Announce(w) ==
  /\ pc[w] = "announce"
  /\ op' = [op EXCEPT ![w] = NoOp]
  /\ Goto(w, "idle")
  /\ UNCHANGED <<up, stores, identity>>

-----------------------------------------------------------------------------
(***************************************************************************)
(* Identity.                                                               *)
(***************************************************************************)

\* os.WriteFile creates or empties the file ...
OpenIdentity(w, id) ==
  /\ pc[w] = "idle"
  /\ op' = [op EXCEPT ![w] = [store |-> Unset, prev |-> Unset, id |-> id]]
  /\ idFile' = Unset
  /\ handles' = handles \cup {w}
  /\ Goto(w, "fill")
  /\ UNCHANGED <<up, stores, me>>

\* ... and writes from its start: over what another request wrote meanwhile,
\* whose tail is left if it was longer, or into a file that was removed.
FillIdentity(w) ==
  /\ pc[w] = "fill"
  /\ IF w \in handles
     THEN idFile' \in {op[w].id} \cup (IF idFile = Unset THEN {} ELSE {Torn})
     ELSE UNCHANGED idFile
  /\ handles' = handles \ {w}
  /\ Goto(w, "swap")
  /\ UNCHANGED <<up, stores, me, op>>

\* The write failed: the request ends with an error.
FillFails(w) ==
  /\ pc[w] = "fill"
  /\ IF w \in handles THEN idFile' \in {idFile, Torn} ELSE UNCHANGED idFile
  /\ handles' = handles \ {w}
  /\ op' = [op EXCEPT ![w] = NoOp]
  /\ Goto(w, "idle")
  /\ UNCHANGED <<up, stores, me>>

\* os.Remove in Clear.
ClearIdentity(w) ==
  /\ pc[w] = "idle"
  /\ idFile' = Unset
  /\ handles' = {}
  /\ Goto(w, "swap")
  /\ UNCHANGED <<up, stores, me, op>>

\* The only part of Set and Clear under the lock.  The hook is handed the new
\* identity.
SwapIdentity(w) ==
  /\ pc[w] = "swap"
  /\ me' = op[w].id
  /\ Goto(w, "announce")
  /\ UNCHANGED <<up, stores, idFile, handles, op>>

-----------------------------------------------------------------------------
(***************************************************************************)
(* The process.                                                            *)
(***************************************************************************)

\* A write of identity.json under way may have got to any point.
Crash ==
  /\ up
  /\ up' = FALSE
  /\ data' = Blank /\ me' = Unset
  /\ lock' = [s \in Stores |-> Unset]
  /\ idFile' \in {idFile} \cup (IF handles = {} THEN {} ELSE {Torn})
  /\ handles' = {}
  /\ pc' = [w \in Writers |-> "idle"]
  /\ op' = [w \in Writers |-> NoOp]
  /\ UNCHANGED <<file, edited>>

\* The New of each store.  A corrupt file is moved away, if that succeeds, and
\* the store starts empty; an identity that does not parse ends the start.
Boot ==
  /\ ~up /\ idFile # Torn
  /\ up' = TRUE
  /\ data' = [s \in Stores |-> IF file[s] = Torn THEN Blank[s] ELSE file[s]]
  /\ \E moved \in SUBSET {s \in Stores : file[s] = Torn} :
       file' = [s \in Stores |-> IF s \in moved THEN Blank[s] ELSE file[s]]
  /\ me' = idFile
  /\ UNCHANGED <<lock, edited, idFile, handles, pc, op>>

\* A user edits a file while the program is not running.
EditByHand(s) ==
  /\ ~up
  /\ file' = [file EXCEPT ![s] = Torn]
  /\ edited' = edited \cup {s}
  /\ UNCHANGED <<up, data, lock, identity, pc, op>>

-----------------------------------------------------------------------------
Request(w) ==
  \/ \E p \in Plugins :
       \/ \E partial \in Entries \ {Unset} : MergeOne(w, p, partial)
       \/ KeepPositionAndEnabled(w, p)
       \/ Delete(w, p)
  \/ \E size \in Sizes \cup {Unset} : SetSurface(w, size)
  \/ \E id \in People : OpenIdentity(w, id)
  \/ ClearIdentity(w)

RunOn(w) ==
  \/ WriteTmp(w) \/ Commit(w) \/ Fail(w) \/ HookRead(w) \/ Announce(w)
  \/ FillIdentity(w) \/ FillFails(w) \/ SwapIdentity(w)

Next ==
  \/ up /\ \E w \in Writers : Request(w) \/ RunOn(w)
  \/ Crash \/ Boot
  \/ \E s \in Stores : EditByHand(s)

Spec == Init /\ [][Next]_vars

\* A handler that can run does.  The mutex of the Go runtime is fair: a reader
\* that waits for it gets it although writers keep coming.
Fairness ==
  \A w \in Writers : WF_vars(up /\ RunOn(w)) /\ SF_vars(up /\ HookRead(w))
FairSpec == Spec /\ Fairness
-----------------------------------------------------------------------------
Writing == {"write", "rename", "remove"}
Labels == Writing \cup {"idle", "hook", "announce", "fill", "swap"}
Ops == [store : Stores \cup {Unset}, id : People \cup {Unset},
        prev : Contents.overrides \cup Contents.surface \cup {Unset}]

\* Every variable has its type; a request that is writing holds the lock of its
\* store.
SettingsTypeOK ==
  /\ up \in BOOLEAN
  /\ DOMAIN data = Stores /\ DOMAIN file = Stores
  /\ \A s \in Stores : data[s] \in Contents[s] /\ file[s] \in Contents[s] \cup {Torn}
  /\ lock \in [Stores -> Writers \cup {Unset}]
  /\ me \in People \cup {Unset} /\ idFile \in People \cup {Unset, Torn}
  /\ handles \subseteq Writers
  /\ pc \in [Writers -> Labels]
  /\ op \in [Writers -> Ops]
  /\ \A w \in Writers : pc[w] \in Writing => lock[op[w].store] = w
  /\ edited \subseteq Stores

\* "Roll back so the in-memory state matches disk": when nobody holds its lock
\* a store holds what its file does, except over a damaged file that could not
\* be moved away and was not written since.
MemoryMatchesFile ==
  \A s \in Stores : up /\ lock[s] = Unset =>
    file[s] = data[s] \/ (file[s] = Torn /\ data[s] = Blank[s])

\* "a crash mid-write leaves the prior file intact": only a user corrupts a
\* settings file, never the program, wherever it dies.
OnlyEditsCorrupt == \A s \in Stores : file[s] = Torn => s \in edited

\* The hook is "called outside the lock so a buggy subscriber can't deadlock
\* the writer": every request ends, though hooks take the lock again.
RequestsEnd == \A w \in Writers : pc[w] # "idle" ~> pc[w] = "idle"

\* "The 'who am I' store.  Backed by data/identity.json on the server": with no
\* request under way, a restart would find the identity that is in use.  A write
\* that fails, or two at a time, break it: no run checks this.
IdentityIsBacked ==
  up /\ (\A w \in Writers : pc[w] \notin {"fill", "swap"}) => idFile = me
=============================================================================
