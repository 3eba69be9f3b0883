--------------------------- MODULE SnapshotTier ----------------------------
(***************************************************************************)
(* The daemon's read tier (refmatrix/daemon.py): the writer's catalog, the *)
(* snapshot file catalog.read.duckdb copied from it, the in-memory mirror  *)
(* loaded from that file (_MemMirror), and the read ops that go through    *)
(* them (_read_with_fallback).  A catalog is abstracted to a version and   *)
(* to the set of partitions it holds; a partition, once made, stays        *)
(* (partition_drop is left out), and every read names its partition.  What *)
(* runs under the store lock is one step.                                  *)
(***************************************************************************)
EXTENDS Naturals, FiniteSets

CONSTANTS Reader,      \* threads that serve read ops
          Partition,   \* partition names an op may ask for
          Home,        \* the partition every catalog holds
          Nobody,      \* no thread holds a lock
          MaxVersion,  \* bound: commits of the writer
          MaxFailures  \* bound: failed checkpoints, copies and mirror loads

Booted == 2                          \* the writer's version when the daemon starts
Snapper == {"boot", "tick", "op"}    \* threads that take snapshots

ASSUME HomeAssumption == Home \in Partition
ASSUME BoundAssumption == MaxVersion \in Nat /\ MaxVersion > Booted /\ MaxFailures \in Nat
ASSUME NamesAssumption == /\ Reader \cap Snapper = {}
                          /\ Nobody \notin Reader \cup Snapper

VARIABLES writer,      \* the committed catalog of the writer
          covered,     \* newest version whose op has called _request_snapshot
          committed,   \* versions whose op has not called it yet
          flagged,     \* versions whose op has set _snapshot_dirty, not the event
          dirty,       \* _snapshot_dirty
          event,       \* _snapshot_event
          file,        \* catalog.read.duckdb
          mirror,      \* _MemMirror._store
          fresh,       \* the catalog each refresh has loaded, not swapped in yet
          snapLock,    \* _snapshot_lock
          refreshLock, \* _MemMirror._refresh_lock
          useLock,     \* _MemMirror._use_lock
          mirrorBound, \* the partition the shared mirror Store is bound to
          pc,          \* of the snapshot-taking threads
          failures,    \* how many attempts have failed
          lastFailed,  \* the last attempt of each kind failed: "copy", "load"
          read         \* the read ops

requestVars == <<covered, committed, flagged, dirty, event>>
lockVars    == <<snapLock, refreshLock, useLock>>
tierVars    == <<file, mirror, fresh, lockVars, pc, failures, lastFailed>>
vars == <<writer, requestVars, tierVars, mirrorBound, read>>

Version == 0..MaxVersion
Catalog == [v : Version, ps : SUBSET Partition]
None    == [v |-> 0, ps |-> {}]           \* no file, or a mirror never loaded

\* A read op: the partition it asks for, where it stands, the Store it has
\* open; whether the writer had the partition, and how new the mirror was, when
\* it began; the binding it puts back; and its answer: the binding it ran under,
\* and whether it found no such partition.
Idle == [pc |-> "idle", part |-> Home, store |-> None, existed |-> FALSE,
         floor |-> 0, prev |-> Home, bound |-> Home, missing |-> FALSE]
ReadOp == [pc : {"idle", "borrowed", "using", "file", "check", "writer", "done"},
           part : Partition, store : Catalog, existed : BOOLEAN,
           floor : Version, prev : Partition, bound : Partition, missing : BOOLEAN]

TypeOK ==
    /\ {writer, file, mirror} \subseteq Catalog
    /\ fresh \in [Snapper -> Catalog]
    /\ covered \in Version
    /\ committed \subseteq Version /\ flagged \subseteq Version
    /\ {dirty, event} \subseteq BOOLEAN
    /\ {snapLock, refreshLock} \subseteq Snapper \cup {Nobody}
    /\ useLock \in Reader \cup {Nobody}
    /\ mirrorBound \in Partition
    /\ pc \in [Snapper -> {"wait", "debounce", "copy", "make", "load", "swap", "done"}]
    /\ failures \in 0..MaxFailures
    /\ lastFailed \subseteq {"copy", "load"}
    /\ read \in [Reader -> ReadOp]

\* An earlier daemon may have left a snapshot file, older than the writer.  The
\* tick thread runs, the boot thread takes the first snapshot, and the socket
\* is not bound yet.
Init ==
    /\ writer = [v |-> Booted, ps |-> {Home}]
    /\ covered = 0
    /\ committed = {} /\ flagged = {}
    /\ dirty = FALSE /\ event = FALSE
    /\ file \in {None, [v |-> Booted - 1, ps |-> {Home}]}
    /\ mirror = None /\ fresh = [s \in Snapper |-> None]
    /\ snapLock = Nobody /\ refreshLock = Nobody /\ useLock = Nobody
    /\ mirrorBound = Home
    /\ pc = [s \in Snapper |-> IF s = "boot" THEN "copy" ELSE "wait"]
    /\ failures = 0 /\ lastFailed = {}
    /\ read = [r \in Reader |-> Idle]

Serving == pc["boot"] = "done"               \* the socket is bound
MirrorMade == pc["boot"] \in {"load", "swap", "done"}   \* _mem_mirror is not None
Loaded == mirror # None                      \* _MemMirror.ready

-----------------------------------------------------------------------------
\* The writer.

\* Mutated form.
NewCatalog_CountsTwice(p) == [v |-> writer.v + 2, ps |-> writer.ps \cup {p}]

\* A write op, or the drain of the learn queue, commits under the store lock,
\* perhaps into a new partition.
NewCatalog(p) == [v |-> writer.v + 1, ps |-> writer.ps \cup {p}]

CommitByOp ==
    /\ writer.v < MaxVersion
    /\ \E p \in Partition : writer' = NewCatalog(p)
    /\ committed' = committed \cup {writer.v + 1}
    /\ UNCHANGED <<covered, flagged, dirty, event, tierVars, mirrorBound, read>>

\* The watcher's flush syncs files under the store lock, and nothing follows.
CommitByWatcher ==
    /\ writer.v < MaxVersion
    /\ \E p \in writer.ps : writer' = NewCatalog(p)
    /\ UNCHANGED <<requestVars, tierVars, mirrorBound, read>>

\* _request_snapshot sets the flag first, the event second.
FlagDirty ==
    /\ \E n \in committed : /\ committed' = committed \ {n}
                            /\ flagged' = flagged \cup {n}
    /\ dirty' = TRUE
    /\ UNCHANGED <<writer, covered, event, tierVars, mirrorBound, read>>

SetEvent ==
    /\ \E n \in flagged : /\ flagged' = flagged \ {n}
                          /\ covered' = IF n > covered THEN n ELSE covered
    /\ event' = TRUE
    /\ UNCHANGED <<writer, committed, dirty, tierVars, mirrorBound, read>>

-----------------------------------------------------------------------------
\* Taking snapshots.

\* Mutated forms.
TickWakes_TakesFlag ==
    /\ pc["tick"] = "wait"
    /\ event
    /\ event' = FALSE
    /\ dirty' = FALSE
    /\ pc' = [pc EXCEPT !["tick"] = IF dirty THEN "debounce" ELSE "wait"]
    /\ UNCHANGED <<writer, covered, committed, flagged, file, mirror, fresh,
                   lockVars, failures, lastFailed, mirrorBound, read>>
RefreshTurn_Unserialized(s) == UNCHANGED refreshLock
BindTurn_Unlocked(r) == UNCHANGED useLock
Locate_NoWriter(r) == "done"

\* The tick thread: ev.wait() returns, ev.clear(), then it sleeps the debounce.
TickWakes ==
    /\ pc["tick"] = "wait"
    /\ event
    /\ event' = FALSE
    /\ pc' = [pc EXCEPT !["tick"] = "debounce"]
    /\ UNCHANGED <<writer, covered, committed, flagged, dirty, file, mirror, fresh,
                   lockVars, failures, lastFailed, mirrorBound, read>>

\* After the debounce: nothing to do, or the flag is cleared and a copy is due.
TickChecks ==
    /\ pc["tick"] = "debounce"
    /\ pc' = [pc EXCEPT !["tick"] = IF dirty THEN "copy" ELSE "wait"]
    /\ dirty' = FALSE
    /\ UNCHANGED <<writer, covered, committed, flagged, event, file, mirror, fresh,
                   lockVars, failures, lastFailed, mirrorBound, read>>

\* The snapshot RPC, force=True.
OpAsks ==
    /\ Serving
    /\ pc["op"] = "wait"
    /\ pc' = [pc EXCEPT !["op"] = "copy"]
    /\ UNCHANGED <<writer, requestVars, file, mirror, fresh, lockVars, failures,
                   lastFailed, mirrorBound, read>>

Rest(s) == IF s = "boot" THEN "done" ELSE "wait"

\* _snapshot_catalog under _snapshot_lock: CHECKPOINT, copy and os.replace
\* under the store lock.  The boot thread's refresh comes later, outside
\* _snapshot_lock; the others refresh the mirror inside it.
Copy(s) ==
    /\ pc[s] = "copy"
    /\ snapLock = Nobody
    /\ file' = writer
    /\ lastFailed' = lastFailed \ {"copy"}
    /\ pc' = [pc EXCEPT ![s] = IF s = "boot" THEN "make" ELSE "load"]
    /\ snapLock' = IF s = "boot" THEN Nobody ELSE s
    /\ UNCHANGED <<writer, requestVars, mirror, fresh, refreshLock, useLock,
                   failures, mirrorBound, read>>

\* CHECKPOINT or the copy fails: the error is returned, the flag stays cleared.
CopyFails(s) ==
    /\ pc[s] = "copy"
    /\ snapLock = Nobody
    /\ failures < MaxFailures
    /\ failures' = failures + 1
    /\ lastFailed' = lastFailed \cup {"copy"}
    /\ pc' = [pc EXCEPT ![s] = IF s = "boot" THEN "make" ELSE "wait"]
    /\ UNCHANGED <<writer, requestVars, file, mirror, fresh, lockVars, mirrorBound, read>>

\* self._mem_mirror = _MemMirror(self)
MakeMirror ==
    /\ pc["boot"] = "make"
    /\ pc' = [pc EXCEPT !["boot"] = "load"]
    /\ UNCHANGED <<writer, requestVars, file, mirror, fresh, lockVars, failures,
                   lastFailed, mirrorBound, read>>

\* _MemMirror.refresh: the file is loaded under _refresh_lock ...
RefreshTurn(s) == /\ refreshLock = Nobody
                  /\ refreshLock' = s

Load(s) ==
    /\ pc[s] = "load"
    /\ MirrorMade
    /\ file # None
    /\ RefreshTurn(s)
    /\ fresh' = [fresh EXCEPT ![s] = file]
    /\ pc' = [pc EXCEPT ![s] = "swap"]
    /\ UNCHANGED <<writer, requestVars, file, mirror, snapLock, useLock, failures,
                   lastFailed, mirrorBound, read>>

\* ... or there is no mirror yet, no file, or the load raises: what there is
\* of the mirror stays.
Unlocks(s) == snapLock' = IF snapLock = s THEN Nobody ELSE snapLock

NoLoad(s) ==
    /\ pc[s] = "load"
    /\ \/ /\ ~MirrorMade \/ file = None
          /\ UNCHANGED <<failures, lastFailed>>
       \/ /\ MirrorMade /\ file # None
          /\ refreshLock = Nobody
          /\ failures < MaxFailures
          /\ failures' = failures + 1
          /\ lastFailed' = lastFailed \cup {"load"}
    /\ Unlocks(s)
    /\ pc' = [pc EXCEPT ![s] = Rest(s)]
    /\ UNCHANGED <<writer, requestVars, file, mirror, fresh, refreshLock, useLock,
                   mirrorBound, read>>

\* Mutated form: the flag is reset when the refresh is complete.
Swap_ResetsFlag(s) ==
    /\ pc[s] = "swap"
    /\ useLock = Nobody
    /\ mirror' = fresh[s]
    /\ fresh' = [fresh EXCEPT ![s] = None]
    /\ mirrorBound' \in fresh[s].ps
    /\ lastFailed' = lastFailed \ {"load"}
    /\ refreshLock' = Nobody
    /\ Unlocks(s)
    /\ pc' = [pc EXCEPT ![s] = Rest(s)]
    /\ dirty' = FALSE
    /\ UNCHANGED <<writer, covered, committed, flagged, event, file, useLock,
                   failures, read>>

\* ... and swapped in while no reader uses the old one.  The new Store is bound
\* to what the writer was bound to while it was loaded.
Swap(s) ==
    /\ pc[s] = "swap"
    /\ useLock = Nobody
    /\ mirror' = fresh[s]
    /\ fresh' = [fresh EXCEPT ![s] = None]
    /\ mirrorBound' \in fresh[s].ps
    /\ lastFailed' = lastFailed \ {"load"}
    /\ refreshLock' = Nobody
    /\ Unlocks(s)
    /\ pc' = [pc EXCEPT ![s] = Rest(s)]
    /\ UNCHANGED <<writer, requestVars, file, useLock, failures, read>>

-----------------------------------------------------------------------------
\* Read ops.

Becomes(r, op) == read' = [read EXCEPT ![r] = op]
ReadOnly == UNCHANGED <<writer, requestVars, file, mirror, fresh, snapLock,
                        refreshLock, pc, failures, lastFailed>>

\* mirror.borrow(): the Store object of now, even if a refresh swaps it later.
\* A private read, or one before the mirror is ready, opens the file.
Begin(r) ==
    /\ Serving
    /\ read[r].pc \in {"idle", "done"}
    /\ \E p \in Partition, private \in BOOLEAN :
         LET op == [Idle EXCEPT !.part = p, !.existed = p \in writer.ps, !.floor = mirror.v]
         IN  Becomes(r, IF Loaded /\ ~private
                        THEN [op EXCEPT !.pc = "borrowed", !.store = mirror]
                        ELSE [op EXCEPT !.pc = "file"])
    /\ UNCHANGED <<useLock, mirrorBound>> /\ ReadOnly

\* In one hold of the use lock: look the partition up, bind the Store to it ...
BindTurn(r) == /\ useLock = Nobody
               /\ useLock' = r

BindMirror(r) ==
    /\ read[r].pc = "borrowed"
    /\ read[r].part \in read[r].store.ps
    /\ BindTurn(r)
    /\ mirrorBound' = read[r].part
    /\ Becomes(r, [read[r] EXCEPT !.pc = "using", !.prev = mirrorBound])
    /\ ReadOnly

\* ... run fn, which sees what the Store is bound to, and put the binding back.
\* (The version read is all of the Store that the answer keeps.)
ReadMirror(r) ==
    /\ read[r].pc = "using"
    /\ Becomes(r, [read[r] EXCEPT !.pc = "done", !.bound = mirrorBound, !.prev = Home,
                                  !.store.ps = {}])
    /\ mirrorBound' = read[r].prev
    /\ useLock' = Nobody
    /\ ReadOnly

\* The mirror lacks the partition: on to the snapshot file.
MissMirror(r) ==
    /\ read[r].pc = "borrowed"
    /\ read[r].part \notin read[r].store.ps
    /\ useLock = Nobody
    /\ Becomes(r, [read[r] EXCEPT !.pc = "file", !.store = None])
    /\ UNCHANGED <<useLock, mirrorBound>> /\ ReadOnly

\* _open_read_store(allow_mirror=False): a connection of its own; with no file,
\* or if it cannot be opened, the writer answers.
ReadFile(r) ==
    /\ read[r].pc = "file"
    /\ file # None
    /\ Becomes(r, IF read[r].part \in file.ps
                  THEN [read[r] EXCEPT !.pc = "done", !.store.v = file.v, !.bound = read[r].part]
                  ELSE [read[r] EXCEPT !.pc = "check", !.store.v = file.v])
    /\ UNCHANGED <<useLock, mirrorBound>> /\ ReadOnly

NoFile(r) ==
    /\ read[r].pc = "file"
    /\ Becomes(r, [read[r] EXCEPT !.pc = "writer"])
    /\ UNCHANGED <<useLock, mirrorBound>> /\ ReadOnly

\* The snapshot lacks the partition: the writer is asked, under its lock.
Locate(r) == IF read[r].part \in writer.ps THEN "writer" ELSE "done"

CheckWriter(r) ==
    /\ read[r].pc = "check"
    /\ Becomes(r, [read[r] EXCEPT !.pc = Locate(r), !.missing = Locate(r) = "done",
                                  !.bound = read[r].part])
    /\ UNCHANGED <<useLock, mirrorBound>> /\ ReadOnly

ReadWriter(r) ==
    /\ read[r].pc = "writer"
    /\ Becomes(r, [read[r] EXCEPT !.pc = "done", !.store.v = writer.v, !.bound = read[r].part,
                                  !.missing = read[r].part \notin writer.ps])
    /\ UNCHANGED <<useLock, mirrorBound>> /\ ReadOnly

-----------------------------------------------------------------------------
Snap(s) == Copy(s) \/ CopyFails(s) \/ Load(s) \/ NoLoad(s) \/ Swap(s)
Read(r) == \/ Begin(r) \/ BindMirror(r) \/ ReadMirror(r) \/ MissMirror(r)
           \/ ReadFile(r) \/ NoFile(r) \/ CheckWriter(r) \/ ReadWriter(r)

Next == \/ CommitByOp \/ CommitByWatcher \/ FlagDirty \/ SetEvent
        \/ TickWakes \/ TickChecks \/ OpAsks \/ MakeMirror
        \/ \E s \in Snapper : Snap(s)
        \/ \E r \in Reader : Read(r)

Spec == Init /\ [][Next]_vars

\* Handlers run to their end, the tick thread and a snapshot under way run,
\* and a reader that holds the use lock returns.  Readers may come back to the
\* use lock for ever, but a thread blocked on it gets it at some release.
\* Commits, snapshot RPCs and new reads need not happen.
Fairness == /\ WF_vars(FlagDirty) /\ WF_vars(SetEvent)
            /\ WF_vars(TickWakes) /\ WF_vars(TickChecks) /\ WF_vars(MakeMirror)
            /\ WF_vars(\E s \in Snapper : Copy(s) \/ CopyFails(s))
            /\ WF_vars(\E s \in Snapper : Load(s) \/ NoLoad(s))
            /\ SF_vars(\E s \in Snapper : Swap(s))
            /\ \A r \in Reader : WF_vars(ReadMirror(r))

FairSpec == Spec /\ Fairness

-----------------------------------------------------------------------------
(***************************************************************************)
(* The read tiers never go back in time: two snapshots under way, or the   *)
(* boot thread's refresh beside the tick's, cannot install the older copy  *)
(* over the newer.                                                         *)
(***************************************************************************)
TiersNeverGoBack == [][file'.v >= file.v /\ mirror'.v >= mirror.v]_vars

(***************************************************************************)
(* No request for a snapshot is lost: while the file is behind a version   *)
(* whose op has asked, the flag is up or a copy is due or the last copy    *)
(* failed; and a raised flag always has a wake-up under way.               *)
(***************************************************************************)
RequestsAreKept ==
    /\ file.v < covered => dirty \/ pc["tick"] = "copy" \/ "copy" \in lastFailed
    /\ dirty => event \/ pc["tick"] = "debounce" \/ flagged # {}

(***************************************************************************)
(* An answered read: it ran bound to the partition it asked for, it says   *)
(* that a partition does not exist only if the writer had none when the    *)
(* read began, and it is no older than the mirror was at that moment.      *)
(***************************************************************************)
Answered(r) == read[r].pc = "done"
ReadsOwnPartition == \A r \in Reader : Answered(r) => read[r].bound = read[r].part
ExistingPartitionIsFound ==
    \A r \in Reader : Answered(r) => ~(read[r].missing /\ read[r].existed)
ReadsNotOlderThanMirror == \A r \in Reader : Answered(r) => read[r].store.v >= read[r].floor
AnswersAreRight == ReadsOwnPartition /\ ExistingPartitionIsFound /\ ReadsNotOlderThanMirror

(***************************************************************************)
(* Once its op has asked for a snapshot, a write reaches the mirror, or an *)
(* attempt at copying or loading it has failed.                            *)
(***************************************************************************)
RequestedWritesReachReaders ==
    \A n \in Booted+1..MaxVersion : covered >= n ~> (mirror.v >= n \/ lastFailed # {})

(***************************************************************************)
(* What daemon.py:340 says of the mirror ("lags the writer by at most one  *)
(* debounce window") for every commit, the watcher's included.  The code   *)
(* does not keep it: the watcher's flush asks for no snapshot.             *)
(***************************************************************************)
WritesReachReaders == \A n \in Booted+1..MaxVersion : writer.v >= n ~> mirror.v >= n

=============================================================================
