------------------------- MODULE PartitionBinding --------------------------
(***************************************************************************)
(* The daemon has one writer Store, and the Store carries one current      *)
(* partition that ops switch (refmatrix/store.py with_partition).  Ops run *)
(* under the store lock; a long ingest gives the lock away between units   *)
(* of work and takes it back (refmatrix/daemon.py                          *)
(* _partition_keeping_yield).  This module says into which partition the   *)
(* rows of each request go.  The lock is the FIFO mutex that FairLock      *)
(* implements.  A thread here serves one request.                          *)
(***************************************************************************)
EXTENDS FiniteSets, Sequences, SequencesExt

CONSTANTS Job,        \* threads that serve a cooperative ingest
          Op,         \* threads that serve a single write op
          Partition,  \* partitions of the store
          Home,       \* the one the daemon was started on
          Unset,      \* no partition was named
          NoOwner     \* nobody holds the store lock

ASSUME HomeAssumption  == Home \in Partition
ASSUME UnsetAssumption == Unset \notin Partition
ASSUME ThreadAssumption == /\ Job \cap Op = {}
                           /\ NoOwner \notin Job \cup Op

Thread == Job \cup Op

VARIABLES owner, queue,  \* the store lock
          bound,         \* the writer Store's _partition_name / _partition_id
          registered,    \* jobs whose _ingest_jobs record says "running"
          pc,
          kind,          \* which operation the thread serves
          ask,           \* the request's "partition" argument
          part,          \* what with_partition will be given; Unset: nothing
          prev,          \* what with_partition restores; Unset: nothing
          kept,          \* what the yield recorded before it released the lock
          into           \* partitions the request has written rows into

lockVars == <<owner, queue>>
vars == <<owner, queue, bound, registered, pc, kind, ask, part, prev, kept, into>>

StoreLock == INSTANCE FifoMutex

\* "scoped"  set_flag, forget, untrack, ...: names the partition before it has
\*           the lock; "memory" names it under the lock; "sync" (sync_files,
\*           watcher flush, vacuum, prune_noise, ...) never binds one.
\* "gmd", "path": the cooperative ingests.
OpKind  == {"sync", "scoped", "memory"}
JobKind == {"gmd", "path"}
Ask     == Partition \cup {Unset}
Place   == {"idle", "called", "waiting", "inside", "yielded", "rewaiting", "done"}

TypeOK == /\ StoreLock!TypeOK
          /\ bound \in Partition
          /\ registered \in SUBSET Job
          /\ pc \in [Thread -> Place]
          /\ kind \in [Thread -> OpKind \cup JobKind \cup {"none"}]
          /\ \A a \in {ask, part, prev, kept} : a \in [Thread -> Ask]
          /\ into \in [Thread -> SUBSET Partition]

Init == /\ StoreLock!Init
        /\ bound = Home
        /\ registered = {}
        /\ pc = [t \in Thread |-> "idle"]
        /\ kind = [t \in Thread |-> "none"]
        /\ ask = [t \in Thread |-> Unset]
        /\ part = [t \in Thread |-> Unset]
        /\ prev = [t \in Thread |-> Unset]
        /\ kept = [t \in Thread |-> Unset]
        /\ into = [t \in Thread |-> {}]

At(t, here) == pc[t] = here
Goes(t, there) == pc' = [pc EXCEPT ![t] = there]

\* Join the queue of the store lock, or take it if it is free.
TakesLock(t) == StoreLock!Grab(t) \/ StoreLock!Join(t)

\* Mutated forms.
NamedPartition_FirstBound(k, a) == bound
RetakesLock_Barges(t) ==
    \/ StoreLock!Grab(t)
    \/ /\ owner # NoOwner
       /\ queue' = <<t>> \o queue
       /\ UNCHANGED owner
Rebinds_Nothing(t) == UNCHANGED bound
Restores_Kept(t) == UNCHANGED bound
Restores_Always(t) == bound' = prev[t]

\* _register_ingest_job: refuses while a registered job runs.  The gmd ingests
\* and the detached path ingest register; the blocking ingest_path op does not.
Registers(t, k) ==
    \/ /\ k \in JobKind
       /\ registered = {}
       /\ registered' = {t}
    \/ /\ k # "gmd"
       /\ UNCHANGED registered

\* The partition an op names: its argument, or what the Store is bound to at
\* this moment, read without the lock.  "path", "memory" and "sync" do not.
NamedPartition(k, a) == IF a = Unset /\ k \in {"gmd", "scoped"} THEN bound ELSE a

Call(t) ==
    /\ At(t, "idle")
    /\ \E k \in IF t \in Job THEN JobKind ELSE OpKind,
          a \in Ask :
         /\ k = "sync" => a = Unset
         /\ Registers(t, k)
         /\ kind' = [kind EXCEPT ![t] = k]
         /\ ask' = [ask EXCEPT ![t] = a]
         /\ part' = [part EXCEPT ![t] = NamedPartition(k, a)]
    /\ Goes(t, "called")
    /\ UNCHANGED <<lockVars, bound, prev, kept, into>>

Request(t) ==
    /\ At(t, "called")
    /\ TakesLock(t)
    /\ Goes(t, "waiting")
    /\ UNCHANGED <<bound, registered, kind, ask, part, prev, kept, into>>

\* with_partition: binds, and remembers what to restore unless the Store is on
\* that partition already.  An op that names none runs on what is bound.
Binds(t) ==
    /\ prev' = [prev EXCEPT ![t] = IF part[t] \in {Unset, bound} THEN Unset ELSE bound]
    /\ bound' = IF part[t] = Unset THEN bound ELSE part[t]

Enter(t) ==
    /\ At(t, "waiting")
    /\ owner = t
    /\ Binds(t)
    /\ Goes(t, "inside")
    /\ UNCHANGED <<lockVars, registered, kind, ask, part, kept, into>>

\* Rows, bits and derive stamps go where the Store is bound.
Write(t) ==
    /\ At(t, "inside")
    /\ into' = [into EXCEPT ![t] = @ \cup {bound}]
    /\ UNCHANGED <<lockVars, bound, registered, pc, kind, ask, part, prev, kept>>

\* _partition_keeping_yield, up to the release.
Yield(t) ==
    /\ t \in Job
    /\ At(t, "inside")
    /\ kept' = [kept EXCEPT ![t] = bound]
    /\ StoreLock!HandOver(t)
    /\ Goes(t, "yielded")
    /\ UNCHANGED <<bound, registered, kind, ask, part, prev, into>>

\* ... after the sleep: back into the queue.
RetakesLock(t) == TakesLock(t)

Rerequest(t) ==
    /\ At(t, "yielded")
    /\ RetakesLock(t)
    /\ Goes(t, "rewaiting")
    /\ UNCHANGED <<bound, registered, kind, ask, part, prev, kept, into>>

\* ... and with the lock again: the ingest's own binding is put back.
Rebinds(t) == bound' = kept[t]

Resume(t) ==
    /\ At(t, "rewaiting")
    /\ owner = t
    /\ Rebinds(t)
    /\ kept' = [kept EXCEPT ![t] = Unset]
    /\ Goes(t, "inside")
    /\ UNCHANGED <<lockVars, registered, kind, ask, part, prev, into>>

\* The `finally` of with_partition.
Restores(t) == bound' = IF prev[t] = Unset THEN bound ELSE prev[t]

Leave(t) ==
    /\ At(t, "inside")
    /\ Restores(t)
    /\ StoreLock!HandOver(t)
    /\ Goes(t, "done")
    /\ part' = [part EXCEPT ![t] = Unset]
    /\ prev' = [prev EXCEPT ![t] = Unset]
    /\ kept' = [kept EXCEPT ![t] = Unset]
    /\ UNCHANGED <<registered, kind, ask, into>>

\* The job record flips to "done" or "error", after the lock is released.
Unregister(t) ==
    /\ At(t, "done")
    /\ t \in registered
    /\ registered' = registered \ {t}
    /\ UNCHANGED <<lockVars, bound, pc, kind, ask, part, prev, kept, into>>

Next == \E t \in Thread :
          \/ Call(t) \/ Request(t) \/ Enter(t) \/ Write(t)
          \/ Yield(t) \/ Rerequest(t) \/ Resume(t)
          \/ Leave(t) \/ Unregister(t)

Spec == Init /\ [][Next]_vars

\* A pool thread that can run runs, and a unit of an ingest's work ends: in a
\* yield or in the end of the ingest.  Nothing says that an ingest ends.
Fairness == \A t \in Thread : /\ WF_vars(Request(t) \/ Rerequest(t))
                              /\ WF_vars(Enter(t) \/ Resume(t))
                              /\ WF_vars(Yield(t) \/ Leave(t))
                              /\ WF_vars(Unregister(t))

FairSpec == Spec /\ Fairness

-----------------------------------------------------------------------------
(***************************************************************************)
(* A request that names a partition writes into that partition only,       *)
(* whatever ran while it waited or had given the lock away (bug-098).      *)
(***************************************************************************)
NamedWritesLand == \A t \in Thread : ask[t] # Unset => into[t] \subseteq {ask[t]}

(***************************************************************************)
(* One request never spreads its rows over two partitions, whether or not  *)
(* it named one: a cooperative ingest keeps its binding across its yields. *)
(***************************************************************************)
OneRequestOnePartition == \A t \in Thread : Cardinality(into[t]) <= 1

(***************************************************************************)
(* Both: the rows of a request land together, and where it said.           *)
(***************************************************************************)
WritesKeepTheirPartition == NamedWritesLand /\ OneRequestOnePartition

(***************************************************************************)
(* As long as at most one ingest has been through the lock, a daemon with  *)
(* nothing under way is bound to its own partition again, whatever else    *)
(* was bound while the ingest had given the lock away.                     *)
(***************************************************************************)
NoJobUnderWay == \A j \in Job : pc[j] \in {"idle", "called", "waiting", "done"}
AtRest == /\ NoJobUnderWay
          /\ \A o \in Op : pc[o] # "inside"
RestoredAfterLoneJob ==
    (AtRest /\ Cardinality({j \in Job : pc[j] = "done"}) <= 1) => bound = Home

(***************************************************************************)
(* A write op that waits for the lock is served although an ingest keeps   *)
(* coming back for it forever (_FairLock: "a yield always lets a waiter in *)
(* if one is present").                                                    *)
(***************************************************************************)
OpsAreServed == \A o \in Op : pc[o] = "waiting" ~> pc[o] = "done"

(***************************************************************************)
(* What daemon.py:4992 says of an op that names no partition: "The daemon  *)
(* binds for code-sync writes".  The code does not keep it: an ingest that *)
(* gives the lock away leaves its own binding on the shared Store.         *)
(***************************************************************************)
CodeSyncWritesHome ==
    \A t \in Op : kind[t] = "sync" => into[t] \subseteq {Home}

=============================================================================
