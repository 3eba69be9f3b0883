----------------------------- MODULE SyncQueue -----------------------------
(***************************************************************************)
(* The change queue dirty.queue (refmatrix/sync.py) between the hooks that *)
(* append the paths of edited files and the daemon's flushes that sync     *)
(* them into the catalog (refmatrix/daemon.py _op_flush_queue,             *)
(* _op_flush_queue_async), across failing flushes, cooperative shutdown,   *)
(* crashes and restarts.  A file's content and mtime are one version       *)
(* number; its catalog entry says which version is tracked and from which  *)
(* version the extracted facts (its rows in the catalog; DuckDB, where a   *)
(* transaction is atomic) come, 0 if from none.  A file is a document or   *)
(* pseudo-code, whose facts every flush extracts, or Python, whose facts   *)
(* only a flush asked with `semantic` does.  The watcher, which syncs      *)
(* without the queue, GMD documents, and other code, which has an entity   *)
(* and no facts, are left out.                                             *)
(***************************************************************************)
EXTENDS Naturals, FiniteSets

CONSTANTS File,
          Python,       \* the files with the suffix .py
          NoOwner,      \* nobody holds the store lock
          MaxEdits,     \* bound: edits
          MaxOutages,   \* bound: stops and crashes of the daemon
          MaxFailures   \* bound: flushes that raise

ASSUME BoundAssumption == {MaxEdits, MaxOutages, MaxFailures} \subseteq Nat

Flusher == {"async", "op"}       \* the fire-and-forget runner, the blocking op

ASSUME NoOwnerAssumption == NoOwner \notin Flusher

ASSUME PythonAssumption == Python \subseteq File

VARIABLES disk,       \* the version of each file
          edits,      \* how many edits there were
          hooks,      \* edited files whose hook has not run yet
          queue,      \* the paths in dirty.queue
          catalog,    \* the committed entry of each file
          up,         \* a daemon runs
          stopping,   \* _shutdown_event
          outages,
          lock,       \* _store_lock
          pending,    \* _async_flush_pending
          pc,         \* of the flushing threads
          semantic,   \* flushes asked for the Python pass, off by default
          batch,      \* what each flush took from the queue
          todo,       \* paths of its batch it has not looked at
          touched,    \* files it has marked, their facts not extracted
          records,    \* Python facts built and not applied: their version, 0 if none
          work,       \* the catalog as its open transaction sees it
          failures,
          dropped,    \* history: paths lost by a flush, not queued again since
          cut,        \* history: files last committed by a flush cancelled before
                      \* it had their facts
          plain       \* history: files last committed without the Python pass

editVars   == <<disk, edits, hooks>>
daemonVars == <<up, stopping, outages>>
flushVars  == <<lock, pending, pc, semantic, batch, todo, touched, records, work,
                failures>>
causes     == <<cut, plain>>
vars == <<editVars, queue, catalog, daemonVars, flushVars, dropped, causes>>

Version == 0..(MaxEdits + 1)
Entry   == [tracked : Version, facts : Version]
Absent  == [tracked |-> 0, facts |-> 0]
Place   == {"idle", "asked", "read", "mark", "extract", "commit", "ending"}

TypeOK == /\ disk \in [File -> Version \ {0}] /\ edits \in 0..MaxEdits
          /\ hooks \in SUBSET File /\ queue \in SUBSET File /\ dropped \in SUBSET File
          /\ cut \in SUBSET File /\ plain \in SUBSET File
          /\ catalog \in [File -> Entry] /\ work \in [Flusher -> [File -> Entry]]
          /\ {up, stopping, pending} \subseteq BOOLEAN
          /\ outages \in 0..MaxOutages /\ failures \in 0..MaxFailures
          /\ lock \in Flusher \cup {NoOwner}
          /\ pc \in [Flusher -> Place] /\ semantic \in SUBSET Flusher
          /\ records \in [Flusher -> [File -> Version]]
          /\ \A part \in {batch, todo, touched} : part \in [Flusher -> SUBSET File]

Nothing == [t \in Flusher |-> {}]
NoWork  == [f \in File |-> Absent]
NoRecord == [f \in File |-> 0]

Init == /\ disk = [f \in File |-> 1] /\ edits = 0 /\ hooks = {}
        /\ queue = {} /\ dropped = {} /\ cut = {} /\ plain = {}
        /\ catalog = [f \in File |-> [tracked |-> 1, facts |-> 1]]
        /\ up = TRUE /\ stopping = FALSE /\ outages = 0
        /\ lock = NoOwner /\ pending = FALSE
        /\ pc = [t \in Flusher |-> "idle"] /\ semantic = {}
        /\ records = [t \in Flusher |-> NoRecord]
        /\ batch = Nothing /\ todo = Nothing /\ touched = Nothing
        /\ work = [t \in Flusher |-> NoWork] /\ failures = 0

At(t, here) == pc[t] = here
Goes(t, there) == pc' = [pc EXCEPT ![t] = there]

-----------------------------------------------------------------------------
\* The editor, and the PostToolUse hook (`rmx sync --enqueue-only`), which
\* appends to the file itself, daemon or no daemon.

Edit(f) == /\ edits < MaxEdits
           /\ edits' = edits + 1
           /\ disk' = [disk EXCEPT ![f] = edits + 2]
           /\ hooks' = hooks \cup {f}
           /\ UNCHANGED <<queue, catalog, daemonVars, flushVars, dropped, causes>>

Enqueue(f) == /\ f \in hooks
              /\ hooks' = hooks \ {f}
              /\ queue' = queue \cup {f}
              /\ dropped' = dropped \ {f}
              /\ UNCHANGED <<disk, edits, catalog, daemonVars, flushVars, causes>>

-----------------------------------------------------------------------------
\* A flush request, with or without `semantic`.  The async op is a no-op while
\* one is pending.
Ask(t) == /\ up /\ ~stopping
          /\ At(t, "idle")
          /\ t = "async" => ~pending
          /\ \E asked \in SUBSET {t} : semantic' = semantic \cup asked
          /\ pending' = (pending \/ t = "async")
          /\ Goes(t, "asked")
          /\ UNCHANGED <<editVars, queue, catalog, daemonVars, lock, batch, todo,
                         touched, records, work, failures, dropped, causes>>

\* drain_queue, under the store lock: read_text ...
Read(t) == /\ At(t, "asked")
           /\ lock = NoOwner
           /\ lock' = t
           /\ batch' = [batch EXCEPT ![t] = queue]
           /\ Goes(t, "read")
           /\ UNCHANGED <<editVars, queue, catalog, daemonVars, pending, semantic, todo,
                          touched, records, work, failures, dropped, causes>>

\* Mutated form: a transaction that knows the paths of the batch only.
Unlink_BatchOnly(t) ==
    /\ At(t, "read")
    /\ queue' = {}
    /\ dropped' = dropped \cup (queue \ batch[t])
    /\ todo' = [todo EXCEPT ![t] = batch[t]]
    /\ work' = [work EXCEPT ![t] = [f \in batch[t] |-> catalog[f]]]
    /\ Goes(t, "mark")
    /\ UNCHANGED <<editVars, catalog, daemonVars, lock, pending, semantic,
                   batch, touched, records, failures, causes>>

\* ... and unlink: what was appended in between goes with it.  Then _sync_paths
\* opens its transaction.
Unlink(t) == /\ At(t, "read")
             /\ queue' = {}
             /\ dropped' = dropped \cup (queue \ batch[t])
             /\ todo' = [todo EXCEPT ![t] = batch[t]]
             /\ work' = [work EXCEPT ![t] = catalog]
             /\ Goes(t, "mark")
             /\ UNCHANGED <<editVars, catalog, daemonVars, lock, pending, semantic,
                            batch, touched, records, failures, causes>>

\* Mutated forms.
Skips_Always(t, f) == work[t][f].tracked # 0
Closes_Commits(t, commits) ==
    /\ catalog' = work[t]
    /\ dropped' = dropped \cup IF commits THEN todo[t] ELSE batch[t]
Ends_AfterSuccess(t) ==
    /\ At(t, "ending")
    /\ batch[t] = {}
    /\ pending' = (pending /\ t # "async")
    /\ semantic' = semantic \ {t}
    /\ Goes(t, "idle")
    /\ UNCHANGED <<editVars, queue, catalog, daemonVars, lock, batch, todo,
                   touched, records, work, failures, dropped, causes>>

\* The loop of _sync_paths: the mtime of the file on disk is the tracked one,
\* or else its entities are purged and made anew, and the mtime is tracked.
Skips(t, f) == work[t][f].tracked = disk[f]

Mark(t, f) ==
    /\ At(t, "mark")
    /\ ~stopping
    /\ f \in todo[t]
    /\ todo' = [todo EXCEPT ![t] = @ \ {f}]
    /\ IF Skips(t, f)
       THEN UNCHANGED <<work, touched>>
       ELSE /\ work' = [work EXCEPT ![t][f] = [tracked |-> disk[f], facts |-> 0]]
            /\ touched' = [touched EXCEPT ![t] = @ \cup {f}]
    /\ UNCHANGED <<editVars, queue, catalog, daemonVars, lock, pending, pc, semantic,
                   batch, records, failures, dropped, causes>>

Marked(t) == /\ At(t, "mark")
             /\ ~stopping
             /\ todo[t] = {}
             /\ Goes(t, "extract")
             /\ UNCHANGED <<editVars, queue, catalog, daemonVars, lock, pending,
                            semantic, batch, todo, touched, records, work, failures,
                            dropped, causes>>

\* The extraction of documents and pseudo-code reads each file a second time.
Extract(t, f) ==
    /\ At(t, "extract")
    /\ ~stopping
    /\ f \in touched[t] \ Python
    /\ work' = [work EXCEPT ![t][f].facts = disk[f]]
    /\ touched' = [touched EXCEPT ![t] = @ \ {f}]
    /\ UNCHANGED <<editVars, queue, catalog, daemonVars, lock, pending, pc, semantic,
                   batch, todo, records, failures, dropped, causes>>

\* The Python pass, after it and only `if semantic`: one record per file is
\* built off the store ...
Build(t, f) ==
    /\ At(t, "extract")
    /\ t \in semantic
    /\ ~stopping
    /\ touched[t] \subseteq Python
    /\ f \in touched[t]
    /\ records[t][f] = 0
    /\ records' = [records EXCEPT ![t][f] = disk[f]]
    /\ UNCHANGED <<editVars, queue, catalog, daemonVars, lock, pending, pc, semantic,
                   batch, todo, touched, work, failures, dropped, causes>>

\* ... and then all are applied.  Nobody looks at the shutdown event from here
\* to the commit.
Apply(t) ==
    /\ At(t, "extract")
    /\ touched[t] \subseteq Python
    /\ t \in semantic => \A f \in touched[t] : records[t][f] # 0
    /\ work' = [work EXCEPT ![t] = [f \in File |->
                   IF records[t][f] = 0
                   THEN @[f] ELSE [@[f] EXCEPT !.facts = records[t][f]]]]
    /\ touched' = [touched EXCEPT ![t] = {f \in @ : records[t][f] = 0}]
    /\ records' = [records EXCEPT ![t] = NoRecord]
    /\ Goes(t, "commit")
    /\ UNCHANGED <<editVars, queue, catalog, daemonVars, lock, pending, semantic,
                   batch, todo, failures, dropped, causes>>

\* What a flush leaves without facts though nobody cancels it.
Skimmed(t) == IF t \in semantic THEN {} ELSE Python

\* The transaction ends: it commits, or rolls back.  Nothing goes back into
\* the queue.
Closes(t, commits) ==
    /\ catalog' = IF commits THEN work[t] ELSE catalog
    /\ dropped' = dropped \cup IF commits THEN todo[t] ELSE batch[t]

Leave(t, commits) ==
    /\ Closes(t, commits)
    /\ lock' = NoOwner
    /\ todo' = [todo EXCEPT ![t] = {}]
    /\ touched' = [touched EXCEPT ![t] = {}]
    /\ records' = [records EXCEPT ![t] = NoRecord]
    /\ work' = [work EXCEPT ![t] = NoWork]
    /\ batch' = [batch EXCEPT ![t] = IF commits THEN {} ELSE @]
    /\ Goes(t, "ending")
    /\ UNCHANGED <<editVars, queue, daemonVars, pending, semantic>>

\* Those of the files whose entry the transaction leaves as it was.
Kept(t, files) == {f \in files : work[t][f] = catalog[f]}
PlainAfter(t) == Kept(t, plain) \cup (touched[t] \cap Skimmed(t))

Commit(t) == /\ At(t, "commit")
             /\ Leave(t, TRUE)
             /\ cut' = Kept(t, cut)
             /\ plain' = PlainAfter(t)
             /\ UNCHANGED failures

\* cancel_check is true: no more files, no more facts, no record applied, and a
\* normal return.  (The loop over the records looks at files of every suffix, so
\* it may be cancelled after the last of them.)
Cancel(t) == /\ pc[t] \in {"mark", "extract"}
             /\ stopping
             /\ Leave(t, TRUE)
             /\ cut' = Kept(t, cut) \cup (touched[t] \ Skimmed(t))
             /\ plain' = PlainAfter(t)
             /\ UNCHANGED failures

\* Something in the transaction raises.
Fail(t) == /\ pc[t] \in {"mark", "extract", "commit"}
           /\ failures < MaxFailures
           /\ failures' = failures + 1
           /\ Leave(t, FALSE)
           /\ UNCHANGED causes

\* Outside the store lock: the reply, or the `finally` of the async runner.
Ends(t) == /\ At(t, "ending")
           /\ pending' = (pending /\ t # "async")
           /\ batch' = [batch EXCEPT ![t] = {}]
           /\ semantic' = semantic \ {t}
           /\ Goes(t, "idle")
           /\ UNCHANGED <<editVars, queue, catalog, daemonVars, lock, todo,
                          touched, records, work, failures, dropped, causes>>

-----------------------------------------------------------------------------
\* The shutdown event is set; the process exits when its drain budgets are
\* over, whatever its threads do.  A crash is an exit without the event.
Stop == /\ up /\ ~stopping
        /\ outages < MaxOutages
        /\ stopping' = TRUE
        /\ outages' = outages + 1
        /\ UNCHANGED <<editVars, queue, catalog, up, flushVars, dropped, causes>>

InFlight(t) == IF pc[t] \in {"mark", "extract", "commit"} THEN batch[t] ELSE {}

Exit == /\ up
        /\ stopping \/ outages < MaxOutages
        /\ up' = FALSE /\ stopping' = FALSE
        /\ outages' = IF stopping THEN outages ELSE outages + 1
        /\ lock' = NoOwner /\ pending' = FALSE
        /\ pc' = [t \in Flusher |-> "idle"] /\ semantic' = {}
        /\ records' = [t \in Flusher |-> NoRecord]
        /\ batch' = Nothing /\ todo' = Nothing /\ touched' = Nothing
        /\ work' = [t \in Flusher |-> NoWork]
        /\ dropped' = dropped \cup UNION {InFlight(t) : t \in Flusher}
        /\ UNCHANGED <<editVars, queue, catalog, failures, causes>>

\* A new daemon: it does not look at the queue.
Restart == /\ ~up
           /\ up' = TRUE
           /\ UNCHANGED <<editVars, queue, catalog, stopping, outages, flushVars,
                          dropped, causes>>

Step(t) == \/ Read(t) \/ Unlink(t) \/ Marked(t) \/ Apply(t) \/ Commit(t) \/ Cancel(t)
           \/ Ends(t)
           \/ \E f \in File : Mark(t, f) \/ Extract(t, f) \/ Build(t, f)

Next == \/ \E f \in File : Edit(f) \/ Enqueue(f)
        \/ \E t \in Flusher : Ask(t) \/ Step(t) \/ Fail(t)
        \/ Stop \/ Exit \/ Restart

Spec == Init /\ [][Next]_vars

\* A flushing thread goes on until it ends, a hook runs, a daemon told to stop
\* exits, and launchd starts another.  Nobody has to edit or to ask for a flush.
\* A thread may lose the store lock to the other any number of times, but each
\* gets it in the end (the lock is FIFO).
Fairness == /\ \A f \in File : WF_vars(Enqueue(f))
            /\ \A t \in Flusher : SF_vars(Read(t)) /\ WF_vars(Step(t))
            /\ WF_vars(stopping /\ Exit) /\ WF_vars(Restart)

FairSpec == Spec /\ Fairness

-----------------------------------------------------------------------------
(***************************************************************************)
(* Every edit that a hook has seen is accounted for: the file is tracked   *)
(* at its present version, its path is queued or in a flush under way, or  *)
(* a flush lost it (it raised, was cancelled, died, or the path came       *)
(* between read and unlink).                                               *)
(***************************************************************************)
Accounted(f) == \/ catalog[f].tracked = disk[f]
                \/ f \in queue \cup dropped
                \/ \E t \in Flusher : f \in batch[t]
EditsAreAccounted == \A f \in File \ hooks : Accounted(f)

(***************************************************************************)
(* A file that looks unchanged to the next sync has the facts of its       *)
(* present content, however edits, failures, crashes and both flushes fall *)
(* between the steps of a flush, unless the flush that last committed a    *)
(* new entry of it did so without its facts: cancelled before it had them, *)
(* or (Python) never asked for them.  A later flush of the file that is    *)
(* asked and not cancelled clears the cause.                               *)
(***************************************************************************)
FactsAreCurrent(f) == catalog[f].tracked = disk[f] => catalog[f].facts = disk[f]
FactsAreAccounted == \A f \in File : FactsAreCurrent(f) \/ f \in cut \cup plain

(***************************************************************************)
(* The pending mark of the async flush goes away again, failures and       *)
(* restarts included, so that later flushes are not coalesced into         *)
(* nothing; and a flush that was accepted takes what is queued.            *)
(***************************************************************************)
FlushesEnd == /\ pending ~> ~pending
              /\ \A f \in File : (f \in queue /\ At("async", "asked")) ~> (f \notin queue \/ ~up)

(***************************************************************************)
(* sync.py:215 "if the file's on-disk mtime matches what we already        *)
(* indexed, the previous ingest's output is still current".  Not so after  *)
(* a cancelled flush: it commits files it has marked and purged, without   *)
(* their facts.                                                            *)
(***************************************************************************)
UnchangedMeansCurrent == \A f \in File : FactsAreCurrent(f)

=============================================================================
