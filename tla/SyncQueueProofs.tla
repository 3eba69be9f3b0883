-------------------------- MODULE SyncQueueProofs ---------------------------
(***************************************************************************)
(* Proofs about SyncQueue: no edit is lost without a cause, and a file     *)
(* that looks unchanged has current facts unless the flush that last       *)
(* committed it was cancelled or left the Python pass out, for any files,  *)
(* edits, outages and failures.                                            *)
(*                                                                         *)
(* Both properties speak of the committed catalog, and what a flush will   *)
(* make of it is in its open transaction.  So the invariant follows a path *)
(* from the hook through the queue and the batch into the transaction      *)
(* (`Settled`, `Looked`), and says of the transaction what holds of the    *)
(* catalog, except for the files marked and not yet extracted, and those   *)
(* the transaction has left as an earlier flush committed them without     *)
(* facts (`WorkIsCurrent`); records built and not applied are as current   *)
(* as that (`RecordsAreCurrent`), and what is marked at the commit was     *)
(* never to be extracted (`OnlySkimmed`).  That nobody changes the catalog *)
(* under a transaction is the mutual exclusion HoldersOwn.                 *)
(***************************************************************************)
EXTENDS SyncQueue, TLAPS

Syncs(t) == pc[t] \in {"mark", "extract", "commit"}

\* Whoever is between the read of the queue and the end of its transaction
\* owns the store lock.
HoldersOwn == \A t \in Flusher : pc[t] = "read" \/ Syncs(t) => lock = t

\* What was read is still in the queue until the unlink.
ReadIsQueued == \A t \in Flusher : pc[t] = "read" => batch[t] \subseteq queue

\* Where each file's newest version is, as EditsAreAccounted has it, but with
\* the batches of open transactions only.
Settled(f) == \/ f \in hooks \cup queue \cup dropped
              \/ catalog[f].tracked = disk[f]
              \/ \E t \in Flusher : f \in InFlight(t)
AllSettled == \A f \in File : Settled(f)

\* A transaction changes the entries of its batch only, and has looked at what
\* is not left to do.
Looked(t, f) == \/ f \in hooks \cup queue \cup dropped
                \/ work[t][f].tracked = disk[f]
WorkIsAccounted ==
    \A t \in Flusher : Syncs(t) =>
       /\ todo[t] \subseteq batch[t]
       /\ \A f \in File \ batch[t] : work[t][f] = catalog[f]
       /\ \A f \in batch[t] \ todo[t] : Looked(t, f)

\* Only an open transaction has marked files, and they are of its batch.
TouchedAreTaken == \A t \in Flusher : touched[t] \subseteq InFlight(t)

\* No version is newer than the last edit.
VersionsAreOld ==
    \A f \in File : /\ disk[f] <= edits + 1
                    /\ catalog[f].tracked <= edits + 1
                    /\ \A t \in Flusher : work[t][f].tracked <= edits + 1

\* What a transaction has marked and not extracted is in `touched`; the other
\* entries are as current as they would be in the catalog, or have been left as
\* they are there, for the same cause.
WorkIsCurrent ==
    \A t \in Flusher : Syncs(t) =>
       \A f \in File \ touched[t] :
          \/ work[t][f].tracked = disk[f] => work[t][f].facts = disk[f]
          \/ f \in cut \cup plain /\ work[t][f] = catalog[f]

\* There are records in the last pass only, of marked Python files, and a record
\* is of the version on disk, or of an older one of a file that was edited since.
RecordsAreCurrent ==
    \A t \in Flusher, f \in File : records[t][f] # 0 =>
       /\ pc[t] = "extract" /\ f \in touched[t] \cap Python
       /\ work[t][f].tracked = disk[f] => records[t][f] = disk[f]

\* The marks left at the commit are those of the pass that was not asked for.
OnlySkimmed == \A t \in Flusher : pc[t] = "commit" => touched[t] \subseteq Skimmed(t)

FactsInv == WorkIsCurrent /\ RecordsAreCurrent /\ OnlySkimmed /\ FactsAreAccounted

IInv == /\ TypeOK /\ HoldersOwn /\ ReadIsQueued /\ AllSettled
        /\ WorkIsAccounted /\ TouchedAreTaken /\ VersionsAreOld /\ FactsInv

-----------------------------------------------------------------------------

LEMMA Bounds == MaxEdits \in Nat /\ MaxOutages \in Nat /\ MaxFailures \in Nat
  BY BoundAssumption

LEMMA InitIInv == Init => IInv
  <1> SUFFICES ASSUME Init PROVE IInv
    OBVIOUS
  <1> USE DEF Init, Nothing, NoWork, Absent
  <1>1. TypeOK
    <2>1. 0 \in Version /\ 1 \in Version \ {0}
      BY Bounds DEF Version
    <2>2. {up, stopping, pending} \subseteq BOOLEAN
      OBVIOUS
    <2> QED BY <2>1, <2>2, Bounds DEF TypeOK, Entry, Place, NoRecord
  <1>2. HoldersOwn /\ ReadIsQueued /\ WorkIsAccounted
    BY DEF HoldersOwn, ReadIsQueued, WorkIsAccounted, Syncs
  <1>3. TouchedAreTaken /\ AllSettled /\ VersionsAreOld
    BY DEF TouchedAreTaken, AllSettled, Settled, VersionsAreOld
  <1>4. FactsInv
    BY DEF FactsInv, WorkIsCurrent, RecordsAreCurrent, OnlySkimmed, FactsAreAccounted,
           FactsAreCurrent, NoRecord, Syncs
  <1> QED BY <1>1, <1>2, <1>3, <1>4 DEF IInv

\* A step that changes no version, no entry, no record and no cause.  A thread
\* that it moves has no records and is not in a transaction after it, or goes on
\* from the first pass to the second.
LEMMA FactsFrame ==
    ASSUME FactsInv, UNCHANGED <<disk, catalog, touched, records, work, causes>>,
           \A t \in Flusher :
              \/ pc'[t] = pc[t] /\ Skimmed(t)' = Skimmed(t)
              \/ pc[t] # "extract" /\ ~Syncs(t)'
              \/ pc[t] = "mark" /\ pc'[t] = "extract"
    PROVE  FactsInv'
  <1> USE DEF FactsInv, causes
  <1>1. WorkIsCurrent'
    BY DEF WorkIsCurrent, Syncs
  <1>2. RecordsAreCurrent'
    BY DEF RecordsAreCurrent, Syncs
  <1>3. OnlySkimmed'
    BY DEF OnlySkimmed, Syncs
  <1>4. FactsAreAccounted'
    BY DEF FactsAreAccounted, FactsAreCurrent
  <1> QED BY <1>1, <1>2, <1>3, <1>4

\* The flushes that have no hold of the lock are out of a transaction.
LEMMA Alone ==
    ASSUME HoldersOwn, NEW t \in Flusher, lock = t
    PROVE  \A u \in Flusher \ {t} : pc[u] # "read" /\ ~Syncs(u)
  BY DEF HoldersOwn

LEMMA FreeLock ==
    ASSUME HoldersOwn, lock = NoOwner
    PROVE  \A u \in Flusher : pc[u] # "read" /\ ~Syncs(u)
  BY NoOwnerAssumption DEF HoldersOwn

-----------------------------------------------------------------------------
\* The editor and the hooks.

LEMMA EditKeeps == ASSUME IInv, NEW f \in File, Edit(f) PROVE IInv'
  <1> USE DEF IInv, Edit, editVars, daemonVars, flushVars, causes
  <1>1. TypeOK'
    BY Bounds DEF TypeOK, Version
  <1>2. HoldersOwn' /\ ReadIsQueued'
    BY DEF HoldersOwn, ReadIsQueued, Syncs
  <1>3. AllSettled' /\ TouchedAreTaken'
    BY DEF AllSettled, Settled, TouchedAreTaken, TypeOK, InFlight
  <1>4. WorkIsAccounted'
    BY DEF WorkIsAccounted, Looked, TypeOK, Syncs
  <1>5. VersionsAreOld'
    BY DEF VersionsAreOld, TypeOK, Version, Entry
  <1>6. disk'[f] = edits + 2 /\ \A g \in File \ {f} : disk'[g] = disk[g]
    BY DEF TypeOK
  <1>7. FactsInv'
    <2> USE <1>6 DEF FactsInv, VersionsAreOld, TypeOK, Version, Entry
    <2>1. \A g \in File : disk'[g] # disk[g] =>
             /\ catalog[g].tracked # disk'[g]
             /\ \A t \in Flusher : work[t][g].tracked # disk'[g]
      OBVIOUS
    <2>2. WorkIsCurrent' /\ FactsAreAccounted'
      BY <2>1 DEF WorkIsCurrent, FactsAreAccounted, FactsAreCurrent, Syncs
    <2>3. RecordsAreCurrent' /\ OnlySkimmed'
      BY <2>1 DEF RecordsAreCurrent, OnlySkimmed, Skimmed
    <2> QED BY <2>2, <2>3
  <1> QED BY <1>1, <1>2, <1>3, <1>4, <1>5, <1>7

LEMMA EnqueueKeeps == ASSUME IInv, NEW f \in File, Enqueue(f) PROVE IInv'
  <1> USE DEF IInv, Enqueue, daemonVars, flushVars, causes
  <1>1. TypeOK'
    BY DEF TypeOK
  <1>2. HoldersOwn' /\ ReadIsQueued'
    BY DEF HoldersOwn, ReadIsQueued, Syncs
  <1>3. AllSettled' /\ TouchedAreTaken'
    BY DEF AllSettled, Settled, TouchedAreTaken, InFlight
  <1>4. WorkIsAccounted'
    BY DEF WorkIsAccounted, Looked, Syncs
  <1>5. VersionsAreOld' /\ FactsInv'
    BY FactsFrame DEF VersionsAreOld, Skimmed
  <1> QED BY <1>1, <1>2, <1>3, <1>4, <1>5

-----------------------------------------------------------------------------
\* The queue is read and unlinked.

LEMMA AskKeeps == ASSUME IInv, NEW t \in Flusher, Ask(t) PROVE IInv'
  <1> USE DEF IInv, Ask, At, Goes, editVars, daemonVars, causes
  <1>0. PICK asked \in SUBSET {t} : semantic' = semantic \cup asked
    OBVIOUS
  <1>1. TypeOK'
    BY <1>0 DEF TypeOK, Place
  <1>2. pc' = [pc EXCEPT ![t] = "asked"] /\ pc \in [Flusher -> Place] /\ pc[t] = "idle"
    BY DEF TypeOK
  <1>3. HoldersOwn' /\ ReadIsQueued'
    BY <1>2 DEF HoldersOwn, ReadIsQueued, Syncs
  <1>4. AllSettled' /\ TouchedAreTaken'
    BY <1>2 DEF AllSettled, Settled, TouchedAreTaken, InFlight
  <1>5. WorkIsAccounted' /\ VersionsAreOld'
    BY <1>2 DEF WorkIsAccounted, Looked, VersionsAreOld, Syncs
  <1>6. FactsInv'
    BY <1>0, <1>2, FactsFrame DEF Skimmed, Syncs
  <1> QED BY <1>1, <1>3, <1>4, <1>5, <1>6

LEMMA ReadKeeps == ASSUME IInv, NEW t \in Flusher, Read(t) PROVE IInv'
  <1> USE DEF IInv, Read, At, Goes, editVars, daemonVars, causes
  <1>1. TypeOK'
    BY DEF TypeOK, Place
  <1>2. /\ pc' = [pc EXCEPT ![t] = "read"] /\ pc \in [Flusher -> Place] /\ pc[t] = "asked"
        /\ batch' = [batch EXCEPT ![t] = queue] /\ batch \in [Flusher -> SUBSET File]
    BY DEF TypeOK
  <1>3. HoldersOwn'
    BY <1>2, FreeLock DEF HoldersOwn, Syncs
  <1>4. ReadIsQueued'
    BY <1>2 DEF ReadIsQueued
  <1>5. AllSettled' /\ TouchedAreTaken'
    BY <1>2 DEF AllSettled, Settled, TouchedAreTaken, InFlight
  <1>6. WorkIsAccounted' /\ VersionsAreOld'
    BY <1>2 DEF WorkIsAccounted, Looked, VersionsAreOld, Syncs
  <1>7. FactsInv'
    BY <1>2, FactsFrame DEF Skimmed, Syncs
  <1> QED BY <1>1, <1>3, <1>4, <1>5, <1>6, <1>7

LEMMA UnlinkKeeps == ASSUME IInv, NEW t \in Flusher, Unlink(t) PROVE IInv'
  <1> USE DEF IInv, Unlink, At, Goes, editVars, daemonVars, causes
  <1>1. TypeOK'
    BY DEF TypeOK, Place
  <1>2. /\ pc' = [pc EXCEPT ![t] = "mark"] /\ pc \in [Flusher -> Place] /\ pc[t] = "read"
        /\ todo' = [todo EXCEPT ![t] = batch[t]] /\ todo \in [Flusher -> SUBSET File]
        /\ work' = [work EXCEPT ![t] = catalog] /\ work \in [Flusher -> [File -> Entry]]
    BY DEF TypeOK
  <1>3. \A u \in Flusher \ {t} : pc[u] # "read" /\ ~Syncs(u)
    BY Alone DEF HoldersOwn
  <1>4. HoldersOwn' /\ ReadIsQueued'
    BY <1>2, <1>3 DEF HoldersOwn, ReadIsQueued, Syncs
  <1>5. batch[t] \subseteq InFlight(t)' /\ \A u \in Flusher : InFlight(u) \subseteq InFlight(u)'
    BY <1>2 DEF InFlight
  <1>6. AllSettled' /\ TouchedAreTaken'
    BY <1>5 DEF AllSettled, Settled, TouchedAreTaken
  <1>7. WorkIsAccounted'
    BY <1>2, <1>3 DEF WorkIsAccounted, Syncs
  <1>8. FactsInv'
    <2> USE DEF FactsInv
    <2>1. WorkIsCurrent' /\ FactsAreAccounted'
      BY <1>2, <1>3 DEF WorkIsCurrent, FactsAreAccounted, FactsAreCurrent, Syncs
    <2>2. RecordsAreCurrent' /\ OnlySkimmed'
      BY <1>2 DEF RecordsAreCurrent, OnlySkimmed, Skimmed
    <2> QED BY <2>1, <2>2
  <1>9. VersionsAreOld'
    BY <1>2 DEF VersionsAreOld
  <1> QED BY <1>1, <1>4, <1>6, <1>7, <1>8, <1>9

-----------------------------------------------------------------------------
\* The two passes.

LEMMA MarkKeeps == ASSUME IInv, NEW t \in Flusher, NEW f \in File, Mark(t, f) PROVE IInv'
  <1> USE DEF IInv, Mark, At, Goes, editVars, daemonVars, causes
  <1>1. /\ todo' = [todo EXCEPT ![t] = @ \ {f}] /\ todo \in [Flusher -> SUBSET File]
        /\ work \in [Flusher -> [File -> Entry]] /\ touched \in [Flusher -> SUBSET File]
        /\ f \in todo[t] /\ pc[t] = "mark"
    BY DEF TypeOK
  <1>2. HoldersOwn' /\ ReadIsQueued'
    BY DEF HoldersOwn, ReadIsQueued, Syncs
  <1>3. AllSettled'
    BY DEF AllSettled, Settled, InFlight
  <1>4. CASE Skips(t, f)
    <2>1. UNCHANGED <<work, touched>>
      BY <1>4
    <2>2. TypeOK' /\ TouchedAreTaken'
      BY <1>1, <2>1 DEF TypeOK, TouchedAreTaken, InFlight
    <2>3. WorkIsAccounted'
      BY <1>1, <1>4, <2>1 DEF WorkIsAccounted, Looked, Syncs, Skips
    <2>4. VersionsAreOld' /\ FactsInv'
      BY <2>1, FactsFrame DEF VersionsAreOld, Skimmed
    <2> QED BY <1>2, <1>3, <2>2, <2>3, <2>4
  <1>5. CASE ~Skips(t, f)
    <2>1. /\ work' = [work EXCEPT ![t][f] = [tracked |-> disk[f], facts |-> 0]]
          /\ touched' = [touched EXCEPT ![t] = @ \cup {f}]
      BY <1>5
    <2>2. [tracked |-> disk[f], facts |-> 0] \in Entry
      BY Bounds DEF TypeOK, Entry, Version
    <2>3. TypeOK'
      BY <1>1, <2>1, <2>2 DEF TypeOK
    <2>4. TouchedAreTaken' /\ WorkIsAccounted'
      BY <1>1, <2>1 DEF TouchedAreTaken, WorkIsAccounted, InFlight, Looked, Syncs
    <2>5. FactsInv'
      <3> USE <1>1, <2>1 DEF FactsInv
      <3>1. WorkIsCurrent' /\ FactsAreAccounted'
        BY DEF WorkIsCurrent, FactsAreAccounted, FactsAreCurrent, Syncs
      <3>2. RecordsAreCurrent' /\ OnlySkimmed'
        BY DEF RecordsAreCurrent, OnlySkimmed, Skimmed
      <3> QED BY <3>1, <3>2
    <2>6. VersionsAreOld'
      BY <1>1, <2>1 DEF VersionsAreOld
    <2> QED BY <1>2, <1>3, <2>3, <2>4, <2>5, <2>6
  <1> QED BY <1>4, <1>5

LEMMA MarkedKeeps == ASSUME IInv, NEW t \in Flusher, Marked(t) PROVE IInv'
  <1> USE DEF IInv, Marked, At, Goes, editVars, daemonVars, causes
  <1>1. TypeOK'
    BY DEF TypeOK, Place
  <1>2. pc' = [pc EXCEPT ![t] = "extract"] /\ pc \in [Flusher -> Place] /\ pc[t] = "mark"
    BY DEF TypeOK
  <1>3. HoldersOwn' /\ ReadIsQueued'
    BY <1>2 DEF HoldersOwn, ReadIsQueued, Syncs
  <1>4. AllSettled' /\ TouchedAreTaken'
    BY <1>2 DEF AllSettled, Settled, TouchedAreTaken, InFlight
  <1>5. WorkIsAccounted' /\ VersionsAreOld'
    BY <1>2 DEF WorkIsAccounted, Looked, VersionsAreOld, Syncs
  <1>6. FactsInv'
    BY <1>2, FactsFrame DEF Skimmed, Syncs
  <1> QED BY <1>1, <1>3, <1>4, <1>5, <1>6

LEMMA ExtractKeeps ==
    ASSUME IInv, NEW t \in Flusher, NEW f \in File, Extract(t, f) PROVE IInv'
  <1> USE DEF IInv, Extract, At, Goes, editVars, daemonVars, causes
  <1>1. /\ work' = [work EXCEPT ![t][f].facts = disk[f]] /\ work \in [Flusher -> [File -> Entry]]
        /\ touched' = [touched EXCEPT ![t] = @ \ {f}] /\ touched \in [Flusher -> SUBSET File]
        /\ pc[t] = "extract" /\ f \in batch[t]
    BY DEF TypeOK, TouchedAreTaken, InFlight
  <1>2. /\ work'[t][f] = [tracked |-> work[t][f].tracked, facts |-> disk[f]]
        /\ \A u \in Flusher, g \in File : u # t \/ g # f => work'[u][g] = work[u][g]
        /\ work'[t][f] \in Entry
    BY <1>1 DEF Entry, TypeOK
  <1>3. TypeOK'
    <2>1. work' \in [Flusher -> [File -> Entry]]
      BY <1>1, <1>2
    <2>2. touched' \in [Flusher -> SUBSET File]
      BY <1>1
    <2> QED BY <2>1, <2>2 DEF TypeOK
  <1>4. HoldersOwn' /\ ReadIsQueued'
    BY DEF HoldersOwn, ReadIsQueued, Syncs
  <1>5. AllSettled' /\ TouchedAreTaken'
    BY <1>1 DEF AllSettled, Settled, TouchedAreTaken, InFlight
  <1>6. WorkIsAccounted'
    BY <1>1, <1>2 DEF WorkIsAccounted, Looked, Syncs
  <1>7. FactsInv'
    <2> USE <1>1, <1>2 DEF FactsInv
    <2>1. WorkIsCurrent' /\ FactsAreAccounted'
      BY DEF WorkIsCurrent, FactsAreAccounted, FactsAreCurrent, Syncs
    <2>2. RecordsAreCurrent' /\ OnlySkimmed'
      BY DEF RecordsAreCurrent, OnlySkimmed, Skimmed
    <2> QED BY <2>1, <2>2
  <1>8. VersionsAreOld'
    BY <1>2 DEF VersionsAreOld
  <1> QED BY <1>3, <1>4, <1>5, <1>6, <1>7, <1>8

LEMMA BuildKeeps ==
    ASSUME IInv, NEW t \in Flusher, NEW f \in File, Build(t, f) PROVE IInv'
  <1> USE DEF IInv, Build, At, editVars, daemonVars, causes
  <1>1. /\ records' = [records EXCEPT ![t][f] = disk[f]] /\ pc[t] = "extract"
        /\ records \in [Flusher -> [File -> Version]] /\ disk[f] \in Version
    BY DEF TypeOK
  <1>2. TypeOK'
    <2>1. records' \in [Flusher -> [File -> Version]]
      BY <1>1
    <2> QED BY <2>1 DEF TypeOK
  <1>3. HoldersOwn' /\ ReadIsQueued' /\ AllSettled' /\ TouchedAreTaken'
    BY DEF HoldersOwn, ReadIsQueued, AllSettled, Settled, TouchedAreTaken, InFlight, Syncs
  <1>4. WorkIsAccounted' /\ VersionsAreOld'
    BY DEF WorkIsAccounted, Looked, VersionsAreOld, Syncs
  <1>5. FactsInv'
    <2> USE DEF FactsInv
    <2>1. WorkIsCurrent' /\ FactsAreAccounted' /\ OnlySkimmed'
      BY DEF WorkIsCurrent, FactsAreAccounted, FactsAreCurrent, OnlySkimmed, Skimmed, Syncs
    <2>2. RecordsAreCurrent'
      BY <1>1 DEF RecordsAreCurrent
    <2> QED BY <2>1, <2>2
  <1> QED BY <1>2, <1>3, <1>4, <1>5

LEMMA ApplyKeeps == ASSUME IInv, NEW t \in Flusher, Apply(t) PROVE IInv'
  <1> USE DEF IInv, Apply, At, Goes, editVars, daemonVars, causes
  <1> DEFINE Applied(f) == IF records[t][f] = 0 THEN work[t][f]
                           ELSE [work[t][f] EXCEPT !.facts = records[t][f]]
  <1>1. /\ pc' = [pc EXCEPT ![t] = "commit"] /\ pc \in [Flusher -> Place] /\ pc[t] = "extract"
        /\ work' = [work EXCEPT ![t] = [f \in File |-> Applied(f)]]
        /\ work \in [Flusher -> [File -> Entry]]
        /\ touched' = [touched EXCEPT ![t] = {f \in @ : records[t][f] = 0}]
        /\ touched \in [Flusher -> SUBSET File]
        /\ records' = [records EXCEPT ![t] = NoRecord]
        /\ records \in [Flusher -> [File -> Version]]
    BY DEF TypeOK
  <1>2. \A f \in File :
           /\ Applied(f) \in Entry /\ Applied(f).tracked = work[t][f].tracked
           /\ records[t][f] = 0 => Applied(f) = work[t][f]
           /\ records[t][f] # 0 => Applied(f).facts = records[t][f]
    <2>1. TAKE f \in File
    <2>2. work[t][f] \in Entry /\ records[t][f] \in Version
      BY <1>1
    <2>3. CASE records[t][f] = 0
      BY <2>2, <2>3
    <2>4. CASE records[t][f] # 0
      <3>1. Applied(f) = [tracked |-> work[t][f].tracked, facts |-> records[t][f]]
        BY <2>2, <2>4 DEF Entry
      <3> QED BY <2>2, <2>4, <3>1 DEF Entry
    <2> QED BY <2>3, <2>4
  <1> HIDE DEF Applied
  <1>3. \A f \in File : work'[t][f] = Applied(f)
    BY <1>1
  <1>4. \A u \in Flusher \ {t} :
           /\ pc'[u] = pc[u] /\ work'[u] = work[u]
           /\ touched'[u] = touched[u] /\ records'[u] = records[u]
    BY <1>1
  <1>5. /\ pc'[t] = "commit" /\ records'[t] = NoRecord
        /\ touched'[t] = {f \in touched[t] : records[t][f] = 0}
    BY <1>1
  <1>6. TypeOK'
    <2>1. /\ work' \in [Flusher -> [File -> Entry]]
          /\ touched' \in [Flusher -> SUBSET File]
          /\ pc' \in [Flusher -> Place]
      <3>1. [f \in File |-> Applied(f)] \in [File -> Entry]
        BY <1>2
      <3>2. work' \in [Flusher -> [File -> Entry]]
        BY <1>1, <3>1
      <3>3. touched' \in [Flusher -> SUBSET File]
        BY <1>1, <1>5
      <3> QED BY <1>1, <3>2, <3>3 DEF Place
    <2>2. NoRecord \in [File -> Version]
      BY Bounds DEF NoRecord, Version
    <2>3. records' \in [Flusher -> [File -> Version]]
      BY <1>1, <2>2
    <2> QED BY <2>1, <2>3 DEF TypeOK
  <1>7. HoldersOwn' /\ ReadIsQueued' /\ AllSettled' /\ TouchedAreTaken'
    <2>1. HoldersOwn' /\ ReadIsQueued'
      BY <1>1, <1>4, <1>5 DEF HoldersOwn, ReadIsQueued, Syncs
    <2>2. \A u \in Flusher : InFlight(u)' = InFlight(u) /\ touched'[u] \subseteq touched[u]
      BY <1>1, <1>4, <1>5 DEF InFlight
    <2> QED BY <2>1, <2>2 DEF AllSettled, Settled, TouchedAreTaken
  <1>8. WorkIsAccounted'
    <2>1. \A f \in File \ batch[t] : records[t][f] = 0
      BY <1>1 DEF FactsInv, RecordsAreCurrent, TouchedAreTaken, InFlight
    <2>2. \A f \in File \ batch[t] : work'[t][f] = work[t][f]
      BY <1>2, <1>3, <2>1
    <2>3. \A f \in File : work'[t][f].tracked = work[t][f].tracked
      BY <1>2, <1>3
    <2>4. \A u \in Flusher : /\ Syncs(u)' = Syncs(u)
                            /\ batch'[u] = batch[u] /\ todo'[u] = todo[u]
      BY <1>1, <1>4, <1>5 DEF Syncs
    <2>5. ASSUME NEW u \in Flusher, Syncs(u)
          PROVE  /\ \A f \in File \ batch[u] : work'[u][f] = catalog[f]
                 /\ \A f \in batch[u] \ todo[u] : Looked(u, f)'
      <3>1. CASE u = t
        <4>1. \A f \in batch[t] : f \in File
          BY DEF TypeOK
        <4> QED BY <2>2, <2>3, <2>5, <3>1, <4>1 DEF WorkIsAccounted, Looked
      <3>2. CASE u # t
        BY <1>4, <2>5, <3>2 DEF WorkIsAccounted, Looked
      <3> QED BY <3>1, <3>2
    <2> QED BY <2>4, <2>5 DEF WorkIsAccounted
  <1>9. VersionsAreOld'
    <2>1. \A u \in Flusher, f \in File : work'[u][f].tracked = work[u][f].tracked
      BY <1>2, <1>3, <1>4
    <2> QED BY <2>1 DEF VersionsAreOld
  <1>10. FactsInv'
    <2> USE DEF FactsInv
    <2>1. ASSUME NEW f \in File \ touched'[t]
          PROVE  \/ work'[t][f].tracked = disk[f] => work'[t][f].facts = disk[f]
                 \/ f \in cut \cup plain /\ work'[t][f] = catalog[f]
      <3>1. CASE records[t][f] = 0
        BY <1>1, <1>2, <1>3, <1>5, <2>1, <3>1 DEF WorkIsCurrent, Syncs
      <3>2. CASE records[t][f] # 0
        BY <1>2, <1>3, <3>2 DEF RecordsAreCurrent
      <3> QED BY <3>1, <3>2
    <2>2. WorkIsCurrent'
      <3>1. ASSUME NEW u \in Flusher \ {t}, Syncs(u)', NEW f \in File \ touched'[u]
            PROVE  \/ work'[u][f].tracked = disk[f] => work'[u][f].facts = disk[f]
                   \/ f \in cut \cup plain /\ work'[u][f] = catalog[f]
        BY <1>4, <3>1 DEF WorkIsCurrent, Syncs
      <3>2. UNCHANGED <<disk, catalog, cut, plain>>
        OBVIOUS
      <3>3. ASSUME NEW u \in Flusher, Syncs(u)', NEW f \in File \ touched'[u]
            PROVE  \/ work'[u][f].tracked = disk'[f] => work'[u][f].facts = disk'[f]
                   \/ f \in cut' \cup plain' /\ work'[u][f] = catalog'[f]
        <4>1. CASE u = t
          BY <2>1, <3>2, <3>3, <4>1
        <4>2. CASE u # t
          BY <3>1, <3>2, <3>3, <4>2
        <4> QED BY <4>1, <4>2
      <3> QED BY <3>3 DEF WorkIsCurrent
    <2>3. RecordsAreCurrent'
      BY <1>4, <1>5 DEF RecordsAreCurrent, NoRecord
    <2>4. OnlySkimmed' /\ FactsAreAccounted'
      BY <1>4, <1>5 DEF OnlySkimmed, Skimmed, FactsAreAccounted, FactsAreCurrent
    <2> QED BY <2>2, <2>3, <2>4
  <1> QED BY <1>6, <1>7, <1>8, <1>9, <1>10

-----------------------------------------------------------------------------
\* The end of a transaction.

LEMMA LeaveKeeps ==
    ASSUME IInv, NEW t \in Flusher, Syncs(t), NEW commits \in BOOLEAN, Leave(t, commits),
           \/ /\ commits
              /\ plain' = PlainAfter(t)
              /\ \/ cut' = Kept(t, cut) /\ touched[t] \subseteq Skimmed(t)
                 \/ cut' = Kept(t, cut) \cup (touched[t] \ Skimmed(t))
           \/ ~commits /\ UNCHANGED causes,
           failures' \in 0..MaxFailures
    PROVE  IInv'
  <1> USE DEF IInv, Leave, Goes, editVars, daemonVars, causes
  <1>1. /\ pc' = [pc EXCEPT ![t] = "ending"] /\ pc \in [Flusher -> Place]
        /\ work' = [work EXCEPT ![t] = NoWork] /\ work \in [Flusher -> [File -> Entry]]
        /\ todo' = [todo EXCEPT ![t] = {}] /\ todo \in [Flusher -> SUBSET File]
        /\ touched' = [touched EXCEPT ![t] = {}] /\ touched \in [Flusher -> SUBSET File]
        /\ batch \in [Flusher -> SUBSET File]
        /\ batch' = [batch EXCEPT ![t] = IF commits THEN {} ELSE @]
        /\ records' = [records EXCEPT ![t] = NoRecord] /\ records \in [Flusher -> [File -> Version]]
    BY DEF TypeOK
  <1>2. \A u \in Flusher \ {t} : pc[u] # "read" /\ ~Syncs(u) /\ pc'[u] = pc[u]
    BY <1>1 DEF HoldersOwn, Syncs
  <1>3. NoWork \in [File -> Entry] /\ \A f \in File : NoWork[f].tracked = 0
    BY Bounds DEF NoWork, Absent, Entry, Version
  <1>4. catalog' \in [File -> Entry] /\ dropped' \in SUBSET File
    BY <1>1 DEF Closes, TypeOK
  <1>5. TypeOK'
    <2>1. cut' \in SUBSET File /\ plain' \in SUBSET File
      BY <1>1 DEF TypeOK, Kept, PlainAfter
    <2>2. NoRecord \in [File -> Version]
      BY Bounds DEF NoRecord, Version
    <2>3. records' \in [Flusher -> [File -> Version]]
      BY <1>1, <2>2
    <2> QED BY <1>1, <1>3, <1>4, <2>1, <2>3 DEF TypeOK, Place
  <1>6. HoldersOwn' /\ ReadIsQueued' /\ WorkIsAccounted' /\ TouchedAreTaken'
    BY <1>1, <1>2 DEF HoldersOwn, ReadIsQueued, WorkIsAccounted, TouchedAreTaken, InFlight, Syncs
  <1>7. WorkIsCurrent' /\ OnlySkimmed' /\ RecordsAreCurrent'
    <2>1. \A u \in Flusher : ~Syncs(u)'
      BY <1>1, <1>2 DEF Syncs
    <2>2. \A u \in Flusher, f \in File : records'[u][f] = 0
      BY <1>1, <1>2 DEF FactsInv, RecordsAreCurrent, NoRecord, Syncs
    <2> QED BY <2>1, <2>2 DEF WorkIsCurrent, OnlySkimmed, RecordsAreCurrent, Syncs
  <1>8. \A f \in File : Settled(f)'
    <2>1. \A u \in Flusher \ {t} : InFlight(u) = {}
      BY <1>2 DEF InFlight, Syncs
    <2>2. ASSUME NEW f \in File, commits PROVE Settled(f)'
      <3>1. /\ catalog' = work[t] /\ UNCHANGED <<hooks, queue, disk>>
            /\ dropped' = dropped \union todo[t]
        BY <2>2 DEF Closes
      <3>2. CASE f \in batch[t] \ todo[t]
        BY <3>1, <3>2 DEF WorkIsAccounted, Looked, Settled
      <3>3. CASE f \in todo[t]
        BY <3>1, <3>3 DEF Settled
      <3>4. CASE f \notin batch[t]
        <4>1. work[t][f] = catalog[f] /\ f \notin InFlight(t)
          BY <3>4 DEF WorkIsAccounted, InFlight
        <4> QED BY <2>1, <3>1, <4>1 DEF AllSettled, Settled
      <3> QED BY <3>2, <3>3, <3>4
    <2>3. CASE ~commits
      BY <1>1, <2>1, <2>3 DEF AllSettled, Settled, Closes, InFlight, Syncs
    <2> QED BY <2>2, <2>3
  <1>9. VersionsAreOld'
    BY <1>1, <1>3 DEF VersionsAreOld, Closes, TypeOK
  <1>10. FactsAreAccounted'
    <2>1. ASSUME NEW f \in File, commits PROVE FactsAreCurrent(f)' \/ f \in (cut \cup plain)'
      <3>1. catalog' = work[t] /\ disk' = disk
        BY <2>1 DEF Closes
      <3>2. CASE f \in touched[t]
        BY <2>1, <3>2 DEF PlainAfter
      <3>3. CASE f \notin touched[t]
        <4>1. \/ work[t][f].tracked = disk[f] => work[t][f].facts = disk[f]
              \/ f \in cut \cup plain /\ work[t][f] = catalog[f]
          BY <3>3 DEF FactsInv, WorkIsCurrent
        <4> QED BY <2>1, <3>1, <4>1 DEF FactsAreCurrent, Kept, PlainAfter
      <3> QED BY <3>2, <3>3
    <2>2. CASE ~commits
      BY <2>2 DEF FactsInv, FactsAreAccounted, FactsAreCurrent, Closes
    <2> QED BY <2>1, <2>2 DEF FactsAreAccounted
  <1> QED BY <1>5, <1>6, <1>7, <1>8, <1>9, <1>10 DEF AllSettled, FactsInv

LEMMA CommitKeeps == ASSUME IInv, NEW t \in Flusher, Commit(t) PROVE IInv'
  <1>1. /\ Syncs(t) /\ Leave(t, TRUE) /\ UNCHANGED failures
        /\ cut' = Kept(t, cut) /\ plain' = PlainAfter(t)
    BY DEF Commit, At, Syncs
  <1>2. touched[t] \subseteq Skimmed(t)
    BY DEF Commit, At, IInv, FactsInv, OnlySkimmed
  <1>3. failures' \in 0..MaxFailures
    BY <1>1 DEF IInv, TypeOK
  <1> QED BY <1>1, <1>2, <1>3, LeaveKeeps

LEMMA CancelKeeps == ASSUME IInv, NEW t \in Flusher, Cancel(t) PROVE IInv'
  <1>1. /\ Syncs(t) /\ Leave(t, TRUE) /\ UNCHANGED failures
        /\ cut' = Kept(t, cut) \cup (touched[t] \ Skimmed(t)) /\ plain' = PlainAfter(t)
    BY DEF Cancel, Syncs
  <1>2. failures' \in 0..MaxFailures
    BY <1>1 DEF IInv, TypeOK
  <1> QED BY <1>1, <1>2, LeaveKeeps

LEMMA FailKeeps == ASSUME IInv, NEW t \in Flusher, Fail(t) PROVE IInv'
  <1>1. Syncs(t) /\ Leave(t, FALSE) /\ UNCHANGED causes
    BY DEF Fail, Syncs
  <1>2. failures' \in 0..MaxFailures
    BY Bounds DEF Fail, IInv, TypeOK
  <1> QED BY <1>1, <1>2, LeaveKeeps

\* What a flush that has left its transaction held is in `dropped` by now, or
\* queued again, or tracked.
LEMMA EndsKeeps == ASSUME IInv, NEW t \in Flusher, Ends(t) PROVE IInv'
  <1> USE DEF IInv, Ends, At, Goes, editVars, daemonVars, causes
  <1>1. /\ pc' = [pc EXCEPT ![t] = "idle"] /\ pc \in [Flusher -> Place] /\ pc[t] = "ending"
        /\ batch' = [batch EXCEPT ![t] = {}] /\ batch \in [Flusher -> SUBSET File]
    BY DEF TypeOK
  <1>2. TypeOK'
    BY <1>1 DEF TypeOK, Place
  <1>3. HoldersOwn' /\ ReadIsQueued'
    BY <1>1 DEF HoldersOwn, ReadIsQueued, Syncs
  <1>4. AllSettled' /\ TouchedAreTaken'
    BY <1>1 DEF AllSettled, Settled, TouchedAreTaken, InFlight
  <1>5. WorkIsAccounted' /\ VersionsAreOld'
    BY <1>1 DEF WorkIsAccounted, Looked, VersionsAreOld, Syncs
  <1>6. FactsInv'
    BY <1>1, FactsFrame DEF Skimmed, Syncs
  <1> QED BY <1>2, <1>3, <1>4, <1>5, <1>6

-----------------------------------------------------------------------------
\* The daemon stops, dies and comes back.

LEMMA StopKeeps == ASSUME IInv, Stop \/ Restart PROVE IInv'
  <1> USE DEF IInv, Stop, Restart, editVars, flushVars, causes
  <1>1. TypeOK'
    <2>1. outages' \in 0..MaxOutages
      BY Bounds DEF TypeOK
    <2>2. {up', stopping', pending'} \subseteq BOOLEAN
      BY ZenonT(30) DEF TypeOK
    <2> QED BY <2>1, <2>2 DEF TypeOK
  <1>2. UNCHANGED <<disk, edits, hooks, queue, catalog, flushVars, dropped, causes>>
    OBVIOUS
  <1>3. HoldersOwn' /\ ReadIsQueued' /\ AllSettled' /\ TouchedAreTaken'
    BY <1>2 DEF HoldersOwn, ReadIsQueued, AllSettled, Settled, TouchedAreTaken, InFlight, Syncs
  <1>4. WorkIsAccounted' /\ VersionsAreOld'
    BY <1>2 DEF WorkIsAccounted, Looked, VersionsAreOld, Syncs
  <1>5. FactsInv'
    BY <1>2, FactsFrame DEF Skimmed
  <1> QED BY <1>1, <1>3, <1>4, <1>5

LEMMA ExitKeeps == ASSUME IInv, Exit PROVE IInv'
  <1> USE DEF IInv, Exit, editVars, causes
  <1>1. pc' = [t \in Flusher |-> "idle"] /\ \A t \in Flusher : pc'[t] = "idle"
    OBVIOUS
  <1>2. /\ NoWork \in [File -> Entry] /\ \A f \in File : NoWork[f].tracked = 0
        /\ Nothing \in [Flusher -> SUBSET File] /\ \A t \in Flusher : Nothing[t] = {}
    BY Bounds DEF NoWork, Nothing, Absent, Entry, Version
  <1>3. \A t \in Flusher : InFlight(t) \subseteq File
    BY DEF InFlight, TypeOK
  <1>4. TypeOK'
    <2>1. dropped' \in SUBSET File
      BY <1>3 DEF TypeOK
    <2>2. outages' \in 0..MaxOutages
      BY Bounds DEF TypeOK
    <2>3. pc' \in [Flusher -> Place] /\ work' \in [Flusher -> [File -> Entry]]
      BY <1>1, <1>2 DEF Place
    <2>4. \A part \in {batch', todo', touched'} : part \in [Flusher -> SUBSET File]
      BY <1>2
    <2>5. records' \in [Flusher -> [File -> Version]]
      BY Bounds DEF NoRecord, Version
    <2> QED BY <2>1, <2>2, <2>3, <2>4, <2>5 DEF TypeOK
  <1>5. HoldersOwn' /\ ReadIsQueued' /\ WorkIsAccounted'
    BY <1>1 DEF HoldersOwn, ReadIsQueued, WorkIsAccounted, Syncs
  <1>6. AllSettled' /\ TouchedAreTaken'
    BY <1>2 DEF AllSettled, Settled, TouchedAreTaken
  <1>7. VersionsAreOld'
    BY <1>2 DEF VersionsAreOld, TypeOK
  <1>8. FactsInv'
    <2>1. \A t \in Flusher, f \in File : records'[t][f] = 0
      BY DEF NoRecord
    <2> QED BY <1>1, <2>1 DEF FactsInv, WorkIsCurrent, RecordsAreCurrent, OnlySkimmed,
                              FactsAreAccounted, FactsAreCurrent, Syncs
  <1> QED BY <1>4, <1>5, <1>6, <1>7, <1>8

-----------------------------------------------------------------------------

LEMMA StepKeeps == IInv /\ [Next]_vars => IInv'
  <1> SUFFICES ASSUME IInv, [Next]_vars PROVE IInv'
    OBVIOUS
  <1>1. ASSUME NEW f \in File, Edit(f) \/ Enqueue(f) PROVE IInv'
    BY <1>1, EditKeeps, EnqueueKeeps
  <1>2. ASSUME NEW t \in Flusher, Ask(t) \/ Step(t) \/ Fail(t) PROVE IInv'
    BY <1>2, AskKeeps, ReadKeeps, UnlinkKeeps, MarkKeeps, MarkedKeeps, ExtractKeeps,
       BuildKeeps, ApplyKeeps, CommitKeeps, CancelKeeps, FailKeeps, EndsKeeps DEF Step
  <1>3. CASE Stop \/ Exit \/ Restart
    BY <1>3, StopKeeps, ExitKeeps
  <1>4. CASE UNCHANGED vars
    <2> USE <1>4 DEF IInv, vars, editVars, daemonVars, flushVars, causes
    <2>1. TypeOK'
      BY DEF TypeOK
    <2>2. HoldersOwn' /\ ReadIsQueued' /\ AllSettled' /\ TouchedAreTaken'
      BY DEF HoldersOwn, ReadIsQueued, AllSettled, Settled, TouchedAreTaken, InFlight, Syncs
    <2>3. WorkIsAccounted' /\ VersionsAreOld'
      BY DEF WorkIsAccounted, Looked, VersionsAreOld, Syncs
    <2>4. FactsInv'
      BY FactsFrame DEF Skimmed
    <2> QED BY <2>1, <2>2, <2>3, <2>4
  <1> QED BY <1>1, <1>2, <1>3, <1>4 DEF Next

LEMMA Invariance == Spec => []IInv
  BY InitIInv, StepKeeps, PTL DEF Spec

(***************************************************************************)
(* The state keeps its types, and the counters their bounds.               *)
(***************************************************************************)
THEOREM TypeCorrect == Spec => []TypeOK
  <1>1. IInv => TypeOK
    BY DEF IInv
  <1> QED BY <1>1, Invariance, PTL

(***************************************************************************)
(* Every edit that a hook has seen is tracked, queued, in a flush under    *)
(* way, or lost by a flush that can be named: between drain_queue,         *)
(* _sync_paths and whatever ends the daemon no path goes missing silently. *)
(***************************************************************************)
THEOREM NoEditIsLost == Spec => []EditsAreAccounted
  <1>1. IInv => EditsAreAccounted
    BY DEF IInv, AllSettled, Settled, EditsAreAccounted, Accounted, InFlight
  <1> QED BY <1>1, Invariance, PTL

(***************************************************************************)
(* A file whose tracked version is the one on disk has the facts of that   *)
(* version, unless the flush that last committed a new entry of it was     *)
(* cancelled before it had them, or the file is Python and that flush was  *)
(* not asked for the Python pass: whatever fails, dies, is edited or       *)
(* flushed beside it, the mark of the first pass becomes visible without   *)
(* the second in these two ways only.                                      *)
(***************************************************************************)
THEOREM FactsAreMissedForACause == Spec => []FactsAreAccounted
  <1>1. IInv => FactsAreAccounted
    BY DEF IInv, FactsInv
  <1> QED BY <1>1, Invariance, PTL
=============================================================================
