--------------------------- MODULE ReadPathProofs ---------------------------
(***************************************************************************)
(* Proofs about what a read goes through: the tiers of the catalog, the    *)
(* connections of one file, the search of neighbors and the query          *)
(* language. Each has a section and its own invariant; no proof uses       *)
(* another part's variables.                                               *)
(***************************************************************************)
EXTENDS MCReadPath, WellFoundedInduction, TLAPS

-----------------------------------------------------------------------------
(* THE TIERS OF THE CATALOG *)

(***************************************************************************)
(* The tiers never go back, no request for a snapshot is lost, and answers *)
(* are right, for any number of readers, partitions, commits and failures. *)
(*                                                                         *)
(* The three are one argument. A copy is of the writer's newest version,   *)
(* so the versions of the tiers are ordered (`Ordered'); that also says    *)
(* that a copy answers every request made before it (`NothingForgotten')   *)
(* and that a tier further down is no older than the mirror a read began   *)
(* at (`ReadsLookAhead'). Two refreshes at once would break the order;     *)
(* `RefreshesTakeTurns' says that there is one.                            *)
(***************************************************************************)

\* Whoever has loaded a copy and not swapped it in holds the refresh lock.
RefreshesTakeTurns == \A s \in Snapper : pc[s] = "swap" => refreshLock = s

\* The writer is ahead of the file, the file of what was loaded from it, and
\* that of the mirror.
Ordered == /\ mirror.v <= file.v /\ file.v <= writer.v
           /\ \A s \in Snapper : pc[s] = "swap" => mirror.v <= fresh[s].v /\ fresh[s].v <= file.v

\* Every version that somebody has flagged is in the file, or will be copied,
\* unless the last copy failed; and nobody flags a version before its commit.
Handled(n) == n <= file.v \/ dirty \/ pc["tick"] = "copy" \/ "copy" \in lastFailed
NothingForgotten ==
    /\ covered <= writer.v /\ \A n \in committed \cup flagged : n <= writer.v
    /\ Handled(covered) /\ \A n \in flagged : Handled(n)
    /\ dirty => event \/ pc["tick"] = "debounce" \/ flagged # {}

\* Who uses the mirror holds its lock, and finds it bound as asked.
UsersBind == \A r \in Reader : read[r].pc = "using" =>
                 useLock = r /\ mirrorBound = read[r].part

\* What a read has in hand is no older than the mirror was when it began, and
\* neither is the file; and a partition that was there is still there.
ReadsLookAhead ==
    \A r \in Reader :
       /\ read[r].floor <= file.v
       /\ read[r].pc \in {"borrowed", "using", "check", "done"} => read[r].store.v >= read[r].floor
       /\ read[r].existed => read[r].part \in writer.ps /\ ~read[r].missing

IInv == /\ TypeOK /\ RefreshesTakeTurns /\ Ordered /\ NothingForgotten
        /\ UsersBind /\ ReadsLookAhead /\ ReadsOwnPartition

-----------------------------------------------------------------------------

LEMMA Bounds == MaxVersion \in Nat /\ MaxVersion > 2 /\ MaxFailures \in Nat
  BY BoundAssumption DEF Booted

\* The versions are numbers that can be compared.
LEMMA Numbers ==
    ASSUME TypeOK
    PROVE  /\ writer.v \in Nat /\ file.v \in Nat /\ mirror.v \in Nat /\ covered \in Nat
           /\ \A s \in Snapper : fresh[s].v \in Nat
           /\ committed \subseteq Nat /\ flagged \subseteq Nat
           /\ \A r \in Reader : read[r].floor \in Nat /\ read[r].store.v \in Nat
  <1>1. /\ writer \in Catalog /\ file \in Catalog /\ mirror \in Catalog
        /\ \A s \in Snapper : fresh[s] \in Catalog
        /\ covered \in Version /\ committed \subseteq Version /\ flagged \subseteq Version
    BY DEF TypeOK
  <1>2. \A r \in Reader : read[r].floor \in Version /\ read[r].store \in Catalog
    BY DEF TypeOK, ReadOp
  <1> QED BY <1>1, <1>2, Bounds DEF Catalog, Version

LEMMA InitIInv == Init => IInv
  <1> SUFFICES ASSUME Init PROVE IInv
    OBVIOUS
  <1> USE DEF Init
  <1>1. /\ 0 \in Version /\ 1 \in Version /\ 2 \in Version
        /\ None \in Catalog /\ [v |-> 1, ps |-> {Home}] \in Catalog /\ [v |-> 2, ps |-> {Home}] \in Catalog
    BY Bounds, HomeAssumption DEF Version, Catalog, None
  <1>2. Idle \in ReadOp
    BY <1>1, HomeAssumption DEF Idle, ReadOp
  <1>3. /\ writer \in Catalog /\ file \in Catalog /\ file.v \in {0, 1} /\ mirror \in Catalog
        /\ read = [r \in Reader |-> Idle]
    <2>1. file = None \/ file = [v |-> 1, ps |-> {Home}]
      BY DEF Booted
    <2>2. None.v = 0 /\ [v |-> 1, ps |-> {Home}].v = 1
      BY DEF None
    <2>3. file \in Catalog /\ file.v \in {0, 1}
      BY ONLY <1>1, <2>1, <2>2
    <2> QED BY <1>1, <2>3 DEF Booted
  <1>4. TypeOK
    <2>1. pc \in [Snapper -> {"wait", "debounce", "copy", "make", "load", "swap", "done"}]
      OBVIOUS
    <2>2. failures \in 0..MaxFailures /\ covered \in Version
      BY <1>1, Bounds
    <2>3. {dirty, event} \subseteq BOOLEAN
      BY Zenon
    <2>4. fresh \in [Snapper -> Catalog] /\ read \in [Reader -> ReadOp] /\ {writer, file, mirror} \subseteq Catalog
      BY <1>1, <1>2, <1>3
    <2> QED BY <2>1, <2>2, <2>3, <2>4, HomeAssumption DEF TypeOK
  <1>5. RefreshesTakeTurns /\ Ordered
    BY DEF RefreshesTakeTurns, Ordered, Booted, None
  <1>6. NothingForgotten
    BY <1>1 DEF NothingForgotten, Handled, Booted, None, Version
  <1>7. UsersBind /\ ReadsLookAhead /\ ReadsOwnPartition
    BY <1>3 DEF UsersBind, ReadsLookAhead, ReadsOwnPartition, Answered, Idle
  <1> QED BY <1>4, <1>5, <1>6, <1>7 DEF IInv

-----------------------------------------------------------------------------
\* What the tiers do does not disturb a read that is under way, as long as they
\* move forward and respect the use lock.
LEMMA ReadsGoOn ==
    ASSUME IInv, UNCHANGED <<read, useLock>>,
           file.v <= file'.v, file'.v \in Nat, writer.ps \subseteq writer'.ps,
           useLock = Nobody \/ UNCHANGED mirrorBound
    PROVE  UsersBind' /\ ReadsLookAhead' /\ ReadsOwnPartition'
  <1> USE DEF IInv
  <1>1. UsersBind'
    BY NamesAssumption DEF UsersBind
  <1>2. ReadsLookAhead'
    <2> SUFFICES ASSUME NEW r \in Reader
                 PROVE  /\ read[r].floor <= file'.v
                        /\ read[r].pc \in {"borrowed", "using", "check", "done"} => read[r].store.v >= read[r].floor
                        /\ read[r].existed => read[r].part \in writer'.ps /\ ~read[r].missing
      BY DEF ReadsLookAhead
    <2>1. read[r].floor <= file'.v
      BY Numbers DEF ReadsLookAhead
    <2> QED BY <2>1 DEF ReadsLookAhead
  <1>3. ReadsOwnPartition'
    BY DEF ReadsOwnPartition, Answered
  <1> QED BY <1>1, <1>2, <1>3

\* A new version of the writer.
LEMMA CommitKeeps ==
    ASSUME IInv, NEW p \in Partition, writer.v < MaxVersion, writer' = NewCatalog(p),
           committed' \in {committed, committed \cup {writer.v + 1}},
           UNCHANGED <<covered, flagged, dirty, event, tierVars, mirrorBound, read>>
    PROVE  IInv'
  <1> USE DEF IInv, tierVars, lockVars
  <1>1. writer.v \in Nat /\ writer'.v = writer.v + 1 /\ writer'.ps = writer.ps \cup {p} /\ writer' \in Catalog
    BY Bounds DEF NewCatalog, Catalog, Version, TypeOK
  <1>2. committed' \subseteq Version
    BY <1>1, Bounds DEF TypeOK, Version
  <1>3. TypeOK'
    BY <1>1, <1>2 DEF TypeOK
  <1>4. RefreshesTakeTurns' /\ Ordered'
    BY <1>1, Numbers DEF RefreshesTakeTurns, Ordered
  <1>5. NothingForgotten'
    BY <1>1, Numbers DEF NothingForgotten, Handled
  <1>6. UsersBind' /\ ReadsLookAhead' /\ ReadsOwnPartition'
    <2>1. file.v <= file'.v /\ file'.v \in Nat
      BY Numbers
    <2> QED BY <1>1, <2>1, ReadsGoOn
  <1> QED BY <1>3, <1>4, <1>5, <1>6

LEMMA CommitsKeep == ASSUME IInv, CommitByOp \/ CommitByWatcher PROVE IInv'
  <1>1. CASE CommitByOp
    BY <1>1, CommitKeeps DEF CommitByOp
  <1>2. CASE CommitByWatcher
    <2>1. writer.ps \subseteq Partition
      BY DEF IInv, TypeOK, Catalog
    <2> QED BY <1>2, <2>1, CommitKeeps DEF CommitByWatcher, requestVars
  <1> QED BY <1>1, <1>2

-----------------------------------------------------------------------------
\* Requests and the tick.  None of them touches a tier.

LEMMA RequestKeeps ==
    ASSUME IInv, TypeOK', NothingForgotten', \A s \in Snapper : pc'[s] = "swap" => pc[s] = "swap",
           UNCHANGED <<writer, file, mirror, fresh, lockVars, mirrorBound, read>>
    PROVE  IInv'
  <1> USE DEF IInv, lockVars
  <1>1. RefreshesTakeTurns' /\ Ordered'
    BY DEF RefreshesTakeTurns, Ordered
  <1>2. file.v <= file'.v /\ file'.v \in Nat
    BY Numbers
  <1> QED BY <1>1, <1>2, ReadsGoOn

LEMMA FlagDirtyKeeps == ASSUME IInv, FlagDirty PROVE IInv'
  <1> USE DEF IInv, FlagDirty, tierVars, lockVars
  <1>1. TypeOK'
    BY DEF TypeOK
  <1>2. NothingForgotten'
    BY DEF NothingForgotten, Handled
  <1> QED BY <1>1, <1>2, RequestKeeps

LEMMA SetEventKeeps == ASSUME IInv, SetEvent PROVE IInv'
  <1> USE DEF IInv, SetEvent, tierVars, lockVars
  <1>1. TypeOK'
    BY DEF TypeOK
  <1>2. NothingForgotten'
    BY DEF NothingForgotten, Handled
  <1> QED BY <1>1, <1>2, RequestKeeps

LEMMA TickKeeps == ASSUME IInv, TickWakes \/ TickChecks PROVE IInv'
  <1> USE DEF IInv, lockVars
  <1>1. CASE TickWakes
    <2>1. TypeOK' /\ pc'["tick"] = "debounce" /\ \A s \in Snapper \ {"tick"} : pc'[s] = pc[s]
      BY <1>1 DEF TickWakes, TypeOK, Snapper
    <2>2. NothingForgotten'
      BY <1>1, <2>1 DEF TickWakes, NothingForgotten, Handled
    <2> QED BY <1>1, <2>1, <2>2, RequestKeeps DEF TickWakes
  <1>2. CASE TickChecks
    <2>1. TypeOK' /\ pc'["tick"] = (IF dirty THEN "copy" ELSE "wait") /\ \A s \in Snapper \ {"tick"} : pc'[s] = pc[s]
      BY <1>2 DEF TickChecks, TypeOK, Snapper
    <2>2. NothingForgotten'
      BY <1>2, <2>1 DEF TickChecks, NothingForgotten, Handled
    <2> QED BY <1>2, <2>1, <2>2, RequestKeeps DEF TickChecks
  <1> QED BY <1>1, <1>2

LEMMA OpAsksKeeps == ASSUME IInv, OpAsks PROVE IInv'
  <1> USE DEF IInv, OpAsks, requestVars, lockVars
  <1>1. TypeOK' /\ pc'["op"] = "copy" /\ \A s \in Snapper \ {"op"} : pc'[s] = pc[s] /\ "tick" \in Snapper
    BY DEF TypeOK, Snapper
  <1>2. NothingForgotten'
    BY <1>1 DEF NothingForgotten, Handled
  <1> QED BY <1>1, <1>2, RequestKeeps

LEMMA MakeMirrorKeeps == ASSUME IInv, MakeMirror PROVE IInv'
  <1> USE DEF IInv, MakeMirror, requestVars, lockVars
  <1>1. TypeOK' /\ pc'["boot"] = "load" /\ \A s \in Snapper \ {"boot"} : pc'[s] = pc[s] /\ "tick" \in Snapper
    BY DEF TypeOK, Snapper
  <1>2. NothingForgotten'
    BY <1>1 DEF NothingForgotten, Handled
  <1> QED BY <1>1, <1>2, RequestKeeps

\* A snapshot is all that the writer has.
LEMMA CopyKeeps == ASSUME IInv, NEW s \in Snapper, Copy(s) PROVE IInv'
  <1> USE DEF IInv, Copy, requestVars
  <1>1. TypeOK'
    BY DEF TypeOK
  <1>2. file' = writer /\ file'.v \in Nat /\ file.v <= file'.v
    BY Numbers DEF Ordered
  <1>3. \A u \in Snapper : pc'[u] = "swap" => pc[u] = "swap" /\ UNCHANGED <<refreshLock, fresh, mirror, writer>>
    BY DEF TypeOK
  <1>4. RefreshesTakeTurns' /\ Ordered'
    BY <1>2, <1>3, Numbers DEF RefreshesTakeTurns, Ordered
  <1>5. NothingForgotten'
    <2>1. pc["tick"] = "debounce" => pc'["tick"] = "debounce"
      BY DEF TypeOK, Snapper
    <2> QED BY <1>2, <2>1 DEF NothingForgotten, Handled
  <1>6. UsersBind' /\ ReadsLookAhead' /\ ReadsOwnPartition'
    BY <1>2, ReadsGoOn
  <1> QED BY <1>1, <1>4, <1>5, <1>6

LEMMA CopyFailsKeeps == ASSUME IInv, NEW s \in Snapper, CopyFails(s) PROVE IInv'
  <1> USE DEF IInv, CopyFails, requestVars, lockVars
  <1>1. TypeOK'
    <2>1. failures' \in 0..MaxFailures
      BY Bounds DEF TypeOK
    <2> QED BY <2>1 DEF TypeOK
  <1>2. \A u \in Snapper : pc'[u] = "swap" => pc[u] = "swap"
    BY DEF TypeOK
  <1>3. NothingForgotten'
    <2>1. pc["tick"] = "debounce" => pc'["tick"] = "debounce"
      BY DEF TypeOK, Snapper
    <2> QED BY <2>1 DEF NothingForgotten, Handled
  <1> QED BY <1>1, <1>2, <1>3, RequestKeeps

\* The turn to refresh is one snapshot's at a time, so the mirror is still as
\* old as the file at most when the copy is swapped in.
LEMMA LoadKeeps == ASSUME IInv, NEW s \in Snapper, Load(s) PROVE IInv'
  <1> USE DEF IInv, Load, RefreshTurn, requestVars
  <1>1. TypeOK'
    BY DEF TypeOK
  <1>2. /\ fresh'[s] = file /\ \A u \in Snapper \ {s} : pc'[u] = pc[u] /\ pc[u] # "swap"
    BY NamesAssumption DEF TypeOK, RefreshesTakeTurns
  <1>3. RefreshesTakeTurns' /\ Ordered'
    BY <1>2, Numbers DEF RefreshesTakeTurns, Ordered
  <1>4. NothingForgotten'
    <2>1. /\ pc["tick"] = "debounce" => pc'["tick"] = "debounce"
          /\ pc["tick"] = "copy" => pc'["tick"] = "copy"
      BY DEF TypeOK, Snapper
    <2> QED BY <2>1 DEF NothingForgotten, Handled
  <1>5. UsersBind' /\ ReadsLookAhead' /\ ReadsOwnPartition'
    BY ReadsGoOn, Numbers
  <1> QED BY <1>1, <1>3, <1>4, <1>5

LEMMA NoLoadKeeps == ASSUME IInv, NEW s \in Snapper, NoLoad(s) PROVE IInv'
  <1> USE DEF IInv, NoLoad, Unlocks, requestVars
  <1>1. TypeOK'
    <2>1. failures' \in 0..MaxFailures
      BY Bounds DEF TypeOK
    <2>2. lastFailed' \subseteq {"copy", "load"}
      BY DEF TypeOK
    <2>3. Rest(s) \in {"wait", "done"}
      BY DEF Rest
    <2> QED BY <2>1, <2>2, <2>3 DEF TypeOK
  <1>2. \A u \in Snapper : pc'[u] = "swap" => pc[u] = "swap"
    BY DEF TypeOK, Rest
  <1>3. RefreshesTakeTurns' /\ Ordered'
    BY <1>2 DEF RefreshesTakeTurns, Ordered
  <1>4. NothingForgotten'
    <2>1. /\ pc["tick"] = "debounce" => pc'["tick"] = "debounce"
          /\ pc["tick"] = "copy" => pc'["tick"] = "copy"
      BY DEF TypeOK, Snapper
    <2>2. "copy" \in lastFailed => "copy" \in lastFailed'
      OBVIOUS
    <2> QED BY <2>1, <2>2 DEF NothingForgotten, Handled
  <1>5. UsersBind' /\ ReadsLookAhead' /\ ReadsOwnPartition'
    BY ReadsGoOn, Numbers
  <1> QED BY <1>1, <1>3, <1>4, <1>5

LEMMA SwapKeeps == ASSUME IInv, NEW s \in Snapper, Swap(s) PROVE IInv'
  <1> USE DEF IInv, Swap, Unlocks, requestVars
  <1>1. TypeOK'
    <2>1. None \in Catalog
      BY Bounds DEF None, Catalog, Version
    <2>2. mirror' \in Catalog /\ fresh' \in [Snapper -> Catalog]
      BY <2>1 DEF TypeOK
    <2>3. mirrorBound' \in Partition
      BY DEF TypeOK, Catalog
    <2>4. Rest(s) \in {"wait", "done"}
      BY DEF Rest
    <2> QED BY <2>2, <2>3, <2>4 DEF TypeOK
  <1>2. \A u \in Snapper : pc'[u] # "swap"
    BY DEF TypeOK, RefreshesTakeTurns, Rest
  <1>3. mirror'.v <= file.v
    BY DEF Ordered
  <1>4. RefreshesTakeTurns' /\ Ordered'
    BY <1>2, <1>3 DEF RefreshesTakeTurns, Ordered
  <1>5. NothingForgotten'
    <2>1. /\ pc["tick"] = "debounce" => pc'["tick"] = "debounce"
          /\ pc["tick"] = "copy" => pc'["tick"] = "copy"
      BY DEF TypeOK, Snapper
    <2>2. "copy" \in lastFailed => "copy" \in lastFailed'
      OBVIOUS
    <2> QED BY <2>1, <2>2 DEF NothingForgotten, Handled
  <1>6. UsersBind' /\ ReadsLookAhead' /\ ReadsOwnPartition'
    BY ReadsGoOn, Numbers
  <1> QED BY <1>1, <1>4, <1>5, <1>6

-----------------------------------------------------------------------------
\* A read changes itself, the use lock and the binding of the mirror.  It keeps
\* the invariant if it keeps its own part of it and the others' use.
LEMMA ReadKeeps ==
    ASSUME IInv, NEW r \in Reader, NEW op \in ReadOp, Becomes(r, op), ReadOnly,
           \/ UNCHANGED <<useLock, mirrorBound>>
           \/ useLock \in {Nobody, r} /\ useLock' \in {Nobody, r} /\ mirrorBound' \in Partition,
           op.pc = "using" => useLock' = r /\ mirrorBound' = op.part,
           op.floor <= file.v,
           op.pc \in {"borrowed", "using", "check", "done"} => op.store.v >= op.floor,
           op.existed => op.part \in writer.ps /\ ~op.missing,
           op.pc = "done" => op.bound = op.part
    PROVE  IInv'
  <1> USE DEF IInv, Becomes, ReadOnly, requestVars
  <1>1. read'[r] = op /\ \A u \in Reader \ {r} : read'[u] = read[u]
    BY DEF TypeOK
  <1>2. TypeOK'
    <2>1. read' \in [Reader -> ReadOp]
      BY DEF TypeOK
    <2> QED BY <2>1 DEF TypeOK
  <1>3. RefreshesTakeTurns' /\ Ordered' /\ NothingForgotten'
    BY DEF RefreshesTakeTurns, Ordered, NothingForgotten, Handled
  <1>4. UsersBind'
    BY <1>1, NamesAssumption DEF UsersBind
  <1>5. ReadsLookAhead' /\ ReadsOwnPartition'
    BY <1>1 DEF ReadsLookAhead, ReadsOwnPartition, Answered
  <1> QED BY <1>2, <1>3, <1>4, <1>5

\* A record of ReadOp, its fields one by one.
LEMMA Fields ==
    ASSUME NEW op \in ReadOp
    PROVE  /\ op.part \in Partition /\ op.store \in Catalog /\ op.floor \in Version
           /\ op.existed \in BOOLEAN /\ op.missing \in BOOLEAN
           /\ op.prev \in Partition /\ op.bound \in Partition
  BY DEF ReadOp

LEMMA BeginKeeps == ASSUME IInv, NEW r \in Reader, Begin(r) PROVE IInv'
  <1> USE DEF IInv
  <1>1. PICK p \in Partition, private \in BOOLEAN :
          LET op == [Idle EXCEPT !.part = p, !.existed = p \in writer.ps, !.floor = mirror.v]
          IN  Becomes(r, IF Loaded /\ ~private
                         THEN [op EXCEPT !.pc = "borrowed", !.store = mirror]
                         ELSE [op EXCEPT !.pc = "file"])
    BY DEF Begin
  <1> DEFINE new == [Idle EXCEPT !.part = p, !.existed = p \in writer.ps, !.floor = mirror.v]
             op == IF Loaded /\ ~private THEN [new EXCEPT !.pc = "borrowed", !.store = mirror]
                   ELSE [new EXCEPT !.pc = "file"]
  <1>2. Becomes(r, op) /\ ReadOnly /\ UNCHANGED <<useLock, mirrorBound>>
    BY <1>1 DEF Begin
  <1>3. /\ mirror \in Catalog /\ None \in Catalog /\ mirror.v \in Version
        /\ (p \in writer.ps) \in BOOLEAN
    BY Bounds DEF TypeOK, None, Catalog, Version
  <1>4. new = [Idle EXCEPT !.part = p, !.existed = p \in writer.ps, !.floor = mirror.v]
    OBVIOUS
  <1>5. /\ op.part = p /\ op.floor = mirror.v /\ op.existed = (p \in writer.ps) /\ op.missing = FALSE
        /\ op.pc \in {"borrowed", "file"} /\ op.pc = "borrowed" => op.store = mirror
    BY DEF Idle
  <1>6. op \in ReadOp
    BY <1>3, HomeAssumption DEF Idle, ReadOp
  <1>7. /\ op.floor <= file.v /\ op.pc \notin {"using", "done"}
        /\ op.pc \in {"borrowed", "using", "check", "done"} => op.store.v >= op.floor
    BY <1>5, Numbers DEF Ordered
  <1> HIDE DEF op
  <1>8. (op.existed => op.part \in writer.ps /\ ~op.missing)
    BY <1>5, Zenon
  <1> QED BY <1>2, <1>6, <1>7, <1>8, ReadKeeps

LEMMA BindMirrorKeeps == ASSUME IInv, NEW r \in Reader, BindMirror(r) PROVE IInv'
  <1> USE DEF IInv, BindMirror, BindTurn
  <1> DEFINE old == read[r]
             op == [old EXCEPT !.pc = "using", !.prev = mirrorBound]
  <1>1. old \in ReadOp /\ mirrorBound \in Partition
    BY DEF TypeOK
  <1>2. op \in ReadOp
    BY <1>1 DEF ReadOp
  <1>3. /\ op.pc = "using" /\ op.part = old.part /\ op.floor = old.floor /\ op.store = old.store
        /\ op.existed = old.existed /\ op.missing = old.missing
    BY <1>1 DEF ReadOp
  <1>4. Becomes(r, op) /\ ReadOnly /\ mirrorBound' = op.part /\ op.part \in Partition
    BY <1>1, <1>3, Fields
  <1>5. old.pc = "borrowed"
    OBVIOUS
  <1> HIDE DEF op
  <1> QED BY <1>2, <1>3, <1>4, <1>5, ReadKeeps DEF ReadsLookAhead

LEMMA ReadMirrorKeeps == ASSUME IInv, NEW r \in Reader, ReadMirror(r) PROVE IInv'
  <1> USE DEF IInv, ReadMirror
  <1> DEFINE old == read[r]
             op == [old EXCEPT !.pc = "done", !.bound = mirrorBound, !.prev = Home, !.store.ps = {}]
  <1>1. old \in ReadOp /\ mirrorBound \in Partition /\ Home \in Partition /\ old.store \in Catalog
    BY HomeAssumption, Fields DEF TypeOK
  <1>2. op.store = [old.store EXCEPT !.ps = {}] /\ op.store \in Catalog /\ op.store.v = old.store.v
    BY <1>1 DEF ReadOp, Catalog
  <1>3. op \in ReadOp
    BY <1>1, <1>2 DEF ReadOp
  <1>4. /\ op.pc = "done" /\ op.part = old.part /\ op.floor = old.floor /\ op.bound = mirrorBound
        /\ op.existed = old.existed /\ op.missing = old.missing
    BY <1>1 DEF ReadOp
  <1>5. /\ Becomes(r, op) /\ ReadOnly /\ old.pc = "using"
        /\ useLock = r /\ mirrorBound = old.part /\ useLock' = Nobody /\ mirrorBound' \in Partition
    BY <1>1, Fields DEF UsersBind
  <1> HIDE DEF op
  <1> QED BY <1>2, <1>3, <1>4, <1>5, ReadKeeps DEF ReadsLookAhead

\* The steps of a read outside the mirror.
LEMMA NextTierKeeps == ASSUME IInv, NEW r \in Reader, MissMirror(r) \/ NoFile(r) PROVE IInv'
  <1> USE DEF IInv
  <1> DEFINE old == read[r]
  <1>1. old \in ReadOp /\ None \in Catalog
    BY Bounds DEF TypeOK, None, Catalog, Version
  <1>2. PICK op \in ReadOp :
          /\ Becomes(r, op) /\ ReadOnly /\ UNCHANGED <<useLock, mirrorBound>>
          /\ op.pc \in {"file", "writer"} /\ op.part = old.part /\ op.floor = old.floor
          /\ op.existed = old.existed /\ op.missing = old.missing
    <2>1. CASE MissMirror(r)
      <3> DEFINE new == [old EXCEPT !.pc = "file", !.store = None]
      <3>1. new \in ReadOp
        BY <1>1 DEF ReadOp
      <3> QED BY <1>1, <2>1, <3>1 DEF MissMirror, ReadOp
    <2>2. CASE NoFile(r)
      <3> DEFINE new == [old EXCEPT !.pc = "writer"]
      <3>1. new \in ReadOp
        BY <1>1 DEF ReadOp
      <3> QED BY <1>1, <2>2, <3>1 DEF NoFile, ReadOp
    <2> QED BY <2>1, <2>2
  <1> QED BY <1>2, ReadKeeps DEF ReadsLookAhead

LEMMA ReadFileKeeps == ASSUME IInv, NEW r \in Reader, ReadFile(r) PROVE IInv'
  <1> USE DEF IInv, ReadFile
  <1> DEFINE old == read[r]
             op == IF old.part \in file.ps
                   THEN [old EXCEPT !.pc = "done", !.store.v = file.v, !.bound = old.part]
                   ELSE [old EXCEPT !.pc = "check", !.store.v = file.v]
  <1>1. old \in ReadOp /\ old.store \in Catalog /\ file.v \in Version
    BY Fields DEF TypeOK, Catalog
  <1>2. op.store = [old.store EXCEPT !.v = file.v] /\ op.store \in Catalog /\ op.store.v = file.v
    BY <1>1 DEF ReadOp, Catalog
  <1>3. op \in ReadOp
    BY <1>1, <1>2 DEF ReadOp
  <1>4. /\ op.pc \in {"done", "check"} /\ op.part = old.part /\ op.floor = old.floor
        /\ op.pc = "done" => op.bound = op.part
        /\ op.existed = old.existed /\ op.missing = old.missing
    BY <1>1 DEF ReadOp
  <1>5. Becomes(r, op) /\ ReadOnly /\ UNCHANGED <<useLock, mirrorBound>>
    OBVIOUS
  <1>6. op.store.v >= op.floor
    BY <1>2, <1>4, Numbers DEF ReadsLookAhead
  <1> HIDE DEF op
  <1> QED BY <1>3, <1>4, <1>5, <1>6, ReadKeeps DEF ReadsLookAhead

LEMMA CheckWriterKeeps == ASSUME IInv, NEW r \in Reader, CheckWriter(r) PROVE IInv'
  <1> USE DEF IInv, CheckWriter
  <1> DEFINE old == read[r]
             op == [old EXCEPT !.pc = Locate(r), !.missing = Locate(r) = "done", !.bound = old.part]
  <1>1. old \in ReadOp
    BY DEF TypeOK
  <1>2. Locate(r) = IF old.part \in writer.ps THEN "writer" ELSE "done"
    BY DEF Locate
  <1>3. op \in ReadOp
    BY <1>1, <1>2 DEF ReadOp
  <1>4. /\ op.pc = Locate(r) /\ op.part = old.part /\ op.floor = old.floor /\ op.bound = op.part
        /\ op.existed = old.existed /\ op.missing = (Locate(r) = "done") /\ op.store = old.store
    BY <1>1 DEF ReadOp
  <1>5. Becomes(r, op) /\ ReadOnly /\ UNCHANGED <<useLock, mirrorBound>> /\ old.pc = "check"
    OBVIOUS
  <1>6. op.existed => op.part \in writer.ps /\ ~op.missing
    BY <1>2, <1>4 DEF ReadsLookAhead
  <1>7. op.floor <= file.v /\ op.store.v >= op.floor /\ op.pc # "using"
    BY <1>2, <1>4, <1>5 DEF ReadsLookAhead
  <1> HIDE DEF op
  <1> QED BY <1>3, <1>4, <1>5, <1>6, <1>7, ReadKeeps

LEMMA ReadWriterKeeps == ASSUME IInv, NEW r \in Reader, ReadWriter(r) PROVE IInv'
  <1> USE DEF IInv, ReadWriter
  <1> DEFINE old == read[r]
             op == [old EXCEPT !.pc = "done", !.store.v = writer.v, !.bound = old.part,
                               !.missing = old.part \notin writer.ps]
  <1>1. old \in ReadOp /\ old.store \in Catalog /\ writer.v \in Version
    BY Fields DEF TypeOK, Catalog
  <1>2. op.store = [old.store EXCEPT !.v = writer.v] /\ op.store \in Catalog /\ op.store.v = writer.v
    BY <1>1 DEF ReadOp, Catalog
  <1>3. op \in ReadOp
    BY <1>1, <1>2 DEF ReadOp
  <1>4. /\ op.pc = "done" /\ op.part = old.part /\ op.floor = old.floor /\ op.bound = op.part
        /\ op.existed = old.existed /\ op.missing = (old.part \notin writer.ps)
    BY <1>1 DEF ReadOp
  <1>5. Becomes(r, op) /\ ReadOnly /\ UNCHANGED <<useLock, mirrorBound>>
    OBVIOUS
  <1>6. op.existed => op.part \in writer.ps /\ ~op.missing
    BY <1>4 DEF ReadsLookAhead
  <1>7. op.floor <= file.v /\ op.store.v >= op.floor
    BY <1>2, <1>4, Numbers DEF ReadsLookAhead, Ordered
  <1> HIDE DEF op
  <1> QED BY <1>3, <1>4, <1>5, <1>6, <1>7, ReadKeeps

-----------------------------------------------------------------------------

LEMMA StepKeeps == IInv /\ [Next]_vars => IInv'
  <1> SUFFICES ASSUME IInv, [Next]_vars PROVE IInv'
    OBVIOUS
  <1>1. CASE CommitByOp \/ CommitByWatcher
    BY <1>1, CommitsKeep
  <1>2. CASE FlagDirty \/ SetEvent \/ TickWakes \/ TickChecks \/ OpAsks \/ MakeMirror
    BY <1>2, FlagDirtyKeeps, SetEventKeeps, TickKeeps, OpAsksKeeps, MakeMirrorKeeps
  <1>3. ASSUME NEW s \in Snapper, Snap(s) PROVE IInv'
    BY <1>3, CopyKeeps, CopyFailsKeeps, LoadKeeps, NoLoadKeeps, SwapKeeps DEF Snap
  <1>4. ASSUME NEW r \in Reader, Read(r) PROVE IInv'
    BY <1>4, BeginKeeps, BindMirrorKeeps, ReadMirrorKeeps, NextTierKeeps, ReadFileKeeps,
       CheckWriterKeeps, ReadWriterKeeps DEF Read
  <1>5. CASE UNCHANGED vars
    <2> USE <1>5 DEF IInv, vars, requestVars, tierVars, lockVars
    <2>1. TypeOK' /\ RefreshesTakeTurns' /\ Ordered'
      BY DEF TypeOK, RefreshesTakeTurns, Ordered
    <2>2. NothingForgotten' /\ UsersBind' /\ ReadsLookAhead' /\ ReadsOwnPartition'
      BY DEF NothingForgotten, Handled, UsersBind, ReadsLookAhead, ReadsOwnPartition, Answered
    <2> QED BY <2>1, <2>2
  <1> QED BY <1>1, <1>2, <1>3, <1>4, <1>5 DEF Next

LEMMA Invariance == Spec => []IInv
  BY InitIInv, StepKeeps, PTL DEF Spec

(***************************************************************************)
(* The state keeps its types, and the counters their bounds.               *)
(***************************************************************************)
THEOREM TypeCorrect == Spec => []TypeOK
  <1>1. IInv => TypeOK
    BY DEF IInv
  <1> QED BY <1>1, Invariance, PTL

(***************************************************************************)
(* No call of _request_snapshot is lost between the flag, the event, the   *)
(* tick that clears both and the copies of others: what was asked for is   *)
(* in the file, will be copied, or the last copy failed.                   *)
(***************************************************************************)
THEOREM NoRequestIsLost == Spec => []RequestsAreKept
  <1>1. IInv => RequestsAreKept
    BY Numbers DEF IInv, RequestsAreKept, NothingForgotten, Handled
  <1> QED BY <1>1, Invariance, PTL

(***************************************************************************)
(* _read_with_fallback answers for the partition that was asked, finds the *)
(* partitions there are, and is no older than the mirror was when it       *)
(* began, whichever tier answers and whatever is swapped in meanwhile.     *)
(***************************************************************************)
THEOREM ReadsAreRight == Spec => []AnswersAreRight
  <1>1. IInv => AnswersAreRight
    BY DEF IInv, AnswersAreRight, ReadsOwnPartition, ExistingPartitionIsFound,
           ReadsNotOlderThanMirror, ReadsLookAhead, Answered
  <1> QED BY <1>1, Invariance, PTL

\* A tier is only ever replaced by what is ahead of it.
LEMMA TiersMoveForward ==
    ASSUME IInv, [Next]_vars
    PROVE  file'.v >= file.v /\ mirror'.v >= mirror.v
  <1> USE Numbers DEF IInv, requestVars, tierVars, ReadOnly
  <1>1. ASSUME NEW s \in Snapper, Snap(s) PROVE file'.v >= file.v /\ mirror'.v >= mirror.v
    <2>1. CASE Copy(s)
      BY <2>1 DEF Copy, Ordered
    <2>2. CASE Swap(s)
      BY <2>2 DEF Swap, Ordered
    <2>3. CASE CopyFails(s) \/ Load(s) \/ NoLoad(s)
      BY <2>3 DEF CopyFails, Load, NoLoad
    <2> QED BY <1>1, <2>1, <2>2, <2>3 DEF Snap
  <1>2. ASSUME NEW r \in Reader, Read(r) PROVE UNCHANGED <<file, mirror>>
    BY <1>2 DEF Read, Begin, BindMirror, ReadMirror, MissMirror, ReadFile, NoFile, CheckWriter,
                ReadWriter
  <1>3. CASE CommitByOp \/ CommitByWatcher \/ FlagDirty \/ SetEvent
    BY <1>3 DEF CommitByOp, CommitByWatcher, FlagDirty, SetEvent
  <1>4. CASE TickWakes \/ TickChecks \/ OpAsks \/ MakeMirror
    BY <1>4 DEF TickWakes, TickChecks, OpAsks, MakeMirror
  <1>5. CASE UNCHANGED vars
    BY <1>5 DEF vars
  <1> QED BY <1>1, <1>2, <1>3, <1>4, <1>5 DEF Next

(***************************************************************************)
(* Neither the snapshot file nor the mirror ever goes back in time: the    *)
(* boot thread's refresh, which is outside _snapshot_lock, cannot put its  *)
(* older copy over the tick's newer one.                                   *)
(***************************************************************************)
THEOREM TiersOnlyGoForward == Spec => TiersNeverGoBack
  <1>1. IInv /\ [Next]_vars => [file'.v >= file.v /\ mirror'.v >= mirror.v]_vars
    BY TiersMoveForward
  <1> QED BY <1>1, Invariance, PTL DEF Spec, TiersNeverGoBack

-----------------------------------------------------------------------------
(* THE CONNECTIONS OF ONE FILE *)

(***************************************************************************)
(* No statement runs on a closed base, no base is left behind, and a       *)
(* handle reads the file its open found, for any handles, instances and    *)
(* write opens and any number of replaced files.                           *)
(*                                                                         *)
(* An instance is in one of a few places, and the invariant says what      *)
(* holds in each: in the hands of the open that made it (`NewIsPrivate'),  *)
(* registered (`ListedIsOpen'), taken out of the registry by a write open  *)
(* (`OpenIsFound'), or closed to newcomers with somebody to close its base *)
(* (`ClosedCloses'). That two open instances of a file are one follows,    *)
(* since the registry has one place for each file; so does what a handle   *)
(* reads, since an instance that is open is on the file it was made for.   *)
(* `WritersInv' is about write connections: DuckDB opens the file that is  *)
(* there for one made beside no other, so that the two looks at the path   *)
(* before and after it say which.                                          *)
(***************************************************************************)

\* Where an open or a close stands, and what it holds there.
MakesOne(h) == phase[h] \in {"made", "file", "lost"}
Counted(h)  == phase[h] \in {"held", "lost"}
StepsAgree ==
    \A h \in Handle :
        /\ MakesOne(h) <=> made[h] # NoInstance
        /\ Counted(h) \/ phase[h] = "last" <=> inst[h] # NoInstance
        /\ phase[h] \notin {"idle", "last"} => fid[h] \in File /\ fid[h] <= inode
        /\ phase[h] = "last" => closed[inst[h]]

\* A handle is counted in the instance it was given, which was made for the file
\* its open looked up.
RefsAgree ==
    /\ \A h \in Handle, i \in Instance : h \in refs[i] => Counted(h) /\ inst[h] = i
    /\ \A h \in Handle : Counted(h) => /\ h \in refs[inst[h]]
                                       /\ filed[inst[h]] = fid[h]

\* The instance an open has made is its own until it is registered.
Listed(i) == \E f \in File : registry[f] = i
NewIsPrivate ==
    \A h \in Handle : MakesOne(h) =>
        LET i == made[h] IN
        /\ ~closed[i] /\ refs[i] = {} /\ inflight[i] = {}
        /\ filed[i] = fid[h] /\ filed[i] <= base[i] /\ base[i] <= inode
        /\ phase[h] # "made" => base[i] = filed[i]
        /\ ~Listed(i) /\ i \notin opener.old
        /\ \A g \in Handle : inst[g] # i /\ (made[g] = i => g = h)

\* A registered instance is open, on the file it is listed under, and has a handle.
ListedIsOpen ==
    \A f \in File : registry[f] # NoInstance =>
        LET i == registry[f] IN filed[i] = f /\ ~closed[i] /\ refs[i] # {}

\* Any other open instance can be found: by its file, or by the sweep.
Private(i) == \E h \in Handle : made[h] = i
OpenIsFound ==
    \A i \in Instance : ~closed[i] /\ ~Private(i) =>
        /\ base[i] = filed[i] /\ base[i] # NoInode /\ refs[i] # {}
        /\ registry[filed[i]] = i \/ i \in opener.old

\* A closed instance whose base is open: somebody closes it.
ClosedCloses ==
    \A i \in Instance : closed[i] /\ base[i] # NoInode =>
        \/ inflight[i] # {}
        \/ opener.inst = i
        \/ \E h \in Handle : phase[h] = "last" /\ inst[h] = i

\* What the sweep still has to do.
SweepAgrees ==
    /\ opener.old # {} => opener.step \in {"sweep", "drain"}
    /\ \A i \in opener.old : ~Listed(i)
    /\ opener.inst # NoInstance => opener.step = "drain" /\ closed[opener.inst]
    /\ opener.step = "drain" => opener.inst # NoInstance

ReadersInv == /\ HandleTypeOK /\ StepsAgree /\ RefsAgree /\ NewIsPrivate /\ ListedIsOpen
              /\ OpenIsFound /\ ClosedCloses /\ SweepAgrees /\ StatementsHaveABase

\* A write connection that is listed is open and in nobody's hands; the one an open
\* has made, beside no other, has the file at the path or an earlier one, and no
\* earlier one than the open saw before.
WritersInv ==
    /\ \A c \in Connection : opened[c] <= inode
    /\ \A c \in Connection : writers[c] # NoInode => c \in Live /\ c \notin opener.conns \cup opener.conn
    /\ opener.conns # {} => opener.step = "sweep"
    /\ opener.conn # {} => opener.step \in {"recheck", "register", "release"}
    /\ opener.step \in {"recheck", "register"} => opener.conn \subseteq Live
    /\ opener.step \in {"connect", "recheck", "register"} => opener.before \in File /\ opener.before <= inode
    /\ opener.step = "recheck" => \A c \in opener.conn \ beside : opener.before <= opened[c]
    /\ opener.step = "register" => \A c \in opener.conn \ beside : opener.before = opened[c]
    /\ WritersAreListedUnderTheirFile

\* Files are numbers, and none is NoInode.
LEMMA FileNumbers == File \subseteq Nat /\ NoInode = 0 /\ NoInode \notin File /\ NoInstance \notin Instance
                     /\ \A f \in File \cup {NoInode} : f \in Nat
  BY HandleAssumption DEF File, NoInode

\* The first round is one of those an open may take.
LEMMA FirstTry == OpenRetries \in Nat /\ 0 \in 0..OpenRetries-1
  BY HandleAssumption

\* An opener at rest, or about to start again, has nothing in hand.
AtRest(o) == /\ o.step \in {"idle", "retry"} /\ o.conns = {} /\ o.old = {}
             /\ o.inst = NoInstance /\ o.conn = {}
\* NoOpen is at rest.
LEMMA NothingInHand ==
    AtRest(NoOpen) /\ NoOpen.step = "idle" /\ \A n : AtRest([NoOpen EXCEPT !.step = "retry", !.tries = n])
  BY DEF AtRest, NoOpen

\* NoOpen is an opener.
LEMMA RestIsTyped == NoOpen \in OpenOp
  BY FirstTry, FileNumbers DEF NoOpen, OpenOp

\* Who looks the file up has nothing yet.
LEMMA LookUpKeeps ==
    ASSUME ReadersInv, NEW h \in Handle, LookUp(h)
    PROVE  ReadersInv'
  <1> USE FileNumbers DEF ReadersInv
  <1>0. HandleTypeOK'
    BY DEF HandleTypeOK, LookUp, writeVars, instanceVars, Moves
  <1>1. StepsAgree'
    BY DEF HandleTypeOK, LookUp, instanceVars, Moves, StepsAgree, MakesOne, Counted
  <1>2. RefsAgree'
    BY DEF LookUp, instanceVars, Moves, RefsAgree, Counted
  <1>3. NewIsPrivate'
    BY DEF HandleTypeOK, LookUp, writeVars, instanceVars, Moves, StepsAgree, NewIsPrivate,
       MakesOne, Listed
  <1>4. ListedIsOpen'
    BY DEF LookUp, instanceVars, ListedIsOpen
  <1>5. OpenIsFound'
    BY DEF LookUp, writeVars, instanceVars, Moves, StepsAgree, OpenIsFound, MakesOne, Private
  <1>6. ClosedCloses'
    BY DEF LookUp, writeVars, instanceVars, Moves, ClosedCloses
  <1>7. SweepAgrees'
    BY DEF LookUp, writeVars, instanceVars, SweepAgrees, Listed
  <1>8. StatementsHaveABase'
    BY DEF LookUp, instanceVars, StatementsHaveABase
  <1> QED BY <1>0, <1>1, <1>2, <1>3, <1>4, <1>5, <1>6, <1>7, <1>8

\* A registered instance of that file is open, and made for it.
LEMMA ShareKeeps ==
    ASSUME ReadersInv, NEW h \in Handle, Share(h)
    PROVE  ReadersInv'
  <1> USE FileNumbers DEF ReadersInv
  <1>1. CASE Usable(registry[fid[h]])
    <2>1. /\ phase[h] = "looked" /\ registry[fid[h]] # NoInstance /\ ~closed[registry[fid[h]]]
          /\ refs' = [refs EXCEPT ![registry[fid[h]]] = @ \cup {h}] /\ tries' = [tries EXCEPT ![h] = 0]
          /\ phase' = [phase EXCEPT ![h] = "held"] /\ inst' = [inst EXCEPT ![h] = registry[fid[h]]]
          /\ made' = [made EXCEPT ![h] = NoInstance]
          /\ UNCHANGED <<inode, registry, base, filed, closed, inflight, fid>>
          /\ UNCHANGED <<opened, writers, beside, opener>>
      BY <1>1 DEF Share, Usable, Counts, Moves, writeVars
    <2>2. fid[h] \in File /\ registry[fid[h]] \in Instance
      BY <2>1 DEF HandleTypeOK, StepsAgree
    <2>3. /\ filed[registry[fid[h]]] = fid[h] /\ refs[registry[fid[h]]] # {}
          /\ Listed(registry[fid[h]])
      BY <2>1, <2>2 DEF ListedIsOpen, Listed
    <2>4. \A g \in Handle : MakesOne(g) => made[g] # registry[fid[h]]
      BY <2>3 DEF NewIsPrivate
    <2>5. HandleTypeOK'
      BY <2>1, <2>2, FirstTry DEF HandleTypeOK
    <2>6. StepsAgree'
      BY <2>1 DEF HandleTypeOK, StepsAgree, MakesOne, Counted
    <2>7. RefsAgree'
      BY <2>1, <2>2, <2>3 DEF HandleTypeOK, RefsAgree, Counted
    <2>8. NewIsPrivate'
      BY <2>1, <2>2, <2>3 DEF StepsAgree, RefsAgree, NewIsPrivate, OpenIsFound, ClosedCloses,
         MakesOne, Listed
    <2>9. ListedIsOpen'
      BY <2>1 DEF HandleTypeOK, ListedIsOpen
    <2>10. OpenIsFound'
      BY <2>1 DEF StepsAgree, OpenIsFound, MakesOne, Private
    <2>11. ClosedCloses'
      BY <2>1 DEF ClosedCloses
    <2>12. SweepAgrees'
      BY <2>1 DEF SweepAgrees, Listed
    <2>13. StatementsHaveABase'
      BY <2>1 DEF StatementsHaveABase
    <2> QED BY <2>5, <2>6, <2>7, <2>8, <2>9, <2>10, <2>11, <2>12, <2>13
  <1>2. CASE ~Usable(registry[fid[h]])
    <2>1. /\ phase[h] = "looked" /\ (registry[fid[h]] = NoInstance \/ closed[registry[fid[h]]])
          /\ phase' = [phase EXCEPT ![h] = "attach"] /\ inst' = [inst EXCEPT ![h] = NoInstance]
          /\ made' = [made EXCEPT ![h] = NoInstance]
          /\ UNCHANGED <<inode, registry, base, filed, closed, refs, inflight, fid, tries>>
          /\ UNCHANGED <<opened, writers, beside, opener>>
      BY <1>2 DEF Share, Usable, Moves, writeVars
    <2>2. HandleTypeOK'
      BY <2>1 DEF HandleTypeOK
    <2>3. StepsAgree'
      BY <2>1 DEF StepsAgree, MakesOne, Counted
    <2>4. RefsAgree'
      BY <2>1 DEF RefsAgree, Counted
    <2>5. NewIsPrivate'
      BY <2>1 DEF HandleTypeOK, StepsAgree, NewIsPrivate, MakesOne, Listed
    <2>6. ListedIsOpen'
      BY <2>1 DEF ListedIsOpen
    <2>7. OpenIsFound'
      BY <2>1 DEF StepsAgree, OpenIsFound, MakesOne, Private
    <2>8. ClosedCloses'
      BY <2>1 DEF ClosedCloses
    <2>9. SweepAgrees'
      BY <2>1 DEF SweepAgrees, Listed
    <2>10. StatementsHaveABase'
      BY <2>1 DEF StatementsHaveABase
    <2> QED BY <2>2, <2>3, <2>4, <2>5, <2>6, <2>7, <2>8, <2>9, <2>10
  <1> QED BY <1>1, <1>2

\* A new instance is on the file now at the path, or a newer one than was looked up.
LEMMA AttachKeeps ==
    ASSUME ReadersInv, NEW h \in Handle, Attach(h)
    PROVE  ReadersInv'
  <1> USE FileNumbers DEF ReadersInv
  <1>0. HandleTypeOK'
    BY DEF HandleTypeOK, Attach, writeVars, Moves
  <1>1. StepsAgree'
    BY DEF HandleTypeOK, Attach, Moves, Free, StepsAgree, MakesOne, Counted
  <1>2. RefsAgree'
    BY DEF Attach, Moves, Free, RefsAgree, Counted
  <1>3. NewIsPrivate'
    BY DEF HandleTypeOK, Attach, writeVars, Moves, Free, StepsAgree, NewIsPrivate, ListedIsOpen,
       MakesOne, Listed
  <1>4. ListedIsOpen'
    <2>1. PICK i \in Instance : /\ Free(i) /\ filed' = [filed EXCEPT ![i] = fid[h]]
                                /\ closed' = [closed EXCEPT ![i] = FALSE]
      BY DEF Attach
    <2>2. UNCHANGED <<registry, refs>>
      BY DEF Attach
    <2>3. \A f \in File : registry[f] # i
      BY <2>1 DEF Free, ListedIsOpen
    <2> QED BY <2>1, <2>2, <2>3 DEF HandleTypeOK, ListedIsOpen
  <1>5. OpenIsFound'
    BY DEF HandleTypeOK, Attach, writeVars, Moves, StepsAgree, OpenIsFound, MakesOne, Private
  <1>6. ClosedCloses'
    BY DEF HandleTypeOK, Attach, writeVars, Moves, ClosedCloses
  <1>7. SweepAgrees'
    <2>1. PICK i \in Instance : Free(i) /\ closed' = [closed EXCEPT ![i] = FALSE]
      BY DEF Attach
    <2>2. opener.inst # i /\ UNCHANGED <<registry, opener>>
      BY <2>1 DEF Attach, writeVars, Free
    <2> QED BY <2>1, <2>2 DEF HandleTypeOK, SweepAgrees, Listed
  <1>8. StatementsHaveABase'
    BY DEF Attach, Free, StatementsHaveABase
  <1> QED BY <1>0, <1>1, <1>2, <1>3, <1>4, <1>5, <1>6, <1>7, <1>8

\* An open that is refused had nothing.
LEMMA AttachRefusedKeeps ==
    ASSUME ReadersInv, NEW h \in Handle, AttachRefused(h)
    PROVE  ReadersInv'
  <1> USE FileNumbers DEF ReadersInv
  <1>0. HandleTypeOK'
    BY FirstTry DEF HandleTypeOK, AttachRefused, writeVars, instanceVars, Moves, Ends
  <1>1. StepsAgree'
    BY DEF HandleTypeOK, AttachRefused, instanceVars, Moves, Ends, StepsAgree, MakesOne, Counted
  <1>2. RefsAgree'
    BY DEF AttachRefused, instanceVars, Moves, Ends, RefsAgree, Counted
  <1>3. NewIsPrivate'
    BY DEF AttachRefused, writeVars, instanceVars, Moves, Ends, StepsAgree, RefsAgree,
       NewIsPrivate, OpenIsFound, ClosedCloses, MakesOne, Counted, Listed
  <1>4. ListedIsOpen'
    BY DEF AttachRefused, instanceVars, ListedIsOpen
  <1>5. OpenIsFound'
    BY DEF AttachRefused, writeVars, instanceVars, Moves, Ends, StepsAgree, OpenIsFound, MakesOne,
       Private
  <1>6. ClosedCloses'
    BY DEF AttachRefused, writeVars, instanceVars, Moves, Ends, ClosedCloses
  <1>7. SweepAgrees'
    BY DEF AttachRefused, writeVars, instanceVars, SweepAgrees, Listed
  <1>8. StatementsHaveABase'
    BY DEF AttachRefused, instanceVars, StatementsHaveABase
  <1> QED BY <1>0, <1>1, <1>2, <1>3, <1>4, <1>5, <1>6, <1>7, <1>8

\* A new instance is kept if its file is the one looked up.
LEMMA CheckAttachedKeeps ==
    ASSUME ReadersInv, NEW h \in Handle, CheckAttached(h)
    PROVE  ReadersInv'
  <1> USE FileNumbers DEF ReadersInv
  <1>1. CASE inode = fid[h]
    <2>1. /\ phase[h] = "made"
          /\ phase' = [phase EXCEPT ![h] = "file"] /\ inst' = [inst EXCEPT ![h] = NoInstance]
          /\ made' = [made EXCEPT ![h] = made[h]]
          /\ UNCHANGED <<inode, registry, base, filed, closed, refs, inflight, fid, tries>>
          /\ UNCHANGED <<opened, writers, beside, opener>>
      BY <1>1 DEF CheckAttached, Moves, writeVars
    <2>2. made[h] \in Instance
      BY <2>1 DEF HandleTypeOK, StepsAgree, MakesOne
    <2>3. base[made[h]] = filed[made[h]]
      <3>1. base[made[h]] \in File \cup {NoInode} /\ inode \in File
        BY <2>2 DEF HandleTypeOK
      <3>2. filed[made[h]] = fid[h] /\ filed[made[h]] <= base[made[h]] /\ base[made[h]] <= inode
        <4>1. MakesOne(h)
          BY <2>1 DEF MakesOne
        <4> QED BY <4>1 DEF NewIsPrivate
      <3>3. base[made[h]] \in Nat /\ inode \in Nat
        BY <3>1, FileNumbers
      <3>4. inode <= base[made[h]] /\ base[made[h]] <= inode
        BY <1>1, <3>2
      <3>5. base[made[h]] = inode
        BY <3>3, <3>4
      <3> QED BY <1>1, <3>2, <3>5
    <2>4. HandleTypeOK'
      BY <2>1 DEF HandleTypeOK
    <2>5. StepsAgree'
      BY <2>1 DEF StepsAgree, MakesOne, Counted
    <2>6. RefsAgree'
      BY <2>1 DEF RefsAgree, Counted
    <2>7. NewIsPrivate'
      BY <2>1, <2>3 DEF StepsAgree, NewIsPrivate, OpenIsFound, ClosedCloses, MakesOne, Listed
    <2>8. ListedIsOpen'
      BY <2>1 DEF ListedIsOpen
    <2>9. OpenIsFound'
      BY <2>1 DEF OpenIsFound, Private
    <2>10. ClosedCloses'
      BY <2>1 DEF ClosedCloses
    <2>11. SweepAgrees'
      BY <2>1 DEF SweepAgrees, Listed
    <2>12. StatementsHaveABase'
      BY <2>1 DEF StatementsHaveABase
    <2> QED BY <2>4, <2>5, <2>6, <2>7, <2>8, <2>9, <2>10, <2>11, <2>12
  <1>2. CASE inode # fid[h]
    <2>1. /\ phase[h] = "made"
          /\ phase' = [phase EXCEPT ![h] = "idle"] /\ inst' = [inst EXCEPT ![h] = NoInstance]
          /\ made' = [made EXCEPT ![h] = NoInstance]
          /\ closed' = [closed EXCEPT ![made[h]] = TRUE] /\ base' = [base EXCEPT ![made[h]] = NoInode]
          /\ fid' = [fid EXCEPT ![h] = NoInode] /\ tries' = [tries EXCEPT ![h] = NextTry(@)]
          /\ UNCHANGED <<inode, registry, filed, refs, inflight>>
          /\ UNCHANGED <<opened, writers, beside, opener>>
      BY <1>2 DEF CheckAttached, Moves, Ends, Discard, writeVars
    <2>2. NextTry(tries[h]) \in 0..OpenRetries-1
      BY FirstTry DEF HandleTypeOK, NextTry
    <2>3. HandleTypeOK'
      BY <2>1, <2>2 DEF HandleTypeOK
    <2>4. StepsAgree'
      BY <2>1 DEF HandleTypeOK, StepsAgree, MakesOne, Counted
    <2>5. RefsAgree'
      BY <2>1 DEF RefsAgree, Counted
    <2>6. NewIsPrivate'
      BY <2>1 DEF HandleTypeOK, StepsAgree, NewIsPrivate, MakesOne, Listed
    <2>7. ListedIsOpen'
      BY <2>1 DEF NewIsPrivate, ListedIsOpen, MakesOne, Listed
    <2>8. OpenIsFound'
      BY <2>1 DEF HandleTypeOK, OpenIsFound, Private
    <2>9. ClosedCloses'
      BY <2>1 DEF HandleTypeOK, ClosedCloses
    <2>10. SweepAgrees'
      BY <2>1 DEF SweepAgrees, Listed
    <2>11. StatementsHaveABase'
      BY <2>1 DEF RefsAgree, NewIsPrivate, StatementsHaveABase, MakesOne
    <2> QED BY <2>3, <2>4, <2>5, <2>6, <2>7, <2>8, <2>9, <2>10, <2>11
  <1> QED BY <1>1, <1>2

\* It is registered, or gives way to one that is.
LEMMA FileInstanceKeeps ==
    ASSUME ReadersInv, NEW h \in Handle, FileInstance(h)
    PROVE  ReadersInv'
  <1> USE FileNumbers DEF ReadersInv
  <1>1. CASE Usable(registry[fid[h]])
    <2>1. /\ phase[h] = "file" /\ registry[fid[h]] # NoInstance /\ ~closed[registry[fid[h]]]
          /\ refs' = [refs EXCEPT ![registry[fid[h]]] = @ \cup {h}] /\ tries' = [tries EXCEPT ![h] = 0]
          /\ phase' = [phase EXCEPT ![h] = "lost"] /\ inst' = [inst EXCEPT ![h] = registry[fid[h]]]
          /\ made' = [made EXCEPT ![h] = made[h]]
          /\ UNCHANGED <<inode, registry, base, filed, closed, inflight, fid>>
          /\ UNCHANGED <<opened, writers, beside, opener>>
      BY <1>1 DEF FileInstance, Usable, Counts, Moves, writeVars
    <2>2. fid[h] \in File /\ registry[fid[h]] \in Instance
      BY <2>1 DEF HandleTypeOK, StepsAgree
    <2>3. /\ filed[registry[fid[h]]] = fid[h] /\ refs[registry[fid[h]]] # {}
          /\ Listed(registry[fid[h]])
      BY <2>1, <2>2 DEF ListedIsOpen, Listed
    <2>4. \A g \in Handle : MakesOne(g) => made[g] # registry[fid[h]]
      BY <2>3 DEF NewIsPrivate
    <2>5. HandleTypeOK'
      BY <2>1, <2>2, FirstTry DEF HandleTypeOK
    <2>6. StepsAgree'
      BY <2>1 DEF HandleTypeOK, StepsAgree, MakesOne, Counted
    <2>7. RefsAgree'
      BY <2>1, <2>2, <2>3 DEF HandleTypeOK, RefsAgree, Counted
    <2>8. NewIsPrivate'
      BY <2>1, <2>3, <2>4 DEF RefsAgree, NewIsPrivate, ListedIsOpen, OpenIsFound, ClosedCloses,
         SweepAgrees, MakesOne, Listed
    <2>9. ListedIsOpen'
      BY <2>1 DEF ListedIsOpen
    <2>10. OpenIsFound'
      BY <2>1 DEF OpenIsFound, Private
    <2>11. ClosedCloses'
      BY <2>1 DEF ClosedCloses
    <2>12. SweepAgrees'
      BY <2>1 DEF SweepAgrees, Listed
    <2>13. StatementsHaveABase'
      BY <2>1 DEF StatementsHaveABase
    <2> QED BY <2>5, <2>6, <2>7, <2>8, <2>9, <2>10, <2>11, <2>12, <2>13
  <1>2. CASE ~Usable(registry[fid[h]])
    <2>1. /\ phase[h] = "file" /\ (registry[fid[h]] = NoInstance \/ closed[registry[fid[h]]])
          /\ registry' = [registry EXCEPT ![fid[h]] = made[h]]
          /\ refs' = [refs EXCEPT ![made[h]] = @ \cup {h}] /\ tries' = [tries EXCEPT ![h] = 0]
          /\ phase' = [phase EXCEPT ![h] = "held"] /\ inst' = [inst EXCEPT ![h] = made[h]]
          /\ made' = [made EXCEPT ![h] = NoInstance]
          /\ UNCHANGED <<inode, base, filed, closed, inflight, fid>>
          /\ UNCHANGED <<opened, writers, beside, opener>>
      BY <1>2 DEF FileInstance, Usable, Counts, Moves, writeVars
    <2>2. fid[h] \in File /\ made[h] \in Instance
      BY <2>1 DEF HandleTypeOK, StepsAgree, MakesOne
    <2>3. HandleTypeOK'
      BY <2>1, <2>2, FirstTry DEF HandleTypeOK
    <2>4. StepsAgree'
      BY <2>1 DEF HandleTypeOK, StepsAgree, MakesOne, Counted
    <2>5. RefsAgree'
      BY <2>1 DEF HandleTypeOK, StepsAgree, RefsAgree, NewIsPrivate, MakesOne, Counted
    <2>6. NewIsPrivate'
      BY <2>1 DEF HandleTypeOK, StepsAgree, NewIsPrivate, MakesOne, Listed
    <2>7. ListedIsOpen'
      BY <2>1 DEF HandleTypeOK, RefsAgree, NewIsPrivate, ListedIsOpen, MakesOne
    <2>8. OpenIsFound'
      BY <2>1 DEF HandleTypeOK, StepsAgree, RefsAgree, NewIsPrivate, OpenIsFound, Private
    <2>9. ClosedCloses'
      BY <2>1 DEF ClosedCloses
    <2>10. SweepAgrees'
      BY <2>1 DEF NewIsPrivate, SweepAgrees, MakesOne, Listed
    <2>11. StatementsHaveABase'
      BY <2>1 DEF StatementsHaveABase
    <2> QED BY <2>3, <2>4, <2>5, <2>6, <2>7, <2>8, <2>9, <2>10, <2>11
  <1> QED BY <1>1, <1>2

\* Nobody else has an instance that gave way.
LEMMA DiscardLostKeeps ==
    ASSUME ReadersInv, NEW h \in Handle, DiscardLost(h)
    PROVE  ReadersInv'
  <1> USE FileNumbers DEF ReadersInv
  <1>0. HandleTypeOK'
    BY DEF HandleTypeOK, DiscardLost, writeVars, Moves, Discard
  <1>1. StepsAgree'
    BY DEF HandleTypeOK, DiscardLost, Moves, Discard, StepsAgree, MakesOne, Counted
  <1>2. RefsAgree'
    BY DEF DiscardLost, Moves, RefsAgree, Counted
  <1>3. NewIsPrivate'
    BY DEF HandleTypeOK, DiscardLost, writeVars, Moves, Discard, StepsAgree, NewIsPrivate,
       MakesOne, Listed
  <1>4. ListedIsOpen'
    <2>1. closed' = [closed EXCEPT ![made[h]] = TRUE] /\ UNCHANGED <<registry, filed, refs>>
      BY DEF DiscardLost, Discard
    <2>2. \A f \in File : registry[f] # made[h]
      BY DEF DiscardLost, NewIsPrivate, MakesOne, Listed
    <2> QED BY <2>1, <2>2 DEF HandleTypeOK, ListedIsOpen
  <1>5. OpenIsFound'
    BY DEF HandleTypeOK, DiscardLost, writeVars, Moves, Discard, OpenIsFound, Private
  <1>6. ClosedCloses'
    BY DEF HandleTypeOK, OpenOp, DiscardLost, writeVars, Moves, Discard, ClosedCloses
  <1>7. SweepAgrees'
    BY DEF DiscardLost, writeVars, Discard, SweepAgrees, Listed
  <1>8. StatementsHaveABase'
    BY DEF DiscardLost, Discard, NewIsPrivate, StatementsHaveABase, MakesOne
  <1> QED BY <1>0, <1>1, <1>2, <1>3, <1>4, <1>5, <1>6, <1>7, <1>8

\* A statement starts on an open instance, so on an open base.
LEMMA EnterKeeps ==
    ASSUME ReadersInv, NEW h \in Handle, Enter(h)
    PROVE  ReadersInv'
  <1> USE FileNumbers DEF ReadersInv
  <1>0. HandleTypeOK'
    BY DEF HandleTypeOK, Enter, writeVars, openVars
  <1>1. StepsAgree'
    BY DEF Enter, openVars, StepsAgree, MakesOne, Counted
  <1>2. RefsAgree'
    BY DEF Enter, openVars, RefsAgree, Counted
  <1>3. NewIsPrivate'
    BY DEF Enter, writeVars, openVars, NewIsPrivate, MakesOne, Listed
  <1>4. ListedIsOpen'
    BY DEF Enter, ListedIsOpen
  <1>5. OpenIsFound'
    BY DEF Enter, writeVars, openVars, OpenIsFound, Private
  <1>6. ClosedCloses'
    BY DEF Enter, writeVars, openVars, ClosedCloses
  <1>7. SweepAgrees'
    BY DEF Enter, writeVars, SweepAgrees, Listed
  <1>8. StatementsHaveABase'
    BY DEF Enter, StepsAgree, NewIsPrivate, OpenIsFound, StatementsHaveABase, Private
  <1> QED BY <1>0, <1>1, <1>2, <1>3, <1>4, <1>5, <1>6, <1>7, <1>8

\* The last statement of a closed instance closes the base.
LEMMA LeaveKeeps ==
    ASSUME ReadersInv, NEW h \in Handle, NEW i \in Instance, Leave(h, i)
    PROVE  ReadersInv'
  <1> USE FileNumbers DEF ReadersInv
  <1>0. HandleTypeOK'
    BY DEF HandleTypeOK, Leave, writeVars, openVars, CloseDrained
  <1>1. StepsAgree'
    BY DEF Leave, openVars, StepsAgree, MakesOne, Counted
  <1>2. RefsAgree'
    BY DEF Leave, openVars, RefsAgree, Counted
  <1>3. NewIsPrivate'
    BY DEF Leave, writeVars, openVars, CloseDrained, NewIsPrivate, MakesOne, Listed
  <1>4. ListedIsOpen'
    BY DEF Leave, ListedIsOpen
  <1>5. OpenIsFound'
    BY DEF Leave, writeVars, openVars, CloseDrained, OpenIsFound, Private
  <1>6. ClosedCloses'
    BY DEF HandleTypeOK, Leave, writeVars, openVars, CloseDrained, ClosedCloses
  <1>7. SweepAgrees'
    BY DEF Leave, writeVars, SweepAgrees, Listed
  <1>8. StatementsHaveABase'
    BY DEF HandleTypeOK, Leave, StatementsHaveABase
  <1> QED BY <1>0, <1>1, <1>2, <1>3, <1>4, <1>5, <1>6, <1>7, <1>8

\* The last handle closes its instance, and has its base to close.
LEMMA DropKeeps ==
    ASSUME ReadersInv, NEW h \in Handle, Drop(h)
    PROVE  ReadersInv'
  <1> USE FileNumbers DEF ReadersInv
  <1>1. CASE Last(h)
    <2>1. /\ phase[h] = "held" /\ refs[inst[h]] \subseteq {h} /\ ~closed[inst[h]]
          /\ refs' = [refs EXCEPT ![inst[h]] = @ \ {h}]
          /\ closed' = [closed EXCEPT ![inst[h]] = TRUE]
          /\ registry' = [f \in File |-> IF f = filed[inst[h]] /\ registry[f] = inst[h]
                                          THEN NoInstance ELSE registry[f]]
          /\ phase' = [phase EXCEPT ![h] = "last"] /\ inst' = [inst EXCEPT ![h] = inst[h]]
          /\ made' = [made EXCEPT ![h] = NoInstance]
          /\ fid' = [fid EXCEPT ![h] = NoInode]
          /\ UNCHANGED <<inode, base, filed, inflight, tries>>
          /\ UNCHANGED <<opened, writers, beside, opener>>
      BY <1>1 DEF Drop, Moves, Last, writeVars
    <2>2. HandleTypeOK'
      BY <2>1 DEF HandleTypeOK
    <2>3. StepsAgree'
      BY <2>1 DEF HandleTypeOK, StepsAgree, MakesOne, Counted
    <2>4. RefsAgree'
      BY <2>1 DEF HandleTypeOK, RefsAgree, Counted
    <2>5. NewIsPrivate'
      BY <2>1 DEF HandleTypeOK, StepsAgree, NewIsPrivate, MakesOne, Listed
    <2>6. ListedIsOpen'
      BY <2>1 DEF ListedIsOpen
    <2>7. OpenIsFound'
      BY <2>1 DEF HandleTypeOK, StepsAgree, OpenIsFound, MakesOne, Private
    <2>8. ClosedCloses'
      BY <2>1 DEF HandleTypeOK, ClosedCloses
    <2>9. SweepAgrees'
      BY <2>1 DEF HandleTypeOK, OpenOp, SweepAgrees, Listed
    <2>10. StatementsHaveABase'
      BY <2>1 DEF StatementsHaveABase
    <2> QED BY <2>2, <2>3, <2>4, <2>5, <2>6, <2>7, <2>8, <2>9, <2>10
  <1>2. CASE ~Last(h)
    <2>1. /\ phase[h] = "held" /\ (closed[inst[h]] \/ ~(refs[inst[h]] \subseteq {h}))
          /\ refs' = [refs EXCEPT ![inst[h]] = @ \ {h}]
          /\ phase' = [phase EXCEPT ![h] = "idle"] /\ inst' = [inst EXCEPT ![h] = NoInstance]
          /\ made' = [made EXCEPT ![h] = NoInstance]
          /\ fid' = [fid EXCEPT ![h] = NoInode]
          /\ UNCHANGED <<inode, registry, base, filed, closed, inflight, tries>>
          /\ UNCHANGED <<opened, writers, beside, opener>>
      BY <1>2 DEF Drop, Moves, Ends, Last, writeVars
    <2>2. HandleTypeOK'
      BY <2>1 DEF HandleTypeOK
    <2>3. StepsAgree'
      BY <2>1 DEF HandleTypeOK, StepsAgree, MakesOne, Counted
    <2>4. RefsAgree'
      BY <2>1 DEF HandleTypeOK, RefsAgree, Counted
    <2>5. NewIsPrivate'
      BY <2>1 DEF HandleTypeOK, StepsAgree, NewIsPrivate, MakesOne, Listed
    <2>6. ListedIsOpen'
      BY <2>1 DEF ListedIsOpen
    <2>7. OpenIsFound'
      BY <2>1 DEF StepsAgree, OpenIsFound, MakesOne, Private
    <2>8. ClosedCloses'
      BY <2>1 DEF ClosedCloses
    <2>9. SweepAgrees'
      BY <2>1 DEF SweepAgrees, Listed
    <2>10. StatementsHaveABase'
      BY <2>1 DEF StatementsHaveABase
    <2> QED BY <2>2, <2>3, <2>4, <2>5, <2>6, <2>7, <2>8, <2>9, <2>10
  <1> QED BY <1>1, <1>2

\* A base it leaves open has a statement, whose end closes it.
LEMMA CloseLastKeeps ==
    ASSUME ReadersInv, NEW h \in Handle, CloseLast(h)
    PROVE  ReadersInv'
  <1> USE FileNumbers DEF ReadersInv
  <1>0. HandleTypeOK'
    BY DEF HandleTypeOK, CloseLast, writeVars, Moves, Ends
  <1>1. StepsAgree'
    BY DEF HandleTypeOK, CloseLast, Moves, Ends, StepsAgree, MakesOne, Counted
  <1>2. RefsAgree'
    BY DEF CloseLast, Moves, Ends, RefsAgree, Counted
  <1>3. NewIsPrivate'
    BY DEF CloseLast, writeVars, Moves, Ends, StepsAgree, RefsAgree, NewIsPrivate, ClosedCloses,
       MakesOne, Counted, Listed
  <1>4. ListedIsOpen'
    BY DEF CloseLast, ListedIsOpen
  <1>5. OpenIsFound'
    BY DEF CloseLast, writeVars, Moves, Ends, StepsAgree, OpenIsFound, MakesOne, Private
  <1>6. ClosedCloses'
    BY DEF HandleTypeOK, CloseLast, writeVars, Moves, Ends, ClosedCloses
  <1>7. SweepAgrees'
    BY DEF CloseLast, writeVars, SweepAgrees, Listed
  <1>8. StatementsHaveABase'
    BY DEF CloseLast, StatementsHaveABase
  <1> QED BY <1>0, <1>1, <1>2, <1>3, <1>4, <1>5, <1>6, <1>7, <1>8

\* What a write open unregisters it has to close.
LEMMA TakeStaleKeeps ==
    ASSUME ReadersInv, TakeStale
    PROVE  ReadersInv'
  <1> USE FileNumbers DEF ReadersInv
  <1>0. HandleTypeOK'
    <2>1. UNCHANGED <<inode, base, filed, closed, refs, inflight, phase, fid, inst, made, tries, opened, beside>>
      BY DEF TakeStale, readVars, instanceVars, openVars
    <2>2. writers' \in [Connection -> File \cup {NoInode}]
      BY DEF HandleTypeOK, TakeStale
    <2>3. registry' \in [File -> Instance \cup {NoInstance}]
      BY DEF HandleTypeOK, TakeStale
    <2>4. opener' \in OpenOp
      BY DEF HandleTypeOK, OpenOp, TakeStale
    <2> QED BY <2>1, <2>2, <2>3, <2>4 DEF HandleTypeOK
  <1>1. StepsAgree'
    BY DEF TakeStale, readVars, instanceVars, openVars, StepsAgree, MakesOne, Counted
  <1>2. RefsAgree'
    BY DEF TakeStale, readVars, instanceVars, openVars, RefsAgree, Counted
  <1>3. NewIsPrivate'
    BY DEF TakeStale, readVars, instanceVars, openVars, StepsAgree, NewIsPrivate, MakesOne,
       Counted, Listed
  <1>4. ListedIsOpen'
    BY DEF TakeStale, readVars, instanceVars, ListedIsOpen
  <1>5. OpenIsFound'
    BY DEF HandleTypeOK, TakeStale, readVars, instanceVars, openVars, OpenIsFound, SweepAgrees,
       Private
  <1>6. ClosedCloses'
    BY DEF TakeStale, readVars, instanceVars, openVars, ClosedCloses
  <1>7. SweepAgrees'
    BY DEF TakeStale, SweepAgrees, Listed
  <1>8. StatementsHaveABase'
    BY DEF TakeStale, readVars, instanceVars, StatementsHaveABase
  <1> QED BY <1>0, <1>1, <1>2, <1>3, <1>4, <1>5, <1>6, <1>7, <1>8

\* What it has closed to newcomers is in its hands.
LEMMA ShutStaleKeeps ==
    ASSUME ReadersInv, NEW i \in Instance, ShutStale(i)
    PROVE  ReadersInv'
  <1> USE FileNumbers DEF ReadersInv
  <1>0. HandleTypeOK'
    BY DEF HandleTypeOK, OpenOp, ShutStale, openVars
  <1>1. StepsAgree'
    BY DEF ShutStale, openVars, StepsAgree, MakesOne, Counted
  <1>2. RefsAgree'
    BY DEF ShutStale, openVars, RefsAgree, Counted
  <1>3. NewIsPrivate'
    BY DEF ShutStale, openVars, NewIsPrivate, MakesOne, Listed
  <1>4. ListedIsOpen'
    BY DEF ShutStale, ListedIsOpen, SweepAgrees, Listed
  <1>5. OpenIsFound'
    BY DEF HandleTypeOK, ShutStale, openVars, OpenIsFound, Private
  <1>6. ClosedCloses'
    BY DEF ShutStale, openVars, ClosedCloses, SweepAgrees
  <1>7. SweepAgrees'
    BY DEF HandleTypeOK, ShutStale, SweepAgrees, Listed
  <1>8. StatementsHaveABase'
    BY DEF ShutStale, StatementsHaveABase
  <1> QED BY <1>0, <1>1, <1>2, <1>3, <1>4, <1>5, <1>6, <1>7, <1>8

\* A base it leaves open has a statement, whose end closes it.
LEMMA DrainKeeps ==
    ASSUME ReadersInv, Drain
    PROVE  ReadersInv'
  <1> USE FileNumbers DEF ReadersInv
  <1>0. HandleTypeOK'
    BY DEF HandleTypeOK, OpenOp, Drain, openVars
  <1>1. StepsAgree'
    BY DEF Drain, openVars, StepsAgree, MakesOne, Counted
  <1>2. RefsAgree'
    BY DEF Drain, openVars, RefsAgree, Counted
  <1>3. NewIsPrivate'
    BY DEF Drain, openVars, NewIsPrivate, SweepAgrees, MakesOne, Listed
  <1>4. ListedIsOpen'
    BY DEF Drain, ListedIsOpen
  <1>5. OpenIsFound'
    BY DEF Drain, openVars, OpenIsFound, SweepAgrees, Private
  <1>6. ClosedCloses'
    BY DEF HandleTypeOK, Drain, openVars, ClosedCloses
  <1>7. SweepAgrees'
    BY DEF Drain, SweepAgrees, Listed
  <1>8. StatementsHaveABase'
    BY DEF Drain, StatementsHaveABase
  <1> QED BY <1>0, <1>1, <1>2, <1>3, <1>4, <1>5, <1>6, <1>7, <1>8

\* The opener's steps that change no instance and leave what the sweep has to do.
SweepStays == /\ opener'.old = opener.old /\ opener'.inst = opener.inst
              /\ opener.step = "drain" <=> opener'.step = "drain"
              /\ opener.old # {} => opener'.step \in {"sweep", "drain"}
\* Such a step keeps what holds of the readers.
LEMMA OthersKeep ==
    ASSUME ReadersInv, HandleTypeOK', inode <= inode', UNCHANGED <<readVars, registry>>, SweepStays
    PROVE  ReadersInv'
  <1> USE FileNumbers DEF ReadersInv, SweepStays
  <1>0. UNCHANGED <<base, filed, closed, refs, inflight, phase, fid, inst, made, registry>>
    BY DEF readVars, instanceVars, openVars
  <1>1. StepsAgree'
    <2>1. inode \in Nat /\ inode' \in Nat /\ \A h \in Handle : fid[h] \in Nat
      BY DEF HandleTypeOK
    <2>2. \A h \in Handle : fid[h] <= inode => fid[h] <= inode'
      BY <2>1
    <2> QED BY <1>0, <2>2 DEF StepsAgree, MakesOne, Counted
  <1>2. RefsAgree'
    BY <1>0 DEF RefsAgree, Counted
  <1>2a. ListedIsOpen'
    BY <1>0 DEF ListedIsOpen
  <1>2b. StatementsHaveABase'
    BY <1>0 DEF StatementsHaveABase
  <1>3. NewIsPrivate'
    <2>1. inode \in Nat /\ inode' \in Nat /\ \A i \in Instance : base[i] \in Nat
      BY DEF HandleTypeOK
    <2>2. \A h \in Handle : MakesOne(h) => made[h] \in Instance
      BY DEF HandleTypeOK, StepsAgree
    <2>3. \A i \in Instance : base[i] <= inode => base[i] <= inode'
      BY <2>1
    <2> QED BY <1>0, <2>2, <2>3 DEF NewIsPrivate, MakesOne, Listed
  <1>4. OpenIsFound'
    BY <1>0 DEF OpenIsFound, Private
  <1>5. ClosedCloses'
    BY <1>0 DEF ClosedCloses
  <1>6. SweepAgrees'
    BY <1>0 DEF SweepAgrees, Listed
  <1> QED BY <1>1, <1>2, <1>2a, <1>2b, <1>3, <1>4, <1>5, <1>6

\* What the steps of the opener and a replaced file do to no instance.
LEMMA OpenerKeeps ==
    ASSUME ReadersInv,
           \/ ReplaceFile \/ StatBefore \/ Refused \/ CheckConnected \/ RegisterWriter \/ CloseReleased
           \/ \E c \in Connection : CloseStaleWriter(c) \/ Connect(c) \/ ReleaseWriter(c)
    PROVE  ReadersInv'
  <1> USE FileNumbers, RestIsTyped DEF ReadersInv, SweepStays
  <1>0. SweepAgrees /\ HandleTypeOK /\ inode \in Nat
    BY DEF HandleTypeOK
  <1>n. NoOpen.step \in {"idle", "retry"} /\ NoOpen.old = {} /\ NoOpen.inst = NoInstance
    BY NothingInHand DEF AtRest
  <1>1. CASE ReplaceFile
    <2>1. HandleTypeOK' /\ inode <= inode'
      BY <1>1, <1>0, HandleAssumption DEF ReplaceFile, HandleTypeOK, readVars, instanceVars,
         openVars,
                                          writeVars, File
    <2>2. UNCHANGED <<readVars, registry>> /\ SweepStays
      BY <1>1, <1>0 DEF ReplaceFile, writeVars, SweepAgrees
    <2> QED BY <2>1, <2>2, OthersKeep
  <1>2. CASE StatBefore \/ Refused \/ RegisterWriter \/ CloseReleased
    <2>1. UNCHANGED <<inode, readVars, registry>>
      BY <1>2 DEF StatBefore, Refused, RegisterWriter, CloseReleased
    <2>2. opener.step \in {"sweep", "connect", "register", "release"} /\ opener.old = {}
          /\ opener.inst = NoInstance
      BY <1>2, <1>0 DEF StatBefore, Refused, RegisterWriter, CloseReleased, SweepAgrees
    <2>3. opener'.step \in {"idle", "retry", "connect"} /\ opener'.old = {} /\ opener'.inst = NoInstance
      BY <1>2, <1>0, <1>n, <2>2 DEF StatBefore, Refused, RegisterWriter, CloseReleased,
         HandleTypeOK,
                                    OpenOp
    <2>4. HandleTypeOK'
      <3>1. CASE StatBefore
        BY <1>0, <3>1 DEF StatBefore, HandleTypeOK, OpenOp, readVars, instanceVars, openVars
      <3>2. CASE Refused
        BY <1>0, <3>2 DEF Refused, HandleTypeOK, readVars, instanceVars, openVars
      <3>3. CASE RegisterWriter
        BY <1>0, <3>3 DEF RegisterWriter, HandleTypeOK, OpenOp, readVars, instanceVars, openVars
      <3>4. CASE CloseReleased
        BY <1>0, <3>4 DEF CloseReleased, HandleTypeOK, readVars, instanceVars, openVars
      <3> QED BY <1>2, <3>1, <3>2, <3>3, <3>4
    <2> QED BY <1>0, <2>1, <2>2, <2>3, <2>4, OthersKeep
  <1>3. CASE CheckConnected
    <2>0. UNCHANGED <<inode, readVars, registry>> /\ opener.step = "recheck"
      BY <1>3 DEF CheckConnected
    <2>a. opener.old = {} /\ opener.inst = NoInstance
      BY <1>0, <2>0 DEF SweepAgrees
    <2>b. opener'.step \in {"register", "retry", "idle"} /\ opener'.old = {} /\ opener'.inst = NoInstance
      <3>1. CASE inode = opener.before
        BY <1>3, <1>0, <2>a, <3>1 DEF CheckConnected, HandleTypeOK, OpenOp
      <3>2. CASE inode # opener.before
        <4>1. AtRest(opener')
          <5>1. CASE opener.tries + 1 < OpenRetries
            <6>1. opener' = [NoOpen EXCEPT !.step = "retry", !.tries = opener.tries + 1]
              BY <1>3, <3>2, <5>1 DEF CheckConnected
            <6>2. AtRest([NoOpen EXCEPT !.step = "retry", !.tries = opener.tries + 1])
              BY NothingInHand
            <6> QED BY <6>1, <6>2
          <5>2. CASE ~(opener.tries + 1 < OpenRetries)
            <6>1. opener' = NoOpen
              BY <1>3, <3>2, <5>2 DEF CheckConnected
            <6> QED BY <6>1, NothingInHand
          <5> QED BY <5>1, <5>2
        <4> QED BY <4>1 DEF AtRest
      <3> QED BY <3>1, <3>2
    <2>1. UNCHANGED <<inode, readVars, registry>> /\ SweepStays
      BY <2>0, <2>a, <2>b
    <2>2. HandleTypeOK'
      <3>1. opened' \in [Connection -> File \cup {NoInode}] /\ writers' = writers /\ beside' = beside
        BY <1>3, <1>0 DEF CheckConnected, HandleTypeOK
      <3>2. opener' \in OpenOp
        <4>1. opener.tries \in 0..OpenRetries-1
          BY <1>0 DEF HandleTypeOK, OpenOp
        <4>2. CASE inode = opener.before
          BY <1>3, <1>0, <4>2 DEF CheckConnected, HandleTypeOK, OpenOp
        <4>3. CASE inode # opener.before /\ opener.tries + 1 < OpenRetries
          <5>1. opener' = [NoOpen EXCEPT !.step = "retry", !.tries = opener.tries + 1]
            BY <1>3, <4>3 DEF CheckConnected
          <5>2. opener.tries + 1 \in 0..OpenRetries-1
            BY <4>1, <4>3, FirstTry
          <5> QED BY <5>1, <5>2 DEF OpenOp, NoOpen
        <4>4. CASE inode # opener.before /\ ~(opener.tries + 1 < OpenRetries)
          BY <1>3, <4>4 DEF CheckConnected
        <4> QED BY <4>2, <4>3, <4>4
      <3> QED BY <1>0, <2>1, <3>1, <3>2 DEF HandleTypeOK, readVars, instanceVars, openVars
    <2> QED BY <1>0, <2>1, <2>2, OthersKeep
  <1>4. ASSUME NEW c \in Connection, CloseStaleWriter(c) \/ Connect(c) \/ ReleaseWriter(c)
        PROVE  ReadersInv'
    <2>1. UNCHANGED <<inode, readVars, registry>> /\ SweepStays
      <3>1. CASE CloseStaleWriter(c)
        BY <1>0, <3>1 DEF CloseStaleWriter, SweepAgrees, HandleTypeOK, OpenOp
      <3>2. CASE Connect(c)
        BY <1>0, <3>2 DEF Connect, SweepAgrees, HandleTypeOK, OpenOp
      <3>3. CASE ReleaseWriter(c)
        BY <1>0, <3>3 DEF ReleaseWriter, SweepAgrees, HandleTypeOK, OpenOp
      <3> QED BY <1>4, <3>1, <3>2, <3>3
    <2>2. /\ opened' \in [Connection -> File \cup {NoInode}]
          /\ writers' \in [Connection -> File \cup {NoInode}]
      <3>1. CASE CloseStaleWriter(c)
        BY <1>0, <3>1 DEF CloseStaleWriter, HandleTypeOK
      <3>2. CASE Connect(c)
        <4>1. PICK f \in File : opened' = [opened EXCEPT ![c] = f]
          BY <3>2 DEF Connect
        <4>2. UNCHANGED writers
          BY <3>2 DEF Connect
        <4> QED BY <1>0, <4>1, <4>2 DEF HandleTypeOK
      <3>3. CASE ReleaseWriter(c)
        BY <1>0, <3>3 DEF ReleaseWriter, HandleTypeOK
      <3> QED BY <1>4, <3>1, <3>2, <3>3
    <2>3. opener' \in OpenOp
      <3>1. CASE CloseStaleWriter(c)
        BY <1>0, <3>1 DEF CloseStaleWriter, HandleTypeOK, OpenOp
      <3>2. CASE Connect(c)
        BY <1>0, <3>2 DEF Connect, HandleTypeOK, OpenOp
      <3>3. CASE ReleaseWriter(c)
        BY <1>0, <3>3 DEF ReleaseWriter, HandleTypeOK, OpenOp
      <3> QED BY <1>4, <3>1, <3>2, <3>3
    <2>4. beside' \subseteq Connection
      <3>1. beside' = beside \/ beside' = beside \ {c} \/ beside' = beside \cup {c}
        BY <1>4 DEF CloseStaleWriter, Connect, ReleaseWriter
      <3> QED BY <1>0, <3>1 DEF HandleTypeOK
    <2>5. HandleTypeOK'
      BY <1>0, <2>1, <2>2, <2>3, <2>4 DEF HandleTypeOK, readVars, instanceVars, openVars
    <2> QED BY <1>0, <2>1, <2>5, OthersKeep
  <1> QED BY <1>1, <1>2, <1>3, <1>4

\* Every step keeps what holds of the readers.
LEMMA ReadersInvHolds == HandleSpec => []ReadersInv
  <1>1. HandleInit => ReadersInv
    BY FileNumbers, FirstTry, RestIsTyped, HandleAssumption
       DEF HandleInit, ReadersInv, HandleTypeOK, StepsAgree, RefsAgree, NewIsPrivate, ListedIsOpen,
           OpenIsFound, ClosedCloses, SweepAgrees, StatementsHaveABase, MakesOne, Counted, Listed,
           Private, NoOpen, File
  <1>2. ReadersInv /\ [HandleNext]_handleVars => ReadersInv'
    <2> SUFFICES ASSUME ReadersInv, [HandleNext]_handleVars PROVE ReadersInv'
      OBVIOUS
    <2>1. ASSUME NEW h \in Handle, HandleStep(h) PROVE ReadersInv'
      BY <2>1, LookUpKeeps, ShareKeeps, AttachKeeps, AttachRefusedKeeps, CheckAttachedKeeps,
         FileInstanceKeeps, DiscardLostKeeps, EnterKeeps, LeaveKeeps, DropKeeps, CloseLastKeeps
         DEF HandleStep
    <2>2. CASE OpenerStep
      BY <2>2, OpenerKeeps, TakeStaleKeeps, ShutStaleKeeps, DrainKeeps DEF OpenerStep
    <2>3. CASE UNCHANGED handleVars
      BY <2>3 DEF handleVars, readVars, writeVars, instanceVars, openVars, ReadersInv, HandleTypeOK,
                  StepsAgree, RefsAgree, NewIsPrivate, ListedIsOpen, OpenIsFound, ClosedCloses,
                  SweepAgrees, StatementsHaveABase, MakesOne, Counted, Listed, Private
    <2> QED BY <2>1, <2>2, <2>3, OpenerKeeps DEF HandleNext
  <1> QED BY <1>1, <1>2, PTL DEF HandleSpec

(***************************************************************************)
(* Every open, close, statement and write open keeps the types.            *)
(***************************************************************************)
THEOREM HandlesTypeCorrect == HandleSpec => []HandleTypeOK
  <1>1. ReadersInv => HandleTypeOK
    BY DEF ReadersInv
  <1> QED BY <1>1, ReadersInvHolds, PTL

(***************************************************************************)
(* No statement ever runs on a closed base, for any readers, instances,    *)
(* write opens and replaced files, and wherever the drain times out.       *)
(***************************************************************************)
THEOREM NoStatementLosesItsBase == HandleSpec => []StatementsHaveABase
  <1>1. ReadersInv => StatementsHaveABase
    BY DEF ReadersInv
  <1> QED BY <1>1, ReadersInvHolds, PTL

(***************************************************************************)
(* No base is left open with nobody to find it or to close it.             *)
(***************************************************************************)
THEOREM NoBaseLeaks == HandleSpec => []BasesAreAccountedFor
  <1>1. ReadersInv => BasesAreAccountedFor
    <2> SUFFICES ASSUME ReadersInv, NEW i \in Instance, base[i] # NoInode
                 PROVE  \/ Found(i)
                        \/ closed[i] /\ inflight[i] # {}
                        \/ opener.inst = i
                        \/ \E h \in Handle : phase[h] \in {"made", "file", "lost"} /\ made[h] = i
                        \/ \E h \in Handle : phase[h] = "last" /\ inst[h] = i
      BY DEF BasesAreAccountedFor, Attached
    <2>1. CASE closed[i]
      BY <2>1 DEF ReadersInv, ClosedCloses
    <2>2. CASE Private(i)
      BY <2>2, FileNumbers DEF ReadersInv, StepsAgree, MakesOne, Private
    <2>3. CASE ~closed[i] /\ ~Private(i)
      BY <2>3 DEF ReadersInv, OpenIsFound, Found
    <2> QED BY <2>1, <2>2, <2>3
  <1> QED BY <1>1, ReadersInvHolds, PTL

(***************************************************************************)
(* Readers of one file share one instance, however their opens overlap.    *)
(***************************************************************************)
THEOREM InstancesAreShared == HandleSpec => []OneInstancePerFile
  <1>1. ReadersInv => OneInstancePerFile
    <2> SUFFICES ASSUME ReadersInv, NEW i \in Instance, NEW j \in Instance,
                        {i, j} \cap opener.old = {}, ~closed[i], ~closed[j],
                        refs[i] # {}, refs[j] # {}, filed[i] = filed[j]
                 PROVE  i = j
      BY DEF OneInstancePerFile
    <2>1. ~Private(i) /\ ~Private(j)
      BY FileNumbers DEF ReadersInv, NewIsPrivate, StepsAgree, Private
    <2>2. registry[filed[i]] = i /\ registry[filed[j]] = j
      BY <2>1 DEF ReadersInv, OpenIsFound
    <2> QED BY <2>2
  <1> QED BY <1>1, ReadersInvHolds, PTL

(***************************************************************************)
(* A handle reads the file its own open found at the path, whether it      *)
(* shares an instance or made one, and whatever was replaced meanwhile.    *)
(***************************************************************************)
THEOREM ReadersAreCurrent == HandleSpec => []ReadersSeeTheFileTheyLookedUp
  <1>1. ReadersInv => ReadersSeeTheFileTheyLookedUp
    <2> SUFFICES ASSUME ReadersInv, NEW h \in Handle, Counted(h), ~closed[inst[h]]
                 PROVE  base[inst[h]] = fid[h]
      BY DEF ReadersSeeTheFileTheyLookedUp, Counted
    <2>1. inst[h] \in Instance /\ h \in refs[inst[h]] /\ filed[inst[h]] = fid[h]
      BY DEF ReadersInv, HandleTypeOK, StepsAgree, RefsAgree
    <2>2. ~Private(inst[h])
      BY <2>1, FileNumbers DEF ReadersInv, NewIsPrivate, StepsAgree, Private
    <2> QED BY <2>1, <2>2 DEF ReadersInv, OpenIsFound
  <1> QED BY <1>1, ReadersInvHolds, PTL

-----------------------------------------------------------------------------
\* Every step keeps what holds of write connections.
LEMMA WritersInvHolds == HandleSpec => []WritersInv
  <1> USE FileNumbers
  <1>1. HandleInit => WritersInv
    BY HandleAssumption DEF HandleInit, WritersInv, WritersAreListedUnderTheirFile, Live, NoOpen,
       File
  <1>2. HandleTypeOK /\ WritersInv /\ [HandleNext]_handleVars => WritersInv'
    <2> SUFFICES ASSUME HandleTypeOK, WritersInv, [HandleNext]_handleVars PROVE WritersInv'
      OBVIOUS
    <2> USE DEF WritersInv, WritersAreListedUnderTheirFile, Live
    <2>0. inode \in Nat /\ \A c \in Connection : opened[c] \in Nat /\ writers[c] \in Nat
      BY DEF HandleTypeOK
    <2>1. CASE ReplaceFile
      <3>1. inode' = inode + 1 /\ UNCHANGED <<opened, writers, beside, opener>>
        BY <2>1 DEF ReplaceFile, writeVars
      <3>2. opener.before \in File => opener.before \in Nat
        OBVIOUS
      <3> QED BY <2>0, <3>1, <3>2
    <2>2. ASSUME NEW h \in Handle, HandleStep(h) PROVE UNCHANGED <<inode, writeVars>>
      BY <2>2 DEF HandleStep, LookUp, Share, Attach, AttachRefused, CheckAttached, FileInstance,
                  DiscardLost, Enter, Leave, Drop, CloseLast
    <2>3. CASE UNCHANGED <<inode, writeVars>>
      BY <2>3 DEF writeVars
    <2>4. CASE TakeStale
      BY <2>0, <2>4 DEF TakeStale, HandleTypeOK, OpenOp
    <2>5. CASE Drain
      BY <2>0, <2>5 DEF Drain, HandleTypeOK, OpenOp
    <2>5b. CASE StatBefore
      BY <2>0, <2>5b DEF StatBefore, HandleTypeOK, OpenOp
    <2>5a. CASE Refused
      BY <2>0, <2>5a DEF Refused, NoOpen, HandleTypeOK, OpenOp
    <2>6. CASE CheckConnected
      <3>1. CASE inode = opener.before
        <4>1. /\ opener.step = "recheck" /\ opener'.step = "register"
              /\ opener'.conns = opener.conns /\ opener'.conn = opener.conn
              /\ opener'.before = opener.before /\ UNCHANGED <<inode, writers, beside, opened>>
          BY <2>6, <3>1 DEF CheckConnected, HandleTypeOK, OpenOp
        <4>2. \A c \in opener.conn \ beside : c \in Connection /\ opener.before <= opened[c]
          BY <4>1 DEF HandleTypeOK, OpenOp
        <4>3. \A c \in opener.conn \ beside : opener.before = opened[c]
          BY <2>0, <3>1, <4>2
        <4> QED BY <2>0, <4>1, <4>3
      <3>2. CASE inode # opener.before
        <4>1. /\ opener.step = "recheck"
              /\ opened' = [c \in Connection |-> IF c \in opener.conn THEN NoInode ELSE opened[c]]
              /\ UNCHANGED <<inode, writers, beside>>
          BY <2>6, <3>2 DEF CheckConnected
        <4>2. AtRest(opener')
          <5>1. CASE opener.tries + 1 < OpenRetries
            <6>1. opener' = [NoOpen EXCEPT !.step = "retry", !.tries = opener.tries + 1]
              BY <2>6, <3>2, <5>1 DEF CheckConnected
            <6>2. AtRest([NoOpen EXCEPT !.step = "retry", !.tries = opener.tries + 1])
              BY NothingInHand
            <6> QED BY <6>1, <6>2
          <5>2. CASE ~(opener.tries + 1 < OpenRetries)
            <6>1. opener' = NoOpen
              BY <2>6, <3>2, <5>2 DEF CheckConnected
            <6> QED BY <6>1, NothingInHand
          <5> QED BY <5>1, <5>2
        <4>3. opener'.step \in {"idle", "retry"} /\ opener'.conns = {} /\ opener'.conn = {}
          BY <4>2 DEF AtRest
        <4> QED BY <2>0, <4>1, <4>3 DEF HandleTypeOK, OpenOp
      <3> QED BY <3>1, <3>2
    <2>7. CASE RegisterWriter
      BY <2>0, <2>7 DEF RegisterWriter, NoOpen, HandleTypeOK, OpenOp
    <2>8. CASE CloseReleased
      <3>1. /\ opener.step = "release" /\ UNCHANGED <<inode, writers, beside>>
            /\ opened' = [c \in Connection |-> IF c \in opener.conn THEN NoInode ELSE opened[c]]
            /\ opener' = NoOpen
        BY <2>8 DEF CloseReleased
      <3>2. opener'.step = "idle" /\ opener'.conns = {} /\ opener'.conn = {}
        BY <3>1, NothingInHand DEF AtRest
      <3> QED BY <2>0, <3>1, <3>2
    <2>9. ASSUME NEW c \in Connection, CloseStaleWriter(c) PROVE WritersInv'
      BY <2>0, <2>9 DEF CloseStaleWriter, HandleTypeOK, OpenOp
    <2>10. ASSUME NEW c \in Connection, Connect(c) PROVE WritersInv'
      BY <2>0, <2>10 DEF Connect, HandleTypeOK, OpenOp
    <2>11. ASSUME NEW c \in Connection, ReleaseWriter(c) PROVE WritersInv'
      BY <2>0, <2>11 DEF ReleaseWriter, HandleTypeOK, OpenOp
    <2>12. ASSUME NEW i \in Instance, ShutStale(i) PROVE WritersInv'
      BY <2>0, <2>12 DEF ShutStale, HandleTypeOK, OpenOp
    <2>13. handleVars' = handleVars => UNCHANGED <<inode, writeVars>>
      BY DEF handleVars
    <2> QED BY <2>1, <2>2, <2>3, <2>4, <2>5, <2>5a, <2>5b, <2>6, <2>7, <2>8, <2>9, <2>10, <2>11,
               <2>12, <2>13
            DEF HandleNext, OpenerStep
  <1> QED BY <1>1, <1>2, HandlesTypeCorrect, PTL DEF HandleSpec

(***************************************************************************)
(* A write connection made beside no other, as the daemon makes them since *)
(* it closes its own first, is listed under the file it has open, whenever *)
(* files are replaced.                                                     *)
(***************************************************************************)
THEOREM WritersAreCurrent == HandleSpec => []WritersAreListedUnderTheirFile
  <1>1. WritersInv => WritersAreListedUnderTheirFile
    BY DEF WritersInv
  <1> QED BY <1>1, WritersInvHolds, PTL

(***************************************************************************)
(* The five properties of open_duckdb, read-only and write opens together. *)
(***************************************************************************)
THEOREM ConnectionsAreAccounted == HandleSpec => []ConnectionsAccounted
  <1>1. StatementsHaveABase /\ BasesAreAccountedFor /\ OneInstancePerFile
          /\ ReadersSeeTheFileTheyLookedUp /\ WritersAreListedUnderTheirFile
        => ConnectionsAccounted
    BY DEF ConnectionsAccounted
  <1> QED BY <1>1, NoStatementLosesItsBase, NoBaseLeaks, InstancesAreShared, ReadersAreCurrent,
             WritersAreCurrent, PTL

-----------------------------------------------------------------------------
(* NEIGHBORS *)

(***************************************************************************)
(* The search of neighbors, for any ids, rows, noise and depth. After each *)
(* round what was found is what so many hops lead to, and only the         *)
(* frontier may lead further (`SearchInv'). A search that ends early has   *)
(* found a set no link leaves; a walk out of it would have a first step    *)
(* out (`ClosedHoldsAll').                                                 *)
(***************************************************************************)

\* What has been found is what so many hops lead to, and only the frontier may
\* lead further.
SearchInv ==
    /\ NeighborsTypeOK
    /\ seen = Within(round)
    /\ frontier \subseteq seen
    /\ \A i \in seen \ frontier : links[i] \ noise \subseteq seen
    /\ NeighborsAreWithinDepth

\* A set of numbers that is not empty has a least one.
LEMMA SomeLeast ==
  ASSUME NEW S, S \subseteq Nat, S # {}
  PROVE  \E n \in S : \A m \in S : n <= m
  <1>1. PICK n \in S : \A m \in S : ~ (<<m, n>> \in OpToRel(<, Nat))
    BY WFMin, NatLessThanWellFounded
  <1>2. ASSUME NEW m \in S, ~ (n <= m) PROVE FALSE
    <2>1. <<m, n>> \in Nat \X Nat /\ m < n
      BY <1>2
    <2>2. <<m, n>> \in OpToRel(<, Nat)
      BY <2>1 DEF OpToRel
    <2> QED BY <1>1, <2>2
  <1> QED BY <1>2

\* The seeds are what no hop leads to.
LEMMA WithinNone ==
  ASSUME seeds \subseteq Id
  PROVE  Within(0) = seeds
  <1>1. ASSUME NEW i \in seeds PROVE i \in Within(0)
    <2>1. [j \in 0..0 |-> i] \in [0..0 -> Id] /\ IsWalk([j \in 0..0 |-> i], 0)
      BY <1>1 DEF IsWalk
    <2> QED BY <2>1 DEF Within
  <1>2. ASSUME NEW i \in Within(0) PROVE i \in seeds
    BY <1>2 DEF Within, IsWalk
  <1> QED BY <1>1, <1>2

\* More hops lead no less far.
LEMMA WithinGrows ==
  ASSUME NEW n \in Nat, NEW m \in Nat, n <= m
  PROVE  Within(n) \subseteq Within(m)
  <1>1. 0..n \subseteq 0..m
    OBVIOUS
  <1> QED BY <1>1 DEF Within

\* One more link makes a walk longer by one.
LEMMA WalkGoesOn ==
  ASSUME NEW n \in Nat, NEW i \in Within(n), NEW x \in links[i] \ noise, x \in Id
  PROVE  x \in Within(n + 1)
  <1>0. PICK k \in 0..n : \E w \in [0..k -> Id] : IsWalk(w, k) /\ w[k] = i
    BY DEF Within
  <1>1. PICK w \in [0..k -> Id] : IsWalk(w, k) /\ w[k] = i
    BY <1>0
  <1> DEFINE v == [j \in 0..k+1 |-> IF j = k + 1 THEN x ELSE w[j]]
  <1>2. k + 1 \in 0..n+1 /\ k \in Nat
    OBVIOUS
  <1>3. v \in [0..k+1 -> Id]
    BY <1>2
  <1>4. IsWalk(v, k + 1)
    <2>1. v[0] \in seeds
      BY <1>1, <1>2 DEF IsWalk
    <2>2. ASSUME NEW j \in 1..k+1 PROVE v[j] \in links[v[j-1]] \ noise
      <3>1. CASE j = k + 1
        <4>1. v[j] = x /\ v[j-1] = i
          BY <1>1, <1>2, <3>1
        <4> QED BY <4>1
      <3>2. CASE j # k + 1
        <4>1. j \in 1..k /\ v[j] = w[j] /\ v[j-1] = w[j-1]
          BY <1>2, <3>2
        <4> QED BY <1>1, <4>1 DEF IsWalk
      <3> QED BY <3>1, <3>2
    <2> QED BY <2>1, <2>2 DEF IsWalk
  <1>5. v[k+1] = x
    BY <1>2
  <1> QED BY <1>2, <1>3, <1>4, <1>5 DEF Within

\* The last link of a walk, if it has one.
LEMMA WalkComesFrom ==
  ASSUME NEW n \in Nat, NEW x \in Within(n + 1)
  PROVE  x \in Within(n) \/ \E i \in Within(n) : x \in links[i] \ noise
  <1>0. PICK k \in 0..n+1 : \E w \in [0..k -> Id] : IsWalk(w, k) /\ w[k] = x
    BY DEF Within
  <1>1. PICK w \in [0..k -> Id] : IsWalk(w, k) /\ w[k] = x
    BY <1>0
  <1>2. CASE k <= n
    <2>1. k \in 0..n
      BY <1>2
    <2> QED BY <1>1, <2>1 DEF Within
  <1>3. CASE k = n + 1
    <2> DEFINE v == [j \in 0..n |-> w[j]]
    <2>1. v \in [0..n -> Id] /\ \A j \in 0..n : v[j] = w[j]
      BY <1>3
    <2>2. IsWalk(v, n)
      BY <1>1, <1>3, <2>1 DEF IsWalk
    <2>3. v[n] \in Within(n)
      BY <2>1, <2>2 DEF Within
    <2>4. x \in links[v[n]] \ noise
      BY <1>1, <1>3, <2>1 DEF IsWalk
    <2> QED BY <2>3, <2>4
  <1> QED BY <1>2, <1>3

\* Walks are of the request, which no step changes.
LEMMA WithinStays ==
  ASSUME UNCHANGED <<links, noise, seeds>>
  PROVE  Within(depth)' = Within(depth') /\ Within(round)' = Within(round')
  BY DEF Within, IsWalk

\* A set with the seeds that no link leaves holds all that walks lead to: else
\* there were a first step out of it.
LEMMA ClosedHoldsAll ==
  ASSUME NEW S, seeds \subseteq S, \A i \in S : links[i] \ noise \subseteq S, NEW n \in Nat
  PROVE  Within(n) \subseteq S
  <1> SUFFICES ASSUME NEW x \in Within(n), x \notin S PROVE FALSE
    OBVIOUS
  <1>0. PICK k \in 0..n : \E w \in [0..k -> Id] : IsWalk(w, k) /\ w[k] = x
    BY DEF Within
  <1>1. PICK w \in [0..k -> Id] : IsWalk(w, k) /\ w[k] = x
    BY <1>0
  <1> DEFINE out == {j \in 0..k : w[j] \notin S}
  <1>2. PICK j \in out : \A m \in out : j <= m
    <2>1. out \subseteq Nat /\ k \in out
      BY <1>1
    <2> HIDE DEF out
    <2> QED BY <2>1, SomeLeast
  <1>3. j # 0
    BY <1>1 DEF IsWalk
  <1>4. j \in 1..k /\ j - 1 \in 0..k /\ ~(j <= j - 1)
    BY <1>3
  <1>5. w[j-1] \in S
    BY <1>2, <1>4
  <1>6. w[j] \in links[w[j-1]] \ noise
    BY <1>1, <1>4 DEF IsWalk
  <1> QED BY <1>5, <1>6

\* What the next round finds, said of one id.
LEMMA NextFrontierIs ==
  ASSUME NEW x
  PROVE  x \in NextFrontier <=> x \notin seen \cup noise /\ \E i \in frontier : x \in links[i]
  <1> DEFINE rows == UNION {links[i] : i \in frontier}
  <1>1. x \in rows <=> \E i \in frontier : x \in links[i]
    OBVIOUS
  <1>2. NextFrontier = rows \ (seen \cup noise)
    BY DEF NextFrontier
  <1> QED BY <1>1, <1>2, Zenon

\* Every round keeps to what its hops lead to.
LEMMA SearchInvHolds == NeighborsSpec => []SearchInv
  <1>1. NeighborsInit => SearchInv
    <2> SUFFICES ASSUME NeighborsInit PROVE SearchInv
      OBVIOUS
    <2>1. NeighborsTypeOK
      <3>1. 0 \in 0..depth
        BY DepthAssumption DEF NeighborsInit
      <3> QED BY <3>1 DEF NeighborsInit, NeighborsTypeOK
    <2>2. seen = Within(round)
      BY WithinNone DEF NeighborsInit
    <2> QED BY <2>1, <2>2 DEF NeighborsInit, SearchInv, NeighborsAreWithinDepth
  <1>2. SearchInv /\ [NeighborsNext]_neighborsVars => SearchInv'
    <2> SUFFICES ASSUME SearchInv, [NeighborsNext]_neighborsVars PROVE SearchInv'
      OBVIOUS
    <2>0. NeighborsTypeOK /\ depth \in Nat /\ round \in Nat /\ seen = Within(round)
      BY DepthAssumption DEF SearchInv, NeighborsTypeOK
    <2>a. NextFrontier \subseteq Id
      BY <2>0 DEF NextFrontier, NeighborsTypeOK
    <2>1. CASE Round
      <3>0. /\ ~returned /\ round < depth /\ UNCHANGED <<links, noise, seeds, depth, answer, returned>>
            /\ seen' = seen \cup NextFrontier /\ frontier' = NextFrontier /\ round' = round + 1
        BY <2>1 DEF Round, request
      <3>1. NeighborsTypeOK'
        BY <2>0, <2>a, <3>0 DEF NeighborsTypeOK
      <3>2. seen \cup NextFrontier = Within(round + 1)
        <4>1. ASSUME NEW x \in NextFrontier PROVE x \in Within(round + 1)
          <5>1. PICK i \in frontier : x \in links[i] \ noise
            BY <4>1 DEF NextFrontier
          <5>2. i \in Within(round) /\ x \in Id
            BY <2>0, <2>a, <5>1 DEF SearchInv
          <5> QED BY <2>0, <5>1, <5>2, WalkGoesOn
        <4>2. seen \subseteq Within(round + 1)
          BY <2>0, WithinGrows
        <4>3. ASSUME NEW x \in Within(round + 1) PROVE x \in seen \cup NextFrontier
          <5>1. CASE x \in Within(round)
            BY <2>0, <5>1
          <5>2. ASSUME NEW i \in Within(round), x \in links[i] \ noise PROVE x \in seen \cup NextFrontier
            <6>1. CASE i \in frontier
              BY <5>2, <6>1, NextFrontierIs
            <6>2. CASE i \in seen \ frontier
              BY <5>2, <6>2 DEF SearchInv
            <6> QED BY <2>0, <5>2, <6>1, <6>2
          <5> QED BY <2>0, <5>1, <5>2, WalkComesFrom
        <4> QED BY <4>1, <4>2, <4>3
      <3>3. Within(round)' = Within(round + 1)
        BY <3>0, WithinStays
      <3>4. ASSUME NEW i \in seen' \ frontier', NEW x \in links[i] \ noise PROVE x \in seen'
        <4>1. CASE i \in frontier
          BY <3>0, <3>4, <4>1, NextFrontierIs
        <4>2. CASE i \in seen \ frontier
          BY <3>0, <3>4, <4>2 DEF SearchInv
        <4> QED BY <3>0, <3>4, <4>1, <4>2
      <3>5. \A i \in seen' \ frontier' : (links[i] \ noise)' \subseteq seen'
        BY <3>0, <3>4
      <3>6. frontier' \subseteq seen'
        BY <3>0
      <3>7. NeighborsAreWithinDepth'
        BY <3>0 DEF NeighborsAreWithinDepth
      <3> QED BY <3>0, <3>1, <3>2, <3>3, <3>5, <3>6, <3>7 DEF SearchInv
    <2>2. CASE Return
      <3>0. /\ answer' = seen \ seeds
            /\ UNCHANGED <<links, noise, seeds, depth, round, frontier, seen>>
            /\ round = depth \/ NextFrontier = {}
            /\ returned' = TRUE
        BY <2>2 DEF Return, request
      <3>1. seen = Within(depth)
        <4>1. CASE round = depth
          BY <2>0, <4>1
        <4>2. CASE NextFrontier = {}
          <5>1. \A i \in seen : links[i] \ noise \subseteq seen
            <6> SUFFICES ASSUME NEW i \in seen, NEW x \in links[i] \ noise PROVE x \in seen
              OBVIOUS
            <6>1. CASE i \in frontier
              BY <4>2, <6>1, NextFrontierIs
            <6>2. CASE i \notin frontier
              BY <6>2 DEF SearchInv
            <6> QED BY <6>1, <6>2
          <5>2. seeds \subseteq seen
            <6>1. Within(0) = seeds /\ Within(0) \subseteq Within(round)
              BY <2>0, WithinNone, WithinGrows DEF NeighborsTypeOK
            <6> QED BY <2>0, <6>1
          <5>3. Within(depth) \subseteq seen
            BY <2>0, <5>1, <5>2, ClosedHoldsAll
          <5>4. Within(round) \subseteq Within(depth)
            BY <2>0, WithinGrows DEF NeighborsTypeOK
          <5> QED BY <2>0, <5>3, <5>4
        <4> QED BY <3>0, <4>1, <4>2
      <3>2. Within(depth)' = Within(depth) /\ Within(round)' = Within(round)
        BY <3>0, WithinStays
      <3>3. NeighborsTypeOK'
        BY <2>0, <3>0 DEF NeighborsTypeOK
      <3> QED BY <3>0, <3>1, <3>2, <3>3 DEF SearchInv, NeighborsAreWithinDepth
    <2>3. CASE UNCHANGED neighborsVars
      <3>1. UNCHANGED <<links, noise, seeds, depth, round, frontier, seen, answer, returned>>
        BY <2>3 DEF neighborsVars, request
      <3>2. Within(depth)' = Within(depth) /\ Within(round)' = Within(round)
        BY <3>1, WithinStays
      <3>3. NeighborsTypeOK'
        BY <2>0, <3>1 DEF NeighborsTypeOK
      <3> QED BY <3>1, <3>2, <3>3 DEF SearchInv, NeighborsAreWithinDepth
    <2> QED BY <2>1, <2>2, <2>3 DEF NeighborsNext
  <1> QED BY <1>1, <1>2, PTL DEF NeighborsSpec

(***************************************************************************)
(* A search of neighbors stays within its rounds.                          *)
(***************************************************************************)
THEOREM NeighborsTypeCorrect == NeighborsSpec => []NeighborsTypeOK
  <1>1. SearchInv => NeighborsTypeOK
    BY DEF SearchInv
  <1> QED BY <1>1, SearchInvHolds, PTL

(***************************************************************************)
(* Its answer is what so many hops lead to past no noise, for any links,   *)
(* cycles included, any seeds and any depth.                               *)
(***************************************************************************)
THEOREM SearchFindsWhatIsNear == NeighborsSpec => []NeighborsAreWithinDepth
  <1>1. SearchInv => NeighborsAreWithinDepth
    BY DEF SearchInv
  <1> QED BY <1>1, SearchInvHolds, PTL

-----------------------------------------------------------------------------
(* THE QUERY LANGUAGE *)

(***************************************************************************)
(* The parser is sound, for queries of any length. Its pending calls have  *)
(* their tokens in the query one after the other, and the left operand of  *)
(* each is a phrase between two of them (`Frames'); the value at hand is a *)
(* meaning of all that comes after the last (`AtHand'). Meanings are those *)
(* of any reading that is closed under the grammar, which needs no         *)
(* recursion.                                                              *)
(***************************************************************************)

\* A reading of the tokens gives phrases their meanings, all that the grammar does
\* at least; the least reading gives just those.
Reading(D) == /\ D \in [Phrase -> SUBSET SUBSET Entity]
              /\ \A r \in Rule, a, b \in Place : Meanings(D, r, a, b) \subseteq D[<<r, a, b>>]

\* at[k] is where the token of the k-th pending call stands: its left operand, if it
\* has one, is all between the token of the call before and its own.
After(at, k) == IF k = 0 THEN 1 ELSE at[k] + 1
FrameAt(D, at, k) ==
    /\ After(at, k-1) <= at[k] /\ toks[at[k]] = stack[k].kind
    /\ stack[k].kind \in {"not", "("} => at[k] = After(at, k-1)
    /\ stack[k].kind \in {"and", "or"} =>
          /\ After(at, k-1) < at[k]
          /\ stack[k].left \in D[<<stack[k].kind, After(at, k-1), at[k] - 1>>]
Frames(D, at) ==
    /\ at \in Seq(Place) /\ Len(at) = Len(stack)
    /\ \A k \in 1..Len(stack) : FrameAt(D, at, k)

\* The value at hand is what the tokens since then mean.
AtHand(D, b) ==
    /\ level = "start" => pos = b
    /\ level \in Rule => b < pos /\ value \in D[<<level, b, pos - 1>>]

\* What the parser has found is derived by the grammar.
AnswerIsDerived(D) == level = "done" => toks # <<>> /\ value \in D[<<"or", 1, Len(toks)>>]
Derived(D) ==
    /\ level \notin {"error", "done"} =>
          \E at \in Seq(Nat) : Frames(D, at) /\ AtHand(D, After(at, Len(stack)))
    /\ AnswerIsDerived(D)
ParserInv(D) == DslTypeOK /\ (Reading(D) => Derived(D))

\* A reading holds what each rule gives.
LEMMA Rules ==
    ASSUME NEW D, Reading(D), NEW a \in Place, NEW b \in Place
    PROVE  /\ AtomMeans(D, a, b) \subseteq D[<<"atom", a, b>>] /\ NotMeans(D, a, b) \subseteq D[<<"not", a, b>>]
           /\ AndMeans(D, a, b) \subseteq D[<<"and", a, b>>] /\ OrMeans(D, a, b) \subseteq D[<<"or", a, b>>]
  <1>1. \A r \in {"atom", "not", "and", "or"} : Meanings(D, r, a, b) \subseteq D[<<r, a, b>>]
    BY DEF Reading, Rule
  <1>2. /\ Meanings(D, "atom", a, b) = AtomMeans(D, a, b) /\ Meanings(D, "not", a, b) = NotMeans(D, a, b)
        /\ Meanings(D, "and", a, b) = AndMeans(D, a, b) /\ Meanings(D, "or", a, b) = OrMeans(D, a, b)
    BY DEF Meanings
  <1> QED BY <1>1, <1>2

\* A term means its rows.
LEMMA TermRule ==
    ASSUME NEW D, Reading(D), NEW a \in Place, toks[a] \in Term
    PROVE  Row[toks[a]] \in D[<<"atom", a, a>>]
  BY Rules DEF AtomMeans, When

\* A parenthesis means what is in it.
LEMMA ParenRule ==
    ASSUME NEW D, Reading(D), NEW a \in Place, NEW b \in Place, a + 1 < b, toks[a] = "(", toks[b] = ")",
           NEW x \in D[<<"or", a + 1, b - 1>>]
    PROVE  x \in D[<<"atom", a, b>>]
  BY Rules DEF AtomMeans, When

\* A NOT means the complement.
LEMMA NotRule ==
    ASSUME NEW D, Reading(D), NEW a \in Place, NEW b \in Place, a < b, toks[a] = "not",
           NEW x \in D[<<"atom", a + 1, b>>]
    PROVE  Universe \ x \in D[<<"not", a, b>>]
  BY Rules DEF NotMeans, When

\* An AND means what both operands have.
LEMMA AndRule ==
    ASSUME NEW D, Reading(D), NEW a \in Place, NEW b \in Place, NEW k \in Signs("and", a, b),
           NEW x \in D[<<"and", a, k - 1>>], NEW y \in D[<<"not", k + 1, b>>]
    PROVE  x \cap y \in D[<<"and", a, b>>]
  <1>1. x \cap y \in Both(D, a, k, b)
    BY DEF Both
  <1>2. x \cap y \in AndMeans(D, a, b)
    BY <1>1 DEF AndMeans
  <1> QED BY <1>2, Rules

\* An OR means what either has.
LEMMA OrRule ==
    ASSUME NEW D, Reading(D), NEW a \in Place, NEW b \in Place, NEW k \in Signs("or", a, b),
           NEW x \in D[<<"or", a, k - 1>>], NEW y \in D[<<"and", k + 1, b>>]
    PROVE  x \cup y \in D[<<"or", a, b>>]
  <1>1. x \cup y \in Either(D, a, k, b)
    BY DEF Either
  <1>2. x \cup y \in OrMeans(D, a, b)
    BY <1>1 DEF OrMeans
  <1> QED BY <1>2, Rules

\* A token between two others.
LEMMA SignIs ==
    ASSUME NEW t, NEW a \in Nat, NEW k \in Nat, NEW z \in Nat, a < k, k + 1 < z, toks[k] = t
    PROVE  a < z /\ k \in Signs(t, a, z - 1)
  BY DEF Signs

\* A phrase of an inner rule is one of the outer.
LEMMA InnerRules ==
    ASSUME NEW D, Reading(D), NEW a \in Place, NEW b \in Place
    PROVE  /\ D[<<"atom", a, b>>] \subseteq D[<<"not", a, b>>]
           /\ D[<<"not", a, b>>] \subseteq D[<<"and", a, b>>]
           /\ D[<<"and", a, b>>] \subseteq D[<<"or", a, b>>]
  BY Rules DEF NotMeans, AndMeans, OrMeans

\* No step changes the tokens.
LEMMA ReadingStays ==
    ASSUME NEW D, UNCHANGED toks
    PROVE  Reading(D)' <=> Reading(D)
  BY DEF Reading, Phrase, Place, Meanings, AtomMeans, NotMeans, AndMeans, OrMeans, Both, Either, When, Signs

\* What is looked at is a token, or the end.
LEMMA PeekIs ==
    ASSUME DslTypeOK
    PROVE  /\ Len(toks) \in Nat /\ Place = 1..Len(toks) /\ Len(stack) \in Nat
           /\ Peek = "end" <=> pos = Len(toks) + 1
           /\ Peek # "end" => pos \in Place /\ Peek = toks[pos] /\ Peek \in Token
           /\ stack = <<>> <=> Len(stack) = 0
           /\ stack # <<>> => Len(stack) \in 1..Len(stack) /\ stack[Len(stack)] \in Call
  <1>1. toks \in Seq(Token) /\ stack \in Seq(Call) /\ pos \in 1..Len(toks)+1
    BY DEF DslTypeOK
  <1>2. "end" \notin Token
    BY DslAssumption DEF Token
  <1>3. \A k \in 1..Len(toks) : toks[k] \in Token
    BY <1>1
  <1> QED BY <1>1, <1>2, <1>3 DEF Peek, Place

\* The operand of a call is yet to come.
LEMMA PushKeeps ==
    ASSUME NEW D, NEW at, DslTypeOK, Frames(D, at), NEW kind \in {"(", "not", "and", "or"},
           NEW left, Push(kind, left), UNCHANGED toks, Peek = kind,
           kind \in {"not", "("} => pos = After(at, Len(stack)),
           kind \in {"and", "or"} => /\ After(at, Len(stack)) < pos
                                     /\ left \in D[<<kind, After(at, Len(stack)), pos - 1>>]
    PROVE  Derived(D)'
  <1>0. PICK new : new = Append(at, pos)
    OBVIOUS
  <1>n. PICK n : n = Len(stack)
    BY Zenon
  <1>1. /\ stack \in Seq(Call) /\ n \in Nat /\ pos \in Place /\ toks[pos] = kind
        /\ Len(toks) \in Nat /\ Place = 1..Len(toks)
    BY <1>n, PeekIs DEF DslTypeOK
  <1>2. /\ stack' = Append(stack, [kind |-> kind, left |-> left])
        /\ pos' = pos + 1 /\ level' = "start" /\ toks' = toks
    BY DEF Push
  <1>3. at \in Seq(Place) /\ Len(at) = n /\ \A k \in 1..n : FrameAt(D, at, k)
    BY <1>n DEF Frames
  <1>4. /\ Len(stack') = n + 1 /\ \A k \in 1..n : stack'[k] = stack[k]
        /\ stack'[n+1] = [kind |-> kind, left |-> left]
    BY <1>n, <1>1, <1>2
  <1>5. /\ new \in Seq(Place) /\ new \in Seq(Nat) /\ Len(new) = n + 1 /\ new[n+1] = pos
        /\ \A k \in 1..n : new[k] = at[k]
    BY <1>0, <1>1, <1>3
  <1>6. \A k \in 0..n : After(new, k) = After(at, k)
    BY <1>1, <1>5 DEF After
  <1>7. ASSUME NEW k \in 1..n PROVE FrameAt(D, new, k)'
    <2>1. k - 1 \in 0..n /\ new[k] = at[k] /\ stack'[k] = stack[k] /\ FrameAt(D, at, k)
      BY <1>1, <1>3, <1>4, <1>5
    <2>2. After(new, k-1) = After(at, k-1)
      BY <1>6, <2>1
    <2>3. toks' = toks
      BY <1>2
    <2> QED BY ONLY <2>1, <2>2, <2>3 DEF FrameAt, After
  <1>8. FrameAt(D, new, n+1)'
    <2>1. n + 1 - 1 = n /\ n \in 0..n
      BY <1>1
    <2>2. After(new, n) = After(at, n)
      BY <1>6, <2>1
    <2>3. /\ After(at, n) <= pos
          /\ kind \in {"not", "("} => pos = After(at, n)
          /\ kind \in {"and", "or"} => After(at, n) < pos /\ left \in D[<<kind, After(at, n), pos - 1>>]
      <3>1. After(at, n) \in Nat /\ pos \in Nat
        BY <1>1, <1>3 DEF After
      <3> QED BY <1>n, <3>1
    <2>4. stack'[n+1].kind = kind /\ stack'[n+1].left = left
      BY <1>4
    <2>5. new[n+1] = pos /\ toks'[pos] = kind /\ After(new, n + 1 - 1) = After(at, n)
      BY <1>1, <1>2, <1>5, <2>1, <2>2
    <2>6. /\ After(new, n + 1 - 1) <= new[n+1] /\ toks'[new[n+1]] = stack'[n+1].kind
          /\ stack'[n+1].kind \in {"not", "("} => new[n+1] = After(new, n + 1 - 1)
          /\ stack'[n+1].kind \in {"and", "or"} =>
                /\ After(new, n + 1 - 1) < new[n+1]
                /\ stack'[n+1].left \in D[<<stack'[n+1].kind, After(new, n + 1 - 1), new[n+1] - 1>>]
      BY <2>3, <2>4, <2>5
    <2>7. n \in Nat
      BY <1>1
    <2> QED BY ONLY <2>6, <2>7 DEF FrameAt, After
  <1>9. \A k \in 1..n+1 : k \in 1..n \/ k = n + 1
    BY <1>1
  <1>10. Frames(D, new)'
    <2>1. \A k \in 1..n+1 : FrameAt(D, new, k)'
      BY <1>7, <1>8, <1>9
    <2>2. Place' = Place
      BY <1>2 DEF Place
    <2>3. new \in Seq(Place') /\ Len(new) = Len(stack')
      BY <1>4, <1>5, <2>2
    <2> QED BY ONLY <1>4, <2>1, <2>3 DEF Frames
  <1>11. AtHand(D, After(new, Len(stack)))'
    <2>1. After(new, n + 1) = pos + 1
      BY <1>1, <1>5 DEF After
    <2> QED BY <1>n, <1>2, <1>4, <2>1 DEF AtHand, Rule, After
  <1> QED BY <1>2, <1>5, <1>10, <1>11 DEF Derived, AnswerIsDerived

\* A call takes its operand, and its own phrase is at hand.
LEMMA PopKeeps ==
    ASSUME NEW D, NEW at, DslTypeOK, Frames(D, at), stack # <<>>, Pop, UNCHANGED toks, level' \in Rule,
           After(at, Len(stack) - 1) < pos',
           value' \in D[<<level', After(at, Len(stack) - 1), pos' - 1>>]
    PROVE  Derived(D)'
  <1> DEFINE n == Len(stack) - 1
  <1>0. PICK new : new = SubSeq(at, 1, n)
    OBVIOUS
  <1>1. stack \in Seq(Call) /\ Len(stack) = n + 1 /\ n \in Nat /\ Place = 1..Len(toks)
    BY PeekIs DEF DslTypeOK
  <1>2. at \in Seq(Place) /\ Len(at) = n + 1 /\ \A k \in 1..n+1 : FrameAt(D, at, k)
    BY <1>1 DEF Frames
  <1>3. stack' = SubSeq(stack, 1, n) /\ toks' = toks
    BY DEF Pop
  <1> HIDE DEF n
  <1>4. Len(stack') = n /\ \A k \in 1..n : stack'[k] = stack[k]
    BY <1>1, <1>3
  <1>5. new \in Seq(Place) /\ new \in Seq(Nat) /\ Len(new) = n /\ \A k \in 1..n : new[k] = at[k]
    BY <1>0, <1>1, <1>2
  <1>6. \A k \in 0..n : After(new, k) = After(at, k)
    BY <1>1, <1>5 DEF After
  <1>7. ASSUME NEW k \in 1..n PROVE FrameAt(D, new, k)'
    <2>0. k - 1 \in 0..n /\ k \in 1..n+1
      BY <1>1
    <2>1. new[k] = at[k] /\ stack'[k] = stack[k] /\ FrameAt(D, at, k)
      BY <1>2, <1>4, <1>5, <2>0
    <2>2. After(new, k-1) = After(at, k-1)
      BY <1>6, <2>0
    <2>3. toks' = toks
      BY <1>3
    <2> QED BY ONLY <2>1, <2>2, <2>3 DEF FrameAt, After
  <1>8. Frames(D, new)'
    BY <1>3, <1>4, <1>5, <1>7 DEF Frames, Place
  <1>9. AtHand(D, After(new, Len(stack)))'
    <2>1. After(new, Len(stack')) = After(at, Len(stack) - 1)
      BY <1>1, <1>4, <1>6 DEF n
    <2>2. After(new, Len(stack))' = After(new, Len(stack'))
      BY DEF After
    <2> QED BY <2>1, <2>2 DEF AtHand, Rule
  <1>10. level' \notin {"error", "done"}
    BY DEF Rule
  <1> QED BY <1>5, <1>8, <1>9, <1>10 DEF Derived, AnswerIsDerived

\* The phrase at hand becomes another one that begins where it does.
LEMMA StayKeeps ==
    ASSUME NEW D, NEW at \in Seq(Nat), Frames(D, at), UNCHANGED <<toks, stack>>, level' \in Rule,
           After(at, Len(stack)) < pos',
           value' \in D[<<level', After(at, Len(stack)), pos' - 1>>]
    PROVE  Derived(D)'
  <1>1. Frames(D, at)' /\ AtHand(D, After(at, Len(stack)))'
    BY DEF Frames, FrameAt, AtHand, Rule, After, Place
  <1>2. level' \notin {"error", "done"} /\ UNCHANGED <<toks, stack>>
    BY DEF Rule
  <1> QED BY <1>1, <1>2 DEF Derived, AnswerIsDerived

\* Every step keeps the types and the tokens.
LEMMA DslTypeKeeps ==
    ASSUME DslTypeOK, [DslNext]_dslVars
    PROVE  DslTypeOK' /\ UNCHANGED toks
  <1>1. /\ toks \in Seq(Token) /\ pos \in 1..Len(toks)+1 /\ stack \in Seq(Call)
        /\ level \in {"start", "atom", "not", "and", "or", "done", "error"} /\ value \subseteq Entity
    BY DEF DslTypeOK
  <1>2. Peek # "end" => pos + 1 \in 1..Len(toks)+1
    BY PeekIs
  <1>3. stack # <<>> => /\ SubSeq(stack, 1, Len(stack) - 1) \in Seq(Call)
                        /\ Left \subseteq Entity
    <2> SUFFICES ASSUME stack # <<>>
                 PROVE  SubSeq(stack, 1, Len(stack) - 1) \in Seq(Call) /\ Left \subseteq Entity
      OBVIOUS
    <2>1. SubSeq(stack, 1, Len(stack) - 1) \in Seq(Call)
      BY <1>1
    <2>2. stack[Len(stack)] \in Call
      BY PeekIs
    <2> QED BY <2>1, <2>2 DEF Left, Call
  <1>4. ASSUME NEW kind \in {"(", "and", "or", "not"}, NEW left, left \subseteq Entity, Push(kind, left),
               Peek # "end", UNCHANGED toks
        PROVE  DslTypeOK'
    <2>1. Append(stack, [kind |-> kind, left |-> left]) \in Seq(Call)
      BY <1>1, <1>4 DEF Call
    <2> QED BY <1>1, <1>2, <1>4, <2>1 DEF Push, DslTypeOK
  <1>5. CASE Fails
    BY <1>1, <1>5 DEF Fails, Returns, DslTypeOK
  <1>6. CASE TakeNot
    BY <1>4, <1>6 DEF TakeNot
  <1>7. CASE TakeTerm
    BY <1>1, <1>2, <1>7, DslAssumption DEF TakeTerm, Returns, DslTypeOK
  <1>8. CASE OpenParen
    BY <1>4, <1>8 DEF OpenParen
  <1>9. CASE ReturnNot
    <2>1. CASE Top = "not"
      BY <1>1, <1>3, <1>9, <2>1, DslAssumption DEF ReturnNot, Top, Pop, Returns, DslTypeOK
    <2>2. CASE Top # "not"
      BY <1>1, <1>9, <2>2 DEF ReturnNot, Returns, DslTypeOK
    <2> QED BY <1>9, <2>1, <2>2 DEF ReturnNot
  <1>10. CASE JoinAnd
    <2>1. CASE Top = "and"
      BY <1>1, <1>3, <1>10, <2>1 DEF JoinAnd, Top, Pop, Returns, DslTypeOK
    <2>2. CASE Top # "and"
      BY <1>1, <1>10, <2>2 DEF JoinAnd, Returns, DslTypeOK
    <2> QED BY <1>10, <2>1, <2>2 DEF JoinAnd
  <1>11. CASE JoinOr
    <2>1. CASE Top = "or"
      BY <1>1, <1>3, <1>11, <2>1 DEF JoinOr, Top, Pop, Returns, DslTypeOK
    <2>2. CASE Top # "or"
      BY <1>1, <1>11, <2>2 DEF JoinOr, Returns, DslTypeOK
    <2> QED BY <1>11, <2>1, <2>2 DEF JoinOr
  <1>12. CASE TakeAnd
    BY <1>1, <1>4, <1>12 DEF TakeAnd
  <1>13. CASE TakeOr
    BY <1>1, <1>4, <1>13 DEF TakeOr
  <1>14. CASE CloseParen /\ Peek = ")"
    <2>1. stack # <<>> /\ pos + 1 \in 1..Len(toks)+1
      BY <1>2, <1>14 DEF CloseParen, Top
    <2> QED BY <1>1, <1>3, <1>14, <2>1 DEF CloseParen, Pop, Returns, DslTypeOK
  <1>15. CASE CloseParen /\ Peek # ")"
    BY <1>5, <1>15 DEF CloseParen, Fails
  <1>16. CASE End /\ Peek = "end"
    BY <1>1, <1>16 DEF End, Returns, DslTypeOK
  <1>17. CASE UNCHANGED dslVars
    BY <1>1, <1>17 DEF dslVars, DslTypeOK
  <1>18. CASE NoAtom \/ (End /\ Peek # "end")
    BY <1>5, <1>18 DEF NoAtom, End, Fails
  <1> QED BY <1>6, <1>7, <1>8, <1>9, <1>10, <1>11, <1>12, <1>13, <1>14, <1>15, <1>16, <1>17, <1>18
          DEF DslNext

\* Every method derives its phrase from those of the calls it made.
LEMMA DerivedKeeps ==
    ASSUME NEW D, DslTypeOK, Reading(D), Derived(D), DslNext
    PROVE  Derived(D)'
  <1>1. UNCHANGED toks /\ toks \in Seq(Token) /\ pos \in 1..Len(toks)+1 /\ Place = 1..Len(toks)
    BY DslTypeKeeps, PeekIs DEF DslTypeOK
  <1>2. level \notin {"error", "done"}
    BY DEF DslNext, TakeNot, TakeTerm, OpenParen, NoAtom, ReturnNot, JoinAnd, TakeAnd, JoinOr, TakeOr,
           CloseParen, End
  <1>3. PICK at \in Seq(Nat) : Frames(D, at) /\ AtHand(D, After(at, Len(stack)))
    BY <1>2 DEF Derived
  <1>n. PICK n, b, b0 : n = Len(stack) /\ b = After(at, Len(stack)) /\ b0 = After(at, Len(stack) - 1)
    BY Zenon
  <1>4. n \in Nat /\ (stack = <<>> <=> n = 0) /\ Len(at) = n /\ \A k \in 1..n : at[k] \in Place
    BY <1>3, <1>n, PeekIs DEF Frames
  <1>5. b \in Nat /\ 1 <= b /\ (n # 0 => b = at[n] + 1) /\ (n = 0 => b = 1)
    BY <1>1, <1>4, <1>n DEF After
  <1>6. level \in Rule => /\ b < pos /\ b \in Place /\ pos - 1 \in Place /\ b <= pos - 1
                          /\ value \in D[<<level, b, pos - 1>>]
    <2>1. level \in Rule => b < pos /\ value \in D[<<level, b, pos - 1>>]
      BY <1>3, <1>n DEF AtHand
    <2>2. b < pos => b \in Place /\ pos - 1 \in Place /\ b <= pos - 1
      <3>1. Len(toks) \in Nat /\ pos \in 1..Len(toks)+1 /\ Place = 1..Len(toks) /\ b \in Nat /\ 1 <= b
        BY <1>1, <1>5, PeekIs
      <3> QED BY ONLY <3>1
    <2> QED BY <2>1, <2>2
  <1>7. level = "start" => pos = b
    BY <1>3, <1>n DEF AtHand
  \* Of the call at the top: where its phrase begins, and what its token is.
  <1>8. n # 0 => /\ b0 \in Place /\ at[n] \in Place /\ b0 <= at[n] /\ toks[at[n]] = Top
                 /\ Top \in {"not", "("} => at[n] = b0
                 /\ Top \in {"and", "or"} => b0 < at[n] /\ Left \in D[<<Top, b0, at[n] - 1>>]
    <2> SUFFICES ASSUME n # 0
                 PROVE  /\ b0 \in Place /\ at[n] \in Place /\ b0 <= at[n] /\ toks[at[n]] = Top
                        /\ Top \in {"not", "("} => at[n] = b0
                        /\ Top \in {"and", "or"} => b0 < at[n] /\ Left \in D[<<Top, b0, at[n] - 1>>]
      OBVIOUS
    <2>1. n \in 1..n /\ at[n] \in Place
      BY <1>4
    <2>2. Top = stack[n].kind /\ Left = stack[n].left
      BY <1>4, <1>n DEF Top, Left
    <2>3. FrameAt(D, at, n) /\ b0 = After(at, n - 1)
      BY <1>3, <1>n, <2>1 DEF Frames
    <2>4. 1 <= b0 /\ b0 \in Nat
      <3>1. CASE n = 1
        BY <1>n, <3>1 DEF After
      <3>2. CASE n # 1
        <4>1. n - 1 \in 1..n /\ n - 1 # 0
          BY <1>4, <3>2
        <4>2. at[n-1] \in 1..Len(toks)
          BY <1>1, <1>4, <4>1
        <4> QED BY <2>3, <4>1, <4>2 DEF After
      <3> QED BY <3>1, <3>2
    <2>5. /\ b0 <= at[n] /\ toks[at[n]] = stack[n].kind
          /\ stack[n].kind \in {"not", "("} => at[n] = b0
          /\ stack[n].kind \in {"and", "or"} =>
                b0 < at[n] /\ stack[n].left \in D[<<stack[n].kind, b0, at[n] - 1>>]
      BY <2>3 DEF FrameAt
    <2> QED BY <1>1, <2>1, <2>2, <2>4, <2>5
  <1>9. Top # "bottom" => n # 0 /\ stack # <<>>
    BY <1>4 DEF Top
  <1>10. Peek # "end" => pos \in Place /\ Peek = toks[pos]
    BY PeekIs
  <1>p. pos \in Nat /\ \A a \in Place : a \in Nat
    BY <1>1
  <1>11. CASE TakeNot
    BY <1>1, <1>3, <1>7, <1>n, <1>11, PushKeeps DEF TakeNot
  <1>12. CASE OpenParen
    BY <1>1, <1>3, <1>7, <1>n, <1>12, PushKeeps DEF OpenParen
  <1>13. CASE TakeAnd
    BY <1>1, <1>3, <1>6, <1>n, <1>13, PushKeeps DEF TakeAnd, Rule
  <1>14. CASE TakeOr
    BY <1>1, <1>3, <1>6, <1>n, <1>14, PushKeeps DEF TakeOr, Rule
  <1>15. CASE TakeTerm
    <2>1. pos \in Place /\ toks[pos] \in Term /\ pos = b /\ pos' = pos + 1 /\ level' = "atom"
          /\ value' = Row[toks[pos]] /\ UNCHANGED <<toks, stack>>
      BY <1>7, <1>10, <1>15, DslAssumption DEF TakeTerm, Returns
    <2>2. value' \in D[<<"atom", b, b>>]
      BY <2>1, TermRule
    <2>3. b < pos' /\ pos' - 1 = b
      BY <1>5, <2>1
    <2> QED BY <1>3, <1>n, <2>1, <2>2, <2>3, StayKeeps DEF Rule
  <1>16. CASE ReturnNot
    <2>1. value \in D[<<"atom", b, pos - 1>>] /\ b \in Place /\ pos - 1 \in Place /\ b <= pos - 1
          /\ b < pos
      BY <1>6, <1>16 DEF ReturnNot, Rule
    <2>2. CASE Top = "not"
      <3>1. n # 0 /\ stack # <<>> /\ b0 = at[n] /\ b = b0 + 1 /\ b0 \in Place /\ toks[b0] = "not"
        BY <1>5, <1>8, <1>9, <2>2
      <3>2. Pop /\ level' = "not" /\ value' = Universe \ value /\ pos' = pos
        BY <1>16, <2>2 DEF ReturnNot, Returns
      <3>3. b0 < pos - 1 /\ b0 < pos
        BY <1>p, <2>1, <3>1
      <3>4. value' \in D[<<"not", b0, pos - 1>>]
        BY <2>1, <3>1, <3>2, <3>3, NotRule
      <3> QED BY <1>1, <1>3, <1>n, <3>1, <3>2, <3>3, <3>4, PopKeeps DEF Rule
    <2>3. CASE Top # "not"
      <3>1. UNCHANGED <<stack, pos>> /\ level' = "not" /\ value' = value
        BY <1>16, <2>3 DEF ReturnNot, Returns
      <3>2. value \in D[<<"not", b, pos - 1>>]
        BY <2>1, InnerRules
      <3> QED BY <1>1, <1>3, <1>n, <2>1, <3>1, <3>2, StayKeeps DEF Rule
    <2> QED BY <2>2, <2>3
  <1>17. CASE JoinAnd
    <2>1. value \in D[<<"not", b, pos - 1>>] /\ b \in Place /\ pos - 1 \in Place /\ b <= pos - 1
          /\ b < pos
      BY <1>6, <1>17 DEF JoinAnd, Rule
    <2>2. CASE Top = "and"
      <3>1. n # 0 /\ stack # <<>> /\ b0 < at[n] /\ b = at[n] + 1 /\ b0 \in Place /\ at[n] \in Place
            /\ toks[at[n]] = "and" /\ Left \in D[<<"and", b0, at[n] - 1>>]
        BY <1>5, <1>8, <1>9, <2>2
      <3>2. Pop /\ level' = "and" /\ value' = Left \cap value /\ pos' = pos
        BY <1>17, <2>2 DEF JoinAnd, Returns
      <3>3. b0 < pos /\ at[n] \in Signs("and", b0, pos - 1)
        <4>1. b0 \in Nat /\ at[n] \in Nat /\ pos \in Nat /\ at[n] + 1 < pos
          BY <1>p, <2>1, <3>1
        <4> QED BY <3>1, <4>1, SignIs
      <3>4. value' \in D[<<"and", b0, pos - 1>>]
        BY <2>1, <3>1, <3>2, <3>3, AndRule
      <3> QED BY <1>1, <1>3, <1>n, <3>1, <3>2, <3>3, <3>4, PopKeeps DEF Rule
    <2>3. CASE Top # "and"
      <3>1. UNCHANGED <<stack, pos>> /\ level' = "and" /\ value' = value
        BY <1>17, <2>3 DEF JoinAnd, Returns
      <3>2. value \in D[<<"and", b, pos - 1>>]
        BY <2>1, InnerRules
      <3> QED BY <1>1, <1>3, <1>n, <2>1, <3>1, <3>2, StayKeeps DEF Rule
    <2> QED BY <2>2, <2>3
  <1>18. CASE JoinOr
    <2>1. value \in D[<<"and", b, pos - 1>>] /\ b \in Place /\ pos - 1 \in Place /\ b <= pos - 1
          /\ b < pos
      BY <1>6, <1>18 DEF JoinOr, Rule
    <2>2. CASE Top = "or"
      <3>1. n # 0 /\ stack # <<>> /\ b0 < at[n] /\ b = at[n] + 1 /\ b0 \in Place /\ at[n] \in Place
            /\ toks[at[n]] = "or" /\ Left \in D[<<"or", b0, at[n] - 1>>]
        BY <1>5, <1>8, <1>9, <2>2
      <3>2. Pop /\ level' = "or" /\ value' = Left \cup value /\ pos' = pos
        BY <1>18, <2>2 DEF JoinOr, Returns
      <3>3. b0 < pos /\ at[n] \in Signs("or", b0, pos - 1)
        <4>1. b0 \in Nat /\ at[n] \in Nat /\ pos \in Nat /\ at[n] + 1 < pos
          BY <1>p, <2>1, <3>1
        <4> QED BY <3>1, <4>1, SignIs
      <3>4. value' \in D[<<"or", b0, pos - 1>>]
        BY <2>1, <3>1, <3>2, <3>3, OrRule
      <3> QED BY <1>1, <1>3, <1>n, <3>1, <3>2, <3>3, <3>4, PopKeeps DEF Rule
    <2>3. CASE Top # "or"
      <3>1. UNCHANGED <<stack, pos>> /\ level' = "or" /\ value' = value
        BY <1>18, <2>3 DEF JoinOr, Returns
      <3>2. value \in D[<<"or", b, pos - 1>>]
        BY <2>1, InnerRules
      <3> QED BY <1>1, <1>3, <1>n, <2>1, <3>1, <3>2, StayKeeps DEF Rule
    <2> QED BY <2>2, <2>3
  <1>19. CASE CloseParen /\ Peek = ")"
    <2>1. value \in D[<<"or", b, pos - 1>>] /\ b \in Place /\ b < pos /\ Top = "("
      BY <1>6, <1>19 DEF CloseParen, Rule
    <2>2. n # 0 /\ stack # <<>> /\ b0 = at[n] /\ b = b0 + 1 /\ b0 \in Place /\ toks[b0] = "("
      BY <1>5, <1>8, <1>9, <2>1
    <2>3. Pop /\ level' = "atom" /\ value' = value /\ pos' = pos + 1
      BY <1>19 DEF CloseParen, Returns
    <2>4. pos \in Place /\ toks[pos] = ")"
      BY <1>10, <1>19
    <2>5. b0 + 1 < pos /\ b0 < pos' /\ pos' - 1 = pos
      <3>1. b0 \in Nat /\ pos \in Nat
        BY <1>p, <2>2
      <3>2. b = b0 + 1 /\ b < pos /\ pos' = pos + 1
        BY <2>1, <2>2, <2>3
      <3> QED BY ONLY <3>1, <3>2
    <2>6. value \in D[<<"atom", b0, pos>>]
      BY <2>1, <2>2, <2>4, <2>5, ParenRule
    <2> QED BY <1>1, <1>3, <1>n, <2>2, <2>3, <2>5, <2>6, PopKeeps DEF Rule
  <1>20. CASE End /\ Peek = "end"
    <2>1. value \in D[<<"or", b, pos - 1>>] /\ b \in Place /\ Top = "bottom"
      BY <1>6, <1>20 DEF End, Rule
    <2>2. pos - 1 = Len(toks) /\ b = 1 /\ toks # <<>>
      <3>1. pos = Len(toks) + 1 /\ Len(toks) \in Nat
        BY <1>20, PeekIs
      <3>2. n = 0
        BY <1>4, <1>n, <2>1, PeekIs DEF Top, Call
      <3>3. toks # <<>>
        BY <1>1, <2>1
      <3> QED BY <1>5, <3>1, <3>2, <3>3
    <2>3. level' = "done" /\ value' = value /\ UNCHANGED toks
      BY <1>20 DEF End, Returns
    <2> QED BY <2>1, <2>2, <2>3 DEF Derived, AnswerIsDerived
  <1>21. CASE Fails
    BY <1>21 DEF Fails, Returns, Derived, AnswerIsDerived
  <1> QED BY <1>11, <1>12, <1>13, <1>14, <1>15, <1>16, <1>17, <1>18, <1>19, <1>20, <1>21
          DEF DslNext, NoAtom, CloseParen, End

\* A query starts at its first token, with nothing pending.
LEMMA DslStarts ==
    ASSUME DslInit
    PROVE  DslTypeOK /\ pos = 1 /\ stack = <<>> /\ level = "start"
  <1>1. PICK n \in 0..MaxTokens : toks \in [1..n -> Token]
    BY DEF DslInit
  <1>2. n \in Nat
    BY DslAssumption
  <1>3. toks \in Seq(Token)
    BY <1>1, <1>2
  <1> QED BY <1>3 DEF DslInit, DslTypeOK

\* The grammar derives all that the parser has found so far.
LEMMA ParserInvHolds == ASSUME NEW CONSTANT D PROVE DslSpec => []ParserInv(D)
  <1>1. DslInit => ParserInv(D)
    <2> SUFFICES ASSUME DslInit PROVE ParserInv(D)
      OBVIOUS
    <2>1. DslTypeOK /\ pos = 1 /\ stack = <<>> /\ level = "start"
      BY DslStarts
    <2>2. Derived(D)
      <3>1. << >> \in Seq(Place) /\ << >> \in Seq(Nat) /\ Len(<< >>) = 0 /\ \A k \in 1..0 : FALSE
        OBVIOUS
      <3>2. Frames(D, << >>)
        BY <2>1, <3>1 DEF Frames
      <3>3. AtHand(D, After(<< >>, Len(stack)))
        BY <2>1 DEF AtHand, After, Rule
      <3> QED BY <2>1, <3>1, <3>2, <3>3 DEF Derived, AnswerIsDerived
    <2> QED BY <2>1, <2>2 DEF ParserInv
  <1>2. ParserInv(D) /\ [DslNext]_dslVars => ParserInv(D)'
    <2> SUFFICES ASSUME ParserInv(D), [DslNext]_dslVars PROVE ParserInv(D)'
      OBVIOUS
    <2>1. DslTypeOK /\ DslTypeOK' /\ UNCHANGED toks
      BY DslTypeKeeps DEF ParserInv
    <2>2. ASSUME Reading(D)' PROVE Derived(D)'
      <3>1. Reading(D) /\ Derived(D)
        BY <2>1, <2>2, ReadingStays DEF ParserInv
      <3>2. CASE DslNext
        BY <2>1, <3>1, <3>2, DerivedKeeps
      <3>3. CASE UNCHANGED dslVars
        BY <3>1, <3>3 DEF dslVars, Derived, AnswerIsDerived, Frames, FrameAt, AtHand, After, Place
      <3> QED BY <3>2, <3>3
    <2> QED BY <2>1, <2>2 DEF ParserInv
  <1> QED BY <1>1, <1>2, PTL DEF DslSpec

(***************************************************************************)
(* The parser never looks behind the last token, and never takes a call    *)
(* off an empty stack.                                                     *)
(***************************************************************************)
THEOREM DslTypeCorrect == DslSpec => []DslTypeOK
  <1>1. DslInit => DslTypeOK
    BY DslStarts
  <1>2. DslTypeOK /\ [DslNext]_dslVars => DslTypeOK'
    BY DslTypeKeeps
  <1> QED BY <1>1, <1>2, PTL DEF DslSpec

(***************************************************************************)
(* What a query answers is derived from its tokens by the grammar of the   *)
(* docstring, for queries of any length: it is among their meanings in     *)
(* every reading, so in the least one too.                                 *)
(***************************************************************************)
THEOREM AnswersAreDerived ==
    ASSUME NEW CONSTANT D
    PROVE  DslSpec => [](Reading(D) => AnswerIsDerived(D))
  <1>1. ParserInv(D) => (Reading(D) => AnswerIsDerived(D))
    BY DEF ParserInv, Derived
  <1> QED BY <1>1, ParserInvHolds, PTL

-----------------------------------------------------------------------------
(* THE PARTS SIDE BY SIDE *)

\* A behaviour of one part is one of every part: the others rest.
LEMMA EachPartKeepsItsSpec == MCSpec => Spec /\ HandleSpec /\ NeighborsSpec /\ DslSpec
  <1>1. MCInit => Init /\ HandleInit /\ NeighborsInit /\ DslInit
    BY DEF MCInit
  <1>2. [MCNext]_<<vars, handleVars, neighborsVars, dslVars, side>>
        => [Next]_vars /\ [HandleNext]_handleVars /\ [NeighborsNext]_neighborsVars /\ [DslNext]_dslVars
    BY DEF MCNext, ConnectionsNext
  <1> QED BY <1>1, <1>2, PTL DEF MCSpec, Spec, HandleSpec, NeighborsSpec, DslSpec

(***************************************************************************)
(* The type invariant of the model-checked composition, which says of each *)
(* behaviour what its own part says, for every instance and not only the   *)
(* one that is checked.                                                    *)
(***************************************************************************)
THEOREM PartsTypeCorrect == MCSpec => []TypesOK
  <1>1. TypeOK /\ HandleTypeOK /\ NeighborsTypeOK /\ DslTypeOK => TypesOK
    BY DEF TypesOK
  <1> QED BY <1>1, EachPartKeepsItsSpec, TypeCorrect, HandlesTypeCorrect, NeighborsTypeCorrect,
             DslTypeCorrect, PTL
=============================================================================
