----------------------- MODULE PartitionBindingProofs -----------------------
(***************************************************************************)
(* Proofs about PartitionBinding: rows go where the request said, for any  *)
(* number of ingests, write ops and partitions.                            *)
(*                                                                         *)
(* The properties talk of the rows a request has written; what carries     *)
(* them is where the request's binding is kept at each place of its life:  *)
(* in `part` until it has the lock, in `bound` while it is inside, and in  *)
(* `kept` while an ingest has given the lock away.  That others do not     *)
(* touch `bound` meanwhile is the mutual exclusion InsideOwns.  That the   *)
(* daemon's own binding comes back needs a second invariant, HomeInv: what *)
(* each request will restore, and what an absent ingest still remembers.   *)
(***************************************************************************)
EXTENDS PartitionBinding, FiniteSetTheorems, SequenceTheorems, TLAPS

\* Whoever is inside owns the store lock.
InsideOwns == \A t \in Thread : pc[t] = "inside" => owner = t

\* A set of rows that is not spread, and is where it was asked to be.
In(t, p) == into[t] \subseteq {p} /\ (ask[t] # Unset => p = ask[t])

\* Where the binding of each request is.
Carries(t) ==
    /\ pc[t] \in {"idle", "called", "waiting"} => into[t] = {}
    /\ pc[t] \in {"called", "waiting"} /\ ask[t] # Unset => part[t] = ask[t]
    /\ pc[t] = "inside" => In(t, bound)
    /\ pc[t] \in {"yielded", "rewaiting"} => kept[t] \in Partition /\ In(t, kept[t])
    /\ pc[t] = "done" => \E p \in Partition : In(t, p)

IInv == /\ TypeOK
        /\ InsideOwns
        /\ \A t \in Thread : Carries(t)

-----------------------------------------------------------------------------

LEMMA InitIInv == Init => IInv
  <1> SUFFICES ASSUME Init PROVE IInv
    OBVIOUS
  <1> USE DEF Init
  <1>1. StoreLock!TypeOK
    BY DEF StoreLock!Init, StoreLock!TypeOK
  <1>2. TypeOK
    BY <1>1, HomeAssumption DEF TypeOK, Place, Ask
  <1>3. InsideOwns
    BY DEF InsideOwns
  <1>4. \A t \in Thread : Carries(t)
    BY DEF Carries
  <1> QED BY <1>2, <1>3, <1>4 DEF IInv

\* The steps of the lock keep its type, and taking it does not take it from
\* anybody.
LEMMA LockType ==
    ASSUME StoreLock!TypeOK, NEW t \in Thread,
           TakesLock(t) \/ StoreLock!HandOver(t)
    PROVE  StoreLock!TypeOK'
  <1>1. CASE StoreLock!Grab(t)
    BY <1>1 DEF StoreLock!Grab, StoreLock!TypeOK
  <1>2. CASE StoreLock!Join(t)
    <2>1. queue' \in Seq(Thread)
      BY <1>2, AppendProperties DEF StoreLock!Join, StoreLock!TypeOK
    <2> QED BY <1>2, <2>1 DEF StoreLock!Join, StoreLock!TypeOK
  <1>3. CASE StoreLock!HandOver(t)
    <2>1. CASE queue = <<>>
      BY <1>3, <2>1 DEF StoreLock!HandOver, StoreLock!TypeOK
    <2>2. CASE queue # <<>>
      <3>1. Head(queue) \in Thread /\ Tail(queue) \in Seq(Thread)
        BY <2>2, HeadTailProperties DEF StoreLock!TypeOK
      <3> QED BY <1>3, <2>2, <3>1 DEF StoreLock!HandOver, StoreLock!TypeOK
    <2> QED BY <2>1, <2>2
  <1> QED BY <1>1, <1>2, <1>3 DEF TakesLock

LEMMA TakingKeepsOwner ==
    ASSUME NEW t \in Thread, TakesLock(t)
    PROVE  owner = NoOwner \/ owner' = owner
  BY DEF TakesLock, StoreLock!Grab, StoreLock!Join

\* Nobody else is inside while t is, or while t owns the lock.
LEMMA Alone ==
    ASSUME InsideOwns, NEW t \in Thread, owner = t
    PROVE  \A u \in Thread \ {t} : pc[u] # "inside"
  BY DEF InsideOwns

\* Taking a free lock takes it from no thread.
LEMMA NoOwnerIsNoThread == NoOwner \notin Thread
  BY ThreadAssumption DEF Thread

-----------------------------------------------------------------------------
\* A step leaves the lock alone, or is one of its steps; and the requests other
\* than t's are carried on if t's step leaves `bound` alone or t had the lock.
LEMMA OthersCarry ==
    ASSUME IInv, NEW t \in Thread,
           UNCHANGED bound \/ owner = t,
           \A u \in Thread \ {t} :
             /\ pc'[u] = pc[u] /\ ask'[u] = ask[u] /\ part'[u] = part[u]
             /\ kept'[u] = kept[u] /\ into'[u] = into[u]
    PROVE  \A u \in Thread \ {t} : Carries(u)'
  <1> SUFFICES ASSUME NEW u \in Thread \ {t} PROVE Carries(u)'
    OBVIOUS
  <1>1. Carries(u)
    BY DEF IInv
  <1>2. pc[u] = "inside" => UNCHANGED bound
    BY Alone DEF IInv
  <1> QED BY <1>1, <1>2 DEF Carries, In

LEMMA CallKeeps == ASSUME IInv, NEW t \in Thread, Call(t) PROVE IInv'
  <1> USE DEF IInv
  <1>1. PICK k \in IF t \in Job THEN JobKind ELSE OpKind, a \in Ask :
          /\ Registers(t, k)
          /\ kind' = [kind EXCEPT ![t] = k]
          /\ ask' = [ask EXCEPT ![t] = a]
          /\ part' = [part EXCEPT ![t] = NamedPartition(k, a)]
    BY DEF Call
  <1>2. NamedPartition(k, a) \in Ask /\ (a # Unset => NamedPartition(k, a) = a)
    BY DEF NamedPartition, TypeOK, Ask
  <1>3. /\ pc[t] = "idle" /\ pc' = [pc EXCEPT ![t] = "called"]
        /\ UNCHANGED <<owner, queue, bound, prev, kept, into>>
    BY DEF Call, At, Goes, lockVars
  <1>4. registered' \in SUBSET Job
    BY <1>1 DEF Registers, TypeOK, JobKind, OpKind
  <1>5. TypeOK'
    <2>1. StoreLock!TypeOK'
      BY <1>3 DEF TypeOK, StoreLock!TypeOK
    <2>2. pc' \in [Thread -> Place] /\ kind' \in [Thread -> OpKind \cup JobKind \cup {"none"}]
      BY <1>1, <1>3 DEF TypeOK, Place
    <2>3. \A x \in {ask', part', prev', kept'} : x \in [Thread -> Ask]
      BY <1>1, <1>2, <1>3 DEF TypeOK
    <2> QED BY <1>3, <1>4, <2>1, <2>2, <2>3 DEF TypeOK
  <1>6. InsideOwns'
    BY <1>3 DEF InsideOwns, TypeOK
  <1>7. Carries(t)'
    BY <1>1, <1>2, <1>3 DEF Carries, TypeOK, In
  <1>8. \A u \in Thread \ {t} : Carries(u)'
    BY <1>1, <1>3, OthersCarry DEF TypeOK
  <1> QED BY <1>5, <1>6, <1>7, <1>8

LEMMA RequestKeeps == ASSUME IInv, NEW t \in Thread, Request(t) PROVE IInv'
  <1> USE DEF IInv
  <1>1. /\ TakesLock(t)
        /\ pc[t] = "called" /\ pc' = [pc EXCEPT ![t] = "waiting"]
        /\ UNCHANGED <<bound, registered, kind, ask, part, prev, kept, into>>
    BY DEF Request, At, Goes
  <1>2. TypeOK'
    BY <1>1, LockType DEF TypeOK, Place
  <1>3. InsideOwns'
    BY <1>1, TakingKeepsOwner, NoOwnerIsNoThread DEF InsideOwns, TypeOK
  <1>4. Carries(t)'
    BY <1>1 DEF Carries, TypeOK
  <1>5. \A u \in Thread \ {t} : Carries(u)'
    BY <1>1, OthersCarry DEF TypeOK
  <1> QED BY <1>2, <1>3, <1>4, <1>5

LEMMA EnterKeeps == ASSUME IInv, NEW t \in Thread, Enter(t) PROVE IInv'
  <1> USE DEF IInv
  <1>1. /\ owner = t
        /\ pc[t] = "waiting" /\ pc' = [pc EXCEPT ![t] = "inside"]
        /\ UNCHANGED <<owner, queue, registered, kind, ask, part, kept, into>>
        /\ prev' = [prev EXCEPT ![t] = IF part[t] \in {Unset, bound} THEN Unset ELSE bound]
        /\ bound' = IF part[t] = Unset THEN bound ELSE part[t]
    BY DEF Enter, At, Goes, Binds, lockVars
  <1>2. bound' \in Partition
    BY <1>1 DEF TypeOK, Ask
  <1>3. prev' \in [Thread -> Ask]
    BY <1>1 DEF TypeOK, Ask
  <1>4. TypeOK'
    <2>1. StoreLock!TypeOK'
      BY <1>1 DEF TypeOK, StoreLock!TypeOK
    <2> QED BY <1>1, <1>2, <1>3, <2>1 DEF TypeOK, Place
  <1>5. InsideOwns'
    BY <1>1, Alone DEF InsideOwns, TypeOK
  <1>6. Carries(t)'
    <2>1. into[t] = {} /\ (ask[t] # Unset => part[t] = ask[t])
      BY <1>1 DEF Carries
    <2> QED BY <1>1, <2>1 DEF Carries, In, TypeOK
  <1>7. \A u \in Thread \ {t} : Carries(u)'
    BY <1>1, OthersCarry DEF TypeOK
  <1> QED BY <1>4, <1>5, <1>6, <1>7

LEMMA WriteKeeps == ASSUME IInv, NEW t \in Thread, Write(t) PROVE IInv'
  <1> USE DEF IInv
  <1>1. /\ pc[t] = "inside"
        /\ into' = [into EXCEPT ![t] = @ \cup {bound}]
        /\ UNCHANGED <<owner, queue, bound, registered, pc, kind, ask, part, prev, kept>>
    BY DEF Write, At, lockVars
  <1>2. TypeOK'
    <2>1. StoreLock!TypeOK'
      BY <1>1 DEF TypeOK, StoreLock!TypeOK
    <2>2. into' \in [Thread -> SUBSET Partition]
      BY <1>1 DEF TypeOK
    <2> QED BY <1>1, <2>1, <2>2 DEF TypeOK
  <1>3. InsideOwns'
    BY <1>1 DEF InsideOwns
  <1>4. Carries(t)'
    BY <1>1 DEF Carries, In, TypeOK
  <1>5. \A u \in Thread \ {t} : Carries(u)'
    BY <1>1, OthersCarry DEF TypeOK
  <1> QED BY <1>2, <1>3, <1>4, <1>5

LEMMA YieldKeeps == ASSUME IInv, NEW t \in Thread, Yield(t) PROVE IInv'
  <1> USE DEF IInv
  <1>1. /\ pc[t] = "inside" /\ pc' = [pc EXCEPT ![t] = "yielded"]
        /\ kept' = [kept EXCEPT ![t] = bound]
        /\ StoreLock!HandOver(t)
        /\ UNCHANGED <<bound, registered, kind, ask, part, prev, into>>
    BY DEF Yield, At, Goes
  <1>2. owner = t
    BY <1>1 DEF StoreLock!HandOver
  <1>3. TypeOK'
    <2>1. StoreLock!TypeOK'
      BY <1>1, LockType DEF TypeOK
    <2>2. kept' \in [Thread -> Ask]
      BY <1>1 DEF TypeOK, Ask
    <2> QED BY <1>1, <2>1, <2>2 DEF TypeOK, Place
  <1>4. InsideOwns'
    BY <1>1, <1>2, Alone DEF InsideOwns, TypeOK
  <1>5. Carries(t)'
    BY <1>1 DEF Carries, In, TypeOK
  <1>6. \A u \in Thread \ {t} : Carries(u)'
    BY <1>1, OthersCarry DEF TypeOK
  <1> QED BY <1>3, <1>4, <1>5, <1>6

LEMMA RerequestKeeps == ASSUME IInv, NEW t \in Thread, Rerequest(t) PROVE IInv'
  <1> USE DEF IInv
  <1>1. /\ TakesLock(t)
        /\ pc[t] = "yielded" /\ pc' = [pc EXCEPT ![t] = "rewaiting"]
        /\ UNCHANGED <<bound, registered, kind, ask, part, prev, kept, into>>
    BY DEF Rerequest, RetakesLock, At, Goes
  <1>2. TypeOK'
    BY <1>1, LockType DEF TypeOK, Place
  <1>3. InsideOwns'
    BY <1>1, TakingKeepsOwner, NoOwnerIsNoThread DEF InsideOwns, TypeOK
  <1>4. Carries(t)'
    BY <1>1 DEF Carries, In, TypeOK
  <1>5. \A u \in Thread \ {t} : Carries(u)'
    BY <1>1, OthersCarry DEF TypeOK
  <1> QED BY <1>2, <1>3, <1>4, <1>5

LEMMA ResumeKeeps == ASSUME IInv, NEW t \in Thread, Resume(t) PROVE IInv'
  <1> USE DEF IInv
  <1>1. /\ owner = t
        /\ pc[t] = "rewaiting" /\ pc' = [pc EXCEPT ![t] = "inside"]
        /\ bound' = kept[t]
        /\ kept' = [kept EXCEPT ![t] = Unset]
        /\ UNCHANGED <<owner, queue, registered, kind, ask, part, prev, into>>
    BY DEF Resume, Rebinds, At, Goes, lockVars
  <1>2. kept[t] \in Partition /\ In(t, kept[t])
    BY <1>1 DEF Carries
  <1>3. TypeOK'
    <2>1. StoreLock!TypeOK'
      BY <1>1 DEF TypeOK, StoreLock!TypeOK
    <2>2. kept' \in [Thread -> Ask]
      BY <1>1 DEF TypeOK, Ask
    <2> QED BY <1>1, <1>2, <2>1, <2>2 DEF TypeOK, Place
  <1>4. InsideOwns'
    BY <1>1, Alone DEF InsideOwns, TypeOK
  <1>5. Carries(t)'
    BY <1>1, <1>2 DEF Carries, In, TypeOK
  <1>6. \A u \in Thread \ {t} : Carries(u)'
    BY <1>1, OthersCarry DEF TypeOK
  <1> QED BY <1>3, <1>4, <1>5, <1>6

LEMMA LeaveKeeps == ASSUME IInv, NEW t \in Thread, Leave(t) PROVE IInv'
  <1> USE DEF IInv
  <1>1. /\ pc[t] = "inside" /\ pc' = [pc EXCEPT ![t] = "done"]
        /\ bound' = IF prev[t] = Unset THEN bound ELSE prev[t]
        /\ StoreLock!HandOver(t)
        /\ part' = [part EXCEPT ![t] = Unset]
        /\ prev' = [prev EXCEPT ![t] = Unset]
        /\ kept' = [kept EXCEPT ![t] = Unset]
        /\ UNCHANGED <<registered, kind, ask, into>>
    BY DEF Leave, Restores, At, Goes
  <1>2. owner = t
    BY <1>1 DEF StoreLock!HandOver
  <1>3. TypeOK'
    <2>1. StoreLock!TypeOK'
      BY <1>1, LockType DEF TypeOK
    <2>2. \A x \in {ask', part', prev', kept'} : x \in [Thread -> Ask]
      BY <1>1 DEF TypeOK, Ask
    <2>3. bound' \in Partition
      BY <1>1 DEF TypeOK, Ask
    <2> QED BY <1>1, <2>1, <2>2, <2>3 DEF TypeOK, Place
  <1>4. InsideOwns'
    BY <1>1, <1>2, Alone DEF InsideOwns, TypeOK
  <1>5. Carries(t)'
    BY <1>1 DEF Carries, In, TypeOK
  <1>6. \A u \in Thread \ {t} : Carries(u)'
    BY <1>1, <1>2, OthersCarry DEF TypeOK
  <1> QED BY <1>3, <1>4, <1>5, <1>6

LEMMA UnregisterKeeps == ASSUME IInv, NEW t \in Thread, Unregister(t) PROVE IInv'
  <1> USE DEF IInv
  <1>1. /\ registered' = registered \ {t}
        /\ UNCHANGED <<owner, queue, bound, pc, kind, ask, part, prev, kept, into>>
    BY DEF Unregister, lockVars
  <1>2. TypeOK'
    <2>1. StoreLock!TypeOK'
      BY <1>1 DEF TypeOK, StoreLock!TypeOK
    <2> QED BY <1>1, <2>1 DEF TypeOK
  <1>3. InsideOwns' /\ \A u \in Thread : Carries(u)'
    BY <1>1 DEF InsideOwns, Carries, In
  <1> QED BY <1>2, <1>3

LEMMA NextIInv == IInv /\ [Next]_vars => IInv'
  <1> SUFFICES ASSUME IInv, [Next]_vars PROVE IInv'
    OBVIOUS
  <1>1. CASE UNCHANGED vars
    <2>1. StoreLock!TypeOK' /\ TypeOK'
      BY <1>1 DEF vars, IInv, TypeOK, StoreLock!TypeOK
    <2> QED BY <1>1, <2>1 DEF vars, IInv, InsideOwns, Carries, In
  <1>2. ASSUME NEW t \in Thread,
               \/ Call(t) \/ Request(t) \/ Enter(t) \/ Write(t)
               \/ Yield(t) \/ Rerequest(t) \/ Resume(t)
               \/ Leave(t) \/ Unregister(t)
        PROVE  IInv'
    BY <1>2, CallKeeps, RequestKeeps, EnterKeeps, WriteKeeps, YieldKeeps,
       RerequestKeeps, ResumeKeeps, LeaveKeeps, UnregisterKeeps
  <1> QED BY <1>1, <1>2 DEF Next

LEMMA Invariance == Spec => []IInv
  BY InitIInv, NextIInv, PTL DEF Spec

-----------------------------------------------------------------------------

\* Every variable keeps its type, the store lock's included.
THEOREM TypeCorrect == Spec => []TypeOK
  <1>1. IInv => TypeOK
    BY DEF IInv
  <1> QED BY <1>1, Invariance, PTL

\* A request that names a partition writes into that partition only, whatever
\* binds the shared Store while it waits or has given the lock away.
THEOREM RowsLandWhereNamed == Spec => []NamedWritesLand
  <1>1. IInv => NamedWritesLand
    <2> SUFFICES ASSUME IInv, NEW t \in Thread, ask[t] # Unset
                 PROVE  into[t] \subseteq {ask[t]}
      BY DEF NamedWritesLand
    <2>1. Carries(t) /\ pc[t] \in Place
      BY DEF IInv, TypeOK
    <2> QED BY <2>1 DEF Carries, In, Place
  <1> QED BY <1>1, Invariance, PTL

\* One request never spreads its rows over two partitions.
THEOREM RowsAreNotSpread == Spec => []OneRequestOnePartition
  <1>1. IInv => OneRequestOnePartition
    <2> SUFFICES ASSUME IInv, NEW t \in Thread PROVE Cardinality(into[t]) <= 1
      BY DEF OneRequestOnePartition
    <2>1. Carries(t) /\ pc[t] \in Place
      BY DEF IInv, TypeOK
    <2>2. into[t] = {} \/ \E p : into[t] = {p}
      BY <2>1 DEF Carries, In, Place
    <2>3. CASE into[t] = {}
      <3>1. Cardinality(into[t]) = 0
        BY <2>3, FS_EmptySet
      <3> QED BY <3>1
    <2>4. CASE \E p : into[t] = {p}
      <3>1. Cardinality(into[t]) = 1
        BY <2>4, FS_Singleton
      <3> QED BY <3>1
    <2> QED BY <2>2, <2>3, <2>4
  <1> QED BY <1>1, Invariance, PTL

\* The rows of a request land together, and where it said, however many ingests
\* and ops bind the shared Store in between.
THEOREM WritesStayTogether == Spec => []WritesKeepTheirPartition
  <1>1. NamedWritesLand /\ OneRequestOnePartition => WritesKeepTheirPartition
    BY DEF WritesKeepTheirPartition
  <1> QED BY <1>1, RowsLandWhereNamed, RowsAreNotSpread, PTL

-----------------------------------------------------------------------------
(***************************************************************************)
(* The binding comes back.  As long as one ingest at most has been through *)
(* the lock, everybody who is inside restores `Home' when it leaves, unless*)
(* that ingest is away; and while it is away it still knows the way home.  *)
(***************************************************************************)
Through(j) == pc[j] \in {"inside", "yielded", "rewaiting", "done"}
Away(j) == pc[j] \in {"yielded", "rewaiting"}
Lone == \A i, j \in Job : Through(i) /\ Through(j) => i = j

\* What with_partition restores, if the Store is bound to `here' by then.
GoesHome(t, here) == prev[t] = Home \/ (prev[t] = Unset /\ here = Home)
RestoresHome ==
    Lone =>
      /\ \A j \in Job : Away(j) => GoesHome(j, kept[j])
      /\ (\A j \in Job : ~Away(j)) =>
           /\ \A t \in Thread : pc[t] = "inside" => GoesHome(t, bound)
           /\ (\A t \in Thread : pc[t] # "inside") => bound = Home

OnlyJobsYield == \A t \in Thread : Away(t) => t \in Job
Done == {j \in Job : pc[j] = "done"}
HomeInv == IInv /\ OnlyJobsYield /\ RestoresHome /\ IsFiniteSet(Done)

LEMMA InitHome == Init => HomeInv
  <1> SUFFICES ASSUME Init PROVE HomeInv
    OBVIOUS
  <1>1. OnlyJobsYield /\ RestoresHome
    BY DEF Init, OnlyJobsYield, RestoresHome, Away, Thread
  <1>2. Done = {}
    BY DEF Init, Done, Thread
  <1> QED BY <1>1, <1>2, InitIInv, FS_EmptySet DEF HomeInv

\* A step of t that neither enters nor leaves nor touches a binding.
LEMMA NoBindingKeeps ==
    ASSUME RestoresHome, UNCHANGED <<bound, prev, kept>>,
           \A u \in Thread : /\ pc'[u] = "inside" <=> pc[u] = "inside"
                             /\ Through(u)' <=> Through(u)
                             /\ Away(u)' <=> Away(u)
    PROVE  RestoresHome'
  BY DEF RestoresHome, Lone, GoesHome, Thread

LEMMA EnterGoesHome == ASSUME HomeInv, NEW t \in Thread, Enter(t) PROVE RestoresHome'
  <1> USE DEF HomeInv
  <1>1. /\ owner = t /\ pc[t] = "waiting" /\ pc' = [pc EXCEPT ![t] = "inside"]
        /\ prev' = [prev EXCEPT ![t] = IF part[t] \in {Unset, bound} THEN Unset ELSE bound]
        /\ bound' = (IF part[t] = Unset THEN bound ELSE part[t]) /\ UNCHANGED kept
        /\ pc \in [Thread -> Place] /\ prev \in [Thread -> Ask]
    BY DEF Enter, At, Goes, Binds, IInv, TypeOK
  <1>2. \A u \in Thread : pc[u] # "inside"
    BY <1>1, Alone DEF IInv
  <1>3. \A u \in Thread \ {t} : pc'[u] = pc[u] /\ prev'[u] = prev[u]
    BY <1>1
  <1> SUFFICES ASSUME Lone' PROVE /\ \A j \in Job : Away(j)' => GoesHome(j, kept[j])'
                                  /\ (\A j \in Job : ~Away(j)') =>
                                       /\ \A u \in Thread : pc'[u] = "inside" => GoesHome(u, bound)'
                                       /\ (\A u \in Thread : pc'[u] # "inside") => bound' = Home
    BY DEF RestoresHome
  <1>4. Lone /\ \A j \in Job : Away(j)' <=> Away(j)
    BY <1>1, <1>3 DEF Lone, Through, Away, Thread
  <1>5. \A j \in Job : Away(j)' => GoesHome(j, kept[j])'
    BY <1>1, <1>3, <1>4 DEF RestoresHome, GoesHome, Away, Thread
  <1>6. ASSUME \A j \in Job : ~Away(j)' PROVE GoesHome(t, bound)'
    <2>1. bound = Home
      BY <1>2, <1>4, <1>6 DEF RestoresHome
    <2> QED BY <1>1, <2>1 DEF GoesHome
  <1> QED BY <1>1, <1>2, <1>3, <1>5, <1>6

LEMMA YieldGoesHome == ASSUME HomeInv, NEW t \in Thread, Yield(t) PROVE RestoresHome'
  <1> USE DEF HomeInv
  <1>1. /\ t \in Job /\ pc[t] = "inside" /\ pc' = [pc EXCEPT ![t] = "yielded"]
        /\ kept' = [kept EXCEPT ![t] = bound] /\ UNCHANGED <<bound, prev>>
        /\ pc \in [Thread -> Place] /\ kept \in [Thread -> Ask]
    BY DEF Yield, At, Goes, IInv, TypeOK
  <1>2. \A u \in Thread \ {t} : pc'[u] = pc[u] /\ kept'[u] = kept[u]
    BY <1>1
  <1>3. Away(t)' /\ kept'[t] = bound
    BY <1>1 DEF Away
  <1>4. ASSUME Lone' PROVE \A j \in Job : Away(j)' => GoesHome(j, kept[j])'
    <2>1. Lone
      BY <1>1, <1>2, <1>4 DEF Lone, Through, Thread
    <2>2. \A j \in Job : ~Away(j) /\ (j # t => ~Away(j)')
      BY <1>1, <1>2, <2>1 DEF Lone, Through, Away, Thread
    <2>3. GoesHome(t, bound)
      BY <1>1, <2>1, <2>2 DEF RestoresHome
    <2> QED BY <1>1, <1>3, <2>2, <2>3 DEF GoesHome
  <1> QED BY <1>1, <1>3, <1>4 DEF RestoresHome

LEMMA ResumeGoesHome == ASSUME HomeInv, NEW t \in Thread, Resume(t) PROVE RestoresHome'
  <1> USE DEF HomeInv
  <1>1. /\ owner = t /\ pc[t] = "rewaiting" /\ pc' = [pc EXCEPT ![t] = "inside"]
        /\ bound' = kept[t] /\ UNCHANGED prev
        /\ pc \in [Thread -> Place] /\ kept' = [kept EXCEPT ![t] = Unset]
    BY DEF Resume, Rebinds, At, Goes, IInv, TypeOK
  <1>2. \A u \in Thread \ {t} : pc'[u] = pc[u] /\ pc[u] # "inside"
    BY <1>1, Alone DEF IInv
  <1>3. ASSUME Lone' PROVE (\A j \in Job : ~Away(j)') /\ GoesHome(t, bound)'
    <2>1. CASE t \in Job
      <3>1. Lone /\ \A j \in Job \ {t} : ~Through(j)
        BY <1>1, <1>2, <1>3, <2>1 DEF Lone, Through, Thread
      <3>2. \A j \in Job : ~Away(j)'
        BY <1>1, <1>2, <3>1 DEF Away, Through, Thread
      <3>3. GoesHome(t, kept[t])
        BY <1>1, <2>1, <3>1 DEF RestoresHome, Away
      <3> QED BY <1>1, <3>2, <3>3 DEF GoesHome
    <2> QED BY <1>1, <2>1 DEF OnlyJobsYield, Away
  <1>4. pc'[t] = "inside"
    BY <1>1
  <1> QED BY <1>2, <1>3, <1>4 DEF RestoresHome

LEMMA LeaveGoesHome == ASSUME HomeInv, NEW t \in Thread, Leave(t) PROVE RestoresHome'
  <1> USE DEF HomeInv
  <1>1. /\ pc[t] = "inside" /\ pc' = [pc EXCEPT ![t] = "done"]
        /\ bound' = IF prev[t] = Unset THEN bound ELSE prev[t]
        /\ pc \in [Thread -> Place] /\ prev \in [Thread -> Ask] /\ kept \in [Thread -> Ask]
        /\ \A u \in Thread \ {t} : prev'[u] = prev[u] /\ kept'[u] = kept[u]
    BY DEF Leave, Restores, At, Goes, IInv, TypeOK
  <1>2. \A u \in Thread \ {t} : pc'[u] = pc[u] /\ pc[u] # "inside"
    BY <1>1, Alone DEF IInv, InsideOwns
  <1>3. pc'[t] = "done" /\ (\A u \in Thread : pc'[u] # "inside") /\ \A j \in Job : Away(j)' <=> Away(j)
    BY <1>1, <1>2 DEF Away, Thread
  <1>4. Lone' => Lone
    BY <1>1, <1>2 DEF Lone, Through, Thread
  <1>5. ASSUME Lone' PROVE \A j \in Job : Away(j)' => GoesHome(j, kept[j])'
    BY <1>1, <1>3, <1>4, <1>5 DEF RestoresHome, GoesHome, Away, Thread
  <1>6. ASSUME Lone', \A j \in Job : ~Away(j)' PROVE bound' = Home
    <2>1. GoesHome(t, bound)
      BY <1>1, <1>3, <1>4, <1>6 DEF RestoresHome
    <2> QED BY <1>1, <2>1, HomeAssumption, UnsetAssumption DEF GoesHome
  <1> QED BY <1>3, <1>5, <1>6 DEF RestoresHome

\* Steps at the places where a request has no binding in force.
LEMMA OutsideGoesHome ==
    ASSUME HomeInv, NEW t \in Thread,
           \/ Call(t) \/ Request(t) \/ Write(t) \/ Rerequest(t) \/ Unregister(t)
    PROVE  RestoresHome'
  <1>1. UNCHANGED <<bound, prev, kept>>
    BY DEF Call, Request, Write, Rerequest, Unregister
  <1>2. /\ \A u \in Thread \ {t} : pc'[u] = pc[u]
        /\ \/ pc'[t] = pc[t]
           \/ pc[t] = "idle" /\ pc'[t] = "called"
           \/ pc[t] = "called" /\ pc'[t] = "waiting"
           \/ pc[t] = "yielded" /\ pc'[t] = "rewaiting"
    BY DEF HomeInv, IInv, TypeOK, Call, Request, Write, Rerequest, Unregister, At, Goes
  <1>3. \A u \in Thread : /\ pc'[u] = "inside" <=> pc[u] = "inside"
                          /\ Through(u)' <=> Through(u)
                          /\ Away(u)' <=> Away(u)
    BY <1>2 DEF Through, Away
  <1> QED BY <1>1, <1>3, NoBindingKeeps DEF HomeInv

\* Only a job gives the lock away, and a step ends at most one job.
LEMMA PlacesKeep ==
    ASSUME HomeInv, NEW t \in Thread,
           \/ Call(t) \/ Request(t) \/ Enter(t) \/ Write(t)
           \/ Yield(t) \/ Rerequest(t) \/ Resume(t)
           \/ Leave(t) \/ Unregister(t)
    PROVE  OnlyJobsYield' /\ IsFiniteSet(Done)'
  <1>1. /\ \A u \in Thread \ {t} : pc'[u] = pc[u]
        /\ Away(t)' => t \in Job \/ Away(t)
    BY DEF HomeInv, IInv, TypeOK, Call, Request, Enter, Write, Yield, Rerequest,
           Resume, Leave, Unregister, At, Goes, Away
  <1>2. OnlyJobsYield'
    BY <1>1 DEF HomeInv, OnlyJobsYield, Away
  <1>3. Done' \subseteq Done \cup {t}
    BY <1>1 DEF Done, Thread
  <1>4. IsFiniteSet(Done')
    BY <1>3, FS_AddElement, FS_Subset DEF HomeInv
  <1> QED BY <1>2, <1>4

LEMMA NextHome == HomeInv /\ [Next]_vars => HomeInv'
  <1> SUFFICES ASSUME HomeInv, [Next]_vars PROVE HomeInv'
    OBVIOUS
  <1>1. IInv'
    BY NextIInv DEF HomeInv
  <1>2. CASE Next
    <2> PICK t \in Thread : \/ Call(t) \/ Request(t) \/ Enter(t) \/ Write(t)
                            \/ Yield(t) \/ Rerequest(t) \/ Resume(t)
                            \/ Leave(t) \/ Unregister(t)
      BY <1>2 DEF Next
    <2>1. RestoresHome'
      BY EnterGoesHome, YieldGoesHome, ResumeGoesHome, LeaveGoesHome, OutsideGoesHome
    <2> QED BY <1>1, <2>1, PlacesKeep DEF HomeInv
  <1>3. CASE UNCHANGED vars
    <2>1. RestoresHome' /\ OnlyJobsYield' /\ Done' = Done
      BY <1>3, NoBindingKeeps DEF vars, HomeInv, OnlyJobsYield, Done, Through, Away
    <2> QED BY <1>1, <2>1 DEF HomeInv
  <1> QED BY <1>2, <1>3

\* Two jobs that are done are one, when the count says so.
LEMMA OneDone ==
    ASSUME IsFiniteSet(Done), Cardinality(Done) <= 1, NEW i \in Done, NEW j \in Done
    PROVE  i = j
  <1> SUFFICES ASSUME i # j PROVE FALSE
    OBVIOUS
  <1>1. IsFiniteSet({i}) /\ Cardinality({i}) = 1
    BY FS_Singleton
  <1>2. IsFiniteSet({i} \cup {j}) /\ Cardinality({i} \cup {j}) = 2
    BY <1>1, FS_AddElement
  <1>3. {i} \cup {j} \in SUBSET Done
    OBVIOUS
  <1>4. Cardinality({i} \cup {j}) <= Cardinality(Done) /\ Cardinality(Done) \in Nat
    BY <1>3, FS_Subset, FS_CardinalityType
  <1> QED BY <1>2, <1>4

(***************************************************************************)
(* The binding comes back: with at most one ingest behind it, a daemon     *)
(* where nothing is under way is bound to its own partition, whatever the  *)
(* ops bound while that ingest had given the lock away (the `finally' of   *)
(* with_partition, and _partition_keeping_yield).                          *)
(***************************************************************************)
THEOREM BindingComesBack == Spec => []RestoredAfterLoneJob
  <1>1. HomeInv => RestoredAfterLoneJob
    <2> SUFFICES ASSUME HomeInv, AtRest, Cardinality(Done) <= 1 PROVE bound = Home
      BY DEF RestoredAfterLoneJob, Done
    <2>1. Lone
      BY OneDone DEF HomeInv, Lone, Through, Done, AtRest, NoJobUnderWay
    <2>2. \A j \in Job : ~Away(j)
      BY DEF AtRest, NoJobUnderWay, Away
    <2>3. \A t \in Thread : pc[t] # "inside"
      BY DEF AtRest, NoJobUnderWay, Thread
    <2> QED BY <2>1, <2>2, <2>3 DEF HomeInv, RestoresHome
  <1> QED BY <1>1, InitHome, NextHome, PTL DEF Spec
=============================================================================
