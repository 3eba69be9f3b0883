-------------------------- MODULE FairLockProofs ---------------------------
(***************************************************************************)
(* Proofs about FairLock, for any set of threads: the inductive invariant  *)
(* is TypeOK and OwnershipAccounted together; mutual exclusion and the     *)
(* refinement of FifoMutex follow from it.                                 *)
(***************************************************************************)
EXTENDS FairLock, SequenceTheorems, TLAPS

Occurs(s, t) == \E i \in DOMAIN s : s[i] = t
NoDuplicates(s) == \A i, j \in DOMAIN s : s[i] = s[j] => i = j

IInv == TypeOK /\ OwnershipAccounted

(* Joining at the back adds one ticket and duplicates none. *)
LEMMA AppendTicket ==
    ASSUME NEW S, NEW s \in Seq(S), NEW e \in S,
           NoDuplicates(s), ~Occurs(s, e)
    PROVE  /\ Append(s, e) \in Seq(S)
           /\ Append(s, e) # <<>>
           /\ NoDuplicates(Append(s, e))
           /\ \A t : Occurs(Append(s, e), t) <=> Occurs(s, t) \/ t = e
<1>1. /\ Append(s, e) \in Seq(S)
      /\ DOMAIN Append(s, e) = 1..(Len(s) + 1)
      /\ \A i \in 1..Len(s) : Append(s, e)[i] = s[i]
      /\ Append(s, e)[Len(s) + 1] = e
      /\ DOMAIN s = 1..Len(s)
      /\ Len(s) \in Nat
  OBVIOUS
<1>2. NoDuplicates(Append(s, e))
  <2> SUFFICES ASSUME NEW i \in 1..(Len(s) + 1), NEW j \in 1..(Len(s) + 1),
                      Append(s, e)[i] = Append(s, e)[j]
               PROVE  i = j
    BY <1>1 DEF NoDuplicates
  <2>1. CASE i \in 1..Len(s) /\ j \in 1..Len(s)
    BY <2>1, <1>1 DEF NoDuplicates
  <2>2. CASE i = Len(s) + 1 /\ j \in 1..Len(s)
    BY <2>2, <1>1 DEF Occurs
  <2>3. CASE j = Len(s) + 1 /\ i \in 1..Len(s)
    BY <2>3, <1>1 DEF Occurs
  <2>4. CASE i = Len(s) + 1 /\ j = Len(s) + 1
    BY <2>4
  <2> QED BY <2>1, <2>2, <2>3, <2>4, <1>1
<1>3. ASSUME NEW t PROVE Occurs(Append(s, e), t) <=> Occurs(s, t) \/ t = e
  <2>1. ASSUME Occurs(Append(s, e), t) PROVE Occurs(s, t) \/ t = e
    <3>1. PICK i \in 1..(Len(s) + 1) : Append(s, e)[i] = t
      BY <2>1, <1>1 DEF Occurs
    <3>2. i \in 1..Len(s) \/ i = Len(s) + 1
      BY <1>1
    <3> QED BY <3>1, <3>2, <1>1 DEF Occurs
  <2>2. ASSUME Occurs(s, t) PROVE Occurs(Append(s, e), t)
    <3>1. PICK i \in 1..Len(s) : s[i] = t
      BY <2>2, <1>1 DEF Occurs
    <3>2. i \in 1..(Len(s) + 1) /\ Append(s, e)[i] = t
      BY <3>1, <1>1
    <3> QED BY <3>2, <1>1 DEF Occurs
  <2>3. ASSUME t = e PROVE Occurs(Append(s, e), t)
    <3>1. Len(s) + 1 \in 1..(Len(s) + 1)
      BY <1>1
    <3> QED BY <2>3, <3>1, <1>1 DEF Occurs
  <2> QED BY <2>1, <2>2, <2>3
<1>4. Append(s, e) # <<>>
  <2>1. Len(Append(s, e)) = Len(s) + 1 /\ Len(<<>>) = 0
    OBVIOUS
  <2> QED BY <2>1, <1>1
<1> QED BY <1>1, <1>2, <1>3, <1>4

(* Taking the oldest ticket off removes that ticket and no other. *)
LEMMA TailTicket ==
    ASSUME NEW S, NEW s \in Seq(S), s # <<>>, NoDuplicates(s)
    PROVE  /\ Tail(s) \in Seq(S)
           /\ Head(s) \in S
           /\ Occurs(s, Head(s))
           /\ NoDuplicates(Tail(s))
           /\ \A t : Occurs(Tail(s), t) <=> Occurs(s, t) /\ t # Head(s)
<1>1. /\ Tail(s) \in Seq(S)
      /\ Len(s) \in Nat /\ Len(s) >= 1
      /\ DOMAIN s = 1..Len(s)
      /\ DOMAIN Tail(s) = 1..(Len(s) - 1)
      /\ \A i \in 1..(Len(s) - 1) : Tail(s)[i] = s[i + 1]
      /\ Head(s) = s[1]
      /\ Head(s) \in S
  OBVIOUS
<1>2. Occurs(s, Head(s))
  BY <1>1 DEF Occurs
<1>3. NoDuplicates(Tail(s))
  <2> SUFFICES ASSUME NEW i \in 1..(Len(s) - 1), NEW j \in 1..(Len(s) - 1),
                      Tail(s)[i] = Tail(s)[j]
               PROVE  i = j
    BY <1>1 DEF NoDuplicates
  <2>1. i + 1 \in DOMAIN s /\ j + 1 \in DOMAIN s /\ s[i + 1] = s[j + 1]
    BY <1>1
  <2> QED BY <2>1, <1>1 DEF NoDuplicates
<1>4. ASSUME NEW t PROVE Occurs(Tail(s), t) <=> Occurs(s, t) /\ t # Head(s)
  <2>1. ASSUME Occurs(Tail(s), t) PROVE Occurs(s, t) /\ t # Head(s)
    <3>1. PICK i \in 1..(Len(s) - 1) : Tail(s)[i] = t
      BY <2>1, <1>1 DEF Occurs
    <3>2. i + 1 \in DOMAIN s /\ 1 \in DOMAIN s /\ i + 1 # 1 /\ s[i + 1] = t
      BY <3>1, <1>1
    <3> QED BY <3>2, <1>1 DEF Occurs, NoDuplicates
  <2>2. ASSUME Occurs(s, t), t # Head(s) PROVE Occurs(Tail(s), t)
    <3>1. PICK i \in 1..Len(s) : s[i] = t
      BY <2>2, <1>1 DEF Occurs
    <3>2. i - 1 \in 1..(Len(s) - 1) /\ Tail(s)[i - 1] = t
      BY <3>1, <2>2, <1>1
    <3> QED BY <3>2, <1>1 DEF Occurs
  <2> QED BY <2>1, <2>2
<1> QED BY <1>1, <1>2, <1>3, <1>4

(* Withdrawing a ticket removes that ticket and no other. *)
LEMMA RemoveTicket ==
    ASSUME NEW S, NEW s \in Seq(S), NEW k \in DOMAIN s, NoDuplicates(s)
    PROVE  /\ RemoveAt(s, k) \in Seq(S)
           /\ NoDuplicates(RemoveAt(s, k))
           /\ \A t : Occurs(RemoveAt(s, k), t) <=> Occurs(s, t) /\ t # s[k]
<1> DEFINE r == RemoveAt(s, k)
<1>1. /\ Len(s) \in Nat
      /\ DOMAIN s = 1..Len(s)
      /\ k \in 1..Len(s)
  OBVIOUS
<1>2. /\ SubSeq(s, 1, k - 1) \in Seq(S)
      /\ Len(SubSeq(s, 1, k - 1)) = k - 1
      /\ \A i \in 1..(k - 1) : SubSeq(s, 1, k - 1)[i] = s[i]
      /\ SubSeq(s, k + 1, Len(s)) \in Seq(S)
      /\ Len(SubSeq(s, k + 1, Len(s))) = Len(s) - k
      /\ \A i \in 1..(Len(s) - k) : SubSeq(s, k + 1, Len(s))[i] = s[k + i]
  BY <1>1
<1>3. /\ r \in Seq(S)
      /\ DOMAIN r = 1..(Len(s) - 1)
      /\ \A i \in 1..(Len(s) - 1) : r[i] = IF i < k THEN s[i] ELSE s[i + 1]
  <2> DEFINE a == SubSeq(s, 1, k - 1)
             b == SubSeq(s, k + 1, Len(s))
  <2>1. r = a \o b
    BY DEF RemoveAt
  <2>2. /\ a \in Seq(S) /\ Len(a) = k - 1
        /\ b \in Seq(S) /\ Len(b) = Len(s) - k
        /\ \A i \in 1..(k - 1) : a[i] = s[i]
        /\ \A i \in 1..(Len(s) - k) : b[i] = s[k + i]
    BY <1>2
  <2> HIDE DEF r, a, b
  <2>3. /\ r \in Seq(S) /\ Len(r) = Len(a) + Len(b)
        /\ \A i \in 1..(Len(a) + Len(b)) :
              r[i] = IF i <= Len(a) THEN a[i] ELSE b[i - Len(a)]
    BY <2>1, <2>2, ConcatProperties
  <2>4. ASSUME NEW i \in 1..(Len(s) - 1)
        PROVE  r[i] = IF i < k THEN s[i] ELSE s[i + 1]
    <3>1. CASE i < k
      BY <3>1, <2>2, <2>3, <1>1
    <3>2. CASE ~(i < k)
      <4>1. i - (k - 1) \in 1..(Len(s) - k) /\ k + (i - (k - 1)) = i + 1
        BY <3>2, <1>1
      <4>2. r[i] = b[i - (k - 1)]
        BY <3>2, <2>2, <2>3, <1>1
      <4> QED BY <4>1, <4>2, <3>2, <2>2
    <3> QED BY <3>1, <3>2
  <2>5. Len(a) + Len(b) = Len(s) - 1
    BY <2>2, <1>1
  <2> QED BY <2>2, <2>3, <2>4, <2>5, <1>1
<1> HIDE DEF r
<1>4. NoDuplicates(r)
  <2> SUFFICES ASSUME NEW i \in 1..(Len(s) - 1), NEW j \in 1..(Len(s) - 1),
                      r[i] = r[j]
               PROVE  i = j
    BY <1>3 DEF NoDuplicates
  <2> DEFINE up(n) == IF n < k THEN n ELSE n + 1
  <2>1. /\ up(i) \in 1..Len(s) /\ up(j) \in 1..Len(s)
        /\ r[i] = s[up(i)] /\ r[j] = s[up(j)]
    BY <1>1, <1>3
  <2>2. up(i) = up(j)
    BY <2>1, <1>1 DEF NoDuplicates
  <2> QED BY <2>2, <1>1
<1>5. ASSUME NEW t PROVE Occurs(r, t) <=> Occurs(s, t) /\ t # s[k]
  <2>1. ASSUME Occurs(r, t) PROVE Occurs(s, t) /\ t # s[k]
    <3>1. PICK i \in 1..(Len(s) - 1) : r[i] = t
      BY <2>1, <1>3 DEF Occurs
    <3>2. PICK j \in 1..Len(s) : j # k /\ s[j] = t
      BY <3>1, <1>1, <1>3
    <3> QED BY <3>2, <1>1 DEF Occurs, NoDuplicates
  <2>2. ASSUME Occurs(s, t), t # s[k] PROVE Occurs(r, t)
    <3>1. PICK j \in 1..Len(s) : s[j] = t
      BY <2>2, <1>1 DEF Occurs
    <3>2. CASE j < k
      <4>1. j \in 1..(Len(s) - 1) /\ r[j] = t
        BY <3>1, <3>2, <1>1, <1>3
      <4> QED BY <4>1, <1>3 DEF Occurs
    <3>3. CASE j > k
      <4>1. j - 1 \in 1..(Len(s) - 1) /\ r[j - 1] = t
        BY <3>1, <3>3, <1>1, <1>3
      <4> QED BY <4>1, <1>3 DEF Occurs
    <3> QED BY <3>1, <3>2, <3>3, <2>2, <1>1
  <2> QED BY <2>1, <2>2
<1> QED BY <1>3, <1>4, <1>5 DEF r

(* The initial state satisfies the inductive invariant. *)
LEMMA InitIInv == Init => IInv
<1> SUFFICES ASSUME Init PROVE IInv
  OBVIOUS
<1>1. /\ held = FALSE /\ waiters = <<>> /\ signalled = {}
      /\ \A t \in Thread : pc[t] = "outside" /\ ~Ticketed(t)
  BY DEF Init, Ticketed
<1>2. TypeOK
  <2>1. held \in BOOLEAN
    BY <1>1
  <2> QED BY <2>1 DEF Init, TypeOK, Place
<1>3. Owners = {}
  BY <1>1 DEF Owners
<1> QED BY <1>1, <1>2, <1>3 DEF IInv, OwnershipAccounted

(* What the helper of release() and of the refused acquire() does to the   *)
(* invariant: the thread that lets go is no owner afterwards, and the      *)
(* oldest ticket, if there is one, is the only owner.                      *)
LEMMA PassOrReleaseKeeps ==
    ASSUME IInv, NEW t \in Owners, PassOrRelease(t),
           pc[t] \in {"expired", "holds"},
           pc' = [pc EXCEPT ![t] = "outside"]
    PROVE  IInv'
<1>1. /\ t \in Thread
      /\ NoDuplicates(waiters)
      /\ \A u \in Thread : Ticketed(u) <=> Occurs(waiters, u)
      /\ \A u \in Thread : Ticketed(u)' <=> Occurs(waiters', u)
      /\ ~Occurs(waiters, t)
      /\ \A u \in Thread \ {t} : pc[u] # "holds" /\ u \notin signalled
  BY DEF IInv, OwnershipAccounted, Owners, Ticketed, Occurs, NoDuplicates
<1>2. CASE waiters = <<>>
  <2>1. /\ held' = FALSE /\ waiters' = <<>> /\ signalled' = signalled \ {t}
    BY <1>2 DEF PassOrRelease
  <2>2. TypeOK'
    <3>1. held' \in BOOLEAN /\ waiters' \in Seq(Thread)
      BY <2>1, <1>2 DEF IInv, TypeOK
    <3> QED BY <2>1, <3>1 DEF IInv, TypeOK, Place
  <2>3. Owners' = {} /\ signalled' = {}
    BY <2>1, <1>1 DEF Owners, IInv, TypeOK
  <2>4. \A u \in Thread : ~Ticketed(u)'
    BY <2>1 DEF Ticketed
  <2>5. \A u \in Thread : pc'[u] \notin {"blocked", "timed", "expired"}
    BY <1>1, <1>2 DEF IInv, TypeOK, OwnershipAccounted, Ticketed
  <2> QED BY <2>1, <2>2, <2>3, <2>4, <2>5 DEF IInv, OwnershipAccounted
<1>3. CASE waiters # <<>>
  <2> DEFINE h == Head(waiters)
  <2>1. /\ held' = held /\ waiters' = Tail(waiters)
        /\ signalled' = (signalled \ {t}) \cup {h}
    BY <1>3 DEF PassOrRelease
  <2>2. /\ waiters' \in Seq(Thread)
        /\ h \in Thread
        /\ Occurs(waiters, h)
        /\ NoDuplicates(waiters')
        /\ \A u : Occurs(waiters', u) <=> Occurs(waiters, u) /\ u # h
    BY <2>1, <1>1, <1>3, TailTicket DEF IInv, TypeOK
  <2>3. h # t /\ pc[h] \in {"blocked", "timed", "expired"} /\ pc'[h] = pc[h]
    BY <2>2, <1>1 DEF IInv, TypeOK, OwnershipAccounted
  <2> HIDE DEF h
  <2>4. TypeOK'
    BY <2>1, <2>2 DEF IInv, TypeOK, Place
  <2>5. Owners' = {h} /\ signalled' = {h}
    BY <2>1, <2>2, <2>3, <1>1 DEF Owners, IInv, TypeOK
  <2>6. held'
    BY <2>1 DEF IInv, OwnershipAccounted
  <2>7. ASSUME NEW u \in Thread
        PROVE  /\ Ticketed(u)' => u \notin Owners'
               /\ pc'[u] \in {"blocked", "timed", "expired"}
                    <=> Ticketed(u)' \/ u \in signalled'
    <3>1. CASE u = t
      BY <3>1, <1>1, <2>2, <2>3, <2>5 DEF IInv, TypeOK
    <3>2. CASE u # t
      <4>1. pc'[u] = pc[u]
        BY <3>2 DEF IInv, TypeOK
      <4>2. pc[u] \in {"blocked", "timed", "expired"} <=> Occurs(waiters, u)
        BY <3>2, <1>1 DEF IInv, OwnershipAccounted
      <4> QED BY <4>1, <4>2, <1>1, <2>2, <2>5
    <3> QED BY <3>1, <3>2
  <2>8. \A i, j \in DOMAIN waiters' : waiters'[i] = waiters'[j] => i = j
    BY <2>2 DEF NoDuplicates
  <2> QED BY <2>3, <2>4, <2>5, <2>6, <2>7, <2>8 DEF IInv, OwnershipAccounted
<1> QED BY <1>2, <1>3

(* Every step of _FairLock keeps the invariant. *)
LEMMA NextIInv == IInv /\ [Next]_vars => IInv'
<1> SUFFICES ASSUME IInv, [Next]_vars PROVE IInv'
  OBVIOUS
<1>0. /\ NoDuplicates(waiters)
      /\ \A u \in Thread : Ticketed(u) <=> Occurs(waiters, u)
      /\ \A u \in Thread : Ticketed(u)' <=> Occurs(waiters', u)
  BY DEF IInv, OwnershipAccounted, Ticketed, Occurs, NoDuplicates
<1>1. ASSUME NEW t \in Thread, AcquireFree(t) PROVE IInv'
  <2>1. TypeOK'
    BY <1>1 DEF AcquireFree, IInv, TypeOK, Place
  <2>2. Owners = {} /\ signalled = {}
    BY <1>1 DEF AcquireFree, IInv, OwnershipAccounted, Owners, TypeOK
  <2>3. Owners' = {t}
    BY <1>1, <2>2 DEF AcquireFree, IInv, TypeOK, Owners
  <2>4. \A u \in Thread : ~Ticketed(u) /\ ~Ticketed(u)'
    BY <1>1 DEF AcquireFree, Ticketed
  <2> QED BY <1>1, <2>1, <2>2, <2>3, <2>4
          DEF AcquireFree, IInv, TypeOK, OwnershipAccounted
<1>2. ASSUME NEW t \in Thread, AcquireQueue(t) PROVE IInv'
  <2>1. PICK mode \in {"blocked", "timed"} : pc' = [pc EXCEPT ![t] = mode]
    BY <1>2 DEF AcquireQueue
  <2>2. ~Occurs(waiters, t) /\ t \notin signalled /\ pc[t] = "outside" /\ held
    BY <1>2, <1>0 DEF AcquireQueue, IInv, OwnershipAccounted
  <2>3. /\ waiters' = Append(waiters, t) /\ held' = held /\ signalled' = signalled
    BY <1>2 DEF AcquireQueue
  <2>4. /\ waiters' \in Seq(Thread)
        /\ waiters' # <<>>
        /\ NoDuplicates(waiters')
        /\ \A u : Occurs(waiters', u) <=> Occurs(waiters, u) \/ u = t
    BY <2>2, <2>3, <1>0, AppendTicket DEF IInv, TypeOK
  <2>5. TypeOK'
    BY <2>1, <2>3, <2>4 DEF IInv, TypeOK, Place
  <2>6. Owners' = Owners /\ t \notin Owners
    BY <2>1, <2>2, <2>3 DEF Owners, IInv, TypeOK
  <2>7. \A u \in Thread : pc'[u] = IF u = t THEN mode ELSE pc[u]
    BY <2>1 DEF IInv, TypeOK
  <2>8. \A i, j \in DOMAIN waiters' : waiters'[i] = waiters'[j] => i = j
    BY <2>4 DEF NoDuplicates
  <2>9. ASSUME NEW u \in Thread
        PROVE  /\ Ticketed(u)' => u \notin Owners'
               /\ pc'[u] \in {"blocked", "timed", "expired"}
                    <=> Ticketed(u)' \/ u \in signalled'
    BY <1>0, <2>2, <2>3, <2>4, <2>6, <2>7 DEF IInv, OwnershipAccounted
  <2>10. /\ held' <=> Owners' # {}
         /\ \A u, v \in Owners' : u = v
         /\ waiters' # <<>> => held'
         /\ \A u \in signalled' : pc'[u] \in {"blocked", "timed", "expired"}
    BY <2>2, <2>3, <2>6, <2>7 DEF IInv, TypeOK, OwnershipAccounted
  <2> QED BY <2>5, <2>8, <2>9, <2>10 DEF IInv, OwnershipAccounted
<1>3. ASSUME NEW t \in Thread, Woken(t) PROVE IInv'
  <2>1. TypeOK'
    BY <1>3 DEF Woken, IInv, TypeOK, Place
  <2>2. Owners' = Owners
    BY <1>3 DEF Woken, Owners, IInv, TypeOK
  <2>3. t \in Owners /\ ~Ticketed(t)
    BY <1>3 DEF Woken, Owners, IInv, OwnershipAccounted
  <2>4. /\ held' = held /\ waiters' = waiters /\ signalled' = signalled \ {t}
        /\ \A u \in Thread : pc'[u] = IF u = t THEN "holds" ELSE pc[u]
        /\ \A u \in Thread : Ticketed(u)' <=> Ticketed(u)
    BY <1>3 DEF Woken, IInv, TypeOK, Ticketed
  <2> QED BY <2>1, <2>2, <2>3, <2>4 DEF IInv, TypeOK, OwnershipAccounted
<1>4. ASSUME NEW t \in Thread, Expire(t) PROVE IInv'
  <2>1. TypeOK'
    BY <1>4 DEF Expire, IInv, TypeOK, Place
  <2>2. Owners' = Owners
    BY <1>4 DEF Expire, Owners, IInv, TypeOK
  <2>3. /\ held' = held /\ waiters' = waiters /\ signalled' = signalled
        /\ \A u \in Thread : pc'[u] = IF u = t THEN "expired" ELSE pc[u]
        /\ \A u \in Thread : Ticketed(u)' <=> Ticketed(u)
        /\ pc[t] = "timed"
    BY <1>4 DEF Expire, IInv, TypeOK, Ticketed
  <2> QED BY <2>1, <2>2, <2>3 DEF IInv, TypeOK, OwnershipAccounted
<1>5. ASSUME NEW t \in Thread, Withdraw(t) PROVE IInv'
  <2>1. PICK k \in DOMAIN waiters : waiters[k] = t /\ waiters' = RemoveAt(waiters, k)
    BY <1>5 DEF Withdraw
  <2>2. /\ waiters' \in Seq(Thread)
        /\ NoDuplicates(waiters')
        /\ \A u : Occurs(waiters', u) <=> Occurs(waiters, u) /\ u # t
    BY <2>1, <1>0, RemoveTicket DEF IInv, TypeOK
  <2>3. /\ held' = held /\ signalled' = signalled
        /\ \A u \in Thread : pc'[u] = IF u = t THEN "outside" ELSE pc[u]
    BY <1>5 DEF Withdraw, IInv, TypeOK
  <2>4. TypeOK'
    BY <1>5, <2>2, <2>3 DEF Withdraw, IInv, TypeOK, Place
  <2>5. /\ held /\ Occurs(waiters, t) /\ t \notin Owners /\ pc[t] = "expired"
        /\ t \notin signalled
    BY <1>5, <2>1, <1>0
       DEF Withdraw, IInv, OwnershipAccounted, Occurs, Owners
  <2>6. Owners' = Owners
    BY <2>3, <2>5 DEF Owners
  <2>7. \A i, j \in DOMAIN waiters' : waiters'[i] = waiters'[j] => i = j
    BY <2>2 DEF NoDuplicates
  <2> QED BY <1>0, <2>2, <2>3, <2>4, <2>5, <2>6, <2>7
          DEF IInv, TypeOK, OwnershipAccounted
<1>6. ASSUME NEW t \in Thread, Refused(t) PROVE IInv'
  <2>1. t \in Owners
    BY <1>6 DEF Refused, IInv, OwnershipAccounted, Owners
  <2> QED BY <1>6, <2>1, PassOrReleaseKeeps DEF Refused
<1>7. ASSUME NEW t \in Thread, Release(t) PROVE IInv'
  <2>1. t \in Owners
    BY <1>7 DEF Release, Owners
  <2> QED BY <1>7, <2>1, PassOrReleaseKeeps DEF Release
<1>8. ASSUME UNCHANGED vars PROVE IInv'
  BY <1>8 DEF vars, IInv, TypeOK, OwnershipAccounted, Owners, Ticketed
<1> QED BY <1>1, <1>2, <1>3, <1>4, <1>5, <1>6, <1>7, <1>8 DEF Next

(* In every reachable state of _FairLock the invariant holds. *)
LEMMA Invariance == Spec => []IInv
  BY InitIInv, NextIInv, PTL DEF Spec

(* The lock's fields have their types whatever the threads are. *)
THEOREM TypeCorrect == Spec => []TypeOK
<1>1. IInv => TypeOK
  BY DEF IInv
<1> QED BY <1>1, Invariance, PTL

(* Ownership of the store lock is never lost, doubled or left with nobody, *)
(* however timeouts and hand-overs interleave, for any number of threads.  *)
THEOREM OwnershipNeverLost == Spec => []OwnershipAccounted
<1>1. IInv => OwnershipAccounted
  BY DEF IInv
<1> QED BY <1>1, Invariance, PTL

(* At most one thread is between acquire() == True and release().          *)
THEOREM LockExcludes == Spec => []MutualExclusion
<1>1. IInv => MutualExclusion
  BY DEF IInv, OwnershipAccounted, Owners, MutualExclusion
<1> QED BY <1>1, Invariance, PTL

(* The owner of the refinement mapping is the one thread that owns the     *)
(* lock, and NoOwner when there is none.                                   *)
LEMMA OwnerOfIsTheOwner ==
    ASSUME OwnershipAccounted
    PROVE  /\ \A t \in Owners : OwnerOf = t
           /\ Owners = {} => OwnerOf = NoOwner
           /\ OwnerOf = NoOwner => ~held
<1>1. ASSUME NEW t \in Owners PROVE OwnerOf = t
  <2>1. t \in Thread /\ \A u \in Thread : u \in Owners <=> u = t
    BY DEF OwnershipAccounted, Owners
  <2> QED BY <2>1 DEF OwnerOf
<1>2. Owners = {} => OwnerOf = NoOwner
  BY DEF OwnerOf
<1>3. ASSUME OwnerOf = NoOwner PROVE Owners = {}
  <2> SUFFICES ASSUME NEW t \in Owners PROVE FALSE
    OBVIOUS
  <2>1. OwnerOf = t /\ t \in Thread
    BY <1>1 DEF Owners
  <2> QED BY <2>1, <1>3, NoOwnerAssumption
<1> QED BY <1>1, <1>2, <1>3 DEF OwnershipAccounted

(* Letting go, by release() or by a refused acquire(), is a HandOver.      *)
LEMMA LettingGoIsHandOver ==
    ASSUME IInv, IInv', NEW t \in Owners, PassOrRelease(t),
           pc[t] \in {"expired", "holds"},
           pc' = [pc EXCEPT ![t] = "outside"]
    PROVE  Fifo!HandOver(t)
<1>1. OwnerOf = t
  BY OwnerOfIsTheOwner DEF IInv
<1>2. CASE waiters = <<>>
  <2>1. held' = FALSE /\ waiters' = waiters
    BY <1>2 DEF PassOrRelease
  <2>2. Owners' = {}
    BY <2>1 DEF IInv, OwnershipAccounted
  <2>3. OwnerOf' = NoOwner
    BY <2>2 DEF OwnerOf
  <2> QED BY <1>1, <1>2, <2>1, <2>3 DEF Fifo!HandOver
<1>3. CASE waiters # <<>>
  <2>1. /\ waiters' = Tail(waiters)
        /\ Head(waiters) \in signalled'
        /\ Head(waiters) \in Thread
    BY <1>3 DEF PassOrRelease, IInv, TypeOK
  <2>2. Head(waiters) \in Owners'
    BY <2>1 DEF Owners
  <2>3. OwnershipAccounted'
    BY DEF IInv
  <2>4. \A u \in Thread : u \in Owners' <=> u = Head(waiters)
    BY <2>1, <2>2, <2>3 DEF OwnershipAccounted
  <2>5. OwnerOf' = Head(waiters)
    BY <2>1, <2>2, <2>4 DEF OwnerOf
  <2> QED BY <1>1, <1>3, <2>1, <2>5 DEF Fifo!HandOver
<1> QED BY <1>2, <1>3

(* Every step of _FairLock is a step of the FIFO mutex, or changes neither *)
(* the owner nor the queue.                                                *)
LEMMA StepRefines == IInv /\ IInv' /\ [Next]_vars => [Fifo!Next]_(Fifo!vars)
<1> SUFFICES ASSUME IInv, IInv', [Next]_vars
             PROVE  Fifo!Next \/ (OwnerOf' = OwnerOf /\ waiters' = waiters)
  BY DEF Fifo!vars
<1>0. OwnershipAccounted /\ OwnershipAccounted'
  BY DEF IInv
<1>1. ASSUME NEW t \in Thread, AcquireFree(t) PROVE Fifo!Grab(t)
  <2>1. OwnerOf = NoOwner
    BY <1>0, <1>1, OwnerOfIsTheOwner DEF AcquireFree, OwnershipAccounted
  <2>2. t \in Owners'
    BY <1>1 DEF AcquireFree, Owners, IInv, TypeOK
  <2>3. \A u \in Thread : u \in Owners' <=> u = t
    BY <1>0, <2>2 DEF OwnershipAccounted
  <2>4. OwnerOf' = t
    BY <2>2, <2>3 DEF OwnerOf
  <2> QED BY <1>1, <2>1, <2>4 DEF AcquireFree, Fifo!Grab
<1>2. ASSUME NEW t \in Thread, AcquireQueue(t) PROVE Fifo!Join(t)
  <2>1. held /\ t \notin Owners /\ ~Ticketed(t)
    BY <1>0, <1>2 DEF AcquireQueue, OwnershipAccounted, Owners
  <2>2. OwnerOf # NoOwner
    BY <1>0, <2>1, OwnerOfIsTheOwner
  <2>3. PICK u \in Owners : TRUE
    BY <1>0, <2>1 DEF OwnershipAccounted
  <2>4. OwnerOf # t
    BY <1>0, <2>1, <2>3, OwnerOfIsTheOwner
  <2>5. Owners' = Owners
    BY <1>2, <2>1 DEF AcquireQueue, Owners, IInv, TypeOK
  <2>6. OwnerOf' = OwnerOf
    BY <2>5 DEF OwnerOf
  <2> QED BY <1>2, <2>1, <2>2, <2>4, <2>6
          DEF AcquireQueue, Fifo!Join, Fifo!Queued, Ticketed
<1>3. ASSUME NEW t \in Thread, Woken(t)
      PROVE  OwnerOf' = OwnerOf /\ waiters' = waiters
  <2>1. Owners' = Owners
    BY <1>3 DEF Woken, Owners, IInv, TypeOK
  <2> QED BY <1>3, <2>1 DEF Woken, OwnerOf
<1>4. ASSUME NEW t \in Thread, Expire(t)
      PROVE  OwnerOf' = OwnerOf /\ waiters' = waiters
  <2>1. Owners' = Owners
    BY <1>4 DEF Expire, Owners, IInv, TypeOK
  <2> QED BY <1>4, <2>1 DEF Expire, OwnerOf
<1>5. ASSUME NEW t \in Thread, Withdraw(t) PROVE Fifo!GiveUp(t)
  <2>1. Owners' = Owners
    BY <1>5 DEF Withdraw, Owners, IInv, TypeOK
  <2>2. OwnerOf' = OwnerOf
    BY <2>1 DEF OwnerOf
  <2> QED BY <1>5, <2>2 DEF Withdraw, Fifo!GiveUp, RemoveAt, Fifo!RemoveAt
<1>6. ASSUME NEW t \in Thread, Refused(t) PROVE Fifo!HandOver(t)
  <2>1. t \in Owners
    BY <1>0, <1>6 DEF Refused, OwnershipAccounted, Owners
  <2> QED BY <1>6, <2>1, LettingGoIsHandOver DEF Refused
<1>7. ASSUME NEW t \in Thread, Release(t) PROVE Fifo!HandOver(t)
  <2>1. t \in Owners
    BY <1>7 DEF Release, Owners
  <2> QED BY <1>7, <2>1, LettingGoIsHandOver DEF Release
<1>8. ASSUME UNCHANGED vars PROVE OwnerOf' = OwnerOf /\ waiters' = waiters
  BY <1>8 DEF vars, OwnerOf, Owners
<1>9. CASE \E t \in Thread : \/ AcquireFree(t) \/ AcquireQueue(t)
                              \/ Withdraw(t) \/ Refused(t) \/ Release(t)
  BY <1>9, <1>1, <1>2, <1>5, <1>6, <1>7 DEF Fifo!Next
<1>10. CASE \E t \in Thread : Woken(t) \/ Expire(t)
  BY <1>10, <1>3, <1>4
<1> QED BY <1>8, <1>9, <1>10 DEF Next

(* _FairLock implements the FIFO mutex its docstring promises: requests    *)
(* are granted in arrival order, for any number of threads and timeouts.   *)
THEOREM ImplementsFifoMutex == Spec => RefinesFifoMutex
<1>1. Init => Fifo!Init
  <2> SUFFICES ASSUME Init PROVE Fifo!Init
    OBVIOUS
  <2>1. Owners = {} /\ waiters = <<>>
    BY DEF Init, Owners
  <2> QED BY <2>1 DEF OwnerOf, Fifo!Init
<1> QED BY <1>1, Invariance, StepRefines, PTL DEF Spec, RefinesFifoMutex, Fifo!Spec

=============================================================================
