----------------------------- MODULE FairLock ------------------------------
(***************************************************************************)
(* refmatrix/daemon.py class _FairLock: the lock around the daemon's one   *)
(* writer (Daemon._store_lock).  Every critical section of the inner mutex *)
(* `_mu` is one action; a thread in Event.wait holds nothing.  A call      *)
(* acquire(blocking=False) on a busy lock changes nothing, so it is a      *)
(* stuttering step here.                                                   *)
(***************************************************************************)
EXTENDS Sequences, SequencesExt

CONSTANTS Thread,   \* the daemon threads that take the lock
          NoOwner   \* nobody owns it (used by the refinement only)

ASSUME NoOwnerAssumption == NoOwner \notin Thread

VARIABLES held,        \* _held
          waiters,     \* _waiters: each waiting thread has one Event in it
          signalled,   \* threads whose Event release() has set, not yet seen
          pc           \* where each thread is in acquire() / release()

vars == <<held, waiters, signalled, pc>>

\* "outside"  not in the lock's code and not holding the lock
\* "blocked"  in ev.wait(None)          "timed"  in ev.wait(timeout)
\* "expired"  wait returned False, `_mu` not taken yet
\* "holds"    acquire() returned True and release() was not called yet
Place == {"outside", "blocked", "timed", "expired", "holds"}

Ticketed(t) == \E i \in DOMAIN waiters : waiters[i] = t

TypeOK == /\ held \in BOOLEAN
          /\ waiters \in Seq(Thread)
          /\ signalled \in SUBSET Thread
          /\ pc \in [Thread -> Place]

Init == /\ held = FALSE
        /\ waiters = <<>>
        /\ signalled = {}
        /\ pc = [t \in Thread |-> "outside"]

\* Mutated forms.
PassOrRelease_AlsoFrees(t) ==
    /\ held' = FALSE
    /\ IF waiters = <<>>
       THEN signalled' = signalled \ {t} /\ UNCHANGED waiters
       ELSE /\ signalled' = (signalled \ {t}) \cup {Head(waiters)}
            /\ waiters' = Tail(waiters)
PassOrRelease_NewestFirst(t) ==
    \/ /\ waiters = <<>>
       /\ held' = FALSE
       /\ signalled' = signalled \ {t}
       /\ UNCHANGED waiters
    \/ /\ waiters # <<>>
       /\ signalled' = (signalled \ {t}) \cup {waiters[Len(waiters)]}
       /\ waiters' = Front(waiters)
       /\ UNCHANGED held
PassOrRelease_KeepsTicket(t) ==
    \/ /\ waiters = <<>>
       /\ held' = FALSE
       /\ signalled' = signalled \ {t}
       /\ UNCHANGED waiters
    \/ /\ waiters # <<>>
       /\ signalled' = (signalled \ {t}) \cup {Head(waiters)}
       /\ UNCHANGED <<held, waiters>>
Woken_RecordsOwner(t) ==
    /\ pc[t] \in {"blocked", "timed"}
    /\ t \in signalled
    /\ held' = t
    /\ signalled' = signalled \ {t}
    /\ pc' = [pc EXCEPT ![t] = "holds"]
    /\ UNCHANGED waiters
Refused_ForgetsHandOver(t) ==
    /\ pc[t] = "expired"
    /\ ~Ticketed(t)
    /\ signalled' = signalled \ {t}
    /\ pc' = [pc EXCEPT ![t] = "outside"]
    /\ UNCHANGED <<held, waiters>>

\* _pass_or_release_locked: hand the lock to the oldest ticket, `_held`
\* stays True, or free it.  t is the thread that lets go; its own Event is
\* garbage from here on.
PassOrRelease(t) ==
    \/ /\ waiters = <<>>
       /\ held' = FALSE
       /\ signalled' = signalled \ {t}
       /\ UNCHANGED waiters
    \/ /\ waiters # <<>>
       /\ signalled' = (signalled \ {t}) \cup {Head(waiters)}
       /\ waiters' = Tail(waiters)
       /\ UNCHANGED held

\* acquire(): free, and nobody waits.
AcquireFree(t) ==
    /\ pc[t] = "outside"
    /\ ~held
    /\ waiters = <<>>
    /\ held' = TRUE
    /\ pc' = [pc EXCEPT ![t] = "holds"]
    /\ UNCHANGED <<waiters, signalled>>

\* acquire(): queue a ticket and wait outside `_mu`, with or without a timeout.
AcquireQueue(t) ==
    /\ pc[t] = "outside"
    /\ held \/ waiters # <<>>
    /\ waiters' = Append(waiters, t)
    /\ \E mode \in {"blocked", "timed"} : pc' = [pc EXCEPT ![t] = mode]
    /\ UNCHANGED <<held, signalled>>

\* ev.wait returned True: release() had already made us the owner.
Woken(t) ==
    /\ pc[t] \in {"blocked", "timed"}
    /\ t \in signalled
    /\ signalled' = signalled \ {t}
    /\ pc' = [pc EXCEPT ![t] = "holds"]
    /\ UNCHANGED <<held, waiters>>

\* ev.wait timed out; release() may still pick this ticket before `_mu`.
Expire(t) ==
    /\ pc[t] = "timed"
    /\ t \notin signalled
    /\ pc' = [pc EXCEPT ![t] = "expired"]
    /\ UNCHANGED <<held, waiters, signalled>>

\* After a timeout, the ticket is still queued: withdraw it, return False.
Withdraw(t) ==
    /\ pc[t] = "expired"
    /\ \E i \in DOMAIN waiters : /\ waiters[i] = t
                                 /\ waiters' = RemoveAt(waiters, i)
    /\ pc' = [pc EXCEPT ![t] = "outside"]
    /\ UNCHANGED <<held, signalled>>

\* After a timeout, deque.remove raised ValueError: release() handed the lock
\* over in between.  Pass it on, and return False all the same.
Refused(t) ==
    /\ pc[t] = "expired"
    /\ ~Ticketed(t)
    /\ PassOrRelease(t)
    /\ pc' = [pc EXCEPT ![t] = "outside"]

\* release(); `_held` False would be the RuntimeError path.
Release(t) ==
    /\ pc[t] = "holds"
    /\ held
    /\ PassOrRelease(t)
    /\ pc' = [pc EXCEPT ![t] = "outside"]

Next == \E t \in Thread :
          \/ AcquireFree(t) \/ AcquireQueue(t)
          \/ Woken(t) \/ Expire(t) \/ Withdraw(t) \/ Refused(t)
          \/ Release(t)

Spec == Init /\ [][Next]_vars

\* A thread that owns the lock releases it (every user is a `with` block or a
\* try/finally), and a thread that can run inside the lock's own code runs.
\* Nothing forces a thread to ask for the lock or a timeout to fire.
Fairness == \A t \in Thread : /\ WF_vars(Release(t))
                              /\ WF_vars(Woken(t))
                              /\ WF_vars(Withdraw(t) \/ Refused(t))

FairSpec == Spec /\ Fairness

-----------------------------------------------------------------------------
\* Threads the lock belongs to: they returned from acquire(), or release()
\* has set their Event and they have not run yet.
Owners == {t \in Thread : pc[t] = "holds" \/ t \in signalled}

(***************************************************************************)
(* Two threads are never both between acquire() == True and release():     *)
(* the writer connection is used by one thread at a time.                  *)
(***************************************************************************)
MutualExclusion == \A t, u \in Thread :
                     (pc[t] = "holds" /\ pc[u] = "holds") => t = u

(***************************************************************************)
(* Ownership is neither lost nor doubled, whatever the order of a timeout, *)
(* a hand-over and the withdrawal: `_held` is True exactly when one thread *)
(* is the owner, nobody waits for a free lock, the owner has no ticket,    *)
(* every waiting thread has exactly one ticket or the lock itself, and     *)
(* release() never meets `_held` False (the RuntimeError).                 *)
(***************************************************************************)
OwnershipAccounted ==
    /\ held <=> Owners # {}
    /\ \A t, u \in Owners : t = u
    /\ waiters # <<>> => held
    /\ \A i, j \in DOMAIN waiters : waiters[i] = waiters[j] => i = j
    /\ \A t \in signalled : pc[t] \in {"blocked", "timed", "expired"}
    /\ \A t \in Thread : /\ Ticketed(t) => t \notin Owners
                         /\ pc[t] \in {"blocked", "timed", "expired"}
                              <=> Ticketed(t) \/ t \in signalled

(***************************************************************************)
(* The lock is a strict-FIFO mutex: every step is a step of FifoMutex or   *)
(* changes neither its owner nor its queue.                                *)
(***************************************************************************)
OwnerOf == IF Owners = {} THEN NoOwner ELSE CHOOSE t \in Thread : t \in Owners

Fifo == INSTANCE FifoMutex WITH
          owner <- OwnerOf, queue <- waiters

RefinesFifoMutex == Fifo!Spec

(***************************************************************************)
(* A request without a timeout is granted in the end, however many threads *)
(* keep coming back for the lock and whichever requests time out.          *)
(***************************************************************************)
NoStarvation == \A t \in Thread : pc[t] = "blocked" ~> pc[t] = "holds"

=============================================================================
