----------------------------- MODULE FifoMutex -----------------------------
(***************************************************************************)
(* What a strict-FIFO mutex promises, and nothing about how: one owner at  *)
(* most, requests queue in arrival order, a request may be withdrawn while *)
(* it waits, and giving the lock up hands it to the oldest request.        *)
(* refmatrix/daemon.py _FairLock says this of itself in its docstring;     *)
(* FairLock.tla is the code, and implements this module.                   *)
(***************************************************************************)
EXTENDS Sequences, SequencesExt

CONSTANTS Thread,   \* the daemon threads that take the lock
          NoOwner   \* nobody owns it

VARIABLES owner,    \* who owns the lock
          queue     \* the waiting requests, oldest first

vars == <<owner, queue>>

TypeOK == /\ owner \in Thread \cup {NoOwner}
          /\ queue \in Seq(Thread)

Queued(t) == \E i \in DOMAIN queue : queue[i] = t

Init == /\ owner = NoOwner
        /\ queue = <<>>

\* A free lock nobody waits for is taken at once.
Grab(t) == /\ owner = NoOwner
           /\ queue = <<>>
           /\ owner' = t
           /\ UNCHANGED queue

\* A busy lock: the request joins at the back.
Join(t) == /\ owner # NoOwner
           /\ owner # t
           /\ ~Queued(t)
           /\ queue' = Append(queue, t)
           /\ UNCHANGED owner

\* A request gives up; the order of the others is untouched.
GiveUp(t) == \E i \in DOMAIN queue :
               /\ queue[i] = t
               /\ queue' = RemoveAt(queue, i)
               /\ UNCHANGED owner

\* The owner lets go: the oldest request owns the lock in the same step.
HandOver(t) == /\ owner = t
               /\ \/ /\ queue = <<>>
                     /\ owner' = NoOwner
                     /\ UNCHANGED queue
                  \/ /\ queue # <<>>
                     /\ owner' = Head(queue)
                     /\ queue' = Tail(queue)

Next == \E t \in Thread : Grab(t) \/ Join(t) \/ GiveUp(t) \/ HandOver(t)

Spec == Init /\ [][Next]_vars

=============================================================================
