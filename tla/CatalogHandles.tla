-------------------------- MODULE CatalogHandles ---------------------------
(***************************************************************************)
(* The process-wide opener of DuckDB files (refmatrix/backend.py), for one *)
(* path whose file other code replaces (os.replace).  Readers of one file  *)
(* share one private instance that has the file ATTACHed; it closes with   *)
(* its last handle, or when a write open finds its file replaced, never    *)
(* under a running statement.  A critical section of _HOLDERS_LOCK, or of  *)
(* an instance's condition, is one step.  Write opens and releases of the  *)
(* path happen one at a time: its Store is opened and closed under the     *)
(* store lock.  Files are numbered in the order they reach the path: an    *)
(* inode number in use is never given to another file.  DuckDB itself is   *)
(* what the code says it measured: a connect shares the database of any    *)
(* open write connection of the process, and is refused beside an ATTACH;  *)
(* an ATTACH is refused beside a write connection.                         *)
(***************************************************************************)
EXTENDS Naturals

CONSTANTS Handle,       \* read-only connections, as their users see them
          Instance,     \* _ROInstance objects; one nobody refers to is used again
          NoInstance,
          Connection,   \* raw write connections; a closed one is used again
          OpenRetries,  \* _OPEN_RETRIES
          MaxFile       \* bound: files that reach the path

ASSUME HandleAssumption ==
    /\ NoInstance \notin Instance
    /\ OpenRetries \in Nat \ {0} /\ MaxFile \in Nat \ {0}

File   == 1..MaxFile
NoInode == 0

VARIABLES inode,     \* _file_id: the file at the path
          base,      \* of an instance, the file its base has ATTACHed; NoInode: closed
          filed,     \* of an instance, the fid it was made for
          closed,    \* of an instance: no new handles or statements
          registry,  \* _RO_INSTANCES
          refs,      \* of an instance, the handles it counts
          inflight,  \* of an instance, the handles with a statement running
          phase,     \* of a handle, where its open or close stands
          fid,       \* ... the file its open has looked up
          inst,      \* ... the instance it is counted in
          made,      \* ... the instance its open has made
          tries,     \* ... the rounds its open has lost to replaced files
          opened,    \* of a write connection, the file of its database; NoInode: closed
          writers,   \* _WRITERS: the file each registered connection is listed under
          beside,    \* history: connections made while another one was open
          opener     \* the write open or release under way

instanceVars == <<base, filed, closed, refs, inflight>>
openVars   == <<phase, fid, inst, made, tries>>
readVars   == <<instanceVars, openVars>>
writeVars  == <<opened, writers, beside, opener>>
handleVars == <<inode, registry, readVars, writeVars>>

\* A write open: the stale connections and instances still to close, the
\* instance being drained, `before', and the connection made or released.
OpenOp == [step : {"idle", "retry", "sweep", "drain", "connect", "recheck", "register", "release"},
           conns : SUBSET Connection, old : SUBSET Instance, inst : Instance \cup {NoInstance},
           before : File \cup {NoInode}, conn : SUBSET Connection, tries : 0..OpenRetries-1]
NoOpen == [step |-> "idle", conns |-> {}, old |-> {}, inst |-> NoInstance,
           before |-> NoInode, conn |-> {}, tries |-> 0]

HandleTypeOK ==
    /\ inode \in File
    /\ base \in [Instance -> File \cup {NoInode}]
    /\ filed \in [Instance -> File \cup {NoInode}]
    /\ closed \in [Instance -> BOOLEAN]
    /\ registry \in [File -> Instance \cup {NoInstance}]
    /\ refs \in [Instance -> SUBSET Handle]
    /\ inflight \in [Instance -> SUBSET Handle]
    /\ phase \in [Handle -> {"idle", "looked", "attach", "made", "file", "lost", "held", "last"}]
    /\ fid \in [Handle -> File \cup {NoInode}]
    /\ inst \in [Handle -> Instance \cup {NoInstance}]
    /\ made \in [Handle -> Instance \cup {NoInstance}]
    /\ tries \in [Handle -> 0..OpenRetries-1]
    /\ opened \in [Connection -> File \cup {NoInode}]
    /\ writers \in [Connection -> File \cup {NoInode}]
    /\ beside \subseteq Connection
    /\ opener \in OpenOp

HandleInit ==
    /\ inode = 1
    /\ base = [i \in Instance |-> NoInode] /\ filed = [i \in Instance |-> NoInode]
    /\ closed = [i \in Instance |-> TRUE]
    /\ registry = [f \in File |-> NoInstance]
    /\ refs = [i \in Instance |-> {}] /\ inflight = [i \in Instance |-> {}]
    /\ phase = [h \in Handle |-> "idle"] /\ fid = [h \in Handle |-> NoInode]
    /\ inst = [h \in Handle |-> NoInstance] /\ made = [h \in Handle |-> NoInstance]
    /\ tries = [h \in Handle |-> 0]
    /\ opened = [c \in Connection |-> NoInode] /\ writers = [c \in Connection |-> NoInode]
    /\ beside = {} /\ opener = NoOpen

-----------------------------------------------------------------------------
Live == {c \in Connection : opened[c] # NoInode}
Free(i) == /\ base[i] = NoInode /\ refs[i] = {} /\ inflight[i] = {}
           /\ i \notin opener.old \cup {opener.inst}
           /\ \A h \in Handle : i \notin {inst[h], made[h]}

\* Another thread or process replaces the file.
ReplaceFile ==
    /\ inode < MaxFile
    /\ inode' = inode + 1
    /\ UNCHANGED <<registry, readVars, writeVars>>

-----------------------------------------------------------------------------
(* A read-only open (_open_read_only).                                      *)

Moves(h, p, i, n) == /\ phase' = [phase EXCEPT ![h] = p]
                     /\ inst' = [inst EXCEPT ![h] = i]
                     /\ made' = [made EXCEPT ![h] = n]
\* The open has failed, or the close is over.
Ends(h) == /\ Moves(h, "idle", NoInstance, NoInstance)
           /\ fid' = [fid EXCEPT ![h] = NoInode]

\* One round of the loop looks the file up.  A statement that outlives its
\* handle's close is the old connection's: that connection is not used again yet.
LookUp(h) ==
    /\ phase[h] = "idle"
    /\ \A i \in Instance : h \notin inflight[i]
    /\ Moves(h, "looked", NoInstance, NoInstance)
    /\ fid' = [fid EXCEPT ![h] = inode]
    /\ UNCHANGED <<inode, registry, instanceVars, tries, writeVars>>

\* A handle of instance i, with the lock held.
Counts(h, i) == /\ refs' = [refs EXCEPT ![i] = @ \cup {h}]
                /\ tries' = [tries EXCEPT ![h] = 0]
Usable(i) == i # NoInstance /\ ~closed[i]

\* Under the lock, a registered instance of that file gives a handle.
Share(h) ==
    /\ phase[h] = "looked"
    /\ LET i == registry[fid[h]] IN
       IF Usable(i)
       THEN Counts(h, i) /\ Moves(h, "held", i, NoInstance)
       ELSE Moves(h, "attach", NoInstance, NoInstance) /\ UNCHANGED <<refs, tries>>
    /\ UNCHANGED <<inode, registry, base, filed, closed, inflight, fid, writeVars>>

\* Otherwise the open makes an instance, on the file now at the path; DuckDB
\* refuses while a write connection has the path open.
Attach(h) ==
    /\ phase[h] = "attach" /\ Live = {}
    /\ \E i \in Instance :
          /\ Free(i)
          /\ base' = [base EXCEPT ![i] = inode]
          /\ filed' = [filed EXCEPT ![i] = fid[h]]
          /\ closed' = [closed EXCEPT ![i] = FALSE]
          /\ Moves(h, "made", NoInstance, i)
    /\ UNCHANGED <<inode, registry, refs, inflight, fid, tries, writeVars>>

AttachRefused(h) ==
    /\ phase[h] = "attach" /\ Live # {}
    /\ Ends(h) /\ tries' = [tries EXCEPT ![h] = 0]
    /\ UNCHANGED <<inode, registry, instanceVars, writeVars>>

\* shut of an instance no handle has: nothing to interrupt or to wait for.
Discard(i) ==
    /\ closed' = [closed EXCEPT ![i] = TRUE]
    /\ base' = [base EXCEPT ![i] = NoInode]

\* Mutated form: the file is not looked up again after the ATTACH.
CheckAttached_Skipped(h) ==
    /\ phase[h] = "made"
    /\ Moves(h, "file", NoInstance, made[h])
    /\ UNCHANGED <<inode, registry, instanceVars, fid, tries, writeVars>>

\* A file replaced meanwhile sends the open round again, until it gives up.
NextTry(n) == IF n + 1 < OpenRetries THEN n + 1 ELSE 0
CheckAttached(h) ==
    /\ phase[h] = "made"
    /\ IF inode = fid[h]
       THEN Moves(h, "file", NoInstance, made[h]) /\ UNCHANGED <<base, closed, fid, tries>>
       ELSE /\ Discard(made[h])
            /\ Ends(h)
            /\ tries' = [tries EXCEPT ![h] = NextTry(@)]
    /\ UNCHANGED <<inode, registry, filed, refs, inflight, writeVars>>

\* Mutated form: an instance registered meanwhile is written over.
FileInstance_Over(h) ==
    /\ phase[h] = "file"
    /\ registry' = [registry EXCEPT ![fid[h]] = made[h]]
    /\ Counts(h, made[h]) /\ Moves(h, "held", made[h], NoInstance)
    /\ UNCHANGED <<inode, base, filed, closed, inflight, fid, writeVars>>

\* Under the lock the new instance is registered, unless another open has
\* registered one of the same file: then the handle comes from that one.
FileInstance(h) ==
    /\ phase[h] = "file"
    /\ LET i == registry[fid[h]] IN
       IF Usable(i)
       THEN Counts(h, i) /\ Moves(h, "lost", i, made[h]) /\ UNCHANGED registry
       ELSE /\ registry' = [registry EXCEPT ![fid[h]] = made[h]]
            /\ Counts(h, made[h]) /\ Moves(h, "held", made[h], NoInstance)
    /\ UNCHANGED <<inode, base, filed, closed, inflight, fid, writeVars>>

DiscardLost(h) ==
    /\ phase[h] = "lost"
    /\ Discard(made[h])
    /\ Moves(h, "held", inst[h], NoInstance)
    /\ UNCHANGED <<inode, registry, filed, refs, inflight, fid, tries, writeVars>>

-----------------------------------------------------------------------------
(* Statements, and the close of a handle (_drop_handle).                    *)

\* enter; it raises on a closed instance.
Enter(h) ==
    /\ phase[h] = "held" /\ ~closed[inst[h]] /\ h \notin inflight[inst[h]]
    /\ inflight' = [inflight EXCEPT ![inst[h]] = @ \cup {h}]
    /\ UNCHANGED <<inode, registry, base, filed, closed, refs, openVars, writeVars>>

\* Mutated form: leave forgets the close that was put off.
CloseDrained_Forgets(i) == base[i]

\* leave; the last statement of a closed instance closes the base.
CloseDrained(i) == IF closed[i] THEN NoInode ELSE base[i]
Leave(h, i) ==
    /\ h \in inflight[i]
    /\ inflight' = [inflight EXCEPT ![i] = @ \ {h}]
    /\ base' = [base EXCEPT ![i] = IF inflight[i] = {h} THEN CloseDrained(i) ELSE @]
    /\ UNCHANGED <<inode, registry, filed, closed, refs, openVars, writeVars>>

\* The handle's user, or another thread, or the garbage collector, closes it,
\* statement or not.  The last handle closes the instance to newcomers, ...
Last(h) == refs[inst[h]] \subseteq {h} /\ ~closed[inst[h]]
Drop(h) ==
    /\ phase[h] = "held"
    /\ refs' = [refs EXCEPT ![inst[h]] = @ \ {h}]
    /\ IF Last(h)
       THEN /\ closed' = [closed EXCEPT ![inst[h]] = TRUE]
            /\ registry' = [f \in File |-> IF f = filed[inst[h]] /\ registry[f] = inst[h]
                                           THEN NoInstance ELSE registry[f]]
            /\ Moves(h, "last", inst[h], NoInstance)
            /\ fid' = [fid EXCEPT ![h] = NoInode]
       ELSE Ends(h) /\ UNCHANGED <<closed, registry>>
    /\ UNCHANGED <<inode, base, filed, inflight, tries, writeVars>>

\* Mutated form: the last handle closes the base under a running statement.
CloseLast_Regardless(h) ==
    /\ phase[h] = "last"
    /\ base' = [base EXCEPT ![inst[h]] = NoInode]
    /\ Ends(h)
    /\ UNCHANGED <<inode, registry, filed, closed, refs, inflight, tries, writeVars>>

\* ... and then the base, unless a statement still runs: leave will.
CloseLast(h) ==
    /\ phase[h] = "last"
    /\ base' = [base EXCEPT ![inst[h]] = IF inflight[inst[h]] = {} THEN NoInode ELSE @]
    /\ Ends(h)
    /\ UNCHANGED <<inode, registry, filed, closed, refs, inflight, tries, writeVars>>

-----------------------------------------------------------------------------
(* A write open (_open_write, _close_stale_holders).                        *)

\* Under the lock every holder of another file than the one now at the path
\* leaves the registries.
TakeStale ==
    /\ opener.step \in {"idle", "retry"}
    /\ LET stale == {c \in Connection : writers[c] \notin {NoInode, inode}}
           old   == {i \in Instance : \E f \in File \ {inode} : registry[f] = i /\ ~closed[i]} IN
       /\ writers' = [c \in Connection |-> IF c \in stale THEN NoInode ELSE writers[c]]
       /\ registry' = [f \in File |-> IF registry[f] \in old THEN NoInstance ELSE registry[f]]
       /\ opener' = [opener EXCEPT !.step = "sweep", !.conns = stale, !.old = old]
    /\ UNCHANGED <<inode, readVars, opened, beside>>

CloseStaleWriter(c) ==
    /\ opener.step = "sweep" /\ c \in opener.conns
    /\ opened' = [opened EXCEPT ![c] = NoInode]
    /\ opener' = [opener EXCEPT !.conns = @ \ {c}]
    /\ UNCHANGED <<inode, registry, readVars, writers, beside>>

\* shut of a stale instance, first half: no new statement, running ones are
\* interrupted.
ShutStale(i) ==
    /\ opener.step = "sweep" /\ opener.conns = {} /\ i \in opener.old
    /\ closed' = [closed EXCEPT ![i] = TRUE]
    /\ opener' = [opener EXCEPT !.step = "drain", !.old = @ \ {i}, !.inst = i]
    /\ UNCHANGED <<inode, registry, base, filed, refs, inflight, openVars, opened, writers, beside>>

\* Second half: the base closes once they have ended; a wait of _DRAIN_S that
\* runs out leaves it to the last of them.
Drain ==
    /\ opener.step = "drain"
    /\ base' = [base EXCEPT ![opener.inst] = IF inflight[opener.inst] = {} THEN NoInode ELSE @]
    /\ opener' = [opener EXCEPT !.step = "sweep", !.inst = NoInstance]
    /\ UNCHANGED <<inode, registry, filed, closed, refs, inflight, openVars, opened, writers, beside>>

StatBefore ==
    /\ opener.step = "sweep" /\ opener.conns = {} /\ opener.old = {}
    /\ opener' = [opener EXCEPT !.step = "connect", !.before = inode]
    /\ UNCHANGED <<inode, registry, readVars, opened, writers, beside>>

Attached == {i \in Instance : base[i] # NoInode}

\* DuckDB's connect shares the database of a live write connection.
Connect(c) ==
    /\ opener.step = "connect"
    /\ Attached = {}
    /\ c \notin Live
    /\ \E f \in File :
          /\ IF Live = {} THEN f = inode ELSE \E d \in Live : f = opened[d]
          /\ opened' = [opened EXCEPT ![c] = f]
    /\ beside' = IF Live = {} THEN beside \ {c} ELSE beside \cup {c}
    /\ opener' = [opener EXCEPT !.step = "recheck", !.conn = {c}]
    /\ UNCHANGED <<inode, registry, readVars, writers>>

\* It is refused beside a reader; the wait for one to go (_CONFLICT_WAIT_S) may
\* run out.
Refused ==
    /\ opener.step = "connect"
    /\ Attached # {}
    /\ opener' = NoOpen
    /\ UNCHANGED <<inode, registry, readVars, opened, writers, beside>>

\* Mutated form: the loop never gives up.
CheckConnected_Forever ==
    /\ opener.step = "recheck"
    /\ IF inode = opener.before
       THEN /\ opener' = [opener EXCEPT !.step = "register"]
            /\ UNCHANGED opened
       ELSE /\ opened' = [c \in Connection |-> IF c \in opener.conn THEN NoInode ELSE opened[c]]
            /\ opener' = [NoOpen EXCEPT !.step = "retry", !.tries = opener.tries + 1]
    /\ UNCHANGED <<inode, registry, readVars, writers, beside>>

\* Mutated form: the file is not looked up again after the connect.
CheckConnected_Skipped ==
    /\ opener.step = "recheck"
    /\ opener' = [opener EXCEPT !.step = "register"]
    /\ UNCHANGED <<inode, registry, readVars, opened, writers, beside>>

\* `after': replaced during the connect, the open closes and starts again, or
\* gives up.
CheckConnected ==
    /\ opener.step = "recheck"
    /\ IF inode = opener.before
       THEN /\ opener' = [opener EXCEPT !.step = "register"]
            /\ UNCHANGED opened
       ELSE /\ opened' = [c \in Connection |-> IF c \in opener.conn THEN NoInode ELSE opened[c]]
            /\ opener' = IF opener.tries + 1 < OpenRetries
                         THEN [NoOpen EXCEPT !.step = "retry", !.tries = opener.tries + 1]
                         ELSE NoOpen
    /\ UNCHANGED <<inode, registry, readVars, writers, beside>>

RegisterWriter ==
    /\ opener.step = "register"
    /\ writers' = [c \in Connection |-> IF c \in opener.conn THEN opener.before ELSE writers[c]]
    /\ opener' = NoOpen
    /\ UNCHANGED <<inode, registry, readVars, opened, beside>>

\* release_duckdb: out of the registry under the lock, then closed.
ReleaseWriter(c) ==
    /\ opener.step = "idle" /\ writers[c] # NoInode
    /\ writers' = [writers EXCEPT ![c] = NoInode]
    /\ opener' = [opener EXCEPT !.step = "release", !.conn = {c}]
    /\ UNCHANGED <<inode, registry, readVars, opened, beside>>

CloseReleased ==
    /\ opener.step = "release"
    /\ opened' = [c \in Connection |-> IF c \in opener.conn THEN NoInode ELSE opened[c]]
    /\ opener' = NoOpen
    /\ UNCHANGED <<inode, registry, readVars, writers, beside>>

-----------------------------------------------------------------------------
HandleStep(h) ==
    \/ LookUp(h) \/ Share(h) \/ Attach(h) \/ AttachRefused(h) \/ CheckAttached(h) \/ FileInstance(h)
    \/ DiscardLost(h) \/ Enter(h) \/ Drop(h) \/ CloseLast(h)
    \/ \E i \in Instance : Leave(h, i)

OpenerStep ==
    \/ TakeStale \/ Drain \/ StatBefore \/ Refused \/ CheckConnected \/ RegisterWriter
    \/ CloseReleased
    \/ \E c \in Connection : CloseStaleWriter(c) \/ Connect(c) \/ ReleaseWriter(c)
    \/ \E i \in Instance : ShutStale(i)

HandleNext == ReplaceFile \/ OpenerStep \/ \E h \in Handle : HandleStep(h)
HandleSpec == HandleInit /\ [][HandleNext]_handleVars

-----------------------------------------------------------------------------
(* Properties.                                                              *)

\* No statement runs on a closed base (DuckDB 1.5.2 crashed the process there):
\* neither the last handle's close nor a write open's shut gets under one.
StatementsHaveABase ==
    \A i \in Instance : inflight[i] # {} => base[i] # NoInode

\* Nothing leaks: an instance that holds the path against the next writer has a
\* handle that new readers or a write open can find it by, or a thread is about
\* to close it, or a statement of it still runs.
Found(i) == /\ ~closed[i] /\ refs[i] # {}
            /\ registry[filed[i]] = i \/ i \in opener.old
BasesAreAccountedFor ==
    \A i \in Attached :
        \/ Found(i)
        \/ closed[i] /\ inflight[i] # {}
        \/ opener.inst = i
        \/ \E h \in Handle : phase[h] \in {"made", "file", "lost"} /\ made[h] = i
        \/ \E h \in Handle : phase[h] = "last" /\ inst[h] = i

\* Readers of one file share one instance (one buffer pool, one thread pool),
\* also when their opens overlap; the one a write open is closing is apart.
OneInstancePerFile ==
    \A i, j \in Instance :
        /\ {i, j} \cap opener.old = {} /\ ~closed[i] /\ ~closed[j]
        /\ refs[i] # {} /\ refs[j] # {} /\ filed[i] = filed[j]
        => i = j

\* A read-only handle reads the file its own open saw at the path, also when it
\* shares an instance, and whatever was replaced during the open.
ReadersSeeTheFileTheyLookedUp ==
    \A h \in Handle : phase[h] \in {"lost", "held"} /\ ~closed[inst[h]] => base[inst[h]] = fid[h]

\* A write connection is listed under the file its database has open: else the
\* next write open takes a connection to a replaced file for a current one, and
\* its writes go where nobody reads them.  Only one that was made beside another
\* may have got that one's old database from DuckDB.
WritersAreListedUnderTheirFile ==
    \A c \in Connection \ beside : writers[c] # NoInode => writers[c] = opened[c]

\* All of these: who opens the path, in whatever order with replaced files, gets
\* the file it is taken to have, shares it with the readers of that file, keeps
\* it while a statement runs, and does not keep it for nobody.
ConnectionsAccounted ==
    /\ StatementsHaveABase /\ BasesAreAccountedFor
    /\ OneInstancePerFile /\ ReadersSeeTheFileTheyLookedUp
    /\ WritersAreListedUnderTheirFile
=============================================================================
