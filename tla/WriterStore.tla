---------------------------- MODULE WriterStore ----------------------------
(***************************************************************************)
(* The writer's Store (refmatrix/store.py, DuckDB) under the daemon's      *)
(* writer lock: link rows with transactions and deferred links on one      *)
(* side, the bitmap fragments that index them on the other.  A fragment is *)
(* changed in memory, marked dirty, and written back by a flush: after a   *)
(* commit, on the daemon's tick, before a repair.  Statements raise,       *)
(* flushes raise, the process is killed.  A cooperative ingest gives up    *)
(* the lock between its commit windows and keeps the entity ids it         *)
(* resolved.                                                               *)
(*                                                                         *)
(* An edge is a link (linkage, concept, entity), its row and its bit.  It  *)
(* is linked under the partition of its entity (PartitionBinding), so an   *)
(* edge determines its fragment.  Ids come from a sequence and are not     *)
(* used twice.                                                             *)
(***************************************************************************)
EXTENDS Naturals

CONSTANTS Edge,       \* records with fields ln, c and e
          Entity,
          Home,       \* the partition of each entity
          Mode,       \* kinds of op: "auto", "tx", "window"
          MaxFaults   \* bound: statements and flushes that raise, kills

ASSUME EdgeAssumption == \A e \in Edge : {e.c, e.e} \subseteq Entity
ASSUME ModeAssumption == Mode \subseteq {"auto", "tx", "window"}
ASSUME BoundAssumption == MaxFaults \in Nat

VARIABLES disk,      \* committed entity_links and entities
          view,      \* the same as the writer's connection sees them
          bits,      \* committed bitmap_fragments
          used,      \* ids taken from the sequence
          open,      \* _in_transaction
          loaded, cache, dirty,  \* _fragment_cache, _dirty_by_binding
          deferring, buffer,     \* _link_buffer
          at, mode,  \* where the holder of the lock is, and what it runs
          todo,      \* fragments its flush has still to write ...
          next,      \* ... and what it does then
          waiting, ids,  \* a cooperative ingest between windows, its ids
          faults,
          touched,   \* history: edges the open transaction changed
          suspect,   \* history: edges of rollbacks, failures and kills
          late       \* history: edges linked to an entity that was gone

tables  == <<disk, view, bits, used>>
memory  == <<loaded, cache, dirty>>
scope   == <<deferring, buffer>>
control == <<at, mode, todo, next>>
job     == <<waiting, ids>>
history == <<touched, suspect, late>>
vars == <<tables, open, memory, scope, control, job, faults, history>>

FragOf(e) == <<Home[e.e], e.ln>>
Frag      == {FragOf(e) : e \in Edge}
BitsIn(fs, es) == {e \in es : FragOf(e) \in fs}
Live(e, t) == {e.c, e.e} \subseteq t.alive

TypeOK == /\ {disk, view} \subseteq [rows : SUBSET Edge, alive : SUBSET Entity]
          /\ bits \in SUBSET Edge /\ used \in SUBSET Entity
          /\ {open, deferring, waiting} \subseteq BOOLEAN
          /\ loaded \in SUBSET Frag /\ dirty \in SUBSET loaded
          /\ cache \in SUBSET BitsIn(loaded, Edge)
          /\ buffer \in SUBSET Edge
          /\ at \in {"free", "body", "raise", "flush", "repair"} /\ mode \in {"auto", "tx", "window", "none"}
          /\ todo \in SUBSET dirty
          /\ next \in {"free", "yield", "repair"}
          /\ ids \in SUBSET Entity
          /\ faults \in 0..MaxFaults
          /\ {touched, suspect, late} \subseteq SUBSET Edge

Init == /\ \E alive \in SUBSET Entity :
              disk = [rows |-> {}, alive |-> alive] /\ view = disk /\ used = alive
        /\ bits = {} /\ open = FALSE
        /\ loaded = {} /\ cache = {} /\ dirty = {}
        /\ deferring = FALSE /\ buffer = {}
        /\ at = "free" /\ mode = "none" /\ todo = {} /\ next = "free"
        /\ waiting = FALSE /\ ids = {}
        /\ faults = 0
        /\ touched = {} /\ suspect = {} /\ late = {}

-----------------------------------------------------------------------------
\* Memory, rows and history as one statement changes them.

\* Mutated form.
Cached_Empty(fs) == cache

\* _load_fragment of the fragments fs.
Cached(fs) == cache \cup BitsIn(fs \ loaded, bits)

\* Mutated forms.
Change_ClearsClean(fs, set, clear) ==
    /\ loaded' = loaded \cup fs
    /\ cache' = (Cached(fs) \cup set) \ clear
    /\ dirty' = dirty \cup {FragOf(e) : e \in set \ Cached(fs)}
Change_NotKept(fs, set, clear) ==
    /\ loaded' = loaded
    /\ cache' = (Cached(fs) \cup set) \ clear
    /\ dirty' = dirty \cup {FragOf(e) : e \in set \cup clear}

\* Set and clear bits; a fragment is dirty when a bit of it changed.
Change(fs, set, clear) ==
    LET old == Cached(fs)
    IN  /\ loaded' = loaded \cup fs
        /\ cache' = (old \cup set) \ clear
        /\ dirty' = dirty \cup {FragOf(e) : e \in (set \ old) \cup (clear \cap old)}

\* Outside a transaction every statement commits.
Write(t) == /\ view' = t
            /\ disk' = IF open THEN disk ELSE t

Done(es) == IF open THEN touched' = touched \cup es /\ UNCHANGED suspect
                    ELSE suspect' = suspect \ es /\ UNCHANGED touched

Failed(es) == /\ faults < MaxFaults
              /\ faults' = faults + 1
              /\ touched' = touched \ es
              /\ suspect' = suspect \cup es
              /\ at' = "raise"

Step == /\ at = "body"
        /\ UNCHANGED <<bits, open, mode, todo, next, waiting>>

\* link, link_many, bulk_link and weighted_link: the bits first, then the rows.
PutLinks(es) ==
    /\ Change({FragOf(e) : e \in es}, es, {})
    /\ \/ /\ Write([view EXCEPT !.rows = @ \cup es])
          /\ Done(es)
          /\ late' = late \cup {e \in es : ~Live(e, view)}
          /\ UNCHANGED <<at, faults>>
       \/ /\ Failed(es)
          /\ UNCHANGED <<disk, view, late>>

-----------------------------------------------------------------------------
\* What runs under the lock: an op that commits statement by statement, one
\* transaction, or a window of a cooperative ingest.
Begin(m) == /\ at = "free"
            /\ m = "window" => ~waiting
            /\ at' = "body" /\ mode' = m
            /\ open' = (m # "auto")
            /\ UNCHANGED <<tables, memory, scope, todo, next, job, faults, history>>

\* The ingest gets the lock back and opens its next window.
Resume == /\ at = "free"
          /\ waiting
          /\ at' = "body" /\ mode' = "window"
          /\ open' = TRUE
          /\ waiting' = FALSE
          /\ UNCHANGED <<tables, memory, scope, todo, next, ids, faults, history>>

\* upsert_entity of a new entity.
Upsert(x) == /\ Step
             /\ x \notin used
             /\ used' = used \cup {x}
             /\ Write([view EXCEPT !.alive = @ \cup {x}])
             /\ UNCHANGED <<memory, scope, at, ids, faults, history>>

\* An op links entities it has just looked up; a resumed ingest also those
\* whose ids it resolved before it yielded.
Linkable(e) == {e.c, e.e} \subseteq view.alive \cup (IF mode = "window" THEN ids ELSE {})

Link(e) == /\ Step
           /\ Linkable(e)
           /\ ~deferring
           /\ PutLinks({e})
           /\ UNCHANGED <<used, scope, ids>>

DeferLink(e) == /\ Step
                /\ Linkable(e)
                /\ deferring
                /\ buffer' = buffer \cup {e}
                /\ UNCHANGED <<tables, memory, deferring, at, ids, faults, history>>

\* deferred_links
OpenScope == /\ Step
             /\ ~deferring
             /\ deferring' = TRUE
             /\ UNCHANGED <<tables, memory, buffer, at, ids, faults, history>>

\* Its finally clause runs after an exception as well: bulk_link of the buffer.
CloseScope == /\ at \in {"body", "raise"}
              /\ deferring
              /\ deferring' = FALSE /\ buffer' = {}
              /\ PutLinks(buffer)
              /\ UNCHANGED <<bits, used, open, mode, todo, next, job>>

Unlink(e) == /\ Step
             /\ Change({FragOf(e)}, {}, {e})
             /\ \/ /\ Write([view EXCEPT !.rows = @ \ {e}])
                   /\ Done({e})
                   /\ UNCHANGED <<at, faults>>
                \/ /\ Failed({e})
                   /\ UNCHANGED <<disk, view>>
             /\ UNCHANGED <<used, scope, ids, late>>

\* Mutated form.
Purged_EntitySideOnly(t, x, n) ==
    [rows  |-> {e \in t.rows : ~(n >= 1 /\ e.e = x)},
     alive |-> IF n >= 3 THEN t.alive \ {x} ELSE t.alive]

\* purge_entity's statements, in order: the rows of the entity, the rows of
\* the concept, the entity.
Purged(t, x, n) ==
    [rows  |-> {e \in t.rows : ~(n >= 1 /\ e.e = x) /\ ~(n >= 2 /\ e.c = x)},
     alive |-> IF n >= 3 THEN t.alive \ {x} ELSE t.alive]

\* purge_entity and _clear_purged_bits: in every partition, the bits of x's
\* rows and all bits of the concept x; then the statements, any of which may
\* raise.  No caller purges inside a scope that has links in its buffer.
PurgeEntity(x) ==
    /\ Step
    /\ x \in view.alive
    /\ buffer = {}
    /\ LET gone == {e \in Edge : e.c = x \/ (e.e = x /\ e \in view.rows)}
       IN  /\ Change(Frag, {}, gone)
           /\ \E n \in 0..3 :
                /\ Write(Purged(view, x, n))
                /\ \/ n = 3 /\ Done(gone) /\ UNCHANGED <<at, faults>>
                   \/ n < 3 /\ Failed(gone)
    /\ UNCHANGED <<used, scope, ids, late>>

\* A query on the writer loads a fragment.
Load(f) == /\ Step
           /\ f \notin loaded
           /\ Change({f}, {}, {})
           /\ UNCHANGED <<tables, scope, at, ids, faults, history>>

\* The op's own code raises.
Raise == /\ Step
         /\ Failed({})
         /\ UNCHANGED <<tables, memory, scope, ids, late>>

-----------------------------------------------------------------------------
\* The end of an op: the lock is released, or kept for a flush or a repair.
Go(where) == /\ at' = IF where = "repair" THEN "repair" ELSE "free"
             /\ waiting' = (waiting \/ where = "yield")
             /\ ids' = IF where = "yield" THEN view.alive
                       ELSE IF mode = "window" THEN {} ELSE ids
             /\ mode' = "none" /\ next' = "free"

FlushThen(where) == IF dirty = {} THEN Go(where) /\ UNCHANGED todo
                    ELSE /\ at' = "flush" /\ todo' = dirty /\ next' = where
                         /\ UNCHANGED <<mode, job>>

End == /\ at \in {"body", "raise"} /\ ~deferring
       /\ ~open
       /\ Go("free")
       /\ UNCHANGED <<tables, open, memory, scope, todo, faults, history>>

\* COMMIT, then the flush.  A window is committed by the boundary of its ingest,
\* which then yields, and by close, whether or not the ingest raised.
Commit == /\ open /\ ~deferring
          /\ at = "body" \/ (at = "raise" /\ mode = "window")
          /\ open' = FALSE
          /\ disk' = view
          /\ \E where \in {"free", "yield"} :
               /\ where = "yield" => mode = "window" /\ at = "body"
               /\ FlushThen(where)
          /\ suspect' = suspect \ touched /\ touched' = {}
          /\ UNCHANGED <<view, bits, used, memory, scope, faults, late>>

\* The rows and entities go back; memory and the sequence do not.
Rollback == /\ open /\ ~deferring
            /\ at = "raise" /\ mode = "tx"
            /\ open' = FALSE
            /\ view' = disk
            /\ suspect' = suspect \cup touched /\ touched' = {}
            /\ Go("free")
            /\ UNCHANGED <<disk, bits, used, memory, scope, todo, faults, late>>

\* _periodic_flush, and the flush of a shutdown.
Tick == /\ at = "free"
        /\ dirty # {}
        /\ at' = "flush" /\ todo' = dirty /\ next' = "free"
        /\ UNCHANGED <<tables, open, memory, scope, mode, job, faults, history>>

\* Mutated form.
FlushOne_DirtyClearedFirst(f) ==
    /\ at = "flush"
    /\ f \in todo
    /\ bits' = (bits \ BitsIn({f}, Edge)) \cup BitsIn({f}, cache)
    /\ dirty' = dirty \ todo /\ todo' = {}
    /\ Go(next)
    /\ UNCHANGED <<disk, view, used, open, loaded, cache, scope, faults, history>>

\* _flush_fragments_duckdb, one fragment of list(dirty) after the other.
FlushOne(f) == /\ at = "flush"
               /\ f \in todo
               /\ bits' = (bits \ BitsIn({f}, Edge)) \cup BitsIn({f}, cache)
               /\ dirty' = dirty \ {f} /\ todo' = todo \ {f}
               /\ IF todo = {f} THEN Go(next) ELSE UNCHANGED <<at, mode, next, job>>
               /\ UNCHANGED <<disk, view, used, open, loaded, cache, scope, faults, history>>

\* Mutated form.
FlushRaises_Forgets == /\ at = "flush"
                       /\ faults < MaxFaults
                       /\ faults' = faults + 1
                       /\ todo' = {} /\ dirty' = {}
                       /\ Go(IF next = "repair" THEN "free" ELSE next)
                       /\ UNCHANGED <<tables, open, loaded, cache, scope, history>>

\* A flush that raises leaves the rest dirty.  After a commit and on the tick
\* that is reported and goes no further; a repair stops.
FlushRaises == /\ at = "flush"
               /\ faults < MaxFaults
               /\ faults' = faults + 1
               /\ todo' = {}
               /\ Go(IF next = "repair" THEN "free" ELSE next)
               /\ UNCHANGED <<tables, open, memory, scope, history>>

\* repair_fragments flushes ...
BeginRepair == /\ at = "free"
               /\ FlushThen("repair")
               /\ UNCHANGED <<tables, open, memory, scope, faults, history>>

\* ... and writes, in one transaction, the bits of all rows and all bits there
\* are but those that name a dead entity or concept.  If that changed anything
\* it forgets its caches.
Repair == /\ at = "repair"
          /\ bits' = {e \in disk.rows \cup bits : Live(e, disk)}
          /\ IF bits' = bits THEN UNCHANGED memory
                             ELSE loaded' = {} /\ cache' = {} /\ dirty' = {}
          /\ suspect' = {e \in suspect : Live(e, disk) /\ e \in bits \ disk.rows}
          /\ Go("free")
          /\ UNCHANGED <<disk, view, used, open, scope, todo, faults, touched, late>>

\* SIGKILL or os._exit, and the next start.
Kill == /\ faults < MaxFaults
        /\ faults' = faults + 1
        /\ view' = disk
        /\ open' = FALSE
        /\ loaded' = {} /\ cache' = {} /\ dirty' = {}
        /\ deferring' = FALSE /\ buffer' = {}
        /\ at' = "free" /\ mode' = "none" /\ todo' = {} /\ next' = "free"
        /\ waiting' = FALSE /\ ids' = {}
        /\ suspect' = suspect \cup {e \in Edge : FragOf(e) \in dirty /\ (e \in disk.rows) # (e \in bits)}
        /\ touched' = {}
        /\ UNCHANGED <<disk, bits, used, late>>

Op == \/ \E e \in Edge : Link(e) \/ DeferLink(e) \/ Unlink(e)
      \/ \E x \in Entity : Upsert(x) \/ PurgeEntity(x)
      \/ \E f \in Frag : Load(f)
      \/ OpenScope \/ CloseScope \/ Raise \/ End \/ Commit \/ Rollback

Next == \/ \E m \in Mode : Begin(m)
        \/ Resume \/ Op
        \/ Tick \/ BeginRepair \/ Repair \/ FlushRaises \/ Kill
        \/ \E f \in Frag : FlushOne(f)

Spec == Init /\ [][Next]_vars

-----------------------------------------------------------------------------
\* The rows and the persisted bits disagree about an edge.
Drifted(e) == (e \in disk.rows) # (e \in bits)

\* The fragment is dirty, and its next flush writes what the rows say.
Pending(e) == FragOf(e) \in dirty /\ ((e \in cache) <=> (e \in disk.rows))

\* The persisted fragments, from which readers answer, disagree with the
\* committed rows only about edges a flush will put right, edges of the open
\* transaction, edges whose last change was rolled back, failed halfway or died
\* with the process, and rows of dead entities that a repair left out.  Any
\* later change of such an edge that succeeds puts it right.
DriftIsAccounted ==
    \A e \in Edge : Drifted(e) =>
        \/ Pending(e)
        \/ e \in touched \cup suspect
        \/ e \in disk.rows /\ ~Live(e, disk)

\* A fragment in memory that no one will flush is the persisted one: a bit that
\* is set or cleared without its fragment becoming dirty would be lost.
CleanFragmentIsPersisted == BitsIn(loaded \ dirty, cache) = BitsIn(loaded \ dirty, bits)

\* What the writer itself answers from memory are the rows it sees, its open
\* transaction included.
MemoryIsView ==
    \A e \in Edge : FragOf(e) \in loaded /\ (e \in cache) # (e \in view.rows) =>
        e \in suspect \/ (e \in view.rows /\ ~Live(e, view))

\* Both: memory has what the rows say, and whatever no flush will write is
\* already on disk.
MemoryIsFaithful == CleanFragmentIsPersisted /\ MemoryIsView

\* A committed row names entities that exist, unless an ingest linked an id that
\* was purged while it had given up the lock.
RowsNameTheLiving == \A e \in disk.rows : Live(e, disk) \/ e \in late

\* Every op ends, statements and flushes return, and the FIFO lock comes to the
\* flush tick.
Fairness == /\ SF_vars(End \/ Commit \/ Rollback)
            /\ SF_vars(Tick)
            /\ WF_vars(CloseScope \/ Repair \/ FlushRaises \/ \E f \in Frag : FlushOne(f))

LiveSpec == Spec /\ Fairness

\* A committed row that its fragment misses gets its bit.
BitsCatchUp ==
    \A e \in Edge :
        e \in disk.rows \ (bits \cup suspect) /\ Live(e, disk)
            ~> e \notin disk.rows \/ e \in bits \cup suspect \/ ~Live(e, disk)

\* A flush writes no bit whose row is not committed.
FlushFollowsCommit == [][bits' \ bits \subseteq disk'.rows]_vars
=============================================================================
