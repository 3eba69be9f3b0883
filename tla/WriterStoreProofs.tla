------------------------- MODULE WriterStoreProofs -------------------------
(***************************************************************************)
(* Proofs about WriterStore: the persisted fragments disagree with the     *)
(* committed rows only where the specification says they may, for any      *)
(* edges, entities and partitions and any number of faults.                *)
(*                                                                         *)
(* Every statement changes a fragment in memory, a row and perhaps the     *)
(* history of an edge; StatementKeeps is the one argument all of them      *)
(* share.  What ends a transaction, a flush, a repair and a kill each move *)
(* one of the three (rows, memory, persisted bits) to another, and use     *)
(* what the invariant says about the pair.                                 *)
(***************************************************************************)
EXTENDS WriterStore, TLAPS

\* Who runs what: a transaction is open only while an op runs, links are
\* buffered only there, and only a flush has fragments left to write, which are
\* all that are dirty.
ControlInv ==
    /\ todo # {} => at = "flush"
    /\ at = "flush" => dirty = todo /\ ~open
    /\ at = "free" => ~open
    /\ at = "repair" => dirty = {} /\ ~open
    /\ deferring => at \in {"body", "raise"}
    /\ ~deferring => buffer = {}
    /\ ~open => view = disk /\ touched = {}

\* Ids in use come from the sequence.
UsedInv ==
    /\ view.alive \cup disk.alive \cup ids \subseteq used
    /\ \A e \in view.rows \cup disk.rows \cup buffer : {e.c, e.e} \subseteq used

\* A row of a dead entity, as the connection sees it, is a late one.
ViewRowsInv == \A e \in view.rows : Live(e, view) \/ e \in late

\* Where the open transaction differs from the committed rows it has touched the
\* edge, and memory agrees with it about the edges it touched.
TouchedInv ==
    \A e \in Edge :
        /\ (e \in view.rows) # (e \in disk.rows) =>
              e \in touched \cup suspect /\ FragOf(e) \in loaded
        /\ e \in touched => FragOf(e) \in loaded /\ ((e \in cache) <=> (e \in view.rows))
        /\ e \in view.rows /\ ~Live(e, view) /\ Live(e, disk) => e \in touched \cup suspect
        /\ e \in disk.rows /\ Live(e, view) => Live(e, disk)

\* Without the help of a flush, the persisted bits are wrong only about suspect
\* edges and rows of dead entities.
PersistedInv ==
    \A e \in Edge : Drifted(e) /\ FragOf(e) \notin dirty =>
        e \in suspect \/ (e \in disk.rows /\ ~Live(e, disk))

IInv == /\ TypeOK /\ ControlInv /\ UsedInv /\ RowsNameTheLiving /\ ViewRowsInv
        /\ TouchedInv /\ CleanFragmentIsPersisted /\ MemoryIsView /\ PersistedInv

-----------------------------------------------------------------------------
\* What Change leaves in memory, and that a clean fragment stays the persisted
\* one.
LEMMA ChangeFacts ==
    ASSUME TypeOK, CleanFragmentIsPersisted, UNCHANGED bits,
           NEW fs \in SUBSET Frag, NEW set \in SUBSET BitsIn(fs, Edge),
           NEW clear \in SUBSET BitsIn(fs, Edge), Change(fs, set, clear)
    PROVE  /\ loaded' = loaded \cup fs
           /\ loaded' \in SUBSET Frag /\ dirty' \in SUBSET loaded'
           /\ cache' \in SUBSET BitsIn(loaded', Edge)
           /\ dirty \subseteq dirty'
           /\ \A e \in clear : e \notin cache'
           /\ \A e \in set \ clear : e \in cache'
           /\ \A e \in Edge \ (set \cup clear) :
                /\ FragOf(e) \in loaded => ((e \in cache') <=> (e \in cache))
                /\ FragOf(e) \in fs \ loaded => ((e \in cache') <=> (e \in bits))
           /\ CleanFragmentIsPersisted'
  <1> USE DEF TypeOK, BitsIn
  <1> DEFINE old == Cached(fs)
  <1>1. /\ loaded' = loaded \cup fs
        /\ cache' = (old \cup set) \ clear
        /\ dirty' = dirty \cup {FragOf(e) : e \in (set \ old) \cup (clear \cap old)}
    BY DEF Change
  <1>2. old \in SUBSET BitsIn(loaded', Edge)
    BY <1>1 DEF Cached
  <1>3. \A e \in Edge : /\ FragOf(e) \in loaded => ((e \in old) <=> (e \in cache))
                        /\ FragOf(e) \in fs \ loaded => ((e \in old) <=> (e \in bits))
    BY DEF Cached
  <1> HIDE DEF old
  <1>4. CleanFragmentIsPersisted'
    <2> SUFFICES ASSUME NEW e \in Edge, FragOf(e) \in loaded' \ dirty'
                 PROVE  (e \in cache') <=> (e \in bits)
      BY <1>1, <1>2 DEF CleanFragmentIsPersisted
    <2>1. (e \in cache') <=> (e \in old)
      BY <1>1
    <2>2. CASE FragOf(e) \in loaded
      BY <2>1, <2>2, <1>1, <1>3 DEF CleanFragmentIsPersisted
    <2>3. CASE FragOf(e) \notin loaded
      BY <2>1, <2>3, <1>1, <1>3
    <2> QED BY <2>2, <2>3
  <1>5. dirty' \in SUBSET loaded'
    BY <1>1
  <1> QED BY <1>1, <1>2, <1>3, <1>4, <1>5

\* One statement: it changes the bits of the edges set and clear in memory and
\* takes the connection's tables to t, or raises halfway.
LEMMA StatementKeeps ==
    ASSUME IInv, UNCHANGED <<bits, open>>,
           NEW fs \in SUBSET Frag, NEW set \in SUBSET BitsIn(fs, Edge),
           NEW clear \in SUBSET BitsIn(fs, Edge), set \cap clear = {},
           NEW es, es = set \cup clear,
           Change(fs, set, clear),
           NEW t \in [rows : SUBSET Edge, alive : SUBSET Entity], Write(t),
           \A e \in Edge \ es : (e \in t.rows) <=> (e \in view.rows),
           t.alive \subseteq view.alive,
           \A e \in t.rows : Live(e, view) => Live(e, t),
           \/ /\ Done(es)
              /\ set \subseteq t.rows /\ clear \cap t.rows = {}
           \/ Failed(es)
    PROVE  /\ TouchedInv' /\ CleanFragmentIsPersisted' /\ MemoryIsView' /\ PersistedInv'
           /\ {touched', suspect'} \subseteq SUBSET Edge
           /\ {disk', view'} \subseteq [rows : SUBSET Edge, alive : SUBSET Entity]
           /\ ~open => touched' = {} /\ view' = disk'
  <1>1. TypeOK /\ CleanFragmentIsPersisted
    BY DEF IInv
  <1>2. /\ loaded' = loaded \cup fs
        /\ dirty \subseteq dirty'
        /\ \A e \in clear : e \notin cache'
        /\ \A e \in set : e \in cache'
        /\ \A e \in Edge \ es :
             /\ FragOf(e) \in loaded => ((e \in cache') <=> (e \in cache))
             /\ FragOf(e) \in fs \ loaded => ((e \in cache') <=> (e \in bits))
        /\ cache' \in SUBSET BitsIn(loaded', Edge)
        /\ CleanFragmentIsPersisted'
    BY <1>1, ChangeFacts
  <1>3. es \in SUBSET Edge /\ \A e \in es : FragOf(e) \in loaded'
    BY <1>2 DEF BitsIn
  <1>4. view' = t /\ disk' = IF open THEN disk ELSE t
    BY DEF Write
  <1>5. \A e \in Edge : Live(e, t) => Live(e, view)
    BY DEF Live
  <1>6. /\ suspect \ es \subseteq suspect'
        /\ touched \ es \subseteq touched'
        /\ open => suspect \subseteq suspect'
        /\ \A e \in es : \/ e \in suspect'
                         \/ /\ (e \in t.rows) <=> (e \in cache')
                            /\ open => e \in touched'
        /\ touched' \subseteq touched \cup es
        /\ \A e \in es \cap touched' : (e \in t.rows) <=> (e \in cache')
        /\ ~open => touched' = {}
    <2>1. ~open => touched = {}
      BY DEF IInv, ControlInv
    <2>2. CASE Done(es) /\ set \subseteq t.rows /\ clear \cap t.rows = {}
      <3>1. \A e \in es : (e \in t.rows) <=> (e \in cache')
        BY <1>2, <2>2
      <3> QED BY <2>1, <2>2, <3>1 DEF Done
    <2>3. CASE Failed(es)
      BY <2>1, <2>3 DEF Failed
    <2> QED BY <2>2, <2>3
  <1>7. \A e \in Edge \ es : (e \in t.rows) <=> (e \in view.rows)
    OBVIOUS
  <1>8. MemoryIsView'
    <2> SUFFICES ASSUME NEW e \in Edge, FragOf(e) \in loaded',
                        (e \in cache') # (e \in t.rows), e \notin suspect'
                 PROVE  e \in t.rows /\ ~Live(e, t)
      BY <1>4 DEF MemoryIsView
    <2>1. e \notin es
      BY <1>6
    <2>2. CASE FragOf(e) \in loaded
      BY <2>1, <2>2, <1>2, <1>5, <1>6, <1>7 DEF IInv, MemoryIsView
    <2>3. CASE FragOf(e) \notin loaded
      <3>1. FragOf(e) \notin dirty
        BY <2>3, <1>1 DEF TypeOK
      <3>2. (e \in view.rows) <=> (e \in disk.rows)
        BY <2>3 DEF IInv, TouchedInv
      <3>3. e \in disk.rows /\ ~Live(e, disk)
        BY <3>1, <3>2, <2>1, <2>3, <1>2, <1>6, <1>7 DEF IInv, PersistedInv, Drifted
      <3>4. ~Live(e, view)
        BY <3>3 DEF IInv, TouchedInv
      <3> QED BY <3>2, <3>3, <3>4, <2>1, <1>5, <1>7
    <2> QED BY <2>2, <2>3
  <1>9. PersistedInv'
    <2> SUFFICES ASSUME NEW e \in Edge, (e \in disk'.rows) # (e \in bits),
                        FragOf(e) \notin dirty', e \notin suspect'
                 PROVE  e \in disk'.rows /\ ~Live(e, disk')
      BY DEF PersistedInv, Drifted, Live
    <2>1. CASE open
      BY <2>1, <1>2, <1>4, <1>6 DEF IInv, PersistedInv, Drifted
    <2>2. CASE ~open
      <3>1. disk = view /\ disk' = t
        BY <2>2, <1>4 DEF IInv, ControlInv
      <3>2. CASE e \in es
        <4>1. (e \in t.rows) <=> (e \in cache')
          BY <3>2, <1>6
        <4>2. (e \in cache') <=> (e \in bits)
          BY <3>2, <1>2, <1>3 DEF CleanFragmentIsPersisted, BitsIn
        <4> QED BY <4>1, <4>2, <3>1
      <3>3. CASE e \notin es
        BY <3>1, <3>3, <1>2, <1>5, <1>6, <1>7 DEF IInv, PersistedInv, Drifted
      <3> QED BY <3>2, <3>3
    <2> QED BY <2>1, <2>2
  <1>10. TouchedInv'
    <2> SUFFICES ASSUME NEW e \in Edge
                 PROVE /\ (e \in view'.rows) # (e \in disk'.rows) =>
                            e \in touched' \cup suspect' /\ FragOf(e) \in loaded'
                       /\ e \in touched' => FragOf(e) \in loaded' /\ ((e \in cache') <=> (e \in view'.rows))
                       /\ e \in view'.rows /\ ~Live(e, view') /\ Live(e, disk') => e \in touched' \cup suspect'
                       /\ e \in disk'.rows /\ Live(e, view') => Live(e, disk')
      BY DEF TouchedInv, Live
    <2>1. CASE ~open
      BY <2>1, <1>4, <1>6
    <2>2. CASE open
      <3>1. view' = t /\ disk' = disk
        BY <2>2, <1>4
      <3>2. CASE e \in es
        BY <3>1, <3>2, <2>2, <1>3, <1>5, <1>6 DEF IInv, TouchedInv
      <3>3. CASE e \notin es
        <4>1. e \in touched' => e \in touched
          BY <3>3, <1>6
        <4>2. e \in touched \cup suspect => e \in touched' \cup suspect'
          BY <3>3, <1>6
        <4>3. e \in touched => FragOf(e) \in loaded /\ ((e \in cache') <=> (e \in view.rows))
          BY <3>3, <1>2 DEF IInv, TouchedInv
        <4> QED BY <3>1, <3>3, <4>1, <4>2, <4>3, <1>2, <1>5, <1>7 DEF IInv, TouchedInv
      <3> QED BY <3>2, <3>3
    <2> QED BY <2>1, <2>2
  <1>11. {touched', suspect'} \subseteq SUBSET Edge
    BY <1>1, <1>3 DEF Done, Failed, TypeOK
  <1> QED BY <1>1, <1>2, <1>4, <1>6, <1>8, <1>9, <1>10, <1>11 DEF TypeOK

-----------------------------------------------------------------------------
LEMMA InitIInv == Init => IInv
  <1> SUFFICES ASSUME Init PROVE IInv
    OBVIOUS
  <1> USE DEF Init
  <1>1. TypeOK
    <2>1. /\ {disk, view} \subseteq [rows : SUBSET Edge, alive : SUBSET Entity]
          /\ used \in SUBSET Entity
      OBVIOUS
    <2>2. {open, deferring, waiting} \subseteq BOOLEAN /\ {touched, suspect, late} \subseteq SUBSET Edge
      OBVIOUS
    <2>3. 0 \in 0..MaxFaults
      BY BoundAssumption
    <2> QED BY <2>1, <2>2, <2>3 DEF TypeOK, BitsIn
  <1>2. ControlInv
    BY DEF ControlInv
  <1>3. UsedInv /\ RowsNameTheLiving /\ ViewRowsInv
    BY DEF UsedInv, RowsNameTheLiving, ViewRowsInv
  <1>4. TouchedInv /\ MemoryIsView /\ PersistedInv
    BY DEF TouchedInv, MemoryIsView, PersistedInv, Drifted
  <1>5. CleanFragmentIsPersisted
    BY DEF CleanFragmentIsPersisted, BitsIn
  <1> QED BY <1>1, <1>2, <1>3, <1>4, <1>5 DEF IInv

\* What a statement that raises leaves of the bounds and the place.
LEMMA FailedFacts ==
    ASSUME TypeOK, NEW es, Failed(es)
    PROVE  faults' \in 0..MaxFaults /\ at' = "raise"
  BY BoundAssumption DEF TypeOK, Failed

\* Linking edges that name ids in use.
LEMMA LinksKeep ==
    ASSUME IInv, at \in {"body", "raise"}, NEW es \in SUBSET Edge,
           \A e \in es : {e.c, e.e} \subseteq used,
           PutLinks(es),
           UNCHANGED <<bits, used, open, mode, todo, next, job>>,
           UNCHANGED scope \/ (deferring' = FALSE /\ buffer' = {})
    PROVE  IInv'
  <1> DEFINE fs == {FragOf(e) : e \in es}
  <1>1. Change(fs, es, {})
    BY DEF PutLinks
  <1>2. fs \in SUBSET Frag /\ es \in SUBSET BitsIn(fs, Edge) /\ {} \in SUBSET BitsIn(fs, Edge)
    BY DEF Frag, BitsIn
  <1>3. PICK t \in [rows : SUBSET Edge, alive : SUBSET Entity] :
          /\ Write(t)
          /\ t.alive = view.alive
          /\ \/ t.rows = view.rows \cup es /\ Done(es) /\ UNCHANGED <<at, faults>>
                /\ late' = late \cup {e \in es : ~Live(e, view)}
             \/ t.rows = view.rows /\ Failed(es) /\ UNCHANGED late
    <2>1. CASE /\ Write([view EXCEPT !.rows = @ \cup es]) /\ Done(es)
               /\ late' = late \cup {e \in es : ~Live(e, view)}
               /\ UNCHANGED <<at, faults>>
      BY <2>1 DEF IInv, TypeOK
    <2>2. CASE Failed(es) /\ UNCHANGED <<disk, view, late>>
      <3>1. Write(view)
        BY <2>2 DEF Write, IInv, ControlInv
      <3> QED BY <2>2, <3>1 DEF IInv, TypeOK
    <2> QED BY <2>1, <2>2 DEF PutLinks
  <1> HIDE DEF fs
  <1>4. /\ es = es \cup {} /\ es \cap {} = {}
        /\ \A e \in Edge \ es : (e \in t.rows) <=> (e \in view.rows)
        /\ \A e \in t.rows : Live(e, view) => Live(e, t)
    BY <1>3 DEF Live
  <1>5. \/ Done(es) /\ es \subseteq t.rows /\ {} \cap t.rows = {}
        \/ Failed(es)
    BY <1>3
  <1>6. /\ TouchedInv' /\ CleanFragmentIsPersisted' /\ MemoryIsView' /\ PersistedInv'
        /\ {touched', suspect'} \subseteq SUBSET Edge
        /\ {disk', view'} \subseteq [rows : SUBSET Edge, alive : SUBSET Entity]
        /\ ~open => touched' = {} /\ view' = disk'
    BY <1>1, <1>2, <1>3, <1>4, <1>5, StatementKeeps
  <1>7. view' = t /\ disk' = IF open THEN disk ELSE t
    BY <1>3 DEF Write
  <1>8. /\ loaded' \in SUBSET Frag /\ dirty' \in SUBSET loaded' /\ dirty \subseteq dirty'
        /\ cache' \in SUBSET BitsIn(loaded', Edge)
    BY <1>1, <1>2, ChangeFacts DEF IInv
  <1>9. faults' \in 0..MaxFaults /\ at' \in {"body", "raise"} /\ late' \in SUBSET Edge
    BY <1>3, FailedFacts DEF IInv, TypeOK
  <1>10. TypeOK'
    BY <1>6, <1>8, <1>9 DEF IInv, TypeOK, scope, job
  <1>11. ControlInv'
    BY <1>6, <1>9 DEF IInv, ControlInv, scope
  <1>12. UsedInv'
    BY <1>3, <1>7 DEF IInv, UsedInv, scope, job
  <1>13. ViewRowsInv'
    BY <1>3, <1>7 DEF IInv, ViewRowsInv, Live
  <1>14. RowsNameTheLiving'
    <2>1. CASE open
      BY <2>1, <1>3, <1>7 DEF IInv, RowsNameTheLiving, Live
    <2>2. CASE ~open
      BY <2>2, <1>7, <1>13 DEF ViewRowsInv, RowsNameTheLiving, Live
    <2> QED BY <2>1, <2>2
  <1> QED BY <1>6, <1>10, <1>11, <1>12, <1>13, <1>14 DEF IInv

\* A statement that adds no row leaves rows of the living only.
LEMMA ShrinkKeeps ==
    ASSUME IInv, at = "body",
           UNCHANGED <<bits, open, mode, todo, next, waiting, used, deferring, buffer, ids, late>>,
           NEW t \in [rows : SUBSET Edge, alive : SUBSET Entity], Write(t),
           t.rows \subseteq view.rows, t.alive \subseteq view.alive,
           \A e \in t.rows : Live(e, view) => Live(e, t),
           TouchedInv', CleanFragmentIsPersisted', MemoryIsView', PersistedInv',
           {touched', suspect'} \subseteq SUBSET Edge,
           {disk', view'} \subseteq [rows : SUBSET Edge, alive : SUBSET Entity],
           ~open => touched' = {} /\ view' = disk',
           loaded' \in SUBSET Frag, dirty' \in SUBSET loaded', dirty \subseteq dirty',
           cache' \in SUBSET BitsIn(loaded', Edge),
           faults' \in 0..MaxFaults, at' \in {"body", "raise"}
    PROVE  IInv'
  <1>1. view' = t /\ disk' = IF open THEN disk ELSE t
    BY DEF Write
  <1>2. TypeOK'
    BY DEF IInv, TypeOK
  <1>3. ControlInv'
    BY DEF IInv, ControlInv
  <1>4. UsedInv'
    BY <1>1 DEF IInv, UsedInv
  <1>5. ViewRowsInv'
    <2>1. \A e \in t.rows : Live(e, t) \/ e \in late
      BY DEF IInv, ViewRowsInv
    <2> QED BY <1>1, <2>1 DEF ViewRowsInv, Live
  <1>6. RowsNameTheLiving'
    <2>1. CASE open
      BY <2>1, <1>1 DEF IInv, RowsNameTheLiving, Live
    <2>2. CASE ~open
      BY <2>2, <1>1, <1>5 DEF ViewRowsInv, RowsNameTheLiving, Live
    <2> QED BY <2>1, <2>2
  <1> QED BY <1>2, <1>3, <1>4, <1>5, <1>6 DEF IInv

LEMMA LinkKeeps == ASSUME IInv, NEW e \in Edge, Link(e) PROVE IInv'
  <1>1. \A d \in {e} : {d.c, d.e} \subseteq used
    BY DEF Link, Linkable, IInv, UsedInv
  <1> QED BY <1>1, LinksKeep DEF Link, Step, job, scope

LEMMA CloseScopeKeeps == ASSUME IInv, CloseScope PROVE IInv'
  <1>1. buffer \in SUBSET Edge /\ \A d \in buffer : {d.c, d.e} \subseteq used
    BY DEF IInv, TypeOK, UsedInv
  <1> QED BY <1>1, LinksKeep DEF CloseScope, job

LEMMA UnlinkKeeps == ASSUME IInv, NEW e \in Edge, Unlink(e) PROVE IInv'
  <1>1. /\ at = "body" /\ UNCHANGED <<bits, open, mode, todo, next, waiting, used, deferring, buffer, ids, late>>
        /\ Change({FragOf(e)}, {}, {e})
    BY DEF Unlink, Step, scope
  <1>2. /\ {FragOf(e)} \in SUBSET Frag
        /\ {} \in SUBSET BitsIn({FragOf(e)}, Edge) /\ {e} \in SUBSET BitsIn({FragOf(e)}, Edge)
    BY DEF Frag, BitsIn
  <1>3. PICK t \in [rows : SUBSET Edge, alive : SUBSET Entity] :
          /\ Write(t)
          /\ t.alive = view.alive
          /\ \/ t.rows = view.rows \ {e} /\ Done({e}) /\ UNCHANGED <<at, faults>>
             \/ t.rows = view.rows /\ Failed({e})
    <2>1. CASE /\ Write([view EXCEPT !.rows = @ \ {e}])
               /\ Done({e})
               /\ UNCHANGED <<at, faults>>
      BY <2>1 DEF IInv, TypeOK
    <2>2. CASE Failed({e}) /\ UNCHANGED <<disk, view>>
      <3>1. Write(view)
        BY <2>2 DEF Write, IInv, ControlInv
      <3> QED BY <2>2, <3>1 DEF IInv, TypeOK
    <2> QED BY <2>1, <2>2 DEF Unlink
  <1>4. /\ {e} = {} \cup {e} /\ {} \cap {e} = {}
        /\ t.alive \subseteq view.alive
        /\ \A d \in Edge \ {e} : (d \in t.rows) <=> (d \in view.rows)
        /\ \A d \in t.rows : Live(d, view) => Live(d, t)
    BY <1>3 DEF Live
  <1>5. \/ Done({e}) /\ {} \subseteq t.rows /\ {e} \cap t.rows = {}
        \/ Failed({e})
    BY <1>3
  <1>6. /\ TouchedInv' /\ CleanFragmentIsPersisted' /\ MemoryIsView' /\ PersistedInv'
        /\ {touched', suspect'} \subseteq SUBSET Edge
        /\ {disk', view'} \subseteq [rows : SUBSET Edge, alive : SUBSET Entity]
        /\ ~open => touched' = {} /\ view' = disk'
    BY <1>1, <1>2, <1>3, <1>4, <1>5, StatementKeeps
  <1>7. /\ loaded' \in SUBSET Frag /\ dirty' \in SUBSET loaded' /\ dirty \subseteq dirty'
        /\ cache' \in SUBSET BitsIn(loaded', Edge)
    BY <1>1, <1>2, ChangeFacts DEF IInv
  <1>8. faults' \in 0..MaxFaults /\ at' \in {"body", "raise"}
    BY <1>1, <1>3, FailedFacts DEF IInv, TypeOK
  <1>9. t.rows \subseteq view.rows
    BY <1>3
  <1> QED BY <1>1, <1>3, <1>4, <1>6, <1>7, <1>8, <1>9, ShrinkKeeps

LEMMA PurgeEntityKeeps == ASSUME IInv, NEW x \in Entity, PurgeEntity(x) PROVE IInv'
  <1> DEFINE gone == {e \in Edge : e.c = x \/ (e.e = x /\ e \in view.rows)}
  <1>1. /\ at = "body" /\ UNCHANGED <<bits, open, mode, todo, next, waiting, used, deferring, buffer, ids, late>>
        /\ Change(Frag, {}, gone)
    BY DEF PurgeEntity, Step, scope
  <1>2. /\ Frag \in SUBSET Frag
        /\ {} \in SUBSET BitsIn(Frag, Edge) /\ gone \in SUBSET BitsIn(Frag, Edge)
    BY DEF Frag, BitsIn
  <1>3. PICK n \in 0..3 : /\ Write(Purged(view, x, n))
                         /\ \/ n = 3 /\ Done(gone) /\ UNCHANGED <<at, faults>>
                            \/ n < 3 /\ Failed(gone)
    BY DEF PurgeEntity
  <1> DEFINE t == Purged(view, x, n)
  <1>4. view.rows \in SUBSET Edge /\ view.alive \in SUBSET Entity
    BY DEF IInv, TypeOK
  <1>5. t \in [rows : SUBSET Edge, alive : SUBSET Entity]
    BY <1>4 DEF Purged
  <1>6. /\ t.rows \subseteq view.rows /\ t.alive \subseteq view.alive
        /\ \A e \in Edge \ gone : (e \in t.rows) <=> (e \in view.rows)
        /\ n < 3 => t.alive = view.alive
        /\ n = 3 => \A e \in t.rows : e.c # x /\ e.e # x
        /\ view.alive \ {x} \subseteq t.alive
    BY <1>4 DEF Purged
  <1>7. \/ n = 3 /\ Done(gone) /\ UNCHANGED <<at, faults>>
        \/ n < 3 /\ Failed(gone)
    BY <1>3
  <1>8. Write(t)
    BY <1>3
  <1> HIDE DEF t, gone
  <1>9. \A e \in t.rows : Live(e, view) => Live(e, t)
    BY <1>6, <1>3 DEF Live
  <1>10. \A e \in gone : e.c = x \/ e.e = x
    BY DEF gone
  <1>11. \/ Done(gone) /\ {} \subseteq t.rows /\ gone \cap t.rows = {}
         \/ Failed(gone)
    BY <1>6, <1>7, <1>10
  <1>12. gone = {} \cup gone /\ {} \cap gone = {}
    OBVIOUS
  <1>13. /\ TouchedInv' /\ CleanFragmentIsPersisted' /\ MemoryIsView' /\ PersistedInv'
         /\ {touched', suspect'} \subseteq SUBSET Edge
         /\ {disk', view'} \subseteq [rows : SUBSET Edge, alive : SUBSET Entity]
         /\ ~open => touched' = {} /\ view' = disk'
    BY <1>1, <1>2, <1>5, <1>6, <1>8, <1>9, <1>11, <1>12, StatementKeeps
  <1>14. /\ loaded' \in SUBSET Frag /\ dirty' \in SUBSET loaded' /\ dirty \subseteq dirty'
         /\ cache' \in SUBSET BitsIn(loaded', Edge)
    BY <1>1, <1>2, ChangeFacts DEF IInv
  <1>15. faults' \in 0..MaxFaults /\ at' \in {"body", "raise"}
    BY <1>1, <1>7, FailedFacts DEF IInv, TypeOK
  <1> QED BY <1>1, <1>5, <1>6, <1>8, <1>9, <1>13, <1>14, <1>15, ShrinkKeeps

\* A step that leaves rows, bits, memory and history alone leaves what relates
\* them.
LEMMA DataUnchanged ==
    ASSUME IInv, UNCHANGED <<disk, view, bits, loaded, cache, dirty, touched, suspect, late>>
    PROVE  /\ RowsNameTheLiving' /\ ViewRowsInv' /\ TouchedInv'
           /\ CleanFragmentIsPersisted' /\ MemoryIsView' /\ PersistedInv'
  <1>1. RowsNameTheLiving' /\ ViewRowsInv'
    BY DEF IInv, RowsNameTheLiving, ViewRowsInv, Live
  <1>2. TouchedInv' /\ MemoryIsView' /\ PersistedInv'
    BY DEF IInv, TouchedInv, MemoryIsView, PersistedInv, Drifted, Live
  <1>3. CleanFragmentIsPersisted'
    BY DEF IInv, CleanFragmentIsPersisted, BitsIn
  <1> QED BY <1>1, <1>2, <1>3

LEMMA GoFacts ==
    ASSUME IInv, NEW where \in {"free", "yield", "repair"}, Go(where)
    PROVE  /\ at' = IF where = "repair" THEN "repair" ELSE "free"
           /\ waiting' \in BOOLEAN /\ mode' = "none" /\ next' = "free"
           /\ ids' \in SUBSET Entity /\ ids' \subseteq used
  <1>1. view.alive \in SUBSET Entity /\ ids \in SUBSET Entity /\ waiting \in BOOLEAN
    BY DEF IInv, TypeOK
  <1>2. view.alive \subseteq used /\ ids \subseteq used
    BY DEF IInv, UsedInv
  <1> QED BY <1>1, <1>2 DEF Go

LEMMA LoadKeeps == ASSUME IInv, NEW f \in Frag, Load(f) PROVE IInv'
  <1>1. /\ at = "body" /\ UNCHANGED <<bits, open, mode, todo, next, waiting, used, deferring, buffer, ids, late>>
        /\ Change({f}, {}, {}) /\ UNCHANGED <<disk, view, at, faults, touched, suspect>>
    BY DEF Load, Step, scope, tables, history
  <1>2. {f} \in SUBSET Frag /\ {} \in SUBSET BitsIn({f}, Edge)
    BY DEF BitsIn
  <1>3. Write(view) /\ Done({})
    BY <1>1 DEF Write, Done, IInv, ControlInv
  <1>4. view \in [rows : SUBSET Edge, alive : SUBSET Entity]
    BY DEF IInv, TypeOK
  <1>5. {} = {} \cup {} /\ {} \cap {} = {} /\ {} \cap view.rows = {} /\ {} \subseteq view.rows
    OBVIOUS
  <1>6. /\ TouchedInv' /\ CleanFragmentIsPersisted' /\ MemoryIsView' /\ PersistedInv'
        /\ {touched', suspect'} \subseteq SUBSET Edge
        /\ {disk', view'} \subseteq [rows : SUBSET Edge, alive : SUBSET Entity]
        /\ ~open => touched' = {} /\ view' = disk'
    BY <1>1, <1>2, <1>3, <1>4, <1>5, StatementKeeps
  <1>7. /\ loaded' \in SUBSET Frag /\ dirty' \in SUBSET loaded' /\ dirty \subseteq dirty'
        /\ cache' \in SUBSET BitsIn(loaded', Edge)
    BY <1>1, <1>2, ChangeFacts DEF IInv
  <1>8. faults' \in 0..MaxFaults /\ at' \in {"body", "raise"}
    BY <1>1 DEF IInv, TypeOK
  <1> QED BY <1>1, <1>3, <1>4, <1>6, <1>7, <1>8, ShrinkKeeps

\* What begins, waits, buffers, raises or ends without a commit.
LEMMA BeginKeeps == ASSUME IInv, NEW m \in Mode, Begin(m) PROVE IInv'
  <1> USE DEF Begin, tables, memory, scope, job, history
  <1>1. TypeOK'
    BY ModeAssumption DEF IInv, TypeOK
  <1>2. ControlInv' /\ UsedInv'
    BY DEF IInv, ControlInv, UsedInv
  <1> QED BY <1>1, <1>2, DataUnchanged DEF IInv

LEMMA ResumeKeeps == ASSUME IInv, Resume PROVE IInv'
  <1> USE DEF Resume, tables, memory, scope, job, history
  <1>1. TypeOK'
    BY DEF IInv, TypeOK
  <1>2. ControlInv' /\ UsedInv'
    BY DEF IInv, ControlInv, UsedInv
  <1> QED BY <1>1, <1>2, DataUnchanged DEF IInv

LEMMA DeferLinkKeeps == ASSUME IInv, NEW e \in Edge, DeferLink(e) PROVE IInv'
  <1> USE DEF DeferLink, Step, tables, memory, scope, history
  <1>1. TypeOK'
    BY DEF IInv, TypeOK
  <1>2. ControlInv'
    BY DEF IInv, ControlInv
  <1>3. UsedInv'
    <2>1. {e.c, e.e} \subseteq used
      BY DEF Linkable, IInv, UsedInv
    <2> QED BY <2>1 DEF IInv, UsedInv
  <1> QED BY <1>1, <1>2, <1>3, DataUnchanged DEF IInv

LEMMA OpenScopeKeeps == ASSUME IInv, OpenScope PROVE IInv'
  <1> USE DEF OpenScope, Step, tables, memory, history
  <1>1. TypeOK'
    BY DEF IInv, TypeOK
  <1>2. ControlInv' /\ UsedInv'
    BY DEF IInv, ControlInv, UsedInv
  <1> QED BY <1>1, <1>2, DataUnchanged DEF IInv

LEMMA RaiseKeeps == ASSUME IInv, Raise PROVE IInv'
  <1> USE DEF Raise, Step, tables, memory, scope
  <1>1. UNCHANGED <<touched, suspect>> /\ at' = "raise" /\ faults' \in 0..MaxFaults
    BY BoundAssumption DEF Failed, IInv, TypeOK
  <1>2. TypeOK'
    BY <1>1 DEF IInv, TypeOK
  <1>3. ControlInv' /\ UsedInv'
    BY <1>1 DEF IInv, ControlInv, UsedInv
  <1> QED BY <1>1, <1>2, <1>3, DataUnchanged DEF IInv

LEMMA EndKeeps == ASSUME IInv, End PROVE IInv'
  <1> USE DEF End, tables, memory, scope, history
  <1>1. /\ at' = "free" /\ waiting' \in BOOLEAN /\ mode' = "none" /\ next' = "free"
        /\ ids' \in SUBSET Entity /\ ids' \subseteq used
    BY GoFacts
  <1>2. TypeOK'
    BY <1>1 DEF IInv, TypeOK
  <1>3. ControlInv' /\ UsedInv'
    BY <1>1 DEF IInv, ControlInv, UsedInv
  <1> QED BY <1>2, <1>3, DataUnchanged DEF IInv

LEMMA TickKeeps == ASSUME IInv, Tick PROVE IInv'
  <1> USE DEF Tick, tables, memory, scope, job, history
  <1>1. TypeOK'
    BY DEF IInv, TypeOK
  <1>2. ControlInv' /\ UsedInv'
    BY DEF IInv, ControlInv, UsedInv
  <1> QED BY <1>1, <1>2, DataUnchanged DEF IInv

LEMMA FlushRaisesKeeps == ASSUME IInv, FlushRaises PROVE IInv'
  <1> USE DEF FlushRaises, tables, memory, scope, history
  <1>1. /\ at' = "free" /\ waiting' \in BOOLEAN /\ mode' = "none" /\ next' = "free"
        /\ ids' \in SUBSET Entity /\ ids' \subseteq used
    <2>1. PICK where \in {"free", "yield"} : Go(where)
      BY DEF IInv, TypeOK
    <2> QED BY <2>1, GoFacts
  <1>2. faults' \in 0..MaxFaults
    BY BoundAssumption DEF IInv, TypeOK
  <1>3. TypeOK'
    BY <1>1, <1>2 DEF IInv, TypeOK
  <1>4. ControlInv' /\ UsedInv'
    BY <1>1 DEF IInv, ControlInv, UsedInv
  <1> QED BY <1>3, <1>4, DataUnchanged DEF IInv

\* A flush begins, or there is nothing to flush.
LEMMA FlushThenFacts ==
    ASSUME IInv, NEW where \in {"free", "yield", "repair"}, FlushThen(where)
    PROVE  /\ at' \in {"free", "flush", "repair"} /\ waiting' \in BOOLEAN
           /\ mode' \in {"auto", "tx", "window", "none"}
           /\ next' \in {"free", "yield", "repair"}
           /\ ids' \in SUBSET Entity /\ ids' \subseteq used
           /\ todo' \in SUBSET dirty
           /\ at' = "flush" => todo' = dirty
           /\ at' # "flush" => todo' = {} /\ dirty = {}
  <1>1. CASE dirty = {}
    <2>1. Go(where) /\ todo' = todo /\ todo = {}
      BY <1>1 DEF FlushThen, IInv, TypeOK
    <2> QED BY <1>1, <2>1, GoFacts
  <1>2. CASE dirty # {}
    BY <1>2 DEF FlushThen, IInv, TypeOK, UsedInv, job
  <1> QED BY <1>1, <1>2

LEMMA BeginRepairKeeps == ASSUME IInv, BeginRepair PROVE IInv'
  <1> USE DEF BeginRepair, tables, memory, scope, history
  <1>1. /\ at' \in {"free", "flush", "repair"} /\ waiting' \in BOOLEAN
        /\ mode' \in {"auto", "tx", "window", "none"}
        /\ next' \in {"free", "yield", "repair"}
        /\ ids' \in SUBSET Entity /\ ids' \subseteq used
        /\ todo' \in SUBSET dirty
        /\ at' = "flush" => todo' = dirty
        /\ at' # "flush" => todo' = {} /\ dirty = {}
    BY FlushThenFacts
  <1>2. TypeOK'
    BY <1>1 DEF IInv, TypeOK
  <1>3. ControlInv' /\ UsedInv'
    BY <1>1 DEF IInv, ControlInv, UsedInv
  <1> QED BY <1>2, <1>3, DataUnchanged DEF IInv

-----------------------------------------------------------------------------
\* A new entity is named by no row, link in a buffer or bit that counts.
LEMMA UpsertKeeps == ASSUME IInv, NEW x \in Entity, Upsert(x) PROVE IInv'
  <1> USE DEF Upsert, Step, memory, scope, history
  <1>1. /\ view' \in [rows : SUBSET Edge, alive : SUBSET Entity]
        /\ disk' \in [rows : SUBSET Edge, alive : SUBSET Entity]
        /\ view'.rows = view.rows /\ disk'.rows = disk.rows
        /\ view'.alive = view.alive \cup {x}
        /\ disk'.alive = disk.alive \/ (~open /\ disk'.alive = disk.alive \cup {x})
        /\ ~open => view' = disk'
    BY DEF Write, IInv, TypeOK, ControlInv
  <1>2. \A e \in view.rows \cup disk.rows :
          (Live(e, view)' <=> Live(e, view)) /\ (Live(e, disk)' <=> Live(e, disk))
    BY <1>1 DEF Live, IInv, UsedInv
  <1>3. TypeOK'
    BY <1>1 DEF IInv, TypeOK
  <1>4. ControlInv'
    BY <1>1 DEF IInv, ControlInv
  <1>5. UsedInv'
    BY <1>1 DEF IInv, UsedInv
  <1>6. RowsNameTheLiving' /\ ViewRowsInv'
    BY <1>1, <1>2 DEF IInv, RowsNameTheLiving, ViewRowsInv
  <1>7. TouchedInv'
    BY <1>1, <1>2 DEF IInv, TouchedInv
  <1>8. CleanFragmentIsPersisted'
    BY DEF IInv, CleanFragmentIsPersisted, BitsIn
  <1>9. MemoryIsView' /\ PersistedInv'
    BY <1>1, <1>2 DEF IInv, MemoryIsView, PersistedInv, Drifted
  <1> QED BY <1>3, <1>4, <1>5, <1>6, <1>7, <1>8, <1>9 DEF IInv

\* COMMIT makes what the connection saw the committed rows.
LEMMA CommitKeeps == ASSUME IInv, Commit PROVE IInv'
  <1> USE DEF Commit, memory, scope
  <1>1. /\ at' \in {"free", "flush", "repair"} /\ waiting' \in BOOLEAN
        /\ mode' \in {"auto", "tx", "window", "none"}
        /\ next' \in {"free", "yield", "repair"}
        /\ ids' \in SUBSET Entity /\ ids' \subseteq used
        /\ todo' \in SUBSET dirty
        /\ at' = "flush" => todo' = dirty
        /\ at' # "flush" => todo' = {} /\ dirty = {}
    BY FlushThenFacts
  <1>2. TypeOK'
    BY <1>1 DEF IInv, TypeOK
  <1>3. ControlInv' /\ UsedInv'
    BY <1>1 DEF IInv, ControlInv, UsedInv
  <1>4. RowsNameTheLiving' /\ ViewRowsInv'
    BY DEF IInv, RowsNameTheLiving, ViewRowsInv, Live
  <1>5. TouchedInv'
    BY DEF TouchedInv, Live
  <1>6. CleanFragmentIsPersisted'
    BY DEF IInv, CleanFragmentIsPersisted, BitsIn
  <1>7. MemoryIsView'
    <2> SUFFICES ASSUME NEW e \in Edge, FragOf(e) \in loaded, (e \in cache) # (e \in view.rows),
                        e \notin suspect'
                 PROVE  e \in view.rows /\ ~Live(e, view)
      BY DEF MemoryIsView, Live
    <2>1. e \notin touched
      BY DEF IInv, TouchedInv
    <2> QED BY <2>1 DEF IInv, MemoryIsView
  <1>8. PersistedInv'
    <2> SUFFICES ASSUME NEW e \in Edge, (e \in view.rows) # (e \in bits),
                        FragOf(e) \notin dirty, e \notin suspect'
                 PROVE  e \in view.rows /\ ~Live(e, view)
      BY DEF PersistedInv, Drifted, Live
    <2>1. CASE FragOf(e) \in loaded
      <3>1. (e \in cache) <=> (e \in bits)
        BY <2>1 DEF IInv, CleanFragmentIsPersisted, BitsIn
      <3>2. e \notin touched
        BY <3>1 DEF IInv, TouchedInv
      <3> QED BY <2>1, <3>1, <3>2 DEF IInv, MemoryIsView
    <2>2. CASE FragOf(e) \notin loaded
      <3>1. (e \in view.rows) <=> (e \in disk.rows)
        BY <2>2 DEF IInv, TouchedInv
      <3>2. e \notin suspect
        BY <2>2 DEF IInv, TouchedInv
      <3> QED BY <3>1, <3>2 DEF IInv, PersistedInv, Drifted, TouchedInv
    <2> QED BY <2>1, <2>2
  <1> QED BY <1>2, <1>3, <1>4, <1>5, <1>6, <1>7, <1>8 DEF IInv

\* ROLLBACK takes the rows back and leaves memory where it was.
LEMMA RollbackKeeps == ASSUME IInv, Rollback PROVE IInv'
  <1> USE DEF Rollback, memory, scope
  <1>1. /\ at' = "free" /\ waiting' \in BOOLEAN /\ mode' = "none" /\ next' = "free"
        /\ ids' \in SUBSET Entity /\ ids' \subseteq used
    BY GoFacts
  <1>2. TypeOK'
    BY <1>1 DEF IInv, TypeOK
  <1>3. ControlInv' /\ UsedInv'
    BY <1>1 DEF IInv, ControlInv, UsedInv
  <1>4. RowsNameTheLiving' /\ ViewRowsInv'
    BY DEF IInv, RowsNameTheLiving, ViewRowsInv, Live
  <1>5. TouchedInv'
    BY DEF TouchedInv, Live
  <1>6. CleanFragmentIsPersisted'
    BY DEF IInv, CleanFragmentIsPersisted, BitsIn
  <1>7. MemoryIsView'
    <2> SUFFICES ASSUME NEW e \in Edge, FragOf(e) \in loaded, (e \in cache) # (e \in disk.rows),
                        e \notin suspect \cup touched
                 PROVE  e \in disk.rows /\ ~Live(e, disk)
      BY DEF MemoryIsView, Live
    <2>1. (e \in view.rows) <=> (e \in disk.rows)
      BY DEF IInv, TouchedInv
    <2>2. e \in view.rows /\ ~Live(e, view)
      BY <2>1 DEF IInv, MemoryIsView
    <2> QED BY <2>1, <2>2 DEF IInv, TouchedInv
  <1>8. PersistedInv'
    BY DEF IInv, PersistedInv, Drifted, Live
  <1> QED BY <1>2, <1>3, <1>4, <1>5, <1>6, <1>7, <1>8 DEF IInv

\* The flush of one fragment: its persisted bits are those in memory.
LEMMA FlushOneKeeps == ASSUME IInv, NEW f \in Frag, FlushOne(f) PROVE IInv'
  <1> USE DEF FlushOne, scope, history
  <1>1. f \in dirty /\ f \in loaded /\ dirty = todo /\ ~open /\ view = disk /\ touched = {}
    BY DEF IInv, TypeOK, ControlInv
  <1>2. /\ at' \in {"free", "flush", "repair"} /\ waiting' \in BOOLEAN
        /\ mode' \in {"auto", "tx", "window", "none"}
        /\ next' \in {"free", "yield", "repair"}
        /\ ids' \in SUBSET Entity /\ ids' \subseteq used
        /\ at' # "flush" => todo' = {}
    <2>1. CASE todo = {f}
      <3>1. next \in {"free", "yield", "repair"}
        BY DEF IInv, TypeOK
      <3> QED BY <2>1, <3>1, GoFacts
    <2>2. CASE todo # {f}
      BY <2>2 DEF IInv, TypeOK, UsedInv, job
    <2> QED BY <2>1, <2>2
  <1>3. \A e \in Edge : /\ FragOf(e) = f => ((e \in bits') <=> (e \in cache))
                        /\ FragOf(e) # f => ((e \in bits') <=> (e \in bits))
    BY DEF BitsIn
  <1>4. TypeOK'
    <2>1. bits' \in SUBSET Edge
      BY DEF IInv, TypeOK, BitsIn
    <2> QED BY <1>2, <2>1 DEF IInv, TypeOK
  <1>5. ControlInv' /\ UsedInv'
    BY <1>1, <1>2 DEF IInv, ControlInv, UsedInv
  <1>6. RowsNameTheLiving' /\ ViewRowsInv' /\ TouchedInv' /\ MemoryIsView'
    BY DEF IInv, RowsNameTheLiving, ViewRowsInv, TouchedInv, MemoryIsView, Live
  <1>7. CleanFragmentIsPersisted'
    <2> SUFFICES ASSUME NEW e \in Edge, FragOf(e) \in loaded \ dirty'
                 PROVE  (e \in cache) <=> (e \in bits')
      BY <1>4 DEF TypeOK, CleanFragmentIsPersisted, BitsIn
    <2>1. CASE FragOf(e) = f
      BY <2>1, <1>3
    <2>2. CASE FragOf(e) # f
      <3>1. FragOf(e) \in loaded \ dirty
        BY <2>2
      <3>2. (e \in cache) <=> (e \in bits)
        BY <3>1 DEF IInv, CleanFragmentIsPersisted, BitsIn
      <3> QED BY <2>2, <3>2, <1>3
    <2> QED BY <2>1, <2>2
  <1>8. PersistedInv'
    <2> SUFFICES ASSUME NEW e \in Edge, (e \in disk.rows) # (e \in bits'),
                        FragOf(e) \notin dirty', e \notin suspect
                 PROVE  e \in disk.rows /\ ~Live(e, disk)
      BY DEF PersistedInv, Drifted, Live
    <2>1. CASE FragOf(e) = f
      BY <2>1, <1>1, <1>3 DEF IInv, MemoryIsView
    <2>2. CASE FragOf(e) # f
      BY <2>2, <1>3 DEF IInv, PersistedInv, Drifted
    <2> QED BY <2>1, <2>2
  <1> QED BY <1>4, <1>5, <1>6, <1>7, <1>8 DEF IInv

\* After its flush a repair rewrites every bit and forgets memory.
LEMMA RepairKeeps == ASSUME IInv, Repair PROVE IInv'
  <1> USE DEF Repair, scope, memory
  <1>1. dirty = {} /\ ~open /\ view = disk /\ touched = {} /\ todo = {} /\ ~deferring
    BY DEF IInv, ControlInv, TypeOK
  <1>2. /\ at' = "free" /\ waiting' \in BOOLEAN /\ mode' = "none" /\ next' = "free"
        /\ ids' \in SUBSET Entity /\ ids' \subseteq used
    BY GoFacts
  <1>3. bits' \in SUBSET Edge /\ suspect' \in SUBSET Edge
    BY DEF IInv, TypeOK
  <1>4. TypeOK'
    BY <1>1, <1>2, <1>3 DEF IInv, TypeOK, BitsIn
  <1>5. ControlInv' /\ UsedInv'
    BY <1>1, <1>2 DEF IInv, ControlInv, UsedInv
  <1>6. RowsNameTheLiving' /\ ViewRowsInv'
    BY DEF IInv, RowsNameTheLiving, ViewRowsInv, Live
  <1>7. TouchedInv' /\ CleanFragmentIsPersisted'
    BY <1>1 DEF IInv, TouchedInv, CleanFragmentIsPersisted, BitsIn, Live
  <1>8. PersistedInv'
    <2> SUFFICES ASSUME NEW e \in Edge, (e \in disk.rows) # (e \in bits'), e \notin suspect'
                 PROVE  e \in disk.rows /\ ~Live(e, disk)
      BY DEF PersistedInv, Drifted, Live
    <2>1. CASE e \in disk.rows
      BY <2>1
    <2>2. CASE e \notin disk.rows
      BY <2>2, <1>1 DEF IInv, PersistedInv, Drifted
    <2> QED BY <2>1, <2>2
  <1>9. MemoryIsView'
    <2> SUFFICES ASSUME NEW e \in Edge, FragOf(e) \in loaded', (e \in cache') # (e \in disk.rows),
                        e \notin suspect'
                 PROVE  e \in disk.rows /\ ~Live(e, disk)
      BY <1>1 DEF MemoryIsView, Live
    <2>1. bits' = bits /\ UNCHANGED memory
      OBVIOUS
    <2>2. (e \in cache) <=> (e \in bits')
      BY <2>1, <1>1 DEF IInv, CleanFragmentIsPersisted, BitsIn
    <2> QED BY <2>1, <2>2, <1>1, <1>8 DEF PersistedInv, Drifted, Live
  <1> QED BY <1>4, <1>5, <1>6, <1>7, <1>8, <1>9 DEF IInv

\* What a kill loses becomes suspect.
LEMMA KillKeeps == ASSUME IInv, Kill PROVE IInv'
  <1> USE DEF Kill
  <1>1. suspect' \in SUBSET Edge /\ touched' \in SUBSET Edge
    BY DEF IInv, TypeOK
  <1>2. faults' \in 0..MaxFaults
    BY BoundAssumption DEF IInv, TypeOK
  <1>3. TypeOK'
    BY <1>1, <1>2 DEF IInv, TypeOK, BitsIn
  <1>4. ControlInv' /\ UsedInv'
    BY DEF IInv, ControlInv, UsedInv
  <1>5. RowsNameTheLiving' /\ ViewRowsInv'
    BY DEF IInv, RowsNameTheLiving, ViewRowsInv, Live
  <1>6. TouchedInv' /\ CleanFragmentIsPersisted' /\ MemoryIsView'
    BY DEF TouchedInv, CleanFragmentIsPersisted, MemoryIsView, BitsIn, Live
  <1>7. PersistedInv'
    BY DEF IInv, PersistedInv, Drifted, Live
  <1> QED BY <1>3, <1>4, <1>5, <1>6, <1>7 DEF IInv

-----------------------------------------------------------------------------
LEMMA NextKeeps == ASSUME IInv, [Next]_vars PROVE IInv'
  <1>1. CASE Next
    <2>1. CASE Op
      BY <2>1, LinkKeeps, DeferLinkKeeps, UnlinkKeeps, UpsertKeeps, PurgeEntityKeeps, LoadKeeps,
         OpenScopeKeeps, CloseScopeKeeps, RaiseKeeps, EndKeeps, CommitKeeps, RollbackKeeps
      DEF Op
    <2>2. CASE \E m \in Mode : Begin(m)
      BY <2>2, BeginKeeps
    <2>3. CASE Resume \/ Tick \/ BeginRepair \/ Repair \/ FlushRaises \/ Kill
      BY <2>3, ResumeKeeps, TickKeeps, BeginRepairKeeps, RepairKeeps, FlushRaisesKeeps, KillKeeps
    <2>4. CASE \E f \in Frag : FlushOne(f)
      BY <2>4, FlushOneKeeps
    <2> QED BY <1>1, <2>1, <2>2, <2>3, <2>4 DEF Next
  <1>2. CASE UNCHANGED vars
    <2> USE <1>2 DEF vars, tables, memory, scope, control, job, history
    <2>1. TypeOK'
      BY DEF IInv, TypeOK
    <2>2. ControlInv' /\ UsedInv'
      BY DEF IInv, ControlInv, UsedInv
    <2> QED BY <2>1, <2>2, DataUnchanged DEF IInv
  <1> QED BY <1>1, <1>2

\* Drift that is not in a dirty fragment is what PersistedInv allows; in a dirty
\* one, memory is what the transaction sees, and that differs from the rows only
\* where the transaction has touched them.
LEMMA IInvAccounts == ASSUME IInv PROVE DriftIsAccounted
  <1> SUFFICES ASSUME NEW e \in Edge, Drifted(e), ~Pending(e), e \notin touched \cup suspect
               PROVE  e \in disk.rows /\ ~Live(e, disk)
    BY DEF DriftIsAccounted
  <1>1. CASE FragOf(e) \notin dirty
    BY <1>1 DEF IInv, PersistedInv
  <1>2. CASE FragOf(e) \in dirty
    <2>1. FragOf(e) \in loaded /\ ~((e \in cache) <=> (e \in disk.rows))
      BY <1>2 DEF Pending, IInv, TypeOK
    <2>2. (e \in view.rows) <=> (e \in disk.rows)
      BY DEF IInv, TouchedInv
    <2>3. e \in view.rows /\ ~Live(e, view)
      BY <2>1, <2>2 DEF IInv, MemoryIsView
    <2> QED BY <2>2, <2>3 DEF IInv, TouchedInv
  <1> QED BY <1>1, <1>2

LEMMA IInvHolds == Spec => []IInv
  <1>1. Init => IInv
    BY InitIInv
  <1>2. IInv /\ [Next]_vars => IInv'
    BY NextKeeps
  <1> QED BY <1>1, <1>2, PTL DEF Spec

\* The variables of the writer's store keep their types: the dirty fragments are
\* loaded ones and a flush has only dirty ones to write (_dirty_by_binding).
THEOREM TypeCorrect == Spec => []TypeOK
  <1>1. IInv => TypeOK
    BY DEF IInv
  <1> QED BY <1>1, IInvHolds, PTL

\* Whatever statements, transactions, deferred links, flushes, repairs and kills
\* come in whatever order, the persisted fragments disagree with the committed
\* rows only about edges that a flush will put right or that an open
\* transaction, a rollback, a failure, a kill or a dead entity accounts for.
THEOREM FragmentsAccounted == Spec => []DriftIsAccounted
  <1>1. IInv => DriftIsAccounted
    BY IInvAccounts
  <1> QED BY <1>1, IInvHolds, PTL

\* No path through link, unlink, purge, rollback or flush leaves a bit that
\* differs from the persisted one in a fragment that is not dirty.
THEOREM CleanMeansPersisted == Spec => []CleanFragmentIsPersisted
  <1>1. IInv => CleanFragmentIsPersisted
    BY DEF IInv
  <1> QED BY <1>1, IInvHolds, PTL

\* The fragments the writer answers from agree with the rows its own connection
\* sees, but for suspect edges and rows of dead entities.
THEOREM WriterReadsItsRows == Spec => []MemoryIsView
  <1>1. IInv => MemoryIsView
    BY DEF IInv
  <1> QED BY <1>1, IInvHolds, PTL

\* Through every statement, rollback, failure and kill the fragments in memory
\* lose nothing to the rows before them or to the disk behind them.
THEOREM MemoryStaysFaithful == Spec => []MemoryIsFaithful
  <1>1. CleanFragmentIsPersisted /\ MemoryIsView => MemoryIsFaithful
    BY DEF MemoryIsFaithful
  <1> QED BY <1>1, CleanMeansPersisted, WriterReadsItsRows, PTL

\* purge_entity and ROLLBACK leave no row of a dead entity but those that a
\* cooperative ingest wrote with the ids it kept over a yield.
THEOREM OnlyLateRowsNameTheDead == Spec => []RowsNameTheLiving
  <1>1. IInv => RowsNameTheLiving
    BY DEF IInv
  <1> QED BY <1>1, IInvHolds, PTL
=============================================================================
