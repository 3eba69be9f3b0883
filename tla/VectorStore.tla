----------------------------- MODULE VectorStore -----------------------------
(***************************************************************************)
(* Rows and their vectors: the embed op in its three phases (daemon.py     *)
(* _op_embed), the writes that move a row's text or its clock, the purges  *)
(* that drop a vector before its row, and gc_vectors (store.py).           *)
(*                                                                         *)
(* Vectors are in Lance, one dataset per partition, and no transaction of  *)
(* the database covers them.  A row is pending when its stamp is missing   *)
(* or older than its clock; pending rows are all that an embed looks at,   *)
(* and a row that is not pending is taken to have a vector of its text.    *)
(*                                                                         *)
(* A vector is the version of the text it was made from.  A row's clock    *)
(* counts the times updated_at moved: time.time() is taken to go forward,  *)
(* so a stamp is older than the next move.  An id is never used again; a   *)
(* file or a memory that comes back is a new row.                          *)
(***************************************************************************)
EXTENDS Naturals, FiniteSets

CONSTANTS
  Rows,
  Parts,
  PartOf,      \* the partition of a row
  NoVector,
  NoTx,
  NoRow,
  MaxChanges,  \* bound on writes, purges and transactions
  MaxMishaps   \* bound on failures and kills

ASSUME VectorConstants ==
  /\ Parts # {} /\ PartOf \in [Rows -> Parts]
  /\ NoVector \notin Nat /\ NoRow \notin Rows
  /\ MaxChanges \in Nat /\ MaxMishaps \in Nat

VARIABLES
  row,     \* is the row there: the writer's view of the table
  text,    \* the version of what is embedded
  clock,   \* updated_at
  stamp,   \* vectors_updated_at, 0 when NULL
  saved,   \* what a rollback restores, or NoTx
  half,    \* the row whose body is written and whose clock is still to move
  doomed,  \* rows whose vectors are dropped and that are still to be deleted
  vec,     \* Lance: partition -> row -> vector
  embed,   \* the one embed op
  changes, mishaps,
  \* History, for the properties only.
  reworded, \* rows whose text changed after their clock last moved
  bereft,   \* rows that kept their place when their vectors had been dropped
  astray    \* rows purged without their vectors

tableVars == <<row, text, clock, stamp>>
vectorVars == <<tableVars, saved, half, doomed, vec, embed, changes, mishaps,
                reworded, bereft, astray>>

NoSeen == [e \in Rows |-> 0]
Rested == [phase |-> "idle", part |-> CHOOSE p \in Parts : TRUE,
           seen |-> NoSeen, taken |-> NoSeen, todo |-> {}, put |-> {}]
Tables == [row : [Rows -> {"unborn", "there", "purged"}], text : [Rows -> Nat],
           clock : [Rows -> Nat], stamp : [Rows -> Nat]]

VectorTypeOK ==
  /\ [row |-> row, text |-> text, clock |-> clock, stamp |-> stamp] \in Tables
  /\ saved \in Tables \union {NoTx}
  /\ half \in Rows \union {NoRow} /\ doomed \subseteq Rows
  /\ vec \in [Parts -> [Rows -> Nat \union {NoVector}]]
  /\ embed \in [phase : {"idle", "encoding", "storing"}, part : Parts,
                seen : [Rows -> Nat], taken : [Rows -> Nat],
                todo : SUBSET Rows, put : SUBSET Rows]
  /\ changes \in 0..MaxChanges /\ mishaps \in 0..MaxMishaps
  /\ reworded \subseteq Rows /\ bereft \subseteq Rows /\ astray \subseteq Rows

VectorInit ==
  /\ row = [e \in Rows |-> "unborn"]
  /\ text = NoSeen /\ clock = NoSeen /\ stamp = NoSeen
  /\ saved = NoTx /\ half = NoRow /\ doomed = {}
  /\ vec = [p \in Parts |-> [e \in Rows |-> NoVector]]
  /\ embed = Rested
  /\ changes = 0 /\ mishaps = 0
  /\ reworded = {} /\ bereft = {} /\ astray = {}

-----------------------------------------------------------------------------
(* The store lock *)

There(e) == row[e] = "there"
Pending(e) == stamp[e] < clock[e] \/ stamp[e] = 0

\* Nobody is between two statements; a transaction may be open.
Between == half = NoRow /\ doomed = {} /\ embed.phase # "storing"
LockFree == Between /\ saved = NoTx

Change == changes < MaxChanges /\ changes' = changes + 1

-----------------------------------------------------------------------------
(* Writes *)

\* A row is inserted (upsert_entity, the first statement of add_memory).
AddRow(e) ==
  /\ Between /\ Change /\ row[e] = "unborn"
  /\ row' = [row EXCEPT ![e] = "there"]
  /\ text' = [text EXCEPT ![e] = 1] /\ clock' = [clock EXCEPT ![e] = 1]
  /\ UNCHANGED <<stamp, saved, half, doomed, vec, embed, mishaps, reworded, bereft, astray>>

\* add_memory: the body, and then the clock if the body differs.
EditBody(e) ==
  /\ Between /\ Change /\ There(e)
  /\ text' = [text EXCEPT ![e] = @ + 1]
  /\ half' = e
  /\ UNCHANGED <<row, clock, stamp, saved, doomed, vec, embed, mishaps, reworded, bereft, astray>>

\* Mutated form: the clock is left to upsert_entity, which does not move it
\* for a memory.
EditClock_Kept(e) ==
  /\ half = e
  /\ half' = NoRow
  /\ UNCHANGED <<row, text, clock, stamp, saved, doomed, vec, embed, changes,
                 mishaps, reworded, bereft, astray>>

EditClock(e) ==
  /\ half = e
  /\ clock' = [clock EXCEPT ![e] = @ + 1]
  /\ half' = NoRow
  /\ reworded' = IF saved = NoTx THEN reworded \ {e} ELSE reworded
  /\ UNCHANGED <<row, text, stamp, saved, doomed, vec, embed, changes, mishaps, bereft, astray>>

\* One statement moves both (the upsert of a code, doc or concept row).
Upsert(e) ==
  /\ Between /\ Change /\ There(e)
  /\ text' = [text EXCEPT ![e] = @ + 1] /\ clock' = [clock EXCEPT ![e] = @ + 1]
  /\ reworded' = IF saved = NoTx THEN reworded \ {e} ELSE reworded
  /\ UNCHANGED <<row, stamp, saved, half, doomed, vec, embed, mishaps, bereft, astray>>

\* The clock alone moves: a flag, a content hash.
Touch(e) ==
  /\ Between /\ Change /\ There(e)
  /\ clock' = [clock EXCEPT ![e] = @ + 1]
  /\ reworded' = IF saved = NoTx THEN reworded \ {e} ELSE reworded
  /\ UNCHANGED <<row, text, stamp, saved, half, doomed, vec, embed, mishaps, bereft, astray>>

\* retag_memory and reclassify_memories: tags and mtype are embedded, and the
\* clock that moves is the sidecar's.
Relabel(e) ==
  /\ LockFree /\ Change /\ There(e)
  /\ text' = [text EXCEPT ![e] = @ + 1]
  /\ reworded' = reworded \union {e}
  /\ UNCHANGED <<row, clock, stamp, saved, half, doomed, vec, embed, mishaps, bereft, astray>>

-----------------------------------------------------------------------------
(* Purges: one delete in Lance for all, and then the rows one by one *)

\* The dataset is that of the partition bound now, p.  A purge by ids may be
\* bound to another than the row's; and a delete that fails is printed.
DropVectors(S, p) ==
  /\ Between /\ Change
  /\ S # {} /\ \A e \in S : There(e)
  /\ saved # NoTx => \A e \in S : PartOf[e] = p
  /\ doomed' = S
  /\ \/ /\ vec' = [vec EXCEPT ![p] = [e \in Rows |-> IF e \in S THEN NoVector ELSE @[e]]]
        /\ UNCHANGED mishaps
     \/ /\ mishaps < MaxMishaps /\ mishaps' = mishaps + 1
        /\ UNCHANGED vec
  /\ UNCHANGED <<tableVars, saved, half, embed, reworded, bereft, astray>>

DeleteRow(e) ==
  /\ e \in doomed
  /\ row' = [row EXCEPT ![e] = "purged"]
  /\ doomed' = doomed \ {e}
  /\ astray' = IF vec[PartOf[e]][e] = NoVector THEN astray ELSE astray \union {e}
  /\ UNCHANGED <<text, clock, stamp, saved, half, vec, embed, changes, mishaps, reworded, bereft>>

-----------------------------------------------------------------------------
(* Transactions, failures and kills *)

BeginTx ==
  /\ LockFree /\ Change
  /\ saved' = [row |-> row, text |-> text, clock |-> clock, stamp |-> stamp]
  /\ UNCHANGED <<tableVars, half, doomed, vec, embed, mishaps, reworded, bereft, astray>>

CommitTx ==
  /\ Between /\ saved # NoTx
  /\ saved' = NoTx
  /\ UNCHANGED <<tableVars, half, doomed, vec, embed, changes, mishaps, reworded, bereft, astray>>

\* The rows as the database has them after a rollback, or as they are.
Restored == IF saved = NoTx
            THEN [row |-> row, text |-> text, clock |-> clock, stamp |-> stamp]
            ELSE saved

\* Whatever is under way is cut: statements that were not run are not, an open
\* transaction is rolled back, and Lance keeps what it has.
Cut ==
  /\ mishaps < MaxMishaps /\ mishaps' = mishaps + 1
  /\ row' = Restored.row /\ text' = Restored.text
  /\ clock' = Restored.clock /\ stamp' = Restored.stamp
  /\ saved' = NoTx /\ half' = NoRow /\ doomed' = {}
  /\ reworded' = IF half # NoRow /\ saved = NoTx THEN reworded \union {half} ELSE reworded
  /\ bereft' = bereft \union {e \in Rows : Restored.row[e] = "there" /\ Restored.stamp[e] # 0
                                             /\ vec[PartOf[e]][e] = NoVector}
  /\ UNCHANGED <<vec, changes, astray>>

\* An exception in an op or in a transaction.
Raise == (half # NoRow \/ doomed # {} \/ saved # NoTx) /\ Cut /\ UNCHANGED embed

\* The process ends, and the next one starts.
DaemonDies == Cut /\ embed' = Rested

-----------------------------------------------------------------------------
(* The embed op *)

\* Phase 1: rows, their texts and their clocks, under one hold of the lock.
\* `rebuild' takes rows whether pending or not; a limit takes some of them.
Select(p, S) ==
  /\ LockFree /\ embed.phase = "idle"
  /\ S # {} /\ \A e \in S : There(e) /\ PartOf[e] = p
  /\ embed' = [phase |-> "encoding", part |-> p, todo |-> S, put |-> {},
               seen |-> [e \in Rows |-> IF e \in S THEN clock[e] ELSE 0],
               taken |-> [e \in Rows |-> IF e \in S THEN text[e] ELSE 0]]
  /\ UNCHANGED <<tableVars, saved, half, doomed, vec, changes, mishaps, reworded, bereft, astray>>

\* Phase 2 is the model at work, without the lock.  It may fail, and a
\* shutdown leaves before it.
GiveUp ==
  /\ embed.phase = "encoding"
  /\ embed' = Rested
  /\ UNCHANGED <<tableVars, saved, half, doomed, vec, changes, mishaps, reworded, bereft, astray>>

\* Mutated form: every row of the batch is stored.
StoreBegins_All ==
  /\ LockFree /\ embed.phase = "encoding"
  /\ embed' = [embed EXCEPT !.phase = "storing"]
  /\ UNCHANGED <<tableVars, saved, half, doomed, vec, changes, mishaps, reworded, bereft, astray>>

\* Mutated form: rows that are gone are left out, changed ones are not.
StoreBegins_Changed ==
  /\ LockFree /\ embed.phase = "encoding"
  /\ embed' = [embed EXCEPT !.phase = "storing", !.todo = {e \in @ : There(e)}]
  /\ UNCHANGED <<tableVars, saved, half, doomed, vec, changes, mishaps, reworded, bereft, astray>>

\* Phase 3: rows that changed or went away meanwhile are left out.
StoreBegins ==
  /\ LockFree /\ embed.phase = "encoding"
  /\ embed' = [embed EXCEPT !.phase = "storing",
                            !.todo = {e \in @ : There(e) /\ clock[e] = embed.seen[e]}]
  /\ UNCHANGED <<tableVars, saved, half, doomed, vec, changes, mishaps, reworded, bereft, astray>>

\* upsert_vector, kind by kind: the vectors of some rows, then their stamps.
PutVectors(S) ==
  /\ embed.phase = "storing" /\ embed.put = {}
  /\ S # {} /\ S \subseteq embed.todo
  /\ vec' = [vec EXCEPT ![embed.part] =
               [e \in Rows |-> IF e \in S THEN embed.taken[e] ELSE @[e]]]
  /\ embed' = [embed EXCEPT !.put = S]
  /\ UNCHANGED <<tableVars, saved, half, doomed, changes, mishaps, reworded, bereft, astray>>

StampRows ==
  /\ embed.put # {}
  /\ stamp' = [e \in Rows |-> IF e \in embed.put THEN clock[e] ELSE stamp[e]]
  /\ reworded' = reworded \ {e \in embed.put : embed.taken[e] = text[e]}
  /\ bereft' = bereft \ embed.put
  /\ embed' = [embed EXCEPT !.todo = @ \ embed.put, !.put = {}]
  /\ UNCHANGED <<row, text, clock, saved, half, doomed, vec, changes, mishaps, astray>>

EmbedEnds ==
  /\ embed.phase = "storing" /\ embed.todo = {}
  /\ embed' = Rested
  /\ UNCHANGED <<tableVars, saved, half, doomed, vec, changes, mishaps, reworded, bereft, astray>>

\* An exception in Lance or in the database leaves the rest.
StoreFails ==
  /\ embed.phase = "storing" /\ mishaps < MaxMishaps
  /\ mishaps' = mishaps + 1
  /\ embed' = Rested
  /\ UNCHANGED <<tableVars, saved, half, doomed, vec, changes, reworded, bereft, astray>>

-----------------------------------------------------------------------------
(* gc_vectors, for some kinds of the bound partition *)

\* First the stamps of rows without a vector, then the vectors without a row
\* of this partition.
Collect(p, S, done) ==
  /\ LockFree /\ Change
  /\ S # {}
  /\ LET gone == {e \in S : ~(There(e) /\ PartOf[e] = p)}
         missing == {e \in S \ gone : stamp[e] # 0 /\ vec[p][e] = NoVector} IN
       /\ stamp' = [e \in Rows |-> IF e \in missing THEN 0 ELSE stamp[e]]
       /\ vec' = IF done THEN [vec EXCEPT ![p] =
                                 [e \in Rows |-> IF e \in gone THEN NoVector ELSE @[e]]]
                 ELSE vec
       /\ bereft' = bereft \ missing
       /\ astray' = IF done THEN astray \ {e \in gone : PartOf[e] = p} ELSE astray
  /\ done \/ mishaps < MaxMishaps
  /\ mishaps' = IF done THEN mishaps ELSE mishaps + 1
  /\ UNCHANGED <<row, text, clock, saved, half, doomed, embed, reworded>>

-----------------------------------------------------------------------------

VectorNext ==
  \/ \E e \in Rows : \/ AddRow(e) \/ EditBody(e) \/ EditClock(e) \/ Upsert(e)
                     \/ Touch(e) \/ Relabel(e) \/ DeleteRow(e)
  \/ \E S \in SUBSET Rows, p \in Parts :
       \/ DropVectors(S, p) \/ Select(p, S)
       \/ \E done \in BOOLEAN : Collect(p, S, done)
  \/ BeginTx \/ CommitTx \/ Raise \/ DaemonDies
  \/ GiveUp \/ StoreBegins \/ StampRows \/ EmbedEnds \/ StoreFails
  \/ \E S \in SUBSET Rows : PutVectors(S)

VectorSpec == VectorInit /\ [][VectorNext]_vectorVars

-----------------------------------------------------------------------------
(* Properties *)

\* A row that no embed would look at has a vector of the text it has now,
\* whatever ran while the model did.  Without the lock held, the exceptions are a
\* row relabelled or cut between its body and its clock, and one whose purge dropped the
\* vector and was undone.  (daemon.py:5943-6010, store.py:2464-2505)
CurrentUnlessReworded ==
  LockFree =>
    \A e \in Rows : There(e) /\ ~Pending(e) =>
      \/ vec[PartOf[e]][e] = text[e]
      \/ vec[PartOf[e]][e] # NoVector /\ e \in reworded
      \/ vec[PartOf[e]][e] = NoVector /\ e \in bereft

\* A vector that no row of its partition stands for is one that a purge could
\* not drop or looked for in another partition.  (daemon.py:5995-6001,
\* store.py:6026-6027)
OrphansForACause ==
  \A p \in Parts, e \in Rows :
    vec[p][e] # NoVector => PartOf[e] = p /\ (There(e) \/ e \in astray)

\* Both: where rows and vectors do not match, it is known what kept them apart.
VectorsAccounted == CurrentUnlessReworded /\ OrphansForACause

=============================================================================
