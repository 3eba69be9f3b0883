---------------------------- MODULE RotationSlots ----------------------------
(***************************************************************************)
(* The two rotation slots and their merge: merge_slots (replica_merge.py), *)
(* the op that installs its result on both slots, the repair of a missing  *)
(* slot, the boot, and facts.log as far as it says which rows a rebuild    *)
(* from it would have (daemon.py, store.py).                               *)
(*                                                                         *)
(* The slots drift apart when rows are written to one of them outside the  *)
(* log.  Each allocates ids from its own sequence, so one key may have two *)
(* ids and one id two keys.  A key stands for (partition, kind, name).     *)
(*                                                                         *)
(* A catalog is its rows, the times of the memory texts (a table of its    *)
(* own, by entity id) and the links between ids.  A file being copied onto *)
(* is Torn: no boot gets a catalog out of it.                              *)
(***************************************************************************)
EXTENDS Naturals

CONSTANTS
  Ids, Keys,
  Drifts,       \* the slots to begin with: a set of functions on Slots
  MaxMerges,    \* bound on merges
  MaxFailures   \* bound on failures and kills

\* Files without a catalog in them; a catalog is a record with other fields.
Missing == [file |-> "missing"]
Torn == [file |-> "torn"]

Slots == {"A", "B"}
Other(s) == IF s = "A" THEN "B" ELSE "A"

VARIABLES
  slots,     \* the files: a catalog, Missing or Torn
  active,    \* the marker: the slot of the writer
  writer,    \* the slot the daemon has open, or "none"
  facts,     \* keys that facts.log describes
  phase, task, \* where the daemon is, and whether a boot or a merge is under way
  before,    \* the slot the writer was on when a merge closed it
  target,    \* the temporary file with the merged catalog
  merges, failures,
  \* History, for the properties only.
  everKnown, \* keys that a slot has ever had
  clashed,   \* keys that shared an id with another when slots were merged
  owed       \* rows a merge installed before it was cut or could not log them

rotationVars == <<slots, active, writer, facts, phase, task, before, target,
                  merges, failures, everKnown, clashed, owed>>

\* UNIQUE(partition_id, kind, name).
KeysAreUnique(c) == \A i, j \in DOMAIN c.row : c.row[i].key = c.row[j].key => i = j

IsTyped(c) ==
  /\ DOMAIN c.row \subseteq Ids /\ c.row \in [DOMAIN c.row -> [key : Keys, at : Nat]]
  /\ DOMAIN c.text \subseteq DOMAIN c.row /\ c.text \in [DOMAIN c.text -> Nat]
  /\ c.links \subseteq (DOMAIN c.row) \X (DOMAIN c.row)
  /\ KeysAreUnique(c)

KeysOf(c) == {c.row[i].key : i \in DOMAIN c.row}
IsCatalog(x) == x \notin {Missing, Torn}

ASSUME RotationConstants ==
  /\ Ids \subseteq Nat /\ MaxMerges \in Nat /\ MaxFailures \in Nat
  /\ \A d \in Drifts :
       DOMAIN d = Slots /\ \A s \in Slots : IsCatalog(d[s]) => IsTyped(d[s])

-----------------------------------------------------------------------------
(* merge_slots *)

\* The ids of one slot whose key has another id in the other slot, where the
\* row is newer; slot A wins ties.
LosersA(a, b) ==
  {i \in DOMAIN a.row : \E j \in DOMAIN b.row :
     i # j /\ a.row[i].key = b.row[j].key /\ a.row[i].at < b.row[j].at}
LosersB(a, b) ==
  {j \in DOMAIN b.row : \E i \in DOMAIN a.row :
     i # j /\ a.row[i].key = b.row[j].key /\ a.row[i].at >= b.row[j].at}

\* remap_a and remap_b: a loser's id becomes the id its key has in the other slot.
Remap(losers, own, other, i) ==
  IF i \in losers THEN CHOOSE j \in DOMAIN other.row : other.row[j].key = own.row[i].key ELSE i
RemapA(a, b, i) == Remap(LosersA(a, b), a, b, i)
RemapB(a, b, j) == Remap(LosersB(a, b), b, a, j)

\* Losers are dropped; of two rows with one id the newer is kept, whole.
MergedRows(a, b) ==
  LET ofA == DOMAIN a.row \ LosersA(a, b)
      ofB == DOMAIN b.row \ LosersB(a, b)
  IN [i \in ofA \union ofB |->
        IF i \notin ofA \/ (i \in DOMAIN b.row /\ b.row[i].at > a.row[i].at)
        THEN b.row[i] ELSE a.row[i]]

\* The times of the texts that may end up under id i.  The update of shared ids
\* does not leave B's losers out.
TextsOf(a, b, i) ==
  LET ofA == DOMAIN a.text \ LosersA(a, b)
      ofB == DOMAIN b.text \ LosersB(a, b)
  IN {a.text[l] : l \in {x \in DOMAIN a.text : RemapA(a, b, x) = i}}
     \union {b.text[l] : l \in {x \in DOMAIN b.text : RemapB(a, b, x) = i}}
     \union {b.text[l] : l \in {x \in DOMAIN b.text \ ofB : x = i /\ i \in ofA}}

MergedTexts(a, b) ==
  [i \in {x \in Ids : TextsOf(a, b, x) # {}} |->
     CHOOSE t \in TextsOf(a, b, i) : \A u \in TextsOf(a, b, i) : u <= t]

\* Mutated form: the ids of B's links are left as they were.
MergedLinks_BKept(a, b) ==
  {<<RemapA(a, b, l[1]), RemapA(a, b, l[2])>> : l \in a.links} \union b.links

MergedLinks(a, b) ==
  {<<RemapA(a, b, l[1]), RemapA(a, b, l[2])>> : l \in a.links}
  \union {<<RemapB(a, b, l[1]), RemapB(a, b, l[2])>> : l \in b.links}

Merged(a, b) == [row |-> MergedRows(a, b), text |-> MergedTexts(a, b), links |-> MergedLinks(a, b)]

-----------------------------------------------------------------------------
(* The merge op *)

RotationTypeOK ==
  /\ DOMAIN slots = Slots /\ \A s \in Slots : IsCatalog(slots[s]) => IsTyped(slots[s])
  /\ active \in Slots /\ writer \in Slots \union {"none"} /\ before \in Slots
  /\ phase \in {"down", "up", "closed", "built", "replaced", "copying", "copied",
                "repair", "cloning", "merged"}
  /\ task \in {"boot", "merge"}
  /\ phase = "built" => IsTyped(target)
  /\ merges \in 0..MaxMerges /\ failures \in 0..MaxFailures
  /\ facts \subseteq Keys /\ everKnown \subseteq Keys /\ clashed \subseteq Keys /\ owed \subseteq Keys

RotationInit ==
  /\ slots \in Drifts
  /\ active \in Slots /\ \E s \in Slots : IsCatalog(slots[s])
  /\ facts = KeysOf(slots[IF IsCatalog(slots[active]) THEN active ELSE Other(active)])
  /\ writer = "none" /\ phase = "down" /\ task = "boot" /\ before = active
  /\ target = Missing /\ merges = 0 /\ failures = 0
  /\ everKnown = UNION {KeysOf(slots[s]) : s \in {x \in Slots : IsCatalog(slots[x])}}
  /\ clashed = {} /\ owed = {}

Fails == failures < MaxFailures /\ failures' = failures + 1

\* A new row is written and logged: by the daemon, or by a command while none
\* runs.  Its id is the next of the slot's sequence.
AddKey(k, i) ==
  LET s == IF phase = "down" THEN active ELSE writer
      new == [row |-> [x \in DOMAIN slots[s].row \union {i} |->
                         IF x = i THEN [key |-> k, at |-> 1] ELSE slots[s].row[x]],
              text |-> slots[s].text, links |-> slots[s].links]
  IN /\ phase \in {"down", "up", "merged"} /\ IsCatalog(slots[s])
     /\ k \notin everKnown /\ \A x \in DOMAIN slots[s].row : x < i
     /\ slots' = [slots EXCEPT ![s] = new]
     /\ facts' = facts \union {k} /\ everKnown' = everKnown \union {k}
     /\ UNCHANGED <<active, writer, phase, task, before, target, merges, failures, clashed, owed>>

\* Checkpoint, flush and close, under the store lock that is kept up to "merged".
MergeBegins ==
  /\ phase = "up" /\ merges < MaxMerges
  /\ \A s \in Slots : slots[s] # Missing
  /\ phase' = "closed" /\ task' = "merge" /\ merges' = merges + 1
  /\ before' = writer /\ writer' = "none"
  /\ UNCHANGED <<slots, active, facts, target, failures, everKnown, clashed, owed>>

Unclean(a, b) ==
  {k \in Keys : \E i \in DOMAIN a.row \intersect DOMAIN b.row :
     a.row[i].key # b.row[i].key /\ k \in {a.row[i].key, b.row[i].key}}

Build ==
  /\ phase = "closed" /\ \A s \in Slots : IsCatalog(slots[s])
  /\ target' = Merged(slots["A"], slots["B"]) /\ KeysAreUnique(target')
  /\ clashed' = clashed \union Unclean(slots["A"], slots["B"])
  /\ phase' = "built"
  /\ UNCHANGED <<slots, active, writer, facts, task, before, merges, failures, everKnown, owed>>

\* A dry run, a build that raises, or an os.replace that fails: nothing is
\* installed and the writer is opened where it was.
NothingInstalled ==
  /\ phase \in {"closed", "built"}
  /\ target' = Missing /\ writer' = before /\ phase' = "up"
  /\ UNCHANGED <<slots, active, facts, task, before, merges, failures, everKnown, clashed, owed>>

ReplaceA ==
  /\ phase = "built"
  /\ slots' = [slots EXCEPT !["A"] = target] /\ target' = Missing
  /\ phase' = "replaced"
  /\ UNCHANGED <<active, writer, facts, task, before, merges, failures, everKnown, clashed, owed>>

CopyBegins ==
  /\ phase = "replaced"
  /\ slots' = [slots EXCEPT !["B"] = Torn] /\ phase' = "copying"
  /\ UNCHANGED <<active, writer, facts, task, before, target, merges, failures, everKnown, clashed, owed>>

CopyEnds ==
  /\ phase = "copying"
  /\ slots' = [slots EXCEPT !["B"] = slots["A"]] /\ phase' = "copied"
  /\ UNCHANGED <<active, writer, facts, task, before, target, merges, failures, everKnown, clashed, owed>>

\* The marker, and the writer is opened on A.
Promote ==
  /\ phase = "copied"
  /\ active' = "A" /\ writer' = "A" /\ phase' = "merged"
  /\ UNCHANGED <<slots, facts, task, before, target, merges, failures, everKnown, clashed, owed>>

\* Mutated form: what was copied to B is left there.
InstallFails_KeepsB ==
  /\ phase \in {"replaced", "copying", "copied"} /\ Fails
  /\ active' \in {"A", active}
  /\ writer' = active' /\ phase' = "merged"
  /\ UNCHANGED <<slots, facts, task, before, target, merges, everKnown, clashed, owed>>

\* The copy or the promotion failed: B goes, A is the writer (its marker may
\* not get written), and B is then cloned from it.
InstallFails ==
  /\ phase \in {"replaced", "copying", "copied"} /\ Fails
  /\ slots' = [slots EXCEPT !["B"] = Missing]
  /\ active' \in {"A", active} /\ writer' = "A" /\ phase' = "repair"
  /\ UNCHANGED <<facts, task, before, target, merges, everKnown, clashed, owed>>

-----------------------------------------------------------------------------
(* The repair of a missing slot, for a merge and for a boot *)

CloneBegins ==
  /\ phase = "repair"
  /\ \E s \in Slots :
       /\ slots[s] = Missing
       /\ slots' = [slots EXCEPT ![s] = Torn]
  /\ writer' = "none" /\ phase' = "cloning"
  /\ UNCHANGED <<active, facts, task, before, target, merges, failures, everKnown, clashed, owed>>

\* The writer is opened on the marked slot if it is there, and else the marker
\* is moved to the one that is.
Reopen ==
  LET s == IF IsCatalog(slots'[active]) THEN active ELSE Other(active)
  IN active' = s /\ writer' = s /\ phase' = IF task = "merge" THEN "merged" ELSE "up"

CloneEnds ==
  /\ phase = "cloning"
  /\ \E s \in Slots : slots[s] = Torn /\ slots' = [slots EXCEPT ![s] = slots[Other(s)]]
  /\ Reopen
  /\ UNCHANGED <<facts, task, before, target, merges, failures, everKnown, clashed, owed>>

CloneFails ==
  /\ phase = "cloning" /\ Fails
  /\ \E s \in Slots : slots[s] = Torn /\ slots' = [slots EXCEPT ![s] = Missing]
  /\ Reopen
  /\ UNCHANGED <<facts, task, before, target, merges, everKnown, clashed, owed>>

-----------------------------------------------------------------------------
(* facts.log *)

\* The snapshot of the log after a merge, or that of the periodic tick.
Compact ==
  /\ phase \in {"up", "merged"}
  /\ facts' = KeysOf(slots[writer]) /\ owed' = owed \ facts'
  /\ phase' = "up"
  /\ UNCHANGED <<slots, active, writer, task, before, target, merges, failures, everKnown, clashed>>

CompactFails ==
  /\ phase = "merged" /\ Fails
  /\ owed' = owed \union (KeysOf(slots[writer]) \ facts)
  /\ phase' = "up"
  /\ UNCHANGED <<slots, active, writer, facts, task, before, target, merges, everKnown, clashed>>

-----------------------------------------------------------------------------
(* The process *)

Installed == task = "merge" /\ phase \in {"replaced", "copying", "copied", "repair", "cloning", "merged"}

\* A kill, or a writer that cannot be opened again (_writer_lost).
Dies ==
  /\ phase # "down" /\ Fails
  /\ phase' = "down" /\ writer' = "none" /\ target' = Missing
  /\ owed' = owed \union (IF Installed THEN KeysOf(slots["A"]) \ facts ELSE {})
  /\ UNCHANGED <<slots, active, facts, task, before, merges, everKnown, clashed>>

\* With the marked slot torn, Store.init raises and no boot gets any further;
\* with it missing, the legacy file is opened until the repair is done.
Boot ==
  /\ phase = "down" /\ slots[active] # Torn
  /\ task' = "boot"
  /\ writer' = IF IsCatalog(slots[active]) THEN active ELSE "none"
  /\ phase' = IF \E s \in Slots : slots[s] = Missing THEN "repair" ELSE "up"
  /\ UNCHANGED <<slots, active, facts, before, target, merges, failures, everKnown, clashed, owed>>

RotationNext ==
  \/ \E k \in Keys, i \in Ids : AddKey(k, i)
  \/ MergeBegins \/ Build \/ NothingInstalled
  \/ ReplaceA \/ CopyBegins \/ CopyEnds \/ Promote \/ InstallFails
  \/ CloneBegins \/ CloneEnds \/ CloneFails
  \/ Compact \/ CompactFails
  \/ Dies \/ Boot

RotationSpec == RotationInit /\ [][RotationNext]_rotationVars

-----------------------------------------------------------------------------
(* Properties *)

IdsOf(c, k) == {i \in DOMAIN c.row : c.row[i].key = k}
TimesOf(c, k) == {c.row[i].at : i \in IdsOf(c, k)}
TextTimes(c, k) == {c.text[i] : i \in IdsOf(c, k) \intersect DOMAIN c.text}
Linked(c, k, l) == \E i \in IdsOf(c, k), j \in IdsOf(c, l) : <<i, j>> \in c.links
IsNewest(S, T) == S \subseteq T /\ \A t \in T : \E s \in S : t <= s

\* The keys that share no id with another key are merged by name: each is kept
\* once, as new as the newer of its rows, with the newer of its texts, and two
\* of them are linked iff they were in a slot, whatever ids they had.
IsUnion(a, b, m) ==
  LET clean == Keys \ Unclean(a, b)
  IN /\ KeysOf(m) \subseteq KeysOf(a) \union KeysOf(b)
     /\ \A k \in clean :
          /\ k \in KeysOf(a) \union KeysOf(b) => \E i \in Ids : IdsOf(m, k) = {i}
          /\ IsNewest(TimesOf(m, k), TimesOf(a, k) \union TimesOf(b, k))
          /\ IsNewest(TextTimes(m, k), TextTimes(a, k) \union TextTimes(b, k))
     /\ \A k, l \in clean : Linked(m, k, l) <=> Linked(a, k, l) \/ Linked(b, k, l)

MergeIsUnion ==
  phase = "closed" /\ (\A s \in Slots : IsCatalog(slots[s])) =>
    IsUnion(slots["A"], slots["B"], Merged(slots["A"], slots["B"]))

\* A key is never in no slot at all, whatever fails or is killed: only one that
\* shared an id with another when slots were merged may be.
NothingIsLost ==
  everKnown \ clashed \subseteq
    UNION {KeysOf(slots[s]) : s \in {x \in Slots : IsCatalog(slots[x])}}

\* A daemon that serves has the slot open that the marker names, whole.
ServesTheMarked == phase = "up" => writer = active /\ IsCatalog(slots[active])

\* After a merge, failed halfway or not, the writer has the rows of both slots.
MergeIsServed == phase = "merged" => everKnown \ clashed \subseteq KeysOf(slots[writer])

\* A rebuild from facts.log has the rows that are served, but for those a merge
\* installed and was cut, or failed, before it could write them to the log.
LogHasWhatIsServed == phase = "up" => KeysOf(slots[writer]) \ facts \subseteq owed

\* A merge that is killed leaves a slot that boots, if the writer was on slot A.
MergeLeavesABoot ==
  phase = "down" /\ task = "merge" /\ slots[active] = Torn => active = "B"

\* The installation of a merge and the repair of a slot lose no row, whatever
\* step fails or is killed.
InstallAccounted ==
  NothingIsLost /\ ServesTheMarked /\ MergeIsServed /\ LogHasWhatIsServed /\ MergeLeavesABoot
=============================================================================
