--------------------------- MODULE MCSeparateParts ---------------------------
(***************************************************************************)
(* The parts of which only safety is stated, and which share no state:     *)
(* each behaviour is one of one part.                                      *)
(*                                                                         *)
(* Reads and streams of the bus look at the same table and neither changes *)
(* what the other reads, and each invariant is about one of them.  So a    *)
(* behaviour with both is checked as two: one in which nobody is connected *)
(* (and what a publish does after its insert does not matter), and one in  *)
(* which nobody reads.  Reads are checked twice: with one read at a time,  *)
(* messages and upkeep requests are four in all, three and two at most;    *)
(* and with two reads that overlap, two messages and one upkeep request.   *)
(* The log of pointer errors is checked with three hooks and no old log (a *)
(* slip, or owners that end), with two hooks and one (and no slips), and   *)
(* with five hooks one after the other and no faults, which halve it until *)
(* a halving removes the row of an earlier one.  What a merge of the slots *)
(* makes is checked on any two catalogs of two keys ("merges"), and its    *)
(* installation and the repairs on a few ("installs").  The hub's model    *)
(* client and a daemon's own are checked apart ("fleet", "alone").         *)
(*                                                                         *)
(* Two names, m1 and m3, stand for the messages, the candidates and the    *)
(* hooks that may be exchanged, and r1 and r2 for the reads, reviews, rows,*)
(* calls and runs of the SessionStart hook: a behaviour uses each in one   *)
(* of these ways only, and the symmetry group stays small.                 *)
(***************************************************************************)
EXTENDS EventBus, RefineQueue, VectorStore, PointerErrors, RotationSlots,
  ModelWorkers
CONSTANTS m1, m2, m3, c1, c2, a1, r1, r2, s1, part1, part2, o1, o2, h4, h5, l1, k1, k2, k3
MCChannelOf == [m \in Messages |-> IF m = m2 THEN c2 ELSE c1]
MCReaderAgent == [r \in Readers |-> a1]
MCSubChannel == [s \in Subs |-> c1]
MCPartOf == [e \in Rows |-> part1]
MCHookOwner == [h \in Hooks |-> IF h = m2 THEN o2 ELSE o1]
MCStartOwner == [b \in Starts |-> o1]

\* Any rows of two keys; the first may have a text and a link to the other.
MCRows ==
  {f \in UNION {[S -> [key : {k1, k2}, at : {1, 2}]] : S \in SUBSET {1, 2, 3}} :
     \A i, j \in DOMAIN f : f[i].key = f[j].key => i = j}
MCIds(f, k) == {i \in DOMAIN f : f[i].key = k}
MCCatalogs ==
  UNION {{[row |-> f, text |-> t, links |-> l] :
            t \in UNION {[S -> {1, 2}] : S \in SUBSET MCIds(f, k1)},
            l \in SUBSET (MCIds(f, k1) \X MCIds(f, k2))} : f \in MCRows}
MCOne(i, k) ==
  [row |-> [x \in {i} |-> [key |-> k, at |-> 1]], text |-> [x \in {} |-> 0], links |-> {}]
MCMerges == [Slots -> MCCatalogs]
MCInstalls ==
  {[s \in Slots |-> IF s = "A" THEN x ELSE y] :
     x \in {MCOne(1, k1), Missing},
     y \in {MCOne(i, k) : i \in {1, 2}, k \in {k1, k2}} \union {Missing}}
MCDrifts == MCMerges \union MCInstalls

MCSymmetry == Permutations({m1, m3}) \union Permutations({r1, r2})

VARIABLE side  \* which of these behaviours this is

MCInit ==
  /\ Init /\ RefineInit /\ VectorInit /\ ErrorInit /\ RotationInit /\ WorkersInit
  /\ side \in {"reads", "overlap", "streams", "refine", "vectors", "errors", "legacy",
               "halvings", "merges", "installs", "fleet", "alone"}
  /\ CASE side = "merges"   -> slots \in MCMerges /\ active = "A"
       [] side = "installs" -> slots \in MCInstalls
       [] OTHER             -> slots = [s \in Slots |-> MCOne(1, k1)] /\ active = "A"
  /\ legacy = IF side = "legacy" THEN "there" ELSE "none"

BusNext ==
  /\ \/ /\ side \in {"reads", "overlap"}
        /\ (\E m \in Messages : Insert(m)) \/ Read \/ Mark
     \/ /\ side = "streams"
        /\ Publish \/ \E s \in Subs : Subscribe(s) \/ Stream(s) \/ Disconnect(s)
     \/ Maintain
     \/ HubDies
  /\ side = "reads" => /\ Cardinality({r \in Readers : reading'[r] # "idle"}) <= 1
                       /\ Cardinality({m \in Messages : step'[m] # "new"}) + upkeep' <= 4
  /\ side = "overlap" => Cardinality({m \in Messages : step'[m] # "new"}) <= 2 /\ upkeep' <= 1

Stamped == {h \in Hooks : hook'[h].at # "new"}
ErrorsNext ==
  /\ side \in {"errors", "legacy", "halvings"}
  /\ ErrorNext
  /\ side = "errors" => Stamped \subseteq {m1, m2, m3} /\ (alive' = Owners \/ slips' = 0)
  /\ side = "legacy" => Stamped \subseteq {m1, m2, m3} /\ Cardinality(Stamped) <= 2 /\ slips' = 0
  /\ side = "halvings" => alive' = Owners /\ slips' = 0
  /\ side = "halvings" =>
       /\ Cardinality({h \in Hooks : hook'[h].at = "stamped"}) <= 1
       /\ h4 \in Stamped => {m1, m2, m3} \subseteq Stamped
       /\ h5 \in Stamped => h4 \in Stamped

SlotsNext ==
  /\ side \in {"merges", "installs"}
  /\ RotationNext
  /\ side = "merges" => everKnown' = everKnown /\ merges' <= 1 /\ phase' \in {"up", "closed", "built"}

\* The hub's client is not seen by the daemon that keeps its own.
ClientsNext ==
  /\ side \in {"fleet", "alone"}
  /\ WorkersNext
  /\ IF side = "fleet" THEN private' = 0 ELSE hubs' = 0 /\ deaths' <= 1

MCNext ==
  /\ UNCHANGED side
  /\ \/ side \in {"reads", "overlap", "streams"} /\ BusNext /\ UNCHANGED <<refineVars, vectorVars, errorVars, rotationVars, workerVars>>
     \/ side = "refine" /\ RefineNext /\ UNCHANGED <<vars, vectorVars, errorVars, rotationVars, workerVars>>
     \/ side = "vectors" /\ VectorNext /\ UNCHANGED <<vars, refineVars, errorVars, rotationVars, workerVars>>
     \/ ErrorsNext /\ UNCHANGED <<vars, refineVars, vectorVars, rotationVars, workerVars>>
     \/ SlotsNext /\ UNCHANGED <<vars, refineVars, vectorVars, errorVars, workerVars>>
     \/ ClientsNext /\ UNCHANGED <<vars, refineVars, vectorVars, errorVars, rotationVars>>

MCSpec == MCInit /\ [][MCNext]_<<vars, refineVars, vectorVars, errorVars, rotationVars, workerVars,
                              side>>

\* The state of these parts keeps its types, each part's in the behaviours that
\* are its own: in particular no subscriber's queue outgrows its size.
TypesOK ==
  /\ side \in {"reads", "overlap", "streams"}    => TypeOK
  /\ side = "refine"                             => RefineTypeOK
  /\ side = "vectors"                            => VectorTypeOK
  /\ side \in {"errors", "legacy", "halvings"}   => ErrorTypeOK
  /\ side \in {"merges", "installs"}             => RotationTypeOK
  /\ side \in {"fleet", "alone"}                 => WorkerTypeOK
=============================================================================
