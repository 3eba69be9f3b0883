--------------------------- MODULE QueryNeighbors ---------------------------
(***************************************************************************)
(* QueryEngine.neighbors (refmatrix/query.py): what is linked to a concept *)
(* within so many hops, bar concepts marked as noise.  An id is an entity  *)
(* and, as the key of a row, a concept.  `links' is the union of the rows  *)
(* of an id over the linkages asked for.                                   *)
(***************************************************************************)
EXTENDS Naturals

CONSTANTS Id,        \* ids of entities
          MaxDepth   \* bound: hops that are asked for

ASSUME DepthAssumption == MaxDepth \in Nat

VARIABLES links, noise, seeds, depth,   \* the rows, and the request
          round,                        \* hops done
          frontier, seen,               \* found in the last round, and in all
          answer, returned

request       == <<links, noise, seeds, depth>>
neighborsVars == <<request, round, frontier, seen, answer, returned>>

NeighborsTypeOK ==
    /\ links \in [Id -> SUBSET Id] /\ noise \subseteq Id /\ seeds \subseteq Id
    /\ depth \in 0..MaxDepth /\ round \in 0..depth
    /\ frontier \subseteq Id /\ seen \subseteq Id /\ answer \subseteq Id
    /\ returned \in BOOLEAN

\* `seeds' are the ids the name stands for; they may be noise themselves.
NeighborsInit ==
    /\ links \in [Id -> SUBSET Id] /\ noise \in SUBSET Id /\ seeds \in SUBSET Id
    /\ depth \in 0..MaxDepth
    /\ round = 0 /\ frontier = seeds /\ seen = seeds
    /\ answer = {} /\ returned = FALSE

\* Mutated form: noise is looked through.
NextFrontier_Noisy == (UNION {links[i] : i \in frontier}) \ seen

\* What the rows of the frontier hold and no round has found yet.
NextFrontier == (UNION {links[i] : i \in frontier}) \ (seen \cup noise)

\* Mutated form: one round too many.
Round_Extra ==
    /\ ~returned /\ round <= depth /\ NextFrontier # {}
    /\ seen' = seen \cup NextFrontier
    /\ frontier' = NextFrontier
    /\ round' = round + 1
    /\ UNCHANGED <<request, answer, returned>>

Round ==
    /\ ~returned /\ round < depth /\ NextFrontier # {}
    /\ seen' = seen \cup NextFrontier
    /\ frontier' = NextFrontier
    /\ round' = round + 1
    /\ UNCHANGED <<request, answer, returned>>

\* The last round is done, or a round finds nothing (as with an unknown name).
Return ==
    /\ ~returned /\ (round = depth \/ NextFrontier = {})
    /\ answer' = seen \ seeds
    /\ returned' = TRUE
    /\ UNCHANGED <<request, round, frontier, seen>>

NeighborsNext == Round \/ Return
NeighborsSpec == NeighborsInit /\ [][NeighborsNext]_neighborsVars

-----------------------------------------------------------------------------
\* The answer is what a walk of at most `depth' links leads to that starts at a
\* seed and after that meets no noise, without the seeds; also when the graph has
\* cycles, and when the search ends before its last round.
IsWalk(w, n) == /\ w[0] \in seeds
                /\ \A j \in 1..n : w[j] \in links[w[j-1]] \ noise
Within(n) == {i \in Id : \E k \in 0..n : \E w \in [0..k -> Id] : IsWalk(w, k) /\ w[k] = i}
NeighborsAreWithinDepth == returned => answer = Within(depth) \ seeds
=============================================================================
