----------------------------- MODULE MCReadPath ------------------------------
(***************************************************************************)
(* What a read goes through: the tiers of the catalog, the connections of  *)
(* one file, the search of neighbors and the query language.  They share   *)
(* no state, so each behaviour is one of one of them.                      *)
(*                                                                         *)
(* Connections are checked with two handles, one replaced file and no      *)
(* write connection beside another ("handles"), and with one handle and    *)
(* two files ("writers").  Neighbors have any graph; ids are               *)
(* interchangeable, so the seeds are one set of each size.                 *)
(* Queries have up to five tokens, or six if they begin with a NOT or a    *)
(* parenthesis; terms are interchangeable, so term1 comes first.           *)
(***************************************************************************)
EXTENDS SnapshotTier, CatalogHandles, QueryNeighbors, QueryDsl

CONSTANTS handle1, id1, id2, id3, term1, term2
MCSeeds == {{}, {id1}, {id1, id2}, {id1, id2, id3}}
MCRow   == [x \in Term |-> IF x = term1 THEN {1, 2, 5} ELSE {1, 3, 6}]
MCQueries ==
    {ts \in UNION {[1..n -> Token] : n \in 0..MaxTokens} :
        /\ Len(ts) = MaxTokens => ts[1] \in {"not", "("}
        /\ \A j \in DOMAIN ts : ts[j] = term2 => \E k \in 1..j-1 : ts[k] = term1}

VARIABLE side  \* which of these behaviours this is

MCInit ==
    /\ side \in {"tiers", "handles", "writers", "neighbors", "queries"}
    /\ side # "tiers" => file = None
    /\ IF side = "neighbors" THEN seeds \in MCSeeds
       ELSE links = [i \in Id |-> {}] /\ noise = {} /\ seeds = {} /\ depth = 0
    /\ IF side = "queries" THEN toks \in MCQueries ELSE toks = <<>>
    /\ Init /\ HandleInit /\ NeighborsInit /\ DslInit

ConnectionsNext ==
    /\ side \in {"handles", "writers"}
    /\ HandleNext
    /\ side = "handles" => inode' <= 2 /\ beside' = {}
    /\ side = "writers" => \A h \in Handle \ {handle1} : phase'[h] = "idle"

MCNext ==
    /\ UNCHANGED side
    /\ \/ side = "tiers" /\ Next /\ UNCHANGED <<handleVars, neighborsVars, dslVars>>
       \/ ConnectionsNext /\ UNCHANGED <<vars, neighborsVars, dslVars>>
       \/ side = "neighbors" /\ NeighborsNext /\ UNCHANGED <<vars, handleVars, dslVars>>
       \/ side = "queries" /\ DslNext /\ UNCHANGED <<vars, handleVars, neighborsVars>>

MCSpec == MCInit /\ [][MCNext]_<<vars, handleVars, neighborsVars, dslVars, side>> /\ Fairness

\* The state of these parts keeps its types; in particular an open loses no more
\* rounds than it may, a search does no more than it was asked for, and a parse
\* never looks behind the last token.
TypesOK ==
    /\ side = "tiers"                 => TypeOK
    /\ side \in {"handles", "writers"} => HandleTypeOK
    /\ side = "neighbors"             => NeighborsTypeOK
    /\ side = "queries"               => DslTypeOK
=============================================================================
