--------------------------- MODULE MCCitationWalk ---------------------------
(* Instances of CitationWalk for TLC. *)
EXTENDS CitationWalk

CONSTANTS a, b, c, d, e

FiveByAge == <<e, d, c, b, a>>

\* A paper may cite any older ones, and the oldest the newest.
FiveGraphs ==
    {g \in [{a, b, c, d, e} -> SUBSET {a, b, c, d, e}] :
        /\ g[a] \subseteq {e} /\ g[b] \subseteq {a} /\ g[c] \subseteq {a, b}
        /\ g[d] \subseteq {a, b, c} /\ g[e] \subseteq {a, b, c, d}}

\* Every way a walk is cut.  Along references from two seeds with a budget of four,
\* and from two seeds that alone exceed it; along citations with room for three
\* more papers; in both directions with room for all that the filters leave of the
\* citing papers, page by page; and along citations, page by page, where two pages
\* may fill the room though the graph has one of them.
CutWalks ==
    LET All == {a, b, c, d, e}
        Both == {"citations", "references"}
    IN {[seeds |-> <<e, d>>, direction |-> {"references"}, depth |-> 5, maxNodes |-> 4,
         liked |-> All, deep |-> FALSE],
        [seeds |-> <<e, d>>, direction |-> {"references"}, depth |-> 1, maxNodes |-> 1,
         liked |-> All, deep |-> FALSE],
        [seeds |-> <<a>>, direction |-> {"citations"}, depth |-> 2, maxNodes |-> 4,
         liked |-> All, deep |-> FALSE],
        [seeds |-> <<b, a>>, direction |-> Both, depth |-> 2, maxNodes |-> 7,
         liked |-> {a, b, d}, deep |-> TRUE],
        [seeds |-> <<a, d>>, direction |-> {"citations"}, depth |-> 2, maxNodes |-> 4,
         liked |-> All, deep |-> TRUE]}

\* A walk along citations with room for one more paper.
NarrowWalks ==
    {[seeds |-> <<a>>, direction |-> {"citations"}, depth |-> 2, maxNodes |-> 2,
      liked |-> {a, b, c, d, e}, deep |-> FALSE]}
=============================================================================
