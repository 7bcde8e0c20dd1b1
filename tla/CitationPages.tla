---------------------------- MODULE CitationPages ----------------------------
(***************************************************************************)
(* A page of a list of Semantic Scholar, and what a client-side filter      *)
(* leaves of it (src/scholar_mcp/_tools_graph.py).                          *)
(***************************************************************************)
EXTENDS Naturals, Sequences, FiniteSetsExt

\* offset=from, limit=size
Page(list, from, size) == SubSeq(list, from + 1, Min({from + size, Len(list)}))

\* The records of a page that are liked, in its order.
Sifted(page, liked) ==
    LET sifted[k \in 0..Len(page)] ==
          IF k = 0 THEN <<>>
          ELSE IF page[k] \in liked THEN Append(sifted[k - 1], page[k])
          ELSE sifted[k - 1]
    IN sifted[Len(page)]

=============================================================================
