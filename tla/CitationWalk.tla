---------------------------- MODULE CitationWalk ----------------------------
(***************************************************************************)
(* get_citation_graph (src/scholar_mcp/_tools_graph.py): the breadth-first  *)
(* walk around some seed papers, up to a depth and within a node budget.    *)
(* One call; it shares no state with others, so every request is a step     *)
(* that succeeds or fails.                                                  *)
(*                                                                         *)
(* The literature is any of Graphs.  S2 lists citing papers newest first    *)
(* and page by page; a walk with min_citations reads many pages per node    *)
(* (deep).  All filters are one set, liked, applied after a page is read.   *)
(* visited is left out: it always is the set of the nodes' ids.             *)
(***************************************************************************)
EXTENDS CitationPages, SequencesExt

CONSTANTS
    Newest,      \* the papers, newest first
    Graphs,      \* what they may cite
    Requests,    \* what the call may ask for, see WalkAssumption
    FetchLimit,  \* fetch_limit: references, and citations unless deep
    PageSize,    \* _S2_PAGE_SIZE
    MaxScan      \* _MAX_PER_NODE_SCAN

Papers == ToSet(Newest)

ASSUME WalkAssumption ==
    /\ Newest \in Seq(Papers) \ {<<>>} /\ IsInjective(Newest)
    /\ Graphs \subseteq [Papers -> SUBSET Papers]
    /\ \A request \in Requests :
          /\ request.seeds \in Seq(Papers) /\ IsInjective(request.seeds)
          /\ request.direction \in
                (SUBSET {"citations", "references"}) \ {{}}   \* "both": the pair
          /\ request.depth \in Nat /\ request.maxNodes \in Nat
          /\ request.liked \subseteq Papers   \* what passes the filters
          /\ request.deep \in BOOLEAN         \* min_citations is set
    /\ FetchLimit \in Nat \ {0} /\ PageSize \in Nat \ {0} /\ MaxScan \in Nat

VARIABLES
    cites,       \* the literature
    asked,       \* the request
    pc,
    nodes,       \* ids in the order found
    edges,       \* pairs <<citing, cited>>
    queue,       \* pairs <<id, depth>>
    at,          \* the pair being expanded
    found,       \* its neighbours so far, pairs <<id, edge>>
    offset,      \* of the next page of citations
    partial,     \* a request has failed
    truncated

given == <<cites, asked>>
graph == <<nodes, edges, queue>>
vars == <<given, pc, graph, at, found, offset, partial, truncated>>

\* depth is brought between 1 and 3.
ClampedDepth == Max({1, Min({asked.depth, 3})})

Edges == Papers \X Papers

TypeOK ==
    /\ cites \in Graphs /\ asked \in Requests
    /\ pc \in {"seeds", "pop", "citing", "cited", "done"}
    /\ nodes \in Seq(Papers) /\ IsInjective(nodes)
    /\ Len(nodes) <= asked.maxNodes \/ nodes = asked.seeds
    /\ edges \subseteq Edges
    /\ queue \in Seq(Papers \X (0..ClampedDepth))
    /\ at \in Papers \X (0..ClampedDepth)
    /\ found \in Seq(Papers \X Edges)
    /\ offset \in 0..Len(Newest)
    /\ partial \in BOOLEAN /\ truncated \in BOOLEAN

-----------------------------------------------------------------------------
\* What S2 lists, in its order.
Citing(p) == Sifted(Newest, {q \in Papers : p \in cites[q]})
Cited(p) == Sifted(Newest, cites[p])

\* Mutated FoundCiting: the edge is turned round.
FoundCitingTurned(page) ==
    LET kept == Sifted(page, asked.liked)
    IN [k \in DOMAIN kept |-> <<kept[k], <<at[1], kept[k]>>>>]

\* The triples made of a page.
FoundCiting(page) ==
    LET kept == Sifted(page, asked.liked)
    IN [k \in DOMAIN kept |-> <<kept[k], <<kept[k], at[1]>>>>]

FoundCited(page) ==
    LET kept == Sifted(page, asked.liked)
    IN [k \in DOMAIN kept |-> <<kept[k], <<at[1], kept[k]>>>>]

Init ==
    /\ cites \in Graphs
    /\ asked \in Requests
    /\ pc = "seeds"
    /\ nodes = asked.seeds
    /\ edges = {}
    /\ queue = [k \in DOMAIN asked.seeds |-> <<asked.seeds[k], 0>>]
    /\ at = <<Newest[1], 0>>
    /\ found = <<>>
    /\ offset = 0
    /\ partial = FALSE
    /\ truncated = FALSE

\* batch_resolve: without metadata the walk goes on from the bare ids.
ResolveSeeds(failed) ==
    /\ pc = "seeds"
    /\ pc' = "pop"
    /\ partial' = failed
    /\ UNCHANGED <<given, graph, at, found, offset, truncated>>

\* One triple joins the graph, or finds it full.
Add(g, triple) ==
    IF g.full THEN g
    ELSE IF Len(g.nodes) >= asked.maxNodes
    THEN [g EXCEPT !.edges = @ \union {triple[2]}, !.full = TRUE]
    ELSE IF Contains(g.nodes, triple[1])
    THEN [g EXCEPT !.edges = @ \union {triple[2]}]
    ELSE [g EXCEPT !.edges = @ \union {triple[2]},
                   !.nodes = Append(@, triple[1]),
                   !.queue = Append(@, <<triple[1], at[2] + 1>>)]

\* The loop over the triples of a paper.
Joined(triples) ==
    LET joined[k \in 0..Len(triples)] ==
          IF k = 0 THEN [nodes |-> nodes, edges |-> edges, queue |-> queue, full |-> FALSE]
          ELSE Add(joined[k - 1], triples[k])
    IN joined[Len(triples)]

\* Mutated Join: a full graph does not stop the walk.
JoinSilently(triples) ==
    LET g == Joined(triples)
    IN /\ nodes' = g.nodes /\ edges' = g.edges /\ queue' = g.queue
       /\ truncated' = FALSE
       /\ pc' = "pop"
       /\ found' = <<>>

\* A full graph ends the walk.
Join(triples) ==
    LET g == Joined(triples)
    IN /\ nodes' = g.nodes /\ edges' = g.edges /\ queue' = g.queue
       /\ truncated' = g.full
       /\ pc' = IF g.full THEN "done" ELSE "pop"
       /\ found' = <<>>

\* After the citations come the references, then the loop.
Citations(triples) ==
    /\ IF "references" \in asked.direction
       THEN pc' = "cited" /\ found' = triples /\ UNCHANGED <<graph, truncated>>
       ELSE Join(triples)
    /\ offset' = 0
    /\ UNCHANGED <<given, at>>

Finish ==
    /\ pc = "pop"
    /\ queue = <<>>
    /\ pc' = "done"
    /\ UNCHANGED <<given, graph, at, found, offset, partial, truncated>>

\* Mutated Pop: the newest node first.
PopLast ==
    /\ pc = "pop"
    /\ queue # <<>>
    /\ queue' = Front(queue)
    /\ IF Last(queue)[2] >= ClampedDepth
       THEN UNCHANGED <<pc, at>>
       ELSE /\ at' = Last(queue)
            /\ pc' = IF "citations" \in asked.direction THEN "citing" ELSE "cited"
    /\ UNCHANGED <<given, nodes, edges, found, offset, partial, truncated>>

\* The next node; one at the last depth is not expanded.
Pop ==
    /\ pc = "pop"
    /\ queue # <<>>
    /\ queue' = Tail(queue)
    /\ IF Head(queue)[2] >= ClampedDepth
       THEN UNCHANGED <<pc, at>>
       ELSE /\ at' = Head(queue)
            /\ pc' = IF "citations" \in asked.direction THEN "citing" ELSE "cited"
    /\ UNCHANGED <<given, nodes, edges, found, offset, partial, truncated>>

ScanCap == IF asked.deep THEN MaxScan ELSE FetchLimit

Batch == Min({IF asked.deep THEN PageSize ELSE FetchLimit, ScanCap - offset})

\* Mutated Wanting: the room is one less.
WantingLess == offset < ScanCap /\ Len(found) + Len(nodes) + 1 < asked.maxNodes

\* len(found) < room: the graph may still take what is found.
Wanting == offset < ScanCap /\ Len(found) + Len(nodes) < asked.maxNodes

\* A page of citing papers.
CitingPage ==
    /\ pc = "citing"
    /\ Wanting
    /\ LET page == Page(Citing(at[1]), offset, Batch)
           triples == found \o FoundCiting(page)
       IN IF Len(page) < Batch \/ ~asked.deep
          THEN Citations(triples)
          ELSE /\ found' = triples
               /\ offset' = offset + Len(page)
               /\ UNCHANGED <<given, pc, graph, at, truncated>>
    /\ UNCHANGED partial

\* The scan is over: nothing more is asked for.
CitingEnough ==
    /\ pc = "citing"
    /\ ~Wanting
    /\ Citations(found)
    /\ UNCHANGED partial

\* A request fails; what came before it stays.
CitingFails ==
    /\ pc = "citing"
    /\ Wanting
    /\ Citations(found)
    /\ partial' = TRUE

\* get_references: no year and no field to filter by, and no second page.
References(p) == Page(Cited(p), 0, FetchLimit)

\* The page of references, or none if the request fails.
CitedPage ==
    /\ pc = "cited"
    /\ Join(found \o FoundCited(References(at[1])))
    /\ UNCHANGED <<given, at, offset, partial>>

CitedFails ==
    /\ pc = "cited"
    /\ Join(found)
    /\ partial' = TRUE
    /\ UNCHANGED <<given, at, offset>>

Next ==
    \/ \E failed \in BOOLEAN : ResolveSeeds(failed)
    \/ Pop \/ Finish
    \/ CitingPage \/ CitingEnough \/ CitingFails
    \/ CitedPage \/ CitedFails

Spec == Init /\ [][Next]_vars

-----------------------------------------------------------------------------
(* The answer.                                                              *)

ShownNodes == Page(nodes, 0, asked.maxNodes)
ShownEdges == {e \in edges : Contains(ShownNodes, e[1]) /\ Contains(ShownNodes, e[2])}

(* What the answer should be.                                               *)

\* What expanding p may read: the first ScanCap entries of the papers that cite it
\* and the first FetchLimit of those it cites, of which the filters leave some.
ReadCiting(p) == Sifted(Page(Citing(p), 0, ScanCap), asked.liked)
ReadCited(p) == Sifted(References(p), asked.liked)

\* The edges that expanding p shows.
EdgesOf(p) ==
    (IF "citations" \in asked.direction THEN ToSet(ReadCiting(p)) \X {p} ELSE {})
    \union
    (IF "references" \in asked.direction THEN {p} \X ToSet(ReadCited(p)) ELSE {})

\* Papers with what expanding them leads to.
Spread(papers) ==
    papers \union UNION {{e[1], e[2]} : e \in UNION {EdgesOf(p) : p \in papers}}

\* The papers within n hops of a seed.
Within(n) ==
    LET reach[k \in 0..n] ==
          IF k = 0 THEN ToSet(asked.seeds) ELSE Spread(reach[k - 1])
    IN reach[n]

\* Whatever fails and wherever the budget cuts, a node lies within depth hops
\* of a seed, an edge is a citation of the citing by the cited, and there are
\* never more nodes than max_nodes allows (TypeOK).
GraphIsSound ==
    /\ TypeOK
    /\ ToSet(nodes) \subseteq Within(ClampedDepth)
    /\ \A e \in edges : e[2] \in cites[e[1]]

\* docs/use/citation-graphs.md:91 "Once reached, the BFS stops and
\* stats.truncated is set to true": an answer that is neither truncated nor
\* partial has every node within depth hops and every edge between them that
\* expanding the nodes above the rim shows.
CompleteUnlessTold ==
    pc = "done" /\ ~truncated /\ ~partial =>
        /\ Within(ClampedDepth) \subseteq ToSet(ShownNodes)
        /\ UNION {EdgesOf(p) : p \in Within(ClampedDepth - 1)} \subseteq ShownEdges

\* The budget shows all nodes and, in a walk along citations, has room left: for one
\* more paper, or, where every page is weighed against it before the next is asked
\* for, for all that citing a node could bring, the papers already shown included.
RoomToSpare ==
    /\ Len(nodes) <= asked.maxNodes
    /\ "citations" \in asked.direction =>
          IF asked.deep
          THEN \A p \in ToSet(nodes) : Len(ReadCiting(p)) + Len(nodes) <= asked.maxNodes
          ELSE Len(nodes) < asked.maxNodes

\* Where the budget was not used up, an answer without a mark is complete: all that
\* expanding each node within its reach could read is shown.  A list longer than
\* one request, or than the cap of a scan, is cut there whatever the budget.
UnmarkedIsComplete == RoomToSpare => CompleteUnlessTold

\* The budget cuts a graph at its rim: while no request has failed, a paper is
\* a node only if all papers nearer to the seeds are.  Only a scan of many pages
\* can go wrong, which ends as soon as what it found could fill the room, though
\* the graph may have most of it.
CutAtTheRim ==
    ~partial /\ (asked.deep /\ "citations" \in asked.direction => RoomToSpare) =>
        \A n \in 0..ClampedDepth :
            ToSet(nodes) \subseteq Within(n) \/ Within(n) \subseteq ToSet(nodes)

\* What the graph shows is there, and what a budget kept out of it is the rim.
WalkIsSound == GraphIsSound /\ CutAtTheRim
=============================================================================
