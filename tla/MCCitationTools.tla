-------------------------- MODULE MCCitationTools --------------------------
(* One call of get_citation_graph, one of get_citations with a threshold or  *)
(* two of find_bridge_papers; and two parts of the cache: the file as it is  *)
(* opened (CacheOpen) and the Common Criteria loader (CommonCriteriaSync).   *)
(* They share nothing: a behaviour is of one of them, the others stand still.*)
EXTENDS MCCitationWalk, CitationScan, BridgeSearch, CacheOpen, CommonCriteriaSync

CONSTANTS new1, new2, new3, p1, p2, p3, p4, p5, one, two,
          cc1, iso1, pp1, pp2, server, cli

VARIABLE tool

\* Five papers by age, of which two and a new one are above the threshold.
FiveListed == <<p5, p4, p3, p2, p1>>

\* From a to e: a short way beside a long one; two papers that cite a third; a ring
\* with a paper that only citations lead to; and two lists that one request cuts,
\* where a page without the target leaves a longer way, or none.
BridgeGraphs ==
    {[p \in Library |-> CASE p = a -> {b, c} [] p = b -> {d} [] p \in {c, d} -> {e} [] OTHER -> {}],
     [p \in Library |-> CASE p \in {a, e} -> {b} [] p = b -> {c} [] OTHER -> {}],
     [p \in Library |-> CASE p = a -> {b} [] p = b -> {c} [] p = c -> {e} [] p = e -> {a}
                         [] OTHER -> {b}],
     [p \in Library |-> CASE p = a -> {b} [] p = b -> {a, c, e} [] p = c -> {e} [] OTHER -> {}],
     [p \in Library |-> CASE p \in {a, c} -> {b} [] p = b -> {a, c, e} [] OTHER -> {}]}

FromA == [k \in Searchers |-> a]
ToE == [k \in Searchers |-> e]

\* One searches in both directions, the other by references alone.
Directions == [k \in Searchers |-> IF k = one THEN <<"references", "citations">> ELSE <<"references">>]

\* A framework document published twice, next to two profiles.
PublishedTwice == <<[cc |-> cc1, iso |-> iso1]>>

ToolsInit ==
    /\ tool \in {"graph", "scan", "bridge", "file", "criteria"}
    /\ Init /\ ScanInit /\ BridgeInit /\ CriteriaInit
    /\ tool # "graph" => given = <<[p \in Papers |-> {}], CHOOSE r \in Requests : TRUE>>
    /\ tool # "scan" => way = "threshold"
    /\ tool # "bridge" => links = CHOOSE g \in BridgeGraphs : TRUE
    /\ IF tool = "file" THEN CacheInit ELSE CacheBegins({}, {}, "ISO", Absent, FALSE)

Searches(k) ==
    tool = "bridge" /\ Search(k) /\ UNCHANGED <<tool, vars, scanVars, cacheVars, criteriaVars>>

ToolsNext ==
    \/ tool = "graph" /\ Next /\ UNCHANGED <<tool, scanVars, bridgeVars, cacheVars, criteriaVars>>
    \/ tool = "scan" /\ ScanNext /\ UNCHANGED <<tool, vars, bridgeVars, cacheVars, criteriaVars>>
    \/ tool = "bridge" /\ BridgeNext /\ UNCHANGED <<tool, vars, scanVars, cacheVars, criteriaVars>>
    \/ tool = "file" /\ CacheNext /\ UNCHANGED <<tool, vars, scanVars, bridgeVars, criteriaVars>>
    \/ tool = "criteria" /\ CriteriaNext /\ UNCHANGED <<tool, vars, scanVars, bridgeVars, cacheVars>>

\* With the fairness of BridgeSearch.
ToolsSpec ==
    /\ ToolsInit /\ [][ToolsNext]_<<tool, vars, scanVars, bridgeVars, cacheVars, criteriaVars>>
    /\ \A k \in Searchers : WF_bridgeVars(Searches(k))

\* Every search for a bridge comes to an end (BridgeSearch).
BridgesEnd == tool = "bridge" => SearchesEnd
=============================================================================
