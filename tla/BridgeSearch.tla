---------------------------- MODULE BridgeSearch ----------------------------
(***************************************************************************)
(* find_bridge_papers (src/scholar_mcp/_tools_graph.py): breadth-first      *)
(* searches for a path between two papers.  Searches run concurrently and   *)
(* share the cache of neighbour lists; each await of a search is a point    *)
(* where the others, or the expiry of a list, come in.                      *)
(*                                                                         *)
(* The literature stands still during the searches and is any of            *)
(* Literatures.  S2 answers with one page of a paper's neighbours, whose    *)
(* order is left open.  A search's queue holds whole paths, as the code's   *)
(* does.                                                                    *)
(***************************************************************************)
EXTENDS Naturals, Sequences, FiniteSets, SequencesExt

CONSTANTS
    Library,          \* the papers
    Searchers,        \* calls of the tool
    Source, Target,   \* of each search
    Kinds,            \* of each search: the lists it asks for, in their order
    MaxDepth,         \* max_depth, of every search
    ListLimit,        \* limit=100
    Literatures       \* what the papers may cite: functions to sets of papers

\* What the constants have to be.
ASSUME SearchAssumption ==
    /\ IsFiniteSet(Library)
    /\ Source \in [Searchers -> Library] /\ Target \in [Searchers -> Library]
    /\ \A c \in Searchers : Kinds[c] \in Seq({"references", "citations"}) /\ Kinds[c] # <<>>
    /\ MaxDepth \in Nat
    /\ ListLimit \in Nat \ {0}
    /\ Literatures \subseteq [Library -> SUBSET Library]

VARIABLES
    links,    \* the literature: what each paper references
    lists,    \* tables refs and citations: the lists they hold
    search    \* what each search is doing, see Start

bridgeVars == <<links, lists, search>>

Start(c) == [pc |-> "pop",
             queue |-> << <<Source[c]>> >>,
             visited |-> {Source[c]},
             path |-> <<>>,        \* the path being extended
             kinds |-> <<>>,       \* lists still to ask for
             page |-> {},          \* a list on its way into the cache
             found |-> {},         \* neighbours so far
             failures |-> 0,
             answer |-> <<>>]      \* the path found, if any

BridgeTypeOK ==
    /\ links \in Literatures
    /\ DOMAIN lists \subseteq {"references", "citations"} \X Library
    /\ \A entry \in DOMAIN lists : lists[entry] \subseteq Library
    /\ search \in [Searchers -> [pc : {"pop", "ask", "fetch", "store", "done"},
                                 queue : Seq(Seq(Library)), visited : SUBSET Library,
                                 path : Seq(Library), kinds : Seq({"references", "citations"}),
                                 page : SUBSET Library, found : SUBSET Library,
                                 failures : Nat, answer : Seq(Library)]]
    /\ \A c \in Searchers :
          /\ \A k \in DOMAIN search[c].queue : search[c].queue[k] \in Seq(search[c].visited)
          /\ search[c].pc \in {"ask", "fetch", "store"} <=> search[c].kinds # <<>>

-----------------------------------------------------------------------------
\* What S2 knows of a paper's neighbours in one direction.
Linked(kind, p) ==
    IF kind = "references" THEN links[p] ELSE {q \in Library : p \in links[q]}

\* One page of them (limit=ListLimit, offset=0).
Pages(kind, p) ==
    LET all == Linked(kind, p)
    IN {page \in SUBSET all :
          Cardinality(page) = IF Cardinality(all) <= ListLimit
                              THEN Cardinality(all) ELSE ListLimit}

At(c, place) == search[c].pc = place

Becomes(c, state) == search' = [search EXCEPT ![c] = state]

Entry(c) == <<Head(search[c].kinds), Last(search[c].path)>>

BridgeInit ==
    /\ links \in Literatures
    /\ lists = <<>>
    /\ search = [c \in Searchers |-> Start(c)]

\* Mutated PopPath: a path of MaxDepth hops is not extended.
PopPathEarly(c) ==
    /\ At(c, "pop")
    /\ search[c].queue # <<>>
    /\ LET path == Head(search[c].queue)
           state == [search[c] EXCEPT !.queue = Tail(@)]
       IN Becomes(c, IF Len(path) > MaxDepth THEN state
                     ELSE [state EXCEPT !.path = path, !.kinds = Kinds[c],
                                        !.found = {}, !.pc = "ask"])
    /\ UNCHANGED <<links, lists>>

\* The next path; one of more than MaxDepth hops is dropped.
PopPath(c) ==
    /\ At(c, "pop")
    /\ search[c].queue # <<>>
    /\ LET path == Head(search[c].queue)
           state == [search[c] EXCEPT !.queue = Tail(@)]
       IN Becomes(c, IF Len(path) > MaxDepth + 1 THEN state
                     ELSE [state EXCEPT !.path = path, !.kinds = Kinds[c],
                                        !.found = {}, !.pc = "ask"])
    /\ UNCHANGED <<links, lists>>

\* The queue is empty: {"found": false}.
GiveUp(c) ==
    /\ At(c, "pop")
    /\ search[c].queue = <<>>
    /\ Becomes(c, [search[c] EXCEPT !.pc = "done"])
    /\ UNCHANGED <<links, lists>>

\* The loop over the neighbours of the path's end.
Extend(c, state, neighbours) ==
    LET new == SetToSeq(neighbours \ state.visited)
    IN IF Target[c] \in neighbours
       THEN [state EXCEPT !.pc = "done", !.answer = Append(state.path, Target[c])]
       ELSE [state EXCEPT
               !.pc = "pop",
               !.visited = @ \union neighbours,
               !.queue = @ \o [k \in DOMAIN new |-> Append(state.path, new[k])]]

\* A list has come; the next one is asked for, or the path extended.
Arrived(c, ids, failed) ==
    LET state == [search[c] EXCEPT !.found = @ \union ids,
                                   !.failures = @ + failed,
                                   !.kinds = Tail(@),
                                   !.page = {},
                                   !.pc = "ask"]
    IN Becomes(c, IF state.kinds # <<>> THEN state ELSE Extend(c, state, state.found))

\* cache.get_references, cache.get_citations
Ask(c) ==
    /\ At(c, "ask")
    /\ IF Entry(c) \in DOMAIN lists
       THEN Arrived(c, lists[Entry(c)], 0)
       ELSE Becomes(c, [search[c] EXCEPT !.pc = "fetch"])
    /\ UNCHANGED <<links, lists>>

FetchList(c, page) ==
    /\ At(c, "fetch")
    /\ page \in Pages(Entry(c)[1], Entry(c)[2])
    /\ Becomes(c, [search[c] EXCEPT !.page = page, !.pc = "store"])
    /\ UNCHANGED <<links, lists>>

\* The cache with a list that replaces what it had under the same entry.
WithList(entry, page) ==
    [e \in DOMAIN lists \union {entry} |-> IF e = entry THEN page ELSE lists[e]]

\* Mutated FetchListFails: the empty list is cached.
FetchListFailsStoring(c) ==
    /\ At(c, "fetch")
    /\ Arrived(c, {}, 1)
    /\ lists' = WithList(Entry(c), {})
    /\ UNCHANGED links

\* Mutated FetchListFails: the list is asked for again.
FetchListFailsRetrying(c) ==
    /\ At(c, "fetch")
    /\ Becomes(c, [search[c] EXCEPT !.pc = "ask"])
    /\ UNCHANGED <<links, lists>>

\* The request fails; the search goes on without the list.
FetchListFails(c) ==
    /\ At(c, "fetch")
    /\ Arrived(c, {}, 1)
    /\ UNCHANGED <<links, lists>>

\* Mutated StoreList: under the paper's other list.
StoreListSwapped(c) ==
    /\ At(c, "store")
    /\ lists' = WithList(<<"references", Entry(c)[2]>>, search[c].page)
    /\ Arrived(c, search[c].page, 0)
    /\ UNCHANGED links

\* cache.set_references, cache.set_citations
StoreList(c) ==
    /\ At(c, "store")
    /\ lists' = WithList(Entry(c), search[c].page)
    /\ Arrived(c, search[c].page, 0)
    /\ UNCHANGED links

\* A cached list outlives its TTL, or the cache is cleared.
ListExpires(entry) ==
    /\ lists' = Restrict(lists, DOMAIN lists \ {entry})
    /\ UNCHANGED <<links, search>>

Search(c) ==
    \/ PopPath(c) \/ GiveUp(c) \/ Ask(c)
    \/ \E page \in SUBSET Library : FetchList(c, page)
    \/ FetchListFails(c) \/ StoreList(c)

BridgeNext ==
    \/ \E c \in Searchers : Search(c)
    \/ \E entry \in DOMAIN lists : ListExpires(entry)

BridgeSpec == BridgeInit /\ [][BridgeNext]_bridgeVars

\* The event loop comes back to every coroutine, and every request of the
\* client ends, be it by its timeout.
FairBridgeSpec == BridgeSpec /\ \A c \in Searchers : WF_bridgeVars(Search(c))

-----------------------------------------------------------------------------
\* The walks of n hops from the source, in a search's direction.
Walks(c, n) ==
    {walk \in [1..(n + 1) -> Library] :
        /\ walk[1] = Source[c]
        /\ \A k \in 1..n : \E j \in DOMAIN Kinds[c] : walk[k + 1] \in Linked(Kinds[c][j], walk[k])}

\* The neighbours that a search does not miss: of a longer list than one request
\* brings it reads a page, and nothing in the answer tells.
Sure(c, p) ==
    UNION {Linked(Kinds[c][j], p) :
             j \in {k \in DOMAIN Kinds[c] : Cardinality(Linked(Kinds[c][k], p)) <= ListLimit}}

\* The walks along such neighbours, and whether one of 1 to n hops leads to the target.
SureWalks(c, n) == {walk \in Walks(c, n) : \A k \in 1..n : walk[k + 1] \in Sure(c, walk[k])}

Bridged(c, n) == \E m \in 1..n : \E walk \in SureWalks(c, m) : walk[m + 1] = Target[c]

Done(c) == At(c, "done")
Found(c) == search[c].answer # <<>>
Hops(c) == Len(search[c].answer) - 1
Partial(c) == search[c].failures > 0

\* A path that is answered leads from the source to the target, each paper
\* linked to the next in the direction asked for, whether or not requests
\* failed and whatever other searches have put into the cache; and it is at most
\* one hop longer than MaxDepth (the last path extended has MaxDepth hops, and
\* the target may be a neighbour of its end).
PathsAreReal ==
    \A c \in Searchers : Found(c) =>
        /\ Hops(c) <= MaxDepth + 1
        /\ search[c].answer \in Walks(c, Hops(c))
        /\ Last(search[c].answer) = Target[c]

\* What an answer without the partial mark is worth.  As far as lists are not cut
\* by the size of a request, no walk is shorter than a path that is answered, and
\* {"found": false} is evidence that none of up to MaxDepth + 1 hops leads to the
\* target: a list another search failed to fetch never counts as empty, and one
\* that was cut never hides what another list has (docs/use/citation-graphs.md: "a
\* partial {"found": true} path is not guaranteed to be the shortest one").
CompleteIsTrue ==
    \A c \in Searchers : Done(c) /\ ~Partial(c) =>
        ~Bridged(c, IF Found(c) THEN Hops(c) - 1 ELSE MaxDepth + 1)

\* A path of find_bridge_papers is one in the literature, from source to target,
\* and an answer that is not marked partial is wrong only where a list was cut: no
\* walk along lists that fit one request is shorter, or there at all when none
\* was found.
PathsAreTrue == BridgeTypeOK /\ PathsAreReal /\ CompleteIsTrue

\* Every search ends.
SearchesEnd == \A c \in Searchers : <>Done(c)

=============================================================================
