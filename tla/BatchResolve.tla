----------------------------- MODULE BatchResolve -----------------------------
(***************************************************************************)
(* batch_resolve (src/scholar_mcp/_tools_utility.py): a list of papers,     *)
(* patents and ISBNs.  Three groups go to three upstreams; the papers to    *)
(* one batch request of Semantic Scholar, whose misses fall back to         *)
(* OpenAlex if they are DOIs.  The entries resolve concurrently under one   *)
(* gather and are put back in the caller's order by the index each carries. *)
(*                                                                         *)
(* gather ends with the first exception of an entry while the others run    *)
(* on.  The ISBN entry's own steps are those of module BookRecords.         *)
(***************************************************************************)
EXTENDS Naturals, Sequences, FiniteSets

CONSTANT Batches    \* the lists that are asked for: sequences of identifiers

\* kind: what the identifier is; form: what it looks like; key: which one.
BatchAssumption ==
    \A list \in Batches : \A i \in DOMAIN list :
        /\ DOMAIN list[i] = {"kind", "form", "key"}
        /\ list[i].kind \in {"paper", "doi", "patent", "isbn"}
        /\ list[i].kind \in {"doi", "patent", "isbn"} => list[i].form = list[i].kind

ASSUME BatchAssumption

VARIABLES
    ids,        \* identifiers
    groups,     \* _Groups
    batch,      \* where batch_resolve is
    entry,      \* the coroutine of each index
    works,      \* the openalex table: keys of its rows
    resolved    \* the answer

batchVars == <<ids, groups, batch, entry, works, resolved>>

NoEntry == [pc |-> "none", raw |-> [kind |-> "none", form |-> "none", key |-> "none"],
            doi |-> "none", met |-> FALSE, result |-> "none", of |-> "none"]

NoGroups == [papers |-> {}, patents |-> {}, isbns |-> {}, doiMap |-> <<>>]

BatchBegins(list, cached) ==
    /\ ids = list
    /\ groups = NoGroups
    /\ batch = "new"
    /\ entry = [i \in DOMAIN ids |-> NoEntry]
    /\ works = cached
    /\ resolved = <<>>

BatchInit ==
    \E list \in Batches :
        \E cached \in SUBSET {list[i].key : i \in {j \in DOMAIN list : list[j].kind = "doi"}} :
            BatchBegins(list, cached)

-----------------------------------------------------------------------------
\* is_patent_number: an authority's two letters and a digit.  The identifier's
\* form decides, and an S2 paper id of hexadecimal digits can have that form.
IsPatentNumber(id) == id.form = "patent"

\* normalize: a number of that form and nothing more.
Normalizes(id) == id.kind = "patent"

\* The positions of each group; the entries carry them, so the order of a group,
\* which is the list's, is left out.
IsbnsOf(list) == {i \in DOMAIN list : list[i].form = "isbn"}
PatentsOf(list) == {i \in DOMAIN list \ IsbnsOf(list) : IsPatentNumber(list[i])}
PapersOf(list) == DOMAIN list \ (IsbnsOf(list) \union PatentsOf(list))

\* Mutated Classify: the DOIs are counted within the papers.
ClassifyByRank(list) ==
    LET Rank(i) == Cardinality({j \in PapersOf(list) : j <= i})
        At(rank) == CHOOSE i \in PapersOf(list) : Rank(i) = rank
        Dois == {Rank(i) : i \in {j \in PapersOf(list) : list[j].form = "doi"}}
    IN [papers |-> PapersOf(list), patents |-> PatentsOf(list), isbns |-> IsbnsOf(list),
        doiMap |-> [rank \in Dois |-> list[At(rank)].key]]

\* _classify: the positions of each group, and the DOI of each DOI's position.
Classify(list) ==
    LET Dois == {i \in PapersOf(list) : list[i].form = "doi"}
    IN [papers |-> PapersOf(list), patents |-> PatentsOf(list), isbns |-> IsbnsOf(list),
        doiMap |-> [i \in Dois |-> list[i].key]]

\* doi_map.get(index)
DoiOf(map, i) == IF i \in DOMAIN map THEN map[i] ELSE "none"

\* The coroutine of one identifier; a paper comes with what S2 answered.
EntryOf(g, i, found) ==
    LET Starts(pc, met) == [pc |-> pc, raw |-> ids[i], doi |-> DoiOf(g.doiMap, i), met |-> met,
                            result |-> "none", of |-> "none"]
    IN CASE i \in g.papers -> Starts("paper", i \in found)
         [] i \in g.patents -> Starts("patent", FALSE)
         [] OTHER -> Starts("isbn", FALSE)

Group ==
    /\ batch = "new"
    /\ groups' = Classify(ids)
    /\ batch' = IF Classify(ids).papers = {} THEN "gather" ELSE "asking"
    /\ entry' = IF Classify(ids).papers = {}
                THEN [i \in DOMAIN ids |-> EntryOf(Classify(ids), i, {})] ELSE entry
    /\ UNCHANGED <<ids, works, resolved>>

\* S2's batch answers each paper in turn, or nothing: a refusal is the answer of
\* the whole call, a network error its exception.
S2Answers ==
    /\ batch = "asking"
    /\ \/ /\ batch' = "gather"
          /\ \E found \in SUBSET groups.papers :
                entry' = [i \in DOMAIN ids |-> EntryOf(groups, i, found)]
       \/ /\ batch' \in {"refused", "raised"}
          /\ UNCHANGED entry
    /\ UNCHANGED <<ids, groups, works, resolved>>

-----------------------------------------------------------------------------
(* The entries.                                                             *)

Ends(i, result, of) == entry' = [entry EXCEPT ![i].pc = "done", ![i].result = result, ![i].of = of]

NotFound(i) == Ends(i, "not_found", "none")

\* An exception leaves the entry; the first one is the gather's.
Raises(i) ==
    /\ entry' = [entry EXCEPT ![i].pc = "raised"]
    /\ batch' = IF batch = "gather" THEN "raised" ELSE batch

\* _resolve_paper, up to the cached work.
ResolvePaper(i) ==
    /\ entry[i].pc = "paper"
    /\ CASE entry[i].met -> Ends(i, "paper", entry[i].raw.key)
         [] ~entry[i].met /\ entry[i].doi = "none" -> NotFound(i)
         [] OTHER -> IF entry[i].doi \in works THEN Ends(i, "openalex", entry[i].doi)
                     ELSE entry' = [entry EXCEPT ![i].pc = "openalex"]
    /\ UNCHANGED <<ids, groups, batch, works, resolved>>

\* get_by_doi: no work for a 404 and for any error status; a network error
\* passes.
OpenAlexAnswers(i) ==
    /\ entry[i].pc = "openalex"
    /\ \/ entry' = [entry EXCEPT ![i].pc = "store"] /\ UNCHANGED batch
       \/ NotFound(i) /\ UNCHANGED batch
       \/ Raises(i)
    /\ UNCHANGED <<ids, groups, works, resolved>>

StoreWork(i) ==
    /\ entry[i].pc = "store"
    /\ works' = works \union {entry[i].doi}
    /\ Ends(i, "openalex", entry[i].doi)
    /\ UNCHANGED <<ids, groups, batch, resolved>>

\* Mutated ResolvePatent: only what EPO reports is caught.
ResolvePatentStrictly(i) ==
    /\ entry[i].pc = "patent"
    /\ \/ /\ IF Normalizes(entry[i].raw)
             THEN \/ Ends(i, "patent", entry[i].raw.key) \/ NotFound(i)
                  \/ Ends(i, "failed", "none")
             ELSE Ends(i, "invalid_patent_number", "none")
          /\ UNCHANGED batch
       \/ Normalizes(entry[i].raw) /\ Raises(i)
    /\ UNCHANGED <<ids, groups, works, resolved>>

\* _resolve_patent: EPO is not configured, the number does not parse, or EPO
\* answers, has no such document, reports a state, or fails in any other way;
\* the last two are one entry's failure.
ResolvePatent(i) ==
    /\ entry[i].pc = "patent"
    /\ \/ Ends(i, "failed", "none")
       \/ IF Normalizes(entry[i].raw)
          THEN Ends(i, "patent", entry[i].raw.key) \/ NotFound(i)
          ELSE Ends(i, "invalid_patent_number", "none")
    /\ UNCHANGED <<ids, groups, batch, works, resolved>>

\* _resolve_isbn: a cached or fetched book, none, or a network error.
ResolveIsbn(i) ==
    /\ entry[i].pc = "isbn"
    /\ \/ (Ends(i, "book", entry[i].raw.key) \/ NotFound(i)) /\ UNCHANGED batch
       \/ Raises(i)
    /\ UNCHANGED <<ids, groups, works, resolved>>

\* All entries are in: the answer is read back by index.
Collect ==
    /\ batch = "gather"
    /\ \A i \in DOMAIN ids : entry[i].pc = "done"
    /\ resolved' = [i \in DOMAIN ids |-> [identifier |-> entry[i].raw.key,
                                          result |-> entry[i].result, of |-> entry[i].of]]
    /\ batch' = "answered"
    /\ UNCHANGED <<ids, groups, entry, works>>

BatchNext ==
    \/ Group \/ S2Answers \/ Collect
    \/ \E i \in DOMAIN ids :
          \/ ResolvePaper(i) \/ OpenAlexAnswers(i) \/ StoreWork(i)
          \/ ResolvePatent(i) \/ ResolveIsbn(i)

BatchSpec == BatchInit /\ [][BatchNext]_batchVars

-----------------------------------------------------------------------------
\* "in the caller's original order": entry i is about identifier i, what it
\* holds is the record of that very identifier, and no coroutine asks or stores
\* a DOI that is not its own, however the list mixes the groups.
EntriesMatch ==
    /\ \A i \in DOMAIN resolved :
          /\ resolved[i].identifier = ids[i].key
          /\ resolved[i].of \in {"none", ids[i].key}
    /\ \A i \in DOMAIN ids :
          /\ entry[i].doi \in {"none", ids[i].key}
          /\ entry[i].result = "not_found" /\ ids[i].kind = "doi" =>
                entry[i].doi = ids[i].key

\* "degrades just this entry rather than failing the whole batch": a call that
\* fails has S2's, a paper's or a book's network error to blame, never a patent.
PatentsDegradeAlone ==
    batch = "raised" =>
        \/ groups.papers # {} /\ \A i \in DOMAIN ids : entry[i] = NoEntry
        \/ \E i \in groups.papers \union groups.isbns : entry[i].pc = "raised"

\* An answer has what each identifier has, in order, and fails only where it may.
BatchIsAnswered == EntriesMatch /\ PatentsDegradeAlone
=============================================================================
