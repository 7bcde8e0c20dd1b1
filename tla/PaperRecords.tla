----------------------------- MODULE PaperRecords -----------------------------
(***************************************************************************)
(* Papers and authors by identifier: resolve_paper (_paper_cache.py), the   *)
(* tools of _tools_search.py and _tools_recommendations.py, enrich_paper    *)
(* of _tools_utility.py, and the tables they share (_cache.py).  Calls      *)
(* overlap, rows expire at any time, aliases never do.                      *)
(*                                                                         *)
(* Two papers of Semantic Scholar, a preprint and its publication, are      *)
(* merged at some time: from then on every name of the first leads to the   *)
(* second.  An author has a list of publications, whose count S2 may        *)
(* overstate.  What a record holds besides its id is left out.              *)
(***************************************************************************)
EXTENDS Naturals, Sequences, FiniteSets, SequencesExt

CONSTANTS
    Askers,        \* calls that may overlap
    PaperPlans,     \* what they ask: a set of functions to [kind, name]
    Listed,         \* the author's publications as S2 lists them,
    Unlisted,       \* and how many more its paperCount says
    Limits          \* page sizes the author's readers use

PaperAssumption ==
    /\ Listed \in Nat /\ Unlisted \in Nat
    /\ Limits \subseteq Nat \ {0}

ASSUME PaperAssumption

VARIABLES
    merged,     \* S2 has merged the preprint
    papers,     \* the papers table: the id inside the row of each id
    aliases,    \* id_aliases
    author,     \* the authors table: whether the author's row is there
    openalex,   \* the openalex table: dois that have a row
    caller      \* the calls

paperVars == <<merged, papers, aliases, author, openalex, caller>>

Ids == {"preprint", "published"}
Names == Ids \union {"arxiv", "doi"}
NoId == "none"

\* The author's record at S2: the whole list, whatever limit the caller has.
Publications == [k \in 1..Listed |-> k]

PaperKinds == {"paper", "enrichment", "author", "search", "names", "recommendation"}

\* What S2 answers for a name now.
Upstream(name) ==
    IF name \in {"doi", "published"} \/ merged THEN "published" ELSE "preprint"

\* key: cached_id; id: the record in hand; offset, got: an author's reader.
NewCall(plan) == [kind |-> plan.kind, name |-> plan.name, pc |-> "begin", key |-> NoId,
                  id |-> NoId, reply |-> "none", offset |-> 0, got |-> <<>>]

PapersBegin(plan) ==
    /\ merged = FALSE
    /\ papers = [id \in Ids |-> NoId]
    /\ aliases = [n \in Names |-> NoId]
    /\ author = FALSE
    /\ openalex = {}
    /\ caller = [c \in Askers |-> NewCall(plan[c])]

PaperInit == \E plan \in PaperPlans : PapersBegin(plan)

Waits(c, pc) == caller[c].pc = pc
IsKind(c, kind) == caller[c].kind = kind
Name(c) == caller[c].name

MovesTo(c, pc) == caller' = [caller EXCEPT ![c].pc = pc]
Concludes(c, reply) == caller' = [caller EXCEPT ![c].pc = "over", ![c].reply = reply]

\* A 404 is not_found, any other status an upstream error with its code; a
\* network error is the call's exception.
Refusals == {"not_found", "upstream_error", "raised"}

\* What the client's one request can come to, for papers, names and recommendations;
\* only the first has a tool that tells a 404 from other errors.
SearchReplies == Refusals \union {"record"}
NameReplies == {"record", "upstream_error", "raised"}
RecommendReplies == NameReplies

-----------------------------------------------------------------------------
(* The tables, each call of them a transaction.                             *)

GetPaper(id) == IF id \in Ids THEN papers[id] ELSE NoId
SetPaper(id, record) == papers' = [papers EXCEPT ![id] = record]

GetAlias(name) == aliases[name]
SetAlias(name, id) == aliases' = [aliases EXCEPT ![name] = id]

GetAuthor == author
SetAuthor == author' = TRUE

GetOpenAlex(doi) == doi \in openalex
SetOpenAlex(doi) == openalex' = openalex \union {doi}

-----------------------------------------------------------------------------
(* resolve_paper.                                                           *)

ReadAlias(c) ==
    /\ Waits(c, "begin") /\ IsKind(c, "paper")
    /\ caller' = [caller EXCEPT
          ![c].pc = "row",
          ![c].key = IF GetAlias(Name(c)) = NoId THEN Name(c) ELSE GetAlias(Name(c))]
    /\ UNCHANGED <<merged, papers, aliases, author, openalex>>

ReadPaper(c) ==
    /\ Waits(c, "row")
    /\ IF GetPaper(caller[c].key) # NoId
       THEN caller' = [caller EXCEPT ![c].pc = "enrich", ![c].id = GetPaper(caller[c].key)]
       ELSE MovesTo(c, "fetch")
    /\ UNCHANGED <<merged, papers, aliases, author, openalex>>

\* Semantic Scholar is asked for the caller's identifier, not for the alias; a
\* record without an id is answered and not stored.
FetchPaper(c) ==
    /\ Waits(c, "fetch") /\ IsKind(c, "paper")
    /\ \/ caller' = [caller EXCEPT ![c].pc = "store", ![c].id = Upstream(Name(c))]
       \/ MovesTo(c, "enrich")
       \/ \E refusal \in Refusals : Concludes(c, refusal)
    /\ UNCHANGED <<merged, papers, aliases, author, openalex>>

\* Mutated StorePaper: the record is stored under the identifier that was read.
StorePaperAsAsked(c) ==
    /\ Waits(c, "store")
    /\ SetPaper(IF caller[c].key \in Ids THEN caller[c].key ELSE caller[c].id, caller[c].id)
    /\ MovesTo(c, IF Name(c) = caller[c].id THEN "enrich" ELSE "alias")
    /\ UNCHANGED <<merged, aliases, author, openalex>>

\* set_paper under the record's own id.
StorePaper(c) ==
    /\ Waits(c, "store")
    /\ SetPaper(caller[c].id, caller[c].id)
    /\ MovesTo(c, IF Name(c) = caller[c].id THEN "enrich" ELSE "alias")
    /\ UNCHANGED <<merged, aliases, author, openalex>>

StoreAlias(c) ==
    /\ Waits(c, "alias")
    /\ SetAlias(Name(c), caller[c].id)
    /\ MovesTo(c, "enrich")
    /\ UNCHANGED <<merged, papers, author, openalex>>

\* get_paper: the pipeline of module Enrichment never fails; access links are
\* added and the record is answered.
AnswerPaper(c) ==
    /\ Waits(c, "enrich")
    /\ Concludes(c, "record")
    /\ UNCHANGED <<merged, papers, aliases, author, openalex>>

-----------------------------------------------------------------------------
(* enrich_paper: the DOI of a name, then the OpenAlex work of the DOI.      *)

\* A DOI is asked for as it is; for another name S2 is asked, with its 429 as
\* rate_limited and every other status as not_found.
FindDoi(c) ==
    /\ Waits(c, "begin") /\ IsKind(c, "enrichment")
    /\ IF Name(c) = "doi" THEN MovesTo(c, "work")
       ELSE \/ MovesTo(c, "work")
            \/ \E error \in {"no_doi", "not_found", "rate_limited", "raised"} : Concludes(c, error)
    /\ UNCHANGED <<merged, papers, aliases, author, openalex>>

ReadWork(c) ==
    /\ Waits(c, "work")
    /\ IF GetOpenAlex("doi") THEN Concludes(c, "record") ELSE MovesTo(c, "ask work")
    /\ UNCHANGED <<merged, papers, aliases, author, openalex>>

\* get_by_doi answers nothing for any error status.
FetchOpenAlex(c) ==
    /\ Waits(c, "ask work")
    /\ MovesTo(c, "put work") \/ Concludes(c, "not_found_in_openalex") \/ Concludes(c, "raised")
    /\ UNCHANGED <<merged, papers, aliases, author, openalex>>

StoreOpenAlex(c) ==
    /\ Waits(c, "put work")
    /\ SetOpenAlex("doi")
    /\ Concludes(c, "record")
    /\ UNCHANGED <<merged, papers, aliases, author>>

-----------------------------------------------------------------------------
(* get_author, read page by page along next_offset.                         *)

Least(a, b) == IF a < b THEN a ELSE b

\* _covers_author_page
CoversPage(needed) == Len(Publications) >= Least(needed, Listed + Unlisted)

\* Mutated AuthorPage: more pages are promised from paperCount.
AuthorPageByCount(reader, limit) ==
    LET end == reader.offset + limit
        page == SubSeq(Publications, reader.offset + 1, Least(end, Listed))
    IN [reader EXCEPT !.got = @ \o page, !.offset = end,
                      !.pc = IF end < Listed + Unlisted THEN "begin" ELSE "over",
                      !.reply = IF page = <<>> THEN "empty" ELSE "page"]

\* _author_page: a slice of the list, and next_offset if it goes on.
AuthorPage(reader, limit) ==
    LET end == reader.offset + limit
        page == SubSeq(Publications, reader.offset + 1, Least(end, Listed))
    IN [reader EXCEPT !.got = @ \o page, !.offset = end,
                      !.pc = IF end < Listed THEN "begin" ELSE "over",
                      !.reply = IF page = <<>> THEN "empty" ELSE "page"]

\* The cached record, if it reaches far enough.
ReadAuthor(c, limit) ==
    /\ Waits(c, "begin") /\ IsKind(c, "author")
    /\ caller' = [caller EXCEPT ![c] =
          IF GetAuthor /\ CoversPage(caller[c].offset + limit) THEN AuthorPage(caller[c], limit)
          ELSE [caller[c] EXCEPT !.pc = "fetch"]]
    /\ UNCHANGED <<merged, papers, aliases, author, openalex>>

\* S2's record has all publications; it is stored, and the page is cut from it.
FetchAuthor(c, limit) ==
    /\ Waits(c, "fetch") /\ IsKind(c, "author")
    /\ \/ SetAuthor /\ caller' = [caller EXCEPT ![c] = AuthorPage(caller[c], limit)]
       \/ \E refusal \in Refusals : Concludes(c, refusal) /\ UNCHANGED author
    /\ UNCHANGED <<merged, papers, aliases, openalex>>

\* One request of S2, and nothing stored.  A search answers a 404 as not_found, ...
SearchPapers(c) ==
    /\ Waits(c, "begin") /\ IsKind(c, "search")
    /\ \E reply \in SearchReplies : Concludes(c, reply)
    /\ UNCHANGED <<merged, papers, aliases, author, openalex>>

\* ... a search for an author's name, like a recommendation, as any other status.
SearchAuthors(c) ==
    /\ Waits(c, "begin") /\ IsKind(c, "names")
    /\ \E reply \in NameReplies : Concludes(c, reply)
    /\ UNCHANGED <<merged, papers, aliases, author, openalex>>

\* Recommending from no paper is refused by the tool itself.
RecommendPapers(c) ==
    /\ Waits(c, "begin") /\ IsKind(c, "recommendation")
    /\ \E reply \in RecommendReplies \union {"validation_error"} : Concludes(c, reply)
    /\ UNCHANGED <<merged, papers, aliases, author, openalex>>

-----------------------------------------------------------------------------
\* S2 merges the preprint into its publication.
Merge ==
    /\ ~merged
    /\ merged' = TRUE
    /\ UNCHANGED <<papers, aliases, author, openalex, caller>>

\* A row's TTL is over, or cache clear removes it; aliases stay.
PaperExpires ==
    /\ \/ \E id \in Ids : papers' = [papers EXCEPT ![id] = NoId] /\ UNCHANGED <<author, openalex>>
       \/ author' = FALSE /\ UNCHANGED <<papers, openalex>>
       \/ openalex' = {} /\ UNCHANGED <<papers, author>>
    /\ UNCHANGED <<merged, aliases, caller>>

PaperCall(c) ==
    \/ ReadAlias(c) \/ ReadPaper(c) \/ FetchPaper(c) \/ StorePaper(c) \/ StoreAlias(c)
    \/ AnswerPaper(c)
    \/ FindDoi(c) \/ ReadWork(c) \/ FetchOpenAlex(c) \/ StoreOpenAlex(c)
    \/ \E limit \in Limits : ReadAuthor(c, limit) \/ FetchAuthor(c, limit)
    \/ SearchPapers(c) \/ SearchAuthors(c) \/ RecommendPapers(c)

PaperNext == (\E c \in Askers : PaperCall(c)) \/ Merge \/ PaperExpires

PaperSpec == PaperInit /\ [][PaperNext]_paperVars

-----------------------------------------------------------------------------
\* A call that can still store the merged preprint: it was at S2 before.
Behind(c) == Waits(c, "store") /\ caller[c].id = "preprint"

Gone == papers["preprint"] = NoId /\ \A c \in Askers : ~Behind(c)

\* Aliases have no TTL and may lead to an id that S2 has merged away; all the
\* same its record goes with its row.  Once that has expired, and no call from
\* before the merge is about to store it, no row brings it back.
MergedStaysGone ==
    [][merged /\ Gone => Gone']_paperVars

\* Following next_offset with any page sizes, from cached and fetched records in
\* turn, gives each listed publication once and in order, and no empty page.
AuthorPagesTile ==
    \A c \in Askers : IsKind(c, "author") =>
        /\ caller[c].got = [k \in DOMAIN caller[c].got |-> k]
        /\ caller[c].reply = "page" /\ Waits(c, "over") => Len(caller[c].got) = Listed
        /\ caller[c].reply = "empty" => Listed = 0
=============================================================================
