----------------------------- MODULE BookRecords -----------------------------
(***************************************************************************)
(* Books: the tools of _tools_books.py, the book part of batch_resolve and  *)
(* of paper enrichment, over Open Library and Google Books.  One work has   *)
(* authors upstream; its editions, each with an ISBN, do not carry them.    *)
(* Every path stores what it built under the ISBN, some under the work too, *)
(* and any of its author lookups may come back empty-handed.                *)
(*                                                                         *)
(* A record is reduced to whether it names its authors.  The Open Library   *)
(* client answers a 404 and any error status alike with nothing, and lets   *)
(* network errors through; the Google client raises for both.               *)
(***************************************************************************)
EXTENDS Naturals, FiniteSets

CONSTANTS
    Readers,        \* calls that may overlap
    Isbns,          \* ISBNs of the work's editions
    FirstEdition,   \* the one that the work's first edition has
    BookPlans       \* what the calls ask, see BookKinds

VARIABLES
    isbnRow,    \* books_isbn
    workRow,    \* books_openlibrary, the work's row
    otherRow,   \* google_books, books_search and books_subject
    reader      \* the calls

bookVars == <<isbnRow, workRow, otherRow, reader>>

BookKinds == {"isbn", "edition", "work", "paper", "entry", "search", "excerpt", "subject"}

\* A row: nothing, a record without authors, a record with them.
BookRows == {"none", "bare", "named"}

\* What a request comes back with.
Answers == {"found", "missing", "refused", "raised"}

\* OpenLibraryClient: None, or an empty list, for an error status too.
OLNothing == {"missing", "refused"}

Record(named) == IF named THEN "named" ELSE "bare"

\* normalize_book: an edition carries no names of authors, a hit of a search does.
NormalizedNames(source) == source = "search"

\* A call: what it asks, where it is, whether the record in its hands names authors, and
\* (history) whether the work's row did when it began or when it came to store,
\* and has not expired since, and whether another call has lost them since it began.
NoCall(plan) == [kind |-> plan.kind, isbn |-> plan.isbn, pc |-> "begin", named |-> FALSE,
                 knew |-> FALSE, saw |-> FALSE, lost |-> FALSE, heard |-> FALSE, reply |-> "none"]

\* Some of the readers call, each with what it asks.
BookPlan == UNION {[S -> [kind : BookKinds, isbn : Isbns]] : S \in SUBSET Readers}

ASSUME BookPlansAssumption == BookPlans \subseteq BookPlan
ASSUME FirstEditionAssumption == FirstEdition \in Isbns

BooksBegin(plan) ==
    /\ isbnRow = [i \in Isbns |-> "none"]
    /\ workRow = "none"
    /\ otherRow = [t \in {"search", "excerpt", "subject"} |-> "none"]
    /\ reader = [r \in DOMAIN plan |-> NoCall(plan[r])]

BookInit == \E plan \in BookPlans : BooksBegin(plan)

Stands(r, pc) == reader[r].pc = pc
Is(r, kinds) == reader[r].kind \in kinds
Isbn(r) == reader[r].isbn

Goes(r, pc) == reader' = [reader EXCEPT ![r].pc = pc]
Replies(r, reply) == reader' = [reader EXCEPT ![r].pc = "over", ![r].reply = reply]

\* A lookup that found nothing: a paper is left without book metadata.
RepliesNothing(r) == Replies(r, IF Is(r, {"paper"}) THEN "plain" ELSE "not_found")

\* A network error: best effort for a paper, an error of every other call.
RepliesError(r) == Replies(r, IF Is(r, {"paper"}) THEN "plain" ELSE "error")

-----------------------------------------------------------------------------
(* Cached first.                                                            *)

Begin(r) ==
    /\ Stands(r, "begin")
    /\ reader' = [reader EXCEPT ![r].pc = "cache", ![r].knew = workRow = "named"]
    /\ UNCHANGED <<isbnRow, workRow, otherRow>>

\* The tables, each call of them a transaction.
GetByIsbn(i) == isbnRow[i]
SetByIsbn(i, named) == isbnRow' = [isbnRow EXCEPT ![i] = Record(named)]
GetByWork == workRow
SetByWork(named) == workRow' = Record(named)
GetBookSearch == otherRow["search"]
SetBookSearch(named) == otherRow' = [otherRow EXCEPT !["search"] = Record(named)]
GetBookSubject == otherRow["subject"]
SetBookSubject == otherRow' = [otherRow EXCEPT !["subject"] = Record(TRUE)]
GetGoogleBooks == otherRow["excerpt"]
SetGoogleBooks == otherRow' = [otherRow EXCEPT !["excerpt"] = Record(FALSE)]

\* The row that answers a call by itself; an edition id has none.
OwnRow(r) ==
    CASE Is(r, {"isbn", "paper", "entry"}) -> GetByIsbn(Isbn(r))
      [] Is(r, {"work"}) -> GetByWork
      [] Is(r, {"edition"}) -> "none"
      [] Is(r, {"search"}) -> GetBookSearch
      [] Is(r, {"subject"}) -> GetBookSubject
      [] OTHER -> GetGoogleBooks

ReadCache(r) ==
    /\ Stands(r, "cache")
    /\ IF OwnRow(r) = "none" THEN Goes(r, "fetch")
       ELSE reader' = [reader EXCEPT ![r].pc = "over", ![r].reply = "record",
                                     ![r].named = OwnRow(r) = "named"]
    /\ UNCHANGED <<isbnRow, workRow, otherRow>>

\* What a call does with Open Library's answer about its record.
Receives(r, answer, next, named) ==
    /\ CASE answer \in OLNothing -> RepliesNothing(r)
         [] answer = "raised" -> RepliesError(r)
         [] OTHER -> reader' = [reader EXCEPT ![r].pc = next, ![r].named = named]
    /\ UNCHANGED <<isbnRow, workRow, otherRow>>

\* get_by_isbn
FetchByIsbn(r, answer) ==
    /\ Stands(r, "fetch") /\ Is(r, {"isbn", "paper", "entry"})
    /\ Receives(r, answer, "fill", NormalizedNames("edition"))

\* get_edition
FetchEdition(r, answer) ==
    /\ Stands(r, "fetch") /\ Is(r, {"edition"})
    /\ Receives(r, answer, "fill", NormalizedNames("edition"))

\* get_work
FetchTheWork(r, answer) ==
    /\ Stands(r, "fetch") /\ Is(r, {"work"})
    /\ Receives(r, answer, "authors", FALSE)

-----------------------------------------------------------------------------
(* The authors of an edition (_book_enrichment.py).                         *)

\* Mutated FillFromCache: the cached work is not looked at.
FillFromNothing(r) ==
    /\ Stands(r, "fill")
    /\ Goes(r, IF Is(r, {"entry"}) THEN "store isbn" ELSE "work")
    /\ UNCHANGED <<isbnRow, workRow, otherRow>>

\* fill_authors_from_cache, which is all that a batch entry does.
FillFromCache(r) ==
    /\ Stands(r, "fill")
    /\ reader' = [reader EXCEPT
          ![r].named = GetByWork = "named",
          ![r].pc = CASE Is(r, {"entry"}) -> "store isbn"
                      [] GetByWork = "named" -> "enrich"
                      [] OTHER -> "work"]
    /\ UNCHANGED <<isbnRow, workRow, otherRow>>

\* enrich_authors_from_work asks for the work and, if it names any, for its
\* authors; whatever happens, the record goes on.
FetchWork(r, answer) ==
    /\ Stands(r, "work")
    /\ Goes(r, IF answer = "found" THEN "names" ELSE "enrich")
    /\ UNCHANGED <<isbnRow, workRow, otherRow>>

FetchNames(r, answer) ==
    /\ Stands(r, "names")
    /\ reader' = [reader EXCEPT ![r].named = answer = "found", ![r].pc = "enrich"]
    /\ UNCHANGED <<isbnRow, workRow, otherRow>>

\* _resolve_work: authors and first edition together; an author that could not
\* be fetched is left out, an exception of either ends the call.
FetchAuthors(r, answer) ==
    /\ Stands(r, "authors")
    /\ IF answer = "raised" THEN RepliesError(r)
       ELSE reader' = [reader EXCEPT ![r].named = answer = "found", ![r].pc = "enrich"]
    /\ UNCHANGED <<isbnRow, workRow, otherRow>>

\* The pipeline's book enrichers add links and never raise; a paper's record
\* skips them.
EnrichBook(r) ==
    /\ Stands(r, "enrich")
    /\ Goes(r, IF Is(r, {"work"}) THEN "put work" ELSE "store isbn")
    /\ UNCHANGED <<isbnRow, workRow, otherRow>>

-----------------------------------------------------------------------------
(* Storing: cache_book_record, or _resolve_work's own writes.               *)

StoreIsbn(r) ==
    /\ Stands(r, "store isbn")
    /\ SetByIsbn(Isbn(r), reader[r].named)
    /\ IF Is(r, {"entry"}) THEN Replies(r, "record")
       ELSE reader' = [reader EXCEPT
                ![r].saw = workRow = "named",
                ![r].pc = IF reader[r].named THEN "put work" ELSE "check work"]
    /\ UNCHANGED <<workRow, otherRow>>

\* Mutated CheckWork: a record without authors is stored all the same.
CheckWorkBlindly(r) ==
    /\ Stands(r, "check work")
    /\ Goes(r, "put work")
    /\ UNCHANGED <<isbnRow, workRow, otherRow>>

\* A record without authors is stored only if the work has no row.
CheckWork(r) ==
    /\ Stands(r, "check work")
    /\ IF GetByWork = "none" THEN Goes(r, "put work") ELSE Replies(r, "record")
    /\ UNCHANGED <<isbnRow, workRow, otherRow>>

\* A record without authors is put over one that has them.
LosesNames(r) == workRow = "named" /\ ~reader[r].named

PutDone(r) ==
    IF Is(r, {"work"}) THEN [reader[r] EXCEPT !.pc = "put isbn"]
    ELSE [reader[r] EXCEPT !.pc = "over", !.reply = "record"]

PutWork(r) ==
    /\ Stands(r, "put work")
    /\ SetByWork(reader[r].named)
    /\ reader' = [q \in DOMAIN reader |->
          IF q = r THEN PutDone(r)
          ELSE [reader[q] EXCEPT !.lost = @ \/ (LosesNames(r) /\ reader[q].knew)]]
    /\ UNCHANGED <<isbnRow, otherRow>>

\* The ISBN of the first edition, unless the editions could not be had.
PutFirstIsbn(r) ==
    /\ Stands(r, "put isbn")
    /\ SetByIsbn(FirstEdition, reader[r].named) \/ UNCHANGED isbnRow
    /\ Replies(r, "record")
    /\ UNCHANGED <<workRow, otherRow>>

-----------------------------------------------------------------------------
(* search_books, get_book_excerpt and recommend_books.                      *)

\* Mutated FetchExcerpt: a refused request is an answer like a 404.
FetchExcerptSwallowing(r, answer) ==
    /\ Stands(r, "fetch") /\ Is(r, {"excerpt"})
    /\ IF answer = "found"
       THEN SetGoogleBooks /\ Replies(r, "record")
       ELSE RepliesNothing(r) /\ UNCHANGED otherRow
    /\ UNCHANGED <<isbnRow, workRow>>

\* Google Books raises for all but an answer, and only "no such volume" is
\* reported as not_found.
FetchExcerpt(r, answer) ==
    /\ Stands(r, "fetch") /\ Is(r, {"excerpt"})
    /\ CASE answer = "found" ->
              SetGoogleBooks /\ Replies(r, "record")
         [] answer = "missing" ->
              /\ reader' = [reader EXCEPT ![r].pc = "over", ![r].reply = "not_found",
                                          ![r].heard = TRUE]
              /\ UNCHANGED otherRow
         [] OTHER -> RepliesError(r) /\ UNCHANGED otherRow
    /\ UNCHANGED <<isbnRow, workRow>>

\* search_books: the title search, the author's tokens when it is thin, then
\* free text when there is still nothing; whatever is left is stored.
SearchBooks(r, answer, retried) ==
    /\ Stands(r, "fetch") /\ Is(r, {"search"})
    /\ IF "raised" \in {answer, IF answer \in OLNothing THEN retried ELSE answer}
       THEN RepliesError(r) /\ UNCHANGED otherRow
       ELSE /\ SetBookSearch(NormalizedNames("search") /\ "found" \in {answer, retried})
            /\ Replies(r, "record")
    /\ UNCHANGED <<isbnRow, workRow>>

\* recommend_books: a subject that Open Library has nothing for is answered []
\* and not stored.
FetchSubject(r, answer) ==
    /\ Stands(r, "fetch") /\ Is(r, {"subject"})
    /\ CASE answer = "found" -> SetBookSubject /\ Replies(r, "record")
         [] answer = "raised" -> RepliesError(r) /\ UNCHANGED otherRow
         [] OTHER -> Replies(r, "record") /\ UNCHANGED otherRow
    /\ UNCHANGED <<isbnRow, workRow>>

-----------------------------------------------------------------------------
\* A row's TTL is over, or the cache is cleared of it.
BookExpires ==
    \/ /\ \E i \in Isbns : isbnRow[i] # "none" /\ isbnRow' = [isbnRow EXCEPT ![i] = "none"]
       /\ UNCHANGED <<workRow, otherRow, reader>>
    \/ /\ workRow # "none"
       /\ workRow' = "none"
       /\ reader' = [r \in DOMAIN reader |-> [reader[r] EXCEPT !.knew = FALSE, !.saw = FALSE]]
       /\ UNCHANGED <<isbnRow, otherRow>>

BookStep(r) ==
    \/ Begin(r) \/ ReadCache(r)
    \/ \E answer \in Answers :
          \/ FetchByIsbn(r, answer) \/ FetchEdition(r, answer)
          \/ FetchTheWork(r, answer) \/ FetchWork(r, answer)
          \/ FetchNames(r, answer) \/ FetchAuthors(r, answer)
          \/ FetchExcerpt(r, answer) \/ FetchSubject(r, answer)
          \/ \E retried \in Answers : SearchBooks(r, answer, retried)
    \/ FillFromCache(r) \/ EnrichBook(r)
    \/ StoreIsbn(r) \/ CheckWork(r) \/ PutWork(r) \/ PutFirstIsbn(r)

BookNext == (\E r \in DOMAIN reader : BookStep(r)) \/ BookExpires

BookSpec == BookInit /\ [][BookNext]_bookVars

-----------------------------------------------------------------------------
\* cache_book_record, "without losing known authors": a call never replaces the
\* work's authors by none if they were cached when it began or when it came to
\* store what it built, whichever of its lookups fail, unless they expired
\* meanwhile.
KnownAuthorsAreKept ==
    [][\A r \in DOMAIN reader :
         workRow = "named" /\ workRow' = "bare" /\ reader'[r].pc # reader[r].pc =>
            ~reader[r].knew /\ ~reader[r].saw]_bookVars

\* Nor does it answer or store an edition without them once it had to build the
\* record (fill_authors_from_cache), unless another call has put a record without
\* them in their place since.
KnownAuthorsAreUsed ==
    \A r \in DOMAIN reader :
        reader[r].knew /\ ~reader[r].lost /\ reader[r].pc \in {"store isbn", "check work", "put work"} =>
            reader[r].named

\* get_book_excerpt says not_found only when Google Books answered that it has
\* no such volume: a refusal is worth retrying.
NotFoundIsAnswered ==
    \A r \in DOMAIN reader :
        Is(r, {"excerpt"}) /\ reader[r].reply = "not_found" => reader[r].heard

\* What is answered makes use of what is cached, and tells absence from refusal.
BooksAreAnswered == KnownAuthorsAreUsed /\ NotFoundIsAnswered
=============================================================================
