---------------------------- MODULE MCDocuments ----------------------------
(* The tools that answer documents: two calls on the PDF files, a reader of  *)
(* a text, a call for citations, two calls of the standards tools, or two     *)
(* for the full text of one standard.  They share nothing: a behaviour is of  *)
(* one world, the others stand still.                                         *)
EXTENDS MCPdfTools, TextWindow, Citations, StandardsLookup, FullText

CONSTANTS rfc, sp, css, svg, en, part, gone, cc, iso,
          broad,  \* a text that all sources match
          access, \* a text that both pages of W3C and ETSI match
          fuzzy   \* a way to write en

VARIABLE world

\* Where a reader of a text may begin, and how much it may ask for.
MCOffsets == {-1, 0, 2, 9}
MCSizes == {-2, 0, 1, 2, 5}

-----------------------------------------------------------------------------
(* A standard or two of each source.  rfc: IETF; sp: NIST; css, svg: W3C,    *)
(* one on each page of its list; en, part: ETSI, where a search for en lists *)
(* its part too; gone: an ETSI id that does not exist; cc: synced; iso: not. *)

Standard == {rfc, sp, css, svg, en, part, gone, cc, iso}
Unresolved == {broad, access, fuzzy}
SyncedOnly == {cc}

FetcherOf ==
    [i \in Standard |-> CASE i = rfc -> "IETF" [] i = sp -> "NIST" [] i \in {css, svg} -> "W3C"
                          [] i \in {en, part, gone} -> "ETSI" [] i = cc -> "local" [] i = iso -> "Relaton"]
LocalForm ==
    [k \in Standard \cup Unresolved |-> IF k = fuzzy THEN en ELSE IF k \in Standard \ {css, svg} THEN k ELSE NoRecord]
Matching ==
    [k \in Standard \cup Unresolved |-> CASE k = broad -> {rfc, sp, svg, en, cc}
                                       [] k = access -> {css, svg, part}
                                       [] k \in {en, fuzzy} -> {en, part}
                                       [] k = gone -> {}
                                       [] OTHER -> {k}]
TwoPages == <<{css}, {svg}>>

Search(text, body) == [tool |-> "search", text |-> text, body |-> body]
Resolve(text) == [tool |-> "resolve", text |-> text, body |-> "all"]
Get(text) == [tool |-> "get", text |-> text, body |-> "all"]
Both(w, v) == first :> w @@ second :> v

StandardQueries ==
    {Both(Search(broad, "all"), Search(broad, "NIST")),
     Both(Search(access, "W3C"), Search(access, "ETSI")),
     Both(Search(access, "W3C"), Search(css, "W3C")),
     Both(Search(sp, "NIST"), Get(sp)),
     Both(Resolve(fuzzy), Get(fuzzy)),
     Both(Resolve(css), Get(rfc)),
     Both(Get(css), Get(css)),
     Both(Get(gone), Resolve(access)),
     Both(Get(access), Get(cc)),
     Both(Get(iso), Get(iso)),
     Both(Get(rfc), Resolve(gone))}

-----------------------------------------------------------------------------
(* Citations: papers whose keys can meet, every name of up to four words, and  *)
(* every kind of entry.                                                        *)

Word(kind, letters) == [kind |-> kind, text |-> letters]
Li == <<Word("word", <<"li">>)>>
Lia == <<Word("word", <<"li", "a">>)>>
Folded == <<Word("word", <<>>)>>  \* no letter of it is ASCII

Listing(authors, facts, more_, book) ==
    [authors |-> authors, facts |-> facts, more |-> more_, book |-> book]

Names ==
    {[k \in DOMAIN kinds |-> Word(kinds[k], <<ToString(k)>>)] :
        kinds \in UNION {[1..n -> {"word", "particle", "suffix"}] : n \in 0..4}}

Meeting ==
    {Listing(authors, {}, {}, <<>>) : authors \in {<<Li>>, <<Lia>>, <<Folded>>, <<>>}}

Additions == {{}, {"venue"}, {"book"}, {"book", "isbn"}, {"book", "publisher", "edition"}}

AllBibliographies ==
    UNION {[1..n -> Meeting] : n \in 0..3}
    \union [1..4 -> {Listing(<<Li>>, {}, {}, <<>>), Listing(<<Lia>>, {}, {}, <<>>)}]
    \union {[k \in 1..5 |-> Listing(<<Li>>, {}, {}, <<>>)]}
    \union {<<Listing(<<name>>, {"year"}, {}, <<>>)>> : name \in Names}
    \union {<<Listing(authors, facts \union venue, extra, <<Lia>>)>> :
               authors \in {<<>>, <<Li>>}, facts \in SUBSET {"conference type", "arxiv", "doi", "pdf"},
               venue \in {{}, {"venue"}, {"conference venue"}}, extra \in Additions}

Texts == STRING
TwoLetters == <<"a", "b">>
Decimal(k) == ToString(k)

-----------------------------------------------------------------------------
ASSUME CitationsFit == CitationAssumption

all == <<world, vars, readerVars, citationVars, lookupVars, textVars>>

ReaderStandsStill == total = 0 /\ from = 0 /\ next = 0 /\ got = <<>> /\ more = FALSE

WorldInit ==
    /\ world \in {"files", "reader", "citations", "standards", "texts"}
    /\ Init
    /\ world # "files" => wish = (CHOOSE w \in Wishes : TRUE) /\ pdf = [p \in Paths |-> NoPdf]
    /\ IF world = "reader" THEN ReaderInit ELSE ReaderStandsStill
    /\ IF world = "citations" THEN CitationInit ELSE CitationsBegin(<<>>, "ris")
    /\ IF world = "texts" THEN TextInit ELSE TextBegins(FALSE, FALSE, [c \in Readers |-> FALSE])
    /\ LookupInit
    /\ world # "standards" => query = (CHOOSE w \in Queries : TRUE) /\ nist.disk = "none"

WorldNext ==
    \/ world = "files" /\ Next /\ UNCHANGED <<world, readerVars, citationVars, lookupVars, textVars>>
    \/ world = "reader" /\ ReaderNext /\ UNCHANGED <<world, vars, citationVars, lookupVars, textVars>>
    \/ world = "citations" /\ CitationNext /\ UNCHANGED <<world, vars, readerVars, lookupVars, textVars>>
    \/ world = "standards" /\ LookupNext /\ UNCHANGED <<world, vars, readerVars, citationVars, textVars>>
    \/ world = "texts" /\ TextNext /\ UNCHANGED <<world, vars, readerVars, citationVars, lookupVars>>

Progress(c) ==
    \/ world = "files" /\ Step(c) /\ UNCHANGED <<world, readerVars, citationVars, lookupVars, textVars>>
    \/ world = "standards" /\ LookupStep(c) /\ UNCHANGED <<world, vars, readerVars, citationVars, textVars>>

\* The fairness of PdfTools and StandardsLookup; no reader needs any.
WorldSpec == WorldInit /\ [][WorldNext]_all /\ WF_all(\E c \in Callers : Progress(c))

\* Every call ends: those on files again and again none is under way, those on
\* standards each (PdfTools, StandardsLookup).
EveryCallEnds ==
    /\ world = "files" => CallsEnd
    /\ world = "standards" => LookupsEnd
=============================================================================
