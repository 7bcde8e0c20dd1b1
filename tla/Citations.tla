------------------------------- MODULE Citations -------------------------------
(***************************************************************************)
(* generate_citations (src/scholar_mcp/_tools_citation.py): papers resolved *)
(* by one batch request, enriched, and written in one of three formats by   *)
(* _citation_formatter.py, which takes authors' names apart with            *)
(* _citation_names.py.                                                      *)
(*                                                                         *)
(* A name is a sequence of words; what matters of a word is whether it is a *)
(* particle ("van"), a suffix ("Jr.") or neither.  A word and a key are     *)
(* sequences of symbols, so that "li" and a letter meets the author "lia".  *)
(* Escaping, titles and abstracts are left out.                             *)
(***************************************************************************)
EXTENDS Naturals, Sequences, FiniteSets, SequencesExt

CONSTANTS
    Bibliographies, \* what is asked for: sequences of Papers
    MaxPapers,      \* papers of a call, 100 in the code
    Symbols,        \* what a key is written with
    Letters,        \* a to z, a sequence
    Numeral(_)      \* a number as it is written in a key

\* authors: names.  facts: what else the record has; more, book: what enrichers
\* can add, a venue or book_metadata with its authors.
Facts == {"year", "venue", "conference venue", "conference type", "arxiv", "doi", "pdf",
          "book", "isbn", "publisher", "edition"}

Words == [kind : {"word", "particle", "suffix"}, text : Seq(Symbols)]
Papers == [authors : Seq(Seq(Words)), facts : SUBSET Facts, more : SUBSET Facts, book : Seq(Seq(Words))]

CitationAssumption ==
    /\ \A list \in Bibliographies : list \in Seq(Papers)
    /\ MaxPapers \in Nat \ {0}
    /\ {"anon", "2020", "_"} \subseteq Symbols
    /\ Letters \in Seq(Symbols) /\ Letters # <<>>
    /\ \A i, j \in 0..(2 * MaxPapers) : Numeral(i) \in Symbols /\ (Numeral(i) = Numeral(j) => i = j)

VARIABLES
    wanted,     \* the papers asked for, as Semantic Scholar knows them
    format,     \* citation_format
    stage,      \* where the call is
    papers,     \* positions of those that are found and still to be written, in their order
    failed,     \* positions of those that were not found
    enriched,   \* positions of those that the pipeline has added to
    keys,       \* seen_keys
    entries     \* the output

citationVars == <<wanted, format, stage, papers, failed, enriched, keys, entries>>

Formats == {"bibtex", "csl-json", "ris"}

CitationsBegin(list, style) ==
    /\ wanted = list
    /\ format = style
    /\ stage = "asked"
    /\ papers = {}
    /\ failed = {}
    /\ enriched = {}
    /\ keys = {}
    /\ entries = <<>>

CitationInit == \E list \in Bibliographies, style \in Formats : CitationsBegin(list, style)

-----------------------------------------------------------------------------
(* Names (parse_author_name).                                               *)

Parts(first, prefix, last, suffix) ==
    [first |-> first, prefix |-> prefix, last |-> last, suffix |-> suffix]

\* The particles at the end of words, but for a first one that is all there is
\* of a given name.
ParticlesFrom(words) ==
    LET runs == {k \in 1..(Len(words) + 1) :
                    \A j \in k..Len(words) : words[j].kind = "particle"}
        start == CHOOSE k \in runs : \A j \in runs : k <= j
    IN IF start = 1 /\ words # <<>> THEN 2 ELSE start

\* Mutated ParseName: a suffix is taken off a name of one word too.
ParseNameToTheEnd(name) ==
    LET n == Len(name)
        suffixed == n >= 1 /\ name[n].kind = "suffix"
        rest == IF suffixed THEN Front(name) ELSE name
        given == IF rest = <<>> THEN <<>> ELSE Front(rest)
        from == ParticlesFrom(given)
    IN Parts(SubSeq(given, 1, from - 1), SubSeq(given, from, Len(given)),
             IF rest = <<>> THEN <<>> ELSE <<Last(rest)>>,
             IF suffixed THEN <<name[n]>> ELSE <<>>)

\* A suffix at the end, the surname before it, the particles before that; what is
\* left is the given name.  A single word is a surname, whatever it looks like.
ParseName(name) ==
    LET n == Len(name)
        suffixed == n >= 2 /\ name[n].kind = "suffix"
        rest == IF suffixed THEN Front(name) ELSE name
        given == IF rest = <<>> THEN <<>> ELSE Front(rest)
        from == ParticlesFrom(given)
    IN Parts(SubSeq(given, 1, from - 1), SubSeq(given, from, Len(given)),
             IF rest = <<>> THEN <<>> ELSE <<Last(rest)>>,
             IF suffixed THEN <<name[n]>> ELSE <<>>)

Surname(parts) == parts.prefix \o parts.last

\* A part that is empty is left out.
Piece(words) == IF words = <<>> THEN <<>> ELSE <<words>>

\* The texts between the commas of an author.  BibTeX has no author without a
\* surname, RIS none without any part.
BibtexAuthor(parts) ==
    IF Surname(parts) = <<>> THEN <<>>
    ELSE <<Surname(parts)>> \o Piece(parts.suffix) \o Piece(parts.first)

RisAuthor(parts) ==
    IF Surname(parts) \o parts.first \o parts.suffix = <<>> THEN <<>>
    ELSE <<Surname(parts)>> \o Piece(parts.first) \o Piece(parts.suffix)

\* CSL-JSON keeps the parts apart.
CslAuthor(parts) ==
    LET pieces == <<parts.last, parts.first, parts.prefix, parts.suffix>>
    IN IF \A k \in DOMAIN pieces : pieces[k] = <<>> THEN <<>> ELSE pieces

AuthorIn(style, parts) ==
    CASE style = "bibtex" -> BibtexAuthor(parts)
      [] style = "ris" -> RisAuthor(parts)
      [] style = "csl-json" -> CslAuthor(parts)

\* The places of the names of which something is written.
Authors(names, style) == {k \in DOMAIN names : AuthorIn(style, ParseName(names[k])) # <<>>}

-----------------------------------------------------------------------------
(* Entries.                                                                 *)

FactsAt(i) ==
    IF i \in enriched THEN wanted[i].facts \union wanted[i].more ELSE wanted[i].facts

Shows(facts, some) == facts \intersect some # {}

Venues == {"venue", "conference venue"}

\* infer_entry_type: what makes a book, a talk or a preprint, in this order.
EntryType(facts) ==
    LET IsBook == "book" \in facts /\ Shows(facts, {"isbn", "publisher"})
        IsTalk == Shows(facts, {"conference type", "conference venue"})
        IsPreprint == "arxiv" \in facts /\ ~Shows(facts, Venues)
    IN IF IsBook THEN "book" ELSE IF IsTalk THEN "inproceedings"
       ELSE IF IsPreprint THEN "misc" ELSE "article"

\* The authors of the record, else of its book_metadata if it is a book.
NamesAt(i, style) ==
    IF Authors(wanted[i].authors, style) = {} /\ EntryType(FactsAt(i)) = "book"
    THEN Authors(wanted[i].book, style)
    ELSE Authors(wanted[i].authors, style)

\* _paper_url
UrlField(facts) == IF Shows(facts, {"pdf", "doi"}) THEN {"url"} ELSE {}

\* The fields of each format; a book has no venue, and only a book a publisher.
BibtexFields(facts) ==
    (facts \intersect {"year", "doi", "arxiv"}) \union UrlField(facts) \union
    CASE EntryType(facts) = "book" -> facts \intersect {"publisher", "edition", "isbn"}
      [] EntryType(facts) = "inproceedings" /\ Shows(facts, Venues) -> {"container"}
      [] EntryType(facts) \in {"article", "misc"} /\ Shows(facts, Venues) -> {"container"}
      [] OTHER -> {}

CslFields(facts) ==
    LET IsBook == EntryType(facts) = "book"
    IN (facts \intersect {"year", "doi"}) \union UrlField(facts)
       \union (IF Shows(facts, Venues) /\ ~IsBook THEN {"container"} ELSE {})
       \union (IF IsBook THEN facts \intersect {"publisher", "isbn"} ELSE {})

RisFields(facts) ==
    (facts \intersect {"year", "doi"}) \union UrlField(facts) \union
    CASE EntryType(facts) = "book" -> facts \intersect {"publisher", "isbn"}
      [] EntryType(facts) # "book" /\ Shows(facts, Venues) -> {"container"}
      [] OTHER -> {}

\* The surname of the first author of the record, folded to ASCII (to nothing, for
\* some), and the year.
Base(i) ==
    LET last == IF wanted[i].authors = <<>> THEN <<>>
                ELSE ParseName(Head(wanted[i].authors)).last
    IN (IF last = <<>> THEN <<"anon">> ELSE Head(last).text) \o
       (IF "year" \in FactsAt(i) THEN <<"2020">> ELSE <<>>)

\* Mutated CitationKey: a letter is appended without a look at the other keys.
CitationKeyByCount(base) ==
    LET n == Cardinality({key \in keys : IsStrictPrefix(base, key)})
    IN IF base \notin keys THEN base ELSE base \o <<Letters[1 + (n % Len(Letters))]>>

\* generate_bibtex_key: the base, else the base with the first letter that is
\* free, else with the first number from the count of the keys on.
CitationKey(base) ==
    LET Lettered(k) == base \o <<Letters[k]>>
        Numbered(k) == base \o <<"_", Numeral(k)>>
        Free == {k \in DOMAIN Letters : Lettered(k) \notin keys}
        n == Cardinality(keys)
    IN IF base \notin keys THEN base
       ELSE IF Free # {} THEN Lettered(CHOOSE k \in Free : \A j \in Free : k <= j)
       ELSE Numbered(CHOOSE k \in n..(2 * n) :
                        /\ Numbered(k) \notin keys
                        /\ \A j \in n..(k - 1) : Numbered(j) \in keys)

-----------------------------------------------------------------------------
(* generate_citations.                                                      *)

\* No paper, or too many.
RefuseCitations ==
    /\ stage = "asked"
    /\ Len(wanted) \notin 1..MaxPapers
    /\ stage' = "refused"
    /\ UNCHANGED <<wanted, format, papers, failed, enriched, keys, entries>>

\* The batch request: papers in their order, and identifiers without one; or its
\* refusal, which is the answer, or a network error.
ResolvePapers ==
    /\ stage = "asked"
    /\ Len(wanted) \in 1..MaxPapers
    /\ \/ \E found \in SUBSET DOMAIN wanted :
             /\ papers' = found
             /\ failed' = DOMAIN wanted \ found
             /\ stage' = "found"
       \/ stage' \in {"refused", "raised"} /\ UNCHANGED <<papers, failed>>
    /\ UNCHANGED <<wanted, format, enriched, keys, entries>>

\* The pipeline (module Enrichment), if the caller wants it: each paper gets what
\* its enrichers had, or not.
EnrichPapers ==
    /\ stage = "found"
    /\ enriched' \in SUBSET {i \in papers : wanted[i].more # {}}
    /\ stage' = IF papers = {} THEN "none resolved" ELSE "writing"
    /\ UNCHANGED <<wanted, format, papers, failed, keys, entries>>

\* The paper that comes first in the request.
NextPaper == CHOOSE i \in papers : \A j \in papers : i <= j

\* The formatter's next entry; RIS has no keys.
WriteEntry ==
    /\ stage = "writing"
    /\ papers # {}
    /\ LET i == NextPaper
           key == CitationKey(Base(i))
           Entry(name) == [at |-> i, key |-> name, type |-> EntryType(FactsAt(i))]
       IN IF format = "ris"
          THEN entries' = Append(entries, Entry(<<>>)) /\ UNCHANGED keys
          ELSE entries' = Append(entries, Entry(key)) /\ keys' = keys \union {key}
    /\ papers' = papers \ {NextPaper}
    /\ UNCHANGED <<wanted, format, stage, failed, enriched>>

\* The entries, and a comment for each paper that was not found.
AnswerCitations ==
    /\ stage = "writing"
    /\ papers = {}
    /\ stage' = "answered"
    /\ UNCHANGED <<wanted, format, papers, failed, enriched, keys, entries>>

CitationNext ==
    RefuseCitations \/ ResolvePapers \/ EnrichPapers \/ WriteEntry \/ AnswerCitations

CitationSpec == CitationInit /\ [][CitationNext]_citationVars

-----------------------------------------------------------------------------
\* No two entries of an answer have one key, although a key with a letter or a
\* number may be another author's surname.
KeysAreUnique ==
    format # "ris" =>
        \A j, k \in DOMAIN entries : entries[j].key = entries[k].key => j = k

\* An answer has each paper asked for once, as an entry or as a failure, and the
\* entries in the order they were asked for.
EveryPaperIsTold ==
    stage = "answered" =>
        /\ {entries[k].at : k \in DOMAIN entries} = DOMAIN wanted \ failed
        /\ \A k \in 2..Len(entries) : entries[k - 1].at < entries[k].at

\* How BibTeX reads what stands between the commas.
BibtexReads(pieces) ==
    CASE Len(pieces) = 0 -> Parts(<<>>, <<>>, <<>>, <<>>)
      [] Len(pieces) = 1 -> Parts(<<>>, <<>>, pieces[1], <<>>)
      [] Len(pieces) = 2 -> Parts(pieces[2], <<>>, pieces[1], <<>>)
      [] OTHER -> Parts(pieces[3], <<>>, pieces[1], pieces[2])

\* Taking a name apart loses, repeats and moves no word of it and leaves a
\* surname, and what is written in BibTeX is read as the same name, unless it has
\* a suffix and no given name.
NamesSurvive ==
    \A i \in DOMAIN wanted : \A name \in Range(wanted[i].authors) :
        LET parts == ParseName(name)
            read == BibtexReads(BibtexAuthor(parts))
        IN /\ parts.first \o parts.prefix \o parts.last \o parts.suffix = name
           /\ name # <<>> => parts.last # <<>>
           /\ parts.suffix = <<>> \/ parts.first # <<>> =>
                 /\ read.first = parts.first /\ read.suffix = parts.suffix
                 /\ read.last = Surname(parts)

\* A paper has the same authors in each format, and the same fields but for those
\* that only BibTeX has.
FormatsAgree ==
    \A i \in DOMAIN wanted :
        /\ NamesAt(i, "bibtex") = NamesAt(i, "csl-json") /\ NamesAt(i, "ris") = NamesAt(i, "csl-json")
        /\ BibtexFields(FactsAt(i)) \ {"arxiv", "edition"} = CslFields(FactsAt(i))
        /\ RisFields(FactsAt(i)) = CslFields(FactsAt(i))

\* A bibliography can be used: its keys are unique, it is complete and in order,
\* and no name or field is lost on the way into any of the formats.
CitationsAreUsable == KeysAreUnique /\ EveryPaperIsTold /\ NamesSurvive /\ FormatsAgree
=============================================================================
