---------------------------- MODULE LookupProofs ----------------------------
(***************************************************************************)
(* Proofs about the lookups that answer a tool call: the enrichment of      *)
(* records, papers and their caches, books and their authors, and batches   *)
(* of identifiers; for any records, calls that overlap, lists and answers.  *)
(***************************************************************************)
EXTENDS Enrichment, PaperRecords, BookRecords, BatchResolve, SequenceTheorems, TLAPS

-----------------------------------------------------------------------------
(* Enrichment: the pipeline's promise, for any records, fields and degree of  *)
(* concurrency.  What makes it inductive is why a field can be missing whose   *)
(* phase has begun: its task is under way, or its own enricher gave up.        *)

EnrichmentTypeOK ==
    /\ phase \in {"new", "first", "second", "over", "cancelled"}
    /\ tasks \in [Pairs -> Stages]
    /\ DOMAIN fields = Records

\* No task is under way but in a phase, and none has been before the first.
Quiet ==
    /\ phase = "new" => \A pair \in Pairs : tasks[pair] = "none"
    /\ phase \in {"over", "cancelled"} => PhaseEnded

\* The tasks of the other phase: not started, or over.
Phased ==
    \A pair \in Pairs :
        /\ phase = "first" /\ PhaseOf(pair[1]) = "second" => tasks[pair] = "none"
        /\ phase = "second" /\ PhaseOf(pair[1]) = "first" => tasks[pair] \in {"none", "done"}

\* Its phase has begun, and the call is not cancelled.
PhaseBegun(pair) == phase \in {PhaseOf(pair[1]), "second", "over"}

\* An enricher that fits a record when its phase has begun is at work on it, or
\* has filled its field, or had nothing to put in.
Attended ==
    \A pair \in Pairs :
        PhaseBegun(pair) /\ TagOf(pair[1]) = tags /\ CanEnrich(pair[1], fields[pair[2]]) =>
            \/ tasks[pair] \notin {"none", "done"}
            \/ FieldOf[pair[1]] \in fields[pair[2]]
            \/ pair \in empty

EnrichmentInv == EnrichmentTypeOK /\ Quiet /\ Phased /\ Attended

-----------------------------------------------------------------------------
\* A task is a pair of an enricher, of one phase or the other, and a record.
LEMMA PairParts ==
    ASSUME NEW pair \in Pairs
    PROVE pair[1] \in Enrichers /\ pair[2] \in Records /\ PhaseOf(pair[1]) \in {"first", "second"}
BY DEF Pairs, PhaseOf

\* What enrichers put in is nothing any of them needs: a record that fits one now
\* fitted it before.
LEMMA FittedBefore ==
    ASSUME NEW e \in Enrichers, NEW other \in Enrichers, NEW record,
           CanEnrich(e, record \union {FieldOf[other]})
    PROVE CanEnrich(e, record)
<1>1. FieldOf[other] \in {"crossref_metadata", "venue", "standard_metadata", "book_metadata", "google_books_url"}
  <2>1. other \in {"crossref", "openalex", "standards", "openlibrary", "google_books"}
    BY DEF Enrichers
  <2> QED BY <2>1 DEF FieldOf
<1>2. \A needed \in {"doi", "isbn", "standard_title"} : needed \in record \union {FieldOf[other]} => needed \in record
  BY <1>1
<1>3. FieldOf[e] \notin record \union {FieldOf[other]} => FieldOf[e] \notin record
  OBVIOUS
<1> QED BY <1>2, <1>3 DEF CanEnrich

\* A move of one task changes that task only.
LEMMA MovesOne ==
    ASSUME EnrichmentTypeOK, NEW pair \in Pairs, NEW stage \in Stages, Moves(pair, stage)
    PROVE /\ tasks' \in [Pairs -> Stages] /\ tasks'[pair] = stage
          /\ \A other \in Pairs : other # pair => tasks'[other] = tasks[other]
BY DEF EnrichmentTypeOK, Moves

\* The start of the pipeline satisfies the invariant.
LEMMA EnrichmentStarts == EnrichmentInit => EnrichmentInv
<1> SUFFICES ASSUME NEW tag \in {"papers", "books"}, NEW given \in Given,
                    NEW cached, EnrichmentBegins(tag, given, cached)
             PROVE EnrichmentInv
  BY DEF EnrichmentInit
<1>1. given \in [Records -> SUBSET {"doi", "isbn", "standard_title", "venue"}]
  BY EnrichmentAssumption DEF EnrichmentAssumption
<1>2. phase = "new" /\ \A pair \in Pairs : ~PhaseBegun(pair)
  BY PairParts DEF EnrichmentBegins, PhaseBegun
<1> QED BY <1>1, <1>2 DEF EnrichmentBegins, EnrichmentInv, EnrichmentTypeOK, Quiet, Phased, Attended, Stages

\* A phase starts only once the last one is gathered, and with its own tasks.
LEMMA PhaseKeeps ==
    ASSUME EnrichmentInv, NEW n \in {"first", "second"}, StartPhase(n)
    PROVE EnrichmentInv'
<1>1. \A pair \in Pairs : tasks[pair] \in {"none", "done"}
  BY DEF StartPhase, PhaseEnded
<1>2. \A pair \in Pairs : /\ tasks'[pair] \in {"queued", "none"}
                          /\ tasks'[pair] = "queued" => PhaseOf(pair[1]) = n
  BY DEF StartPhase, Chosen
<1>3. tasks' \in [Pairs -> Stages]
  BY DEF StartPhase, Stages
<1>4. EnrichmentTypeOK'
  BY <1>3 DEF EnrichmentInv, EnrichmentTypeOK, StartPhase
<1>5. Quiet' BY DEF Quiet, StartPhase
<1>6. Phased' BY <1>2, PairParts DEF Phased, StartPhase
<1>7. Attended'
  <2> SUFFICES ASSUME NEW pair \in Pairs, PhaseBegun(pair)', TagOf(pair[1]) = tags',
                      CanEnrich(pair[1], fields'[pair[2]])
               PROVE \/ tasks'[pair] \notin {"none", "done"}
                     \/ FieldOf[pair[1]] \in fields'[pair[2]]
                     \/ pair \in empty'
    BY DEF Attended, PhaseBegun
  <2>1. tags' = tags /\ fields' = fields /\ empty' = empty /\ phase' = n
    BY DEF StartPhase
  <2>2. CASE PhaseOf(pair[1]) = n
    <3>1. pair \in Chosen(n) BY <2>1, <2>2 DEF Chosen
    <3> QED BY <3>1 DEF StartPhase
  <2>3. CASE PhaseOf(pair[1]) # n
    <3>1. PhaseBegun(pair)
      BY <2>1, <2>3, PairParts DEF PhaseBegun, StartPhase
    <3> QED BY <1>1, <2>1, <3>1 DEF EnrichmentInv, Attended
  <2> QED BY <2>2, <2>3
<1> QED BY <1>4, <1>5, <1>6, <1>7 DEF EnrichmentInv

\* So does every step of a task.
LEMMA TaskKeeps ==
    ASSUME EnrichmentInv, NEW pair \in Pairs, RunOne(pair)
    PROVE EnrichmentInv'
<1> USE DEF EnrichmentInv, EnrichmentTypeOK
<1>1. phase \in {"first", "second"}
  BY DEF Quiet, PhaseEnded, RunOne, Admit, LookUp, UpstreamAnswers, EnricherFails, MayRaise, StoreAnswer, Fill, FillsNothing
<1>2. tasks[pair] \notin {"none", "done"} /\ phase' = phase
  BY DEF RunOne, Admit, LookUp, UpstreamAnswers, EnricherFails, MayRaise, StoreAnswer, Fill, FillsNothing
<1>3. PICK stage \in Stages \ {"none", "queued"} : Moves(pair, stage)
  BY DEF RunOne, Admit, LookUp, UpstreamAnswers, EnricherFails, MayRaise, StoreAnswer, Fill, FillsNothing, Stages
<1>4. /\ tasks' \in [Pairs -> Stages] /\ tasks'[pair] = stage
      /\ \A other \in Pairs : other # pair => tasks'[other] = tasks[other]
  BY <1>3, MovesOne
<1>5. PhaseOf(pair[1]) = phase
  BY <1>1, <1>2, PairParts DEF Phased
<1>6. EnrichmentTypeOK'
  BY <1>2, <1>4 DEF RunOne, Admit, LookUp, UpstreamAnswers, EnricherFails, MayRaise, StoreAnswer, Fill, FillsNothing
<1>7. Quiet' BY <1>1, <1>2 DEF Quiet
<1>8. Phased' BY <1>1, <1>2, <1>4, <1>5 DEF Phased
<1>9. ASSUME NEW other \in Pairs, CanEnrich(other[1], fields'[other[2]])
      PROVE /\ CanEnrich(other[1], fields[other[2]])
            /\ FieldOf[other[1]] \in fields[other[2]] => FieldOf[other[1]] \in fields'[other[2]]
  <2>1. pair[1] \in Enrichers /\ other[1] \in Enrichers /\ other[2] \in Records
    BY PairParts
  <2>2. fields'[other[2]] = fields[other[2]] \/ fields'[other[2]] = fields[other[2]] \union {FieldOf[pair[1]]}
    BY <2>1 DEF RunOne, Admit, LookUp, UpstreamAnswers, EnricherFails, MayRaise, StoreAnswer, Fill, FillsNothing
  <2> QED BY <1>9, <2>1, <2>2, FittedBefore
<1>10. tags' = tags /\ empty \subseteq empty'
  BY DEF RunOne, Admit, LookUp, UpstreamAnswers, EnricherFails, MayRaise, StoreAnswer, Fill, FillsNothing
<1>11. \/ stage # "done"
       \/ FieldOf[pair[1]] \in fields'[pair[2]]
       \/ pair \in empty'
  <2>1. pair[2] \in Records /\ tasks[pair] \in Stages BY PairParts
  <2> QED BY <1>4, <2>1
          DEF RunOne, Admit, LookUp, UpstreamAnswers, EnricherFails, MayRaise, StoreAnswer, Fill, FillsNothing, Moves
<1>12. Attended'
  <2> SUFFICES ASSUME NEW other \in Pairs, PhaseBegun(other)', TagOf(other[1]) = tags',
                      CanEnrich(other[1], fields'[other[2]])
               PROVE \/ tasks'[other] \notin {"none", "done"}
                     \/ FieldOf[other[1]] \in fields'[other[2]]
                     \/ other \in empty'
    BY DEF Attended, PhaseBegun
  <2>1. CASE other = pair BY <1>3, <1>4, <1>11, <2>1
  <2>2. CASE other # pair
    <3>1. PhaseBegun(other) BY <1>2 DEF PhaseBegun
    <3> QED BY <1>4, <1>9, <1>10, <2>2, <3>1 DEF Attended
  <2> QED BY <2>1, <2>2
<1> QED BY <1>6, <1>7, <1>8, <1>12

\* Every step keeps the invariant.
LEMMA EnrichmentStep ==
    ASSUME EnrichmentInv, [EnrichmentNext]_enrichmentVars
    PROVE EnrichmentInv'
<1>1. CASE \E n \in {"first", "second"} : StartPhase(n)
  BY <1>1, PhaseKeeps
<1>2. CASE \E pair \in Pairs : RunOne(pair)
  BY <1>2, TaskKeeps
<1>3. CASE HandBack
  <2>0. \A pair \in Pairs : PhaseBegun(pair)
    BY <1>3 DEF HandBack, PhaseBegun
  <2>1. EnrichmentTypeOK' /\ Quiet' /\ Phased' /\ Attended'
    BY <1>3, <2>0 DEF HandBack, EnrichmentInv, EnrichmentTypeOK, Quiet, PhaseEnded, Phased, Attended, PhaseBegun
  <2> QED BY <2>1 DEF EnrichmentInv
<1>4. CASE CancelCall
  <2>1. \A pair \in Pairs : tasks'[pair] \in {"none", "done"}
    BY <1>4 DEF CancelCall
  <2>2. EnrichmentTypeOK'
    BY <1>4 DEF CancelCall, EnrichmentInv, EnrichmentTypeOK, Stages
  <2>3. phase' = "cancelled"
    BY <1>4 DEF CancelCall
  <2>4. Quiet' /\ Phased'
    BY <2>1, <2>3 DEF Quiet, PhaseEnded, Phased
  <2>5. Attended'
    BY <2>3, PairParts DEF Attended, PhaseBegun
  <2> QED BY <2>2, <2>4, <2>5 DEF EnrichmentInv
<1>5. CASE UNCHANGED enrichmentVars
  BY <1>5 DEF enrichmentVars, EnrichmentInv, EnrichmentTypeOK, Quiet, PhaseEnded, Phased, Attended, PhaseBegun
<1> QED BY <1>1, <1>2, <1>3, <1>4, <1>5 DEF EnrichmentNext

\* The invariant says what the pipeline promises.
LEMMA EnrichmentImplies == EnrichmentInv => EnrichmentIsContained
<1> SUFFICES ASSUME EnrichmentInv PROVE EnrichmentIsContained
  OBVIOUS
<1> USE DEF EnrichmentInv, EnrichmentTypeOK
<1>1. phase \in {"over", "cancelled"} => PhaseEnded
  BY DEF Quiet
<1>2. ASSUME phase = "over", NEW pair \in Pairs, TagOf(pair[1]) = tags, CanEnrich(pair[1], fields[pair[2]])
      PROVE FieldOf[pair[1]] \in fields[pair[2]] \/ pair \in empty
  BY <1>1, <1>2 DEF Attended, PhaseBegun, PhaseEnded
<1>3. ASSUME NEW second \in Running, PhaseOf(second[1]) = "second"
      PROVE \A pair \in Pairs : PhaseOf(pair[1]) = "first" => tasks[pair] \in {"none", "done"}
  <2>1. second \in Pairs /\ tasks[second] \notin {"none", "done"}
    BY <1>3 DEF Running
  <2>2. phase = "second"
    BY <1>1, <1>3, <2>1 DEF Quiet, Phased, PhaseEnded
  <2> QED BY <2>2 DEF Phased
<1> QED BY <1>1, <1>2, <1>3 DEF EnrichmentIsContained

\* Whatever fails and whoever cancels, for any number of records and any degree of
\* concurrency: a field that an enricher of the call could still fill when it is
\* over is missing only through that enricher, no task writes after that, and the
\* phases never overlap.
THEOREM EnrichmentContained == EnrichmentSpec => []EnrichmentIsContained
<1>1. EnrichmentSpec => []EnrichmentInv
  BY EnrichmentStarts, EnrichmentStep, PTL DEF EnrichmentSpec
<1> QED BY <1>1, EnrichmentImplies, PTL

-----------------------------------------------------------------------------
(* Papers: a merged paper whose row has gone is not stored again, and an      *)
(* author's pages tile the list of publications, for any number of            *)
(* overlapping calls, any list and any page sizes.                            *)

CallFields == {"kind", "name", "pc", "key", "id", "reply", "offset", "got"}

\* Each call keeps its fields, and each paper's row its place.
Shaped ==
    /\ DOMAIN papers = Ids
    /\ DOMAIN caller = Askers
    /\ \A c \in Askers : DOMAIN caller[c] = CallFields

\* What one call's step leaves of the others.
OthersStay(c) == \A d \in Askers : d # c => caller'[d] = caller[d]

-----------------------------------------------------------------------------
\* What replacing one call's record does.
LEMMA Replaced ==
    ASSUME Shaped, NEW c \in Askers, NEW r, DOMAIN r = CallFields,
           caller' = [caller EXCEPT ![c] = r]
    PROVE /\ DOMAIN caller' = Askers /\ caller'[c] = r /\ OthersStay(c)
          /\ \A d \in Askers : DOMAIN caller'[d] = CallFields
BY DEF Shaped, OthersStay

LEMMA Moved ==
    ASSUME Shaped, NEW c \in Askers, NEW pc, MovesTo(c, pc)
    PROVE /\ DOMAIN caller' = Askers /\ OthersStay(c)
          /\ caller'[c] = [caller[c] EXCEPT !.pc = pc]
          /\ \A d \in Askers : DOMAIN caller'[d] = CallFields
<1> DEFINE r == [caller[c] EXCEPT !.pc = pc]
<1>1. DOMAIN r = CallFields BY DEF Shaped
<1>2. caller' = [caller EXCEPT ![c] = r] BY DEF MovesTo
<1> HIDE DEF r
<1>3. /\ DOMAIN caller' = Askers /\ caller'[c] = r /\ OthersStay(c)
      /\ \A d \in Askers : DOMAIN caller'[d] = CallFields
  BY <1>1, <1>2, Replaced
<1> QED BY <1>3 DEF r

LEMMA Concluded ==
    ASSUME Shaped, NEW c \in Askers, NEW reply, Concludes(c, reply)
    PROVE /\ DOMAIN caller' = Askers /\ OthersStay(c)
          /\ caller'[c] = [caller[c] EXCEPT !.pc = "over", !.reply = reply]
          /\ \A d \in Askers : DOMAIN caller'[d] = CallFields
<1> DEFINE r == [caller[c] EXCEPT !.pc = "over", !.reply = reply]
<1>1. DOMAIN r = CallFields BY DEF Shaped
<1>2. caller' = [caller EXCEPT ![c] = r] BY DEF Concludes
<1> HIDE DEF r
<1>3. /\ DOMAIN caller' = Askers /\ caller'[c] = r /\ OthersStay(c)
      /\ \A d \in Askers : DOMAIN caller'[d] = CallFields
  BY <1>1, <1>2, Replaced
<1> QED BY <1>3 DEF r

LEMMA PageShape ==
    ASSUME NEW open, DOMAIN open = CallFields, NEW limit
    PROVE /\ DOMAIN AuthorPage(open, limit) = CallFields
          /\ AuthorPage(open, limit).kind = open.kind
          /\ AuthorPage(open, limit).pc \in {"begin", "over"}
BY DEF AuthorPage, CallFields

\* A step of a call keeps its kind and the shape of all; only FetchPaper brings
\* a call to StorePaper, and only StorePaper writes a paper's row.
LEMMA CallStep ==
    ASSUME Shaped, NEW c \in Askers, PaperCall(c)
    PROVE /\ Shaped' /\ OthersStay(c)
          /\ caller'[c].kind = caller[c].kind
          /\ caller'[c].pc = "store" => FetchPaper(c) /\ caller'[c].id = Upstream(Name(c))
          /\ papers' = papers \/ StorePaper(c)
<1> DEFINE Goal == /\ DOMAIN caller' = Askers /\ OthersStay(c)
                   /\ \A d \in Askers : DOMAIN caller'[d] = CallFields
                   /\ caller'[c].kind = caller[c].kind
                   /\ caller'[c].pc = "store" => FetchPaper(c) /\ caller'[c].id = Upstream(Name(c))
<1>1. DOMAIN caller[c] = CallFields BY DEF Shaped
<1>2. ASSUME NEW pc, pc # "store", MovesTo(c, pc) PROVE Goal
  <2>1. /\ DOMAIN caller' = Askers /\ OthersStay(c)
        /\ caller'[c] = [caller[c] EXCEPT !.pc = pc]
        /\ \A d \in Askers : DOMAIN caller'[d] = CallFields
    BY <1>2, Moved
  <2>2. caller'[c].kind = caller[c].kind /\ caller'[c].pc = pc
    BY <1>1, <2>1 DEF CallFields
  <2> QED BY <1>2, <2>1, <2>2
<1>3. ASSUME NEW reply, Concludes(c, reply) PROVE Goal
  <2>1. /\ DOMAIN caller' = Askers /\ OthersStay(c)
        /\ caller'[c] = [caller[c] EXCEPT !.pc = "over", !.reply = reply]
        /\ \A d \in Askers : DOMAIN caller'[d] = CallFields
    BY <1>3, Concluded
  <2>2. caller'[c].kind = caller[c].kind /\ caller'[c].pc = "over"
    BY <1>1, <2>1 DEF CallFields
  <2> QED BY <2>1, <2>2
<1>4. ASSUME NEW r, DOMAIN r = CallFields, r.kind = caller[c].kind, r.pc # "store",
             caller' = [caller EXCEPT ![c] = r]
      PROVE Goal
  BY <1>4, Replaced
<1>5. ASSUME ReadAlias(c) PROVE Goal
  <2> DEFINE k == IF GetAlias(Name(c)) = NoId THEN Name(c) ELSE GetAlias(Name(c))
             r == [caller[c] EXCEPT !.pc = "row", !.key = k]
  <2>1. DOMAIN r = CallFields /\ r.kind = caller[c].kind /\ r.pc # "store"
    BY <1>1 DEF CallFields
  <2>2. caller' = [caller EXCEPT ![c] = r]
    BY <1>5 DEF ReadAlias
  <2> QED BY <1>4, <2>1, <2>2
<1>6. ASSUME ReadPaper(c) PROVE Goal
  <2> DEFINE r == [caller[c] EXCEPT !.pc = "enrich", !.id = GetPaper(caller[c].key)]
  <2>1. CASE GetPaper(caller[c].key) # NoId
    <3>1. DOMAIN r = CallFields /\ r.kind = caller[c].kind /\ r.pc # "store"
      BY <1>1 DEF CallFields
    <3>2. caller' = [caller EXCEPT ![c] = r]
      BY <1>6, <2>1 DEF ReadPaper
    <3> QED BY <1>4, <3>1, <3>2
  <2>2. CASE ~(GetPaper(caller[c].key) # NoId)
    BY <1>2, <1>6, <2>2 DEF ReadPaper
  <2> QED BY <2>1, <2>2
<1>7. ASSUME FetchPaper(c) PROVE Goal
  <2> DEFINE u == Upstream(Name(c))
             r == [caller[c] EXCEPT !.pc = "store", !.id = u]
  <2>1. CASE caller' = [caller EXCEPT ![c].pc = "store", ![c].id = u]
    <3>1. DOMAIN r = CallFields /\ r.kind = caller[c].kind /\ r.id = u
      BY <1>1 DEF CallFields
    <3>2. caller' = [caller EXCEPT ![c] = r]
      BY <2>1
    <3>3. /\ DOMAIN caller' = Askers /\ caller'[c] = r /\ OthersStay(c)
          /\ \A d \in Askers : DOMAIN caller'[d] = CallFields
      BY <3>1, <3>2, Replaced
    <3> QED BY <1>7, <3>1, <3>3
  <2> QED BY <1>2, <1>3, <1>7, <2>1 DEF FetchPaper
<1>8. ASSUME StorePaper(c) PROVE Goal
  <2>1. CASE Name(c) = caller[c].id BY <1>2, <1>8, <2>1 DEF StorePaper
  <2>2. CASE Name(c) # caller[c].id BY <1>2, <1>8, <2>2 DEF StorePaper
  <2> QED BY <2>1, <2>2
<1>9. ASSUME StoreAlias(c) \/ AnswerPaper(c) PROVE Goal
  BY <1>2, <1>3, <1>9 DEF StoreAlias, AnswerPaper
<1>10. ASSUME FindDoi(c) \/ ReadWork(c) PROVE Goal
  <2>1. \/ MovesTo(c, "work") \/ MovesTo(c, "ask work")
        \/ \E reply \in {"no_doi", "not_found", "rate_limited", "raised", "record"} : Concludes(c, reply)
    BY <1>10 DEF FindDoi, ReadWork
  <2> QED BY <1>2, <1>3, <2>1
<1>11. ASSUME FetchOpenAlex(c) \/ StoreOpenAlex(c) PROVE Goal
  BY <1>2, <1>3, <1>11 DEF FetchOpenAlex, StoreOpenAlex
<1>12. ASSUME NEW limit \in Limits, ReadAuthor(c, limit) PROVE Goal
  <2>1. CASE caller' = [caller EXCEPT ![c] = AuthorPage(caller[c], limit)]
    BY <1>1, <1>4, <2>1, PageShape
  <2>2. CASE caller' = [caller EXCEPT ![c] = [caller[c] EXCEPT !.pc = "fetch"]]
    BY <1>2, <2>2 DEF MovesTo
  <2> QED BY <1>12, <2>1, <2>2 DEF ReadAuthor
<1>13. ASSUME NEW limit \in Limits, FetchAuthor(c, limit) PROVE Goal
  <2>1. CASE caller' = [caller EXCEPT ![c] = AuthorPage(caller[c], limit)]
    BY <1>1, <1>4, <2>1, PageShape
  <2> QED BY <1>3, <1>13, <2>1 DEF FetchAuthor
<1>14. ASSUME SearchPapers(c) \/ SearchAuthors(c) \/ RecommendPapers(c) PROVE Goal
  BY <1>3, <1>14 DEF SearchPapers, SearchAuthors, RecommendPapers
<1>15. Goal
  BY <1>5, <1>6, <1>7, <1>8, <1>9, <1>10, <1>11, <1>12, <1>13, <1>14 DEF PaperCall
<1>16. papers' = papers \/ StorePaper(c)
  BY DEF PaperCall, ReadAlias, ReadPaper, FetchPaper, StoreAlias, AnswerPaper, FindDoi,
         ReadWork, FetchOpenAlex, StoreOpenAlex, ReadAuthor, FetchAuthor, SearchPapers,
         SearchAuthors, RecommendPapers
<1>17. DOMAIN papers' = Ids
  BY <1>16 DEF Shaped, StorePaper, SetPaper
<1> QED BY <1>15, <1>16, <1>17 DEF Shaped

\* The shape holds at the start and through every step.
LEMMA ShapeStarts == PaperInit => Shaped
BY DEF PaperInit, PapersBegin, NewCall, Shaped, CallFields

LEMMA ShapeStep == Shaped /\ [PaperNext]_paperVars => Shaped'
<1> SUFFICES ASSUME Shaped, [PaperNext]_paperVars PROVE Shaped'
  OBVIOUS
<1>1. CASE \E c \in Askers : PaperCall(c) BY <1>1, CallStep
<1>2. CASE Merge \/ UNCHANGED paperVars BY <1>2 DEF Merge, paperVars, Shaped
<1>3. CASE PaperExpires BY <1>3 DEF PaperExpires, Shaped
<1> QED BY <1>1, <1>2, <1>3 DEF PaperNext

-----------------------------------------------------------------------------
\* After the merge a request gives the publication, so nothing new can store the
\* preprint, and what is stored under another id leaves its row alone.
LEMMA GoneStays ==
    ASSUME Shaped, [PaperNext]_paperVars, merged, Gone
    PROVE Gone'
<1>1. CASE \E c \in Askers : PaperCall(c)
  <2> PICK c \in Askers : PaperCall(c) BY <1>1
  <2>1. /\ Shaped' /\ OthersStay(c)
        /\ caller'[c].pc = "store" => FetchPaper(c) /\ caller'[c].id = Upstream(Name(c))
        /\ papers' = papers \/ StorePaper(c)
    BY CallStep
  <2>2. Upstream(Name(c)) # "preprint" BY DEF Upstream
  <2>3. papers'["preprint"] = NoId
    <3>1. CASE StorePaper(c)
      <4>1. caller[c].id # "preprint" BY <3>1 DEF Gone, Behind, StorePaper
      <4>2. papers' = [papers EXCEPT ![caller[c].id] = caller[c].id]
        BY <3>1 DEF StorePaper, SetPaper
      <4> QED BY <4>1, <4>2 DEF Gone, Shaped, Ids
    <3> QED BY <2>1, <3>1 DEF Gone
  <2>4. ASSUME NEW d \in Askers PROVE ~Behind(d)'
    <3>1. CASE d = c BY <2>1, <2>2, <3>1 DEF Behind, Waits
    <3>2. CASE d # c BY <2>1, <3>2 DEF Behind, Waits, OthersStay, Gone
    <3> QED BY <3>1, <3>2
  <2> QED BY <2>3, <2>4 DEF Gone
<1>2. CASE Merge BY <1>2 DEF Merge
<1>3. CASE PaperExpires
  <2>1. papers'["preprint"] = NoId
    BY <1>3 DEF PaperExpires, Gone, Shaped, Ids
  <2> QED BY <1>3, <2>1 DEF PaperExpires, Gone, Behind, Waits
<1>4. CASE UNCHANGED paperVars BY <1>4 DEF paperVars, Gone, Behind, Waits
<1> QED BY <1>1, <1>2, <1>3, <1>4 DEF PaperNext

\* Once the row of a merged paper is gone, and nobody from before the merge is
\* about to store it, it never comes back, whoever asks by whatever name.
THEOREM MergedStays == PaperSpec => MergedStaysGone
<1>1. Shaped /\ [PaperNext]_paperVars => [merged /\ Gone => Gone']_paperVars
  BY GoneStays
<1> QED BY <1>1, ShapeStarts, ShapeStep, PTL DEF PaperSpec, MergedStaysGone

-----------------------------------------------------------------------------
\* A reader has the publications before its offset, and goes on while there are
\* more.
ReaderOK(r) ==
    /\ r.pc \in {"begin", "fetch", "over"}
    /\ r.offset \in Nat
    /\ r.got = [k \in 1..Least(r.offset, Listed) |-> k]
    /\ r.pc # "over" => r.offset = 0 \/ r.offset < Listed
    /\ r.pc = "over" /\ r.reply = "page" => r.offset >= Listed
    /\ r.reply = "empty" => Listed = 0

ReadersOK == \A c \in Askers : IsKind(c, "author") => ReaderOK(caller[c])

\* The next page continues what the reader has.
LEMMA PageContinues ==
    ASSUME NEW from \in Nat, NEW limit \in Nat \ {0}, from = 0 \/ from < Listed
    PROVE LET page == SubSeq(Publications, from + 1, Least(from + limit, Listed))
          IN /\ [k \in 1..Least(from, Listed) |-> k] \o page
                  = [k \in 1..Least(from + limit, Listed) |-> k]
             /\ page = <<>> => Listed = 0
<1> USE PaperAssumption DEF PaperAssumption
<1> DEFINE end == Least(from + limit, Listed)
           page == SubSeq(Publications, from + 1, end)
           got == [k \in 1..from |-> k]
<1>1. end \in Nat /\ from <= end /\ end <= Listed /\ (end = from => Listed = 0)
  BY DEF Least
<1>2. Least(from, Listed) = from BY DEF Least
<1>3. /\ got \in Seq(Nat) /\ Len(got) = from
      /\ \A k \in 1..from : got[k] = k
  BY SMT
<1>4. /\ page \in Seq(Nat) /\ Len(page) = end - from
      /\ \A k \in 1..(end - from) : page[k] = from + k
  <2>1. page = [k \in 1..(end - from) |-> from + k]
    BY <1>1 DEF Publications
  <2> HIDE DEF page
  <2> QED BY <1>1, <2>1
<1>5. /\ [k \in 1..end |-> k] \in Seq(Nat) /\ Len([k \in 1..end |-> k]) = end
      /\ \A k \in 1..end : [m \in 1..end |-> m][k] = k
  BY <1>1
<1> DEFINE whole == [k \in 1..end |-> k]
<1> HIDE DEF page, got, end, whole
<1>6. /\ got \o page \in Seq(Nat) /\ Len(got \o page) = Len(got) + Len(page)
      /\ \A i \in 1..Len(got) + Len(page) :
            (got \o page)[i] = IF i <= Len(got) THEN got[i] ELSE page[i - Len(got)]
  BY <1>3, <1>4, ConcatProperties, Zenon
<1>7. whole \in Seq(Nat) /\ Len(whole) = end /\ \A k \in 1..end : whole[k] = k
  BY <1>5 DEF whole
<1>8. Len(got \o page) = end
  BY <1>1, <1>3, <1>4, <1>6
<1>9. ASSUME NEW i \in 1..end PROVE (got \o page)[i] = i
  <2>1. i \in Nat /\ i \in 1..(Len(got) + Len(page)) /\ i >= 1 /\ i <= end
    BY <1>1, <1>3, <1>4
  <2>2. CASE i <= from
    <3>1. i \in 1..from BY <2>1, <2>2
    <3> QED BY <1>3, <1>6, <2>1, <2>2, <3>1
  <2>3. CASE ~(i <= from)
    <3>1. i - from \in 1..(end - from) /\ from + (i - from) = i BY <1>1, <2>1, <2>3
    <3>2. (got \o page)[i] = page[i - from] BY <1>3, <1>6, <2>1, <2>3
    <3>3. page[i - from] = from + (i - from) BY <1>4, <3>1
    <3> QED BY <3>1, <3>2, <3>3
  <2> QED BY <2>2, <2>3
<1>10. got \o page = whole
  BY <1>6, <1>7, <1>8, <1>9, SeqEqual, Zenon
<1>11. page = <<>> => Listed = 0
  <2>1. page = <<>> => Len(page) = 0 BY EmptySeq, Zenon
  <2> QED BY <1>1, <1>4, <2>1
<1> QED BY <1>2, <1>10, <1>11 DEF got, page, end, whole

LEMMA PageKeepsReader ==
    ASSUME NEW r, DOMAIN r = CallFields, ReaderOK(r), r.pc # "over", NEW limit \in Limits
    PROVE ReaderOK(AuthorPage(r, limit))
<1> USE PaperAssumption DEF PaperAssumption
<1> DEFINE next == AuthorPage(r, limit)
           page == SubSeq(Publications, r.offset + 1, Least(r.offset + limit, Listed))
<1>1. /\ r.offset \in Nat /\ limit \in Nat \ {0} /\ (r.offset = 0 \/ r.offset < Listed)
      /\ r.got = [k \in 1..Least(r.offset, Listed) |-> k]
  BY DEF ReaderOK
<1>2. /\ r.got \o page = [k \in 1..Least(r.offset + limit, Listed) |-> k]
      /\ page = <<>> => Listed = 0
  BY <1>1, PageContinues
<1>3. next = [r EXCEPT !.got = r.got \o page, !.offset = r.offset + limit,
                       !.pc = IF r.offset + limit < Listed THEN "begin" ELSE "over",
                       !.reply = IF page = <<>> THEN "empty" ELSE "page"]
  BY DEF AuthorPage
<1> HIDE DEF next, page
<1>4. /\ next.got = r.got \o page /\ next.offset = r.offset + limit
      /\ next.pc = IF r.offset + limit < Listed THEN "begin" ELSE "over"
      /\ next.reply = IF page = <<>> THEN "empty" ELSE "page"
  BY <1>3 DEF CallFields
<1>5. next.got = [k \in 1..Least(next.offset, Listed) |-> k]
  BY <1>2, <1>4
<1>6. next.offset \in Nat /\ next.pc \in {"begin", "over"}
  BY <1>1, <1>4
<1>7. /\ next.pc # "over" => next.offset < Listed
      /\ next.pc = "over" => next.offset >= Listed
  BY <1>1, <1>4
<1>8. next.reply = "empty" => Listed = 0
  BY <1>2, <1>4
<1> QED BY <1>5, <1>6, <1>7, <1>8 DEF ReaderOK, next

\* Of a reader's call only the steps of get_author are ever enabled.
LEMMA ReaderSteps ==
    ASSUME Shaped, ReadersOK, NEW c \in Askers, IsKind(c, "author"), PaperCall(c)
    PROVE \E limit \in Limits : ReadAuthor(c, limit) \/ FetchAuthor(c, limit)
<1>1. caller[c].kind = "author" /\ caller[c].pc \in {"begin", "fetch", "over"}
  BY DEF ReadersOK, ReaderOK, IsKind
<1> QED BY <1>1 DEF PaperCall, ReadAlias, ReadPaper, FetchPaper, StorePaper, StoreAlias,
           AnswerPaper, FindDoi, ReadWork, FetchOpenAlex, StoreOpenAlex, SearchPapers,
           SearchAuthors, RecommendPapers, Waits, IsKind

LEMMA ReadersStep ==
    ASSUME Shaped, ReadersOK, [PaperNext]_paperVars
    PROVE ReadersOK'
<1>1. ASSUME NEW c \in Askers, PaperCall(c) PROVE ReadersOK'
  <2>1. OthersStay(c) /\ caller'[c].kind = caller[c].kind
    BY <1>1, CallStep
  <2>2. ASSUME IsKind(c, "author") PROVE ReaderOK(caller'[c])
    <3>1. PICK limit \in Limits : ReadAuthor(c, limit) \/ FetchAuthor(c, limit)
      BY <1>1, <2>2, ReaderSteps
    <3>2. ReaderOK(caller[c]) /\ DOMAIN caller[c] = CallFields /\ caller[c].pc # "over"
      BY <2>2, <3>1 DEF ReadersOK, Shaped, ReadAuthor, FetchAuthor, Waits
    <3>3. CASE caller' = [caller EXCEPT ![c] = AuthorPage(caller[c], limit)]
      <4>1. ReaderOK(AuthorPage(caller[c], limit)) BY <3>2, PageKeepsReader
      <4>2. caller'[c] = AuthorPage(caller[c], limit) BY <3>3 DEF Shaped
      <4> QED BY <4>1, <4>2
    <3>4. CASE caller' = [caller EXCEPT ![c] = [caller[c] EXCEPT !.pc = "fetch"]]
      <4> DEFINE r == [caller[c] EXCEPT !.pc = "fetch"]
      <4>1. /\ r.pc = "fetch" /\ r.offset = caller[c].offset /\ r.got = caller[c].got
            /\ r.reply = caller[c].reply
        BY <3>2 DEF CallFields
      <4>2. caller'[c] = r BY <3>4 DEF Shaped
      <4> HIDE DEF r
      <4> QED BY <3>2, <4>1, <4>2 DEF ReaderOK
    <3>5. CASE \E refusal \in Refusals : Concludes(c, refusal)
      <4> PICK refusal \in Refusals : Concludes(c, refusal) BY <3>5
      <4> DEFINE r == [caller[c] EXCEPT !.pc = "over", !.reply = refusal]
      <4>1. /\ r.pc = "over" /\ r.offset = caller[c].offset /\ r.got = caller[c].got
            /\ r.reply = refusal
        BY <3>2 DEF CallFields
      <4>2. caller'[c] = r BY Concluded
      <4>3. refusal # "page" /\ refusal # "empty" BY DEF Refusals
      <4> HIDE DEF r
      <4> QED BY <3>2, <4>1, <4>2, <4>3 DEF ReaderOK
    <3> QED BY <3>1, <3>3, <3>4, <3>5 DEF ReadAuthor, FetchAuthor
  <2>3. ASSUME NEW d \in Askers, IsKind(d, "author")' PROVE ReaderOK(caller'[d])
    <3>1. CASE d = c BY <2>1, <2>2, <2>3, <3>1 DEF IsKind
    <3>2. CASE d # c BY <2>1, <2>3, <3>2 DEF IsKind, OthersStay, ReadersOK
    <3> QED BY <3>1, <3>2
  <2> QED BY <2>3 DEF ReadersOK, ReaderOK
<1>2. CASE caller' = caller BY <1>2 DEF ReadersOK, ReaderOK, IsKind
<1> QED BY <1>1, <1>2 DEF PaperNext, Merge, PaperExpires, paperVars

LEMMA ReadersStart == PaperInit => ReadersOK
<1> SUFFICES ASSUME PaperInit, NEW c \in Askers PROVE ReaderOK(caller[c])
  BY DEF ReadersOK
<1>1. /\ caller[c].pc = "begin" /\ caller[c].offset = 0 /\ caller[c].reply = "none"
      /\ caller[c].got = <<>>
  BY DEF PaperInit, PapersBegin, NewCall
<1>2. Least(0, Listed) = 0 BY PaperAssumption DEF PaperAssumption, Least
<1>3. [k \in 1..0 |-> k] = <<>> OBVIOUS
<1> QED BY <1>1, <1>2, <1>3 DEF ReaderOK

\* Whatever the list, what paperCount says of it, the page sizes and the calls
\* around it: an author's pages give each publication once and in order.
THEOREM AuthorPagesDoTile == PaperSpec => []AuthorPagesTile
<1>1. ReadersOK => AuthorPagesTile
  <2> SUFFICES ASSUME ReadersOK, NEW c \in Askers, IsKind(c, "author")
               PROVE /\ caller[c].got = [k \in DOMAIN caller[c].got |-> k]
                     /\ caller[c].reply = "page" /\ Waits(c, "over")
                            => Len(caller[c].got) = Listed
                     /\ caller[c].reply = "empty" => Listed = 0
    BY DEF AuthorPagesTile
  <2> USE PaperAssumption DEF PaperAssumption
  <2> DEFINE n == Least(caller[c].offset, Listed)
  <2>1. ReaderOK(caller[c]) /\ caller[c].got = [k \in 1..n |-> k] /\ n \in Nat
    BY DEF ReadersOK, ReaderOK, Least
  <2>2. caller[c].got = [k \in DOMAIN caller[c].got |-> k] /\ Len(caller[c].got) = n
    BY <2>1
  <2>3. caller[c].reply = "page" /\ Waits(c, "over") => n = Listed
    BY <2>1 DEF ReaderOK, Waits, Least
  <2> QED BY <2>1, <2>2, <2>3 DEF ReaderOK
<1> QED BY <1>1, ShapeStarts, ShapeStep, ReadersStart, ReadersStep, PTL DEF PaperSpec

-----------------------------------------------------------------------------
(* Books: a call that knew the authors of a work does not lose them, however  *)
(* many calls about its editions overlap.  The invariant says what each       *)
(* place of a call tells of what it knew and of the work's row.               *)

BookFields == {"kind", "isbn", "pc", "named", "knew", "saw", "lost", "heard", "reply"}

\* Where only calls about an edition or a work come, and only those about an edition.
Building == {"fill", "work", "names", "authors", "enrich", "store isbn", "check work", "put work", "put isbn"}
OfEdition == {"fill", "work", "names", "store isbn", "check work"}
Builders == {"isbn", "edition", "paper", "entry", "work"}

\* A call k next to the work's row.
BookCallOK(k, row) ==
    /\ DOMAIN k = BookFields
    /\ k.knew \/ k.saw => row # "none"
    /\ k.knew /\ ~k.lost => row = "named"
    /\ k.pc = "begin" => ~k.knew /\ ~k.saw /\ ~k.lost
    /\ k.pc = "put work" /\ ~k.named => ~k.knew /\ ~k.saw
    /\ k.kind = "work" => ~k.saw
    /\ k.kind = "work" /\ k.pc \in Building \cup {"fetch"} => ~k.knew
    /\ k.pc \in {"work", "names"} => ~(k.knew /\ ~k.lost)
    /\ k.pc \in {"enrich", "store isbn", "check work", "put work"} /\ k.knew /\ ~k.lost => k.named
    /\ k.pc \in OfEdition => k.kind \in Builders \ {"work"}
    /\ k.pc \in Building => k.kind \in Builders
    /\ k.pc = "authors" => k.kind = "work"
    /\ k.kind = "excerpt" /\ k.reply = "not_found" => k.heard

BooksInv == \A r \in DOMAIN reader : BookCallOK(reader[r], workRow)

\* A step of one call that leaves the work's row.
LEMMA OneBookCall ==
    ASSUME BooksInv, NEW r \in DOMAIN reader, NEW k, BookCallOK(k, workRow),
           reader' = [reader EXCEPT ![r] = k], workRow' = workRow
    PROVE BooksInv'
BY DEF BooksInv

\* A lookup that ends without a record.
LEMMA EndsBookCall ==
    ASSUME BooksInv, NEW r \in DOMAIN reader, NEW reply,
           Replies(r, reply), workRow' = workRow,
           reader[r].kind = "excerpt" => reply # "not_found"
    PROVE BooksInv'
<1> DEFINE k == [reader[r] EXCEPT !.pc = "over", !.reply = reply]
<1>1. BookCallOK(reader[r], workRow)
  BY DEF BooksInv
<1>2. BookCallOK(k, workRow)
  BY <1>1 DEF BookCallOK, BookFields, Building, OfEdition
<1>3. reader' = [reader EXCEPT ![r] = k]
  BY DEF Replies
<1> HIDE DEF k
<1> QED BY <1>2, <1>3, OneBookCall

LEMMA ReceivesKeeps ==
    ASSUME BooksInv, NEW r \in DOMAIN reader, NEW answer, NEW next \in {"fill", "authors"},
           Stands(r, "fetch"), Receives(r, answer, next, FALSE),
           reader[r].kind \in Builders, next = "authors" <=> reader[r].kind = "work"
    PROVE BooksInv'
<1>1. workRow' = workRow
  BY DEF Receives
<1>2. CASE RepliesNothing(r) \/ RepliesError(r)
  <2>1. reader[r].kind # "excerpt"
    BY DEF Builders
  <2> QED BY <1>1, <1>2, <2>1, EndsBookCall DEF RepliesNothing, RepliesError
<1>3. CASE reader' = [reader EXCEPT ![r].pc = next, ![r].named = FALSE]
  <2> DEFINE k == [reader[r] EXCEPT !.pc = next, !.named = FALSE]
  <2>1. BookCallOK(reader[r], workRow) /\ reader[r].pc = "fetch"
    BY DEF BooksInv, Stands
  <2>2. BookCallOK(k, workRow)
    BY <2>1 DEF BookCallOK, BookFields, Building, OfEdition, Builders
  <2>3. reader' = [reader EXCEPT ![r] = k]
    BY <1>3
  <2> HIDE DEF k
  <2> QED BY <1>1, <2>2, <2>3, OneBookCall
<1> QED BY <1>2, <1>3 DEF Receives

\* A call that goes on to another place, with or without names.
LEMMA MovesBookCall ==
    ASSUME BooksInv, NEW r \in DOMAIN reader, NEW pc, NEW named, workRow' = workRow,
           reader' = [reader EXCEPT ![r] = [reader[r] EXCEPT !.pc = pc, !.named = named]],
           BookCallOK([reader[r] EXCEPT !.pc = pc, !.named = named], workRow)
    PROVE BooksInv'
BY OneBookCall

LEMMA BookStepKeeps ==
    ASSUME BooksInv, NEW r \in DOMAIN reader, BookStep(r)
    PROVE /\ BooksInv'
          /\ workRow = "named" /\ workRow' = "bare" =>
                /\ ~reader[r].knew /\ ~reader[r].saw
                /\ \A q \in DOMAIN reader : q # r => reader'[q].pc = reader[q].pc
<1> DEFINE c == reader[r]
<1> DEFINE Goal == BooksInv' /\ workRow' = workRow
<1>1. BookCallOK(c, workRow) /\ DOMAIN c = BookFields
  BY DEF BooksInv, BookCallOK
<1>2. ASSUME NEW k, BookCallOK(k, workRow), reader' = [reader EXCEPT ![r] = k], workRow' = workRow
      PROVE Goal
  BY <1>2, OneBookCall
<1>3. ASSUME Begin(r) PROVE Goal
  <2> DEFINE k == [c EXCEPT !.pc = "cache", !.knew = workRow = "named"]
  <2>1. c.pc = "begin" /\ workRow' = workRow /\ reader' = [reader EXCEPT ![r] = k]
    BY <1>3 DEF Begin, Stands
  <2>2. BookCallOK(k, workRow)
    BY <1>1, <2>1 DEF BookCallOK, BookFields, Building, OfEdition
  <2> HIDE DEF k
  <2> QED BY <1>2, <2>1, <2>2
<1>4. ASSUME ReadCache(r) PROVE Goal
  <2>1. c.pc = "cache" /\ workRow' = workRow
    BY <1>4 DEF ReadCache, Stands
  <2>2. CASE OwnRow(r) = "none"
    <3> DEFINE k == [c EXCEPT !.pc = "fetch"]
    <3>1. reader' = [reader EXCEPT ![r] = k]
      BY <1>4, <2>2 DEF ReadCache, Goes
    <3>2. c.kind = "work" => workRow = "none"
      BY <2>2 DEF OwnRow, Is, GetByWork
    <3>3. BookCallOK(k, workRow)
      BY <1>1, <2>1, <3>2 DEF BookCallOK, BookFields, Building, OfEdition
    <3> HIDE DEF k
    <3> QED BY <1>2, <2>1, <3>1, <3>3
  <2>3. CASE OwnRow(r) # "none"
    <3> DEFINE k == [c EXCEPT !.pc = "over", !.reply = "record", !.named = OwnRow(r) = "named"]
    <3>1. reader' = [reader EXCEPT ![r] = k]
      BY <1>4, <2>3 DEF ReadCache
    <3>2. BookCallOK(k, workRow)
      BY <1>1, <2>1 DEF BookCallOK, BookFields, Building, OfEdition
    <3> HIDE DEF k
    <3> QED BY <1>2, <2>1, <3>1, <3>2
  <2> QED BY <2>2, <2>3
<1>5. ASSUME NEW answer, FetchByIsbn(r, answer) \/ FetchEdition(r, answer) \/ FetchTheWork(r, answer)
      PROVE Goal
  <2>1. CASE FetchByIsbn(r, answer) \/ FetchEdition(r, answer)
    <3>1. /\ Receives(r, answer, "fill", FALSE) /\ Stands(r, "fetch")
          /\ c.kind \in Builders /\ c.kind # "work"
      BY <2>1 DEF FetchByIsbn, FetchEdition, NormalizedNames, Is, Builders
    <3> QED BY <3>1, ReceivesKeeps DEF Receives
  <2>2. CASE FetchTheWork(r, answer)
    <3>1. /\ Receives(r, answer, "authors", FALSE) /\ Stands(r, "fetch") /\ c.kind \in Builders /\ c.kind = "work"
      BY <2>2 DEF FetchTheWork, Is, Builders
    <3> QED BY <3>1, ReceivesKeeps DEF Receives
  <2> QED BY <1>5, <2>1, <2>2
<1>6. ASSUME FillFromCache(r) PROVE Goal
  <2> DEFINE next == CASE Is(r, {"entry"}) -> "store isbn"
                       [] GetByWork = "named" -> "enrich"
                       [] OTHER -> "work"
             k == [c EXCEPT !.named = GetByWork = "named", !.pc = next]
  <2>1. c.pc = "fill" /\ workRow' = workRow /\ reader' = [reader EXCEPT ![r] = k]
    <3>1. c.pc = "fill" /\ workRow' = workRow
      BY <1>6 DEF FillFromCache, Stands
    <3>2. reader' = [reader EXCEPT ![r].named = GetByWork = "named", ![r].pc = next]
      BY <1>6 DEF FillFromCache
    <3> HIDE DEF next
    <3>3. reader' = [reader EXCEPT ![r] = k]
      BY <3>2
    <3> QED BY <3>1, <3>3
  <2>2. next \in {"store isbn", "enrich", "work"} /\ (next = "work" => workRow # "named")
    BY DEF GetByWork
  <2>3. BookCallOK(k, workRow)
    <3> HIDE DEF next
    <3> QED BY <1>1, <2>1, <2>2 DEF BookCallOK, BookFields, Building, OfEdition, GetByWork
  <2> HIDE DEF k
  <2> QED BY <1>2, <2>1, <2>3
<1>7. ASSUME NEW answer, FetchWork(r, answer) PROVE Goal
  <2> DEFINE next == IF answer = "found" THEN "names" ELSE "enrich"
             k == [c EXCEPT !.pc = next]
  <2>1. c.pc = "work" /\ workRow' = workRow /\ reader' = [reader EXCEPT ![r] = k]
    BY <1>7 DEF FetchWork, Stands, Goes
  <2>2. BookCallOK(k, workRow)
    BY <1>1, <2>1 DEF BookCallOK, BookFields, Building, OfEdition
  <2> HIDE DEF k
  <2> QED BY <1>2, <2>1, <2>2
<1>8. ASSUME NEW answer, FetchNames(r, answer) PROVE Goal
  <2> DEFINE k == [c EXCEPT !.named = answer = "found", !.pc = "enrich"]
  <2>1. c.pc = "names" /\ workRow' = workRow /\ reader' = [reader EXCEPT ![r] = k]
    BY <1>8 DEF FetchNames, Stands
  <2>2. BookCallOK(k, workRow)
    BY <1>1, <2>1 DEF BookCallOK, BookFields, Building, OfEdition
  <2> HIDE DEF k
  <2> QED BY <1>2, <2>1, <2>2
<1>9. ASSUME NEW answer, FetchAuthors(r, answer) PROVE Goal
  <2>1. c.pc = "authors" /\ workRow' = workRow /\ c.kind # "excerpt"
    BY <1>1, <1>9 DEF FetchAuthors, Stands, BookCallOK, Building, Builders
  <2>2. CASE answer = "raised"
    BY <1>9, <2>1, <2>2, EndsBookCall DEF FetchAuthors, RepliesError
  <2>3. CASE answer # "raised"
    <3> DEFINE k == [c EXCEPT !.named = answer = "found", !.pc = "enrich"]
    <3>1. reader' = [reader EXCEPT ![r] = k]
      BY <1>9, <2>3 DEF FetchAuthors
    <3>2. BookCallOK(k, workRow)
      BY <1>1, <2>1 DEF BookCallOK, BookFields, Building, OfEdition
    <3> HIDE DEF k
    <3> QED BY <1>2, <2>1, <3>1, <3>2
  <2> QED BY <2>2, <2>3
<1>10. ASSUME EnrichBook(r) PROVE Goal
  <2> DEFINE next == IF Is(r, {"work"}) THEN "put work" ELSE "store isbn"
             k == [c EXCEPT !.pc = next]
  <2>1. c.pc = "enrich" /\ workRow' = workRow /\ reader' = [reader EXCEPT ![r] = k]
    BY <1>10 DEF EnrichBook, Stands, Goes
  <2>2. BookCallOK(k, workRow)
    BY <1>1, <2>1 DEF BookCallOK, BookFields, Building, OfEdition, Is
  <2> HIDE DEF k
  <2> QED BY <1>2, <2>1, <2>2
<1>11. ASSUME StoreIsbn(r) PROVE Goal
  <2>1. c.pc = "store isbn" /\ workRow' = workRow /\ c.kind # "excerpt"
    BY <1>1, <1>11 DEF StoreIsbn, Stands, BookCallOK, OfEdition, Builders
  <2>2. CASE Is(r, {"entry"})
    BY <1>11, <2>1, <2>2, EndsBookCall DEF StoreIsbn
  <2>3. CASE ~Is(r, {"entry"})
    <3> DEFINE next == IF c.named THEN "put work" ELSE "check work"
               k == [c EXCEPT !.saw = workRow = "named", !.pc = next]
    <3>1. reader' = [reader EXCEPT ![r] = k]
      BY <1>11, <2>3 DEF StoreIsbn
    <3>2. BookCallOK(k, workRow)
      BY <1>1, <2>1 DEF BookCallOK, BookFields, Building, OfEdition, Builders
    <3> HIDE DEF k
    <3> QED BY <1>2, <2>1, <3>1, <3>2
  <2> QED BY <2>2, <2>3
<1>12. ASSUME CheckWork(r) PROVE Goal
  <2>1. c.pc = "check work" /\ workRow' = workRow /\ c.kind # "excerpt"
    BY <1>1, <1>12 DEF CheckWork, Stands, BookCallOK, OfEdition, Builders
  <2>2. CASE workRow = "none"
    <3> DEFINE k == [c EXCEPT !.pc = "put work"]
    <3>1. reader' = [reader EXCEPT ![r] = k]
      BY <1>12, <2>2 DEF CheckWork, GetByWork, Goes
    <3>2. BookCallOK(k, workRow)
      BY <1>1, <2>1, <2>2 DEF BookCallOK, BookFields, Building, OfEdition, Builders
    <3> HIDE DEF k
    <3> QED BY <1>2, <2>1, <3>1, <3>2
  <2>3. CASE workRow # "none"
    BY <1>12, <2>1, <2>3, EndsBookCall DEF CheckWork, GetByWork
  <2> QED BY <2>2, <2>3
<1>13. ASSUME PutFirstIsbn(r) PROVE Goal
  <2>1. c.kind # "excerpt"
    BY <1>1, <1>13 DEF PutFirstIsbn, Stands, BookCallOK, Building, Builders
  <2> QED BY <1>13, <2>1, EndsBookCall DEF PutFirstIsbn
<1>14. ASSUME NEW answer, FetchExcerpt(r, answer) PROVE Goal
  <2>1. c.pc = "fetch" /\ workRow' = workRow
    BY <1>14 DEF FetchExcerpt, Stands
  <2>2. CASE answer = "missing"
    <3> DEFINE k == [c EXCEPT !.pc = "over", !.reply = "not_found", !.heard = TRUE]
    <3>1. reader' = [reader EXCEPT ![r] = k]
      BY <1>14, <2>2 DEF FetchExcerpt
    <3>2. BookCallOK(k, workRow)
      BY <1>1, <2>1 DEF BookCallOK, BookFields, Building, OfEdition
    <3> HIDE DEF k
    <3> QED BY <1>2, <2>1, <3>1, <3>2
  <2>3. CASE answer # "missing"
    BY <1>14, <2>1, <2>3, EndsBookCall DEF FetchExcerpt, RepliesError
  <2> QED BY <2>2, <2>3
<1>15. ASSUME NEW answer, FetchSubject(r, answer) \/ \E retried \in Answers : SearchBooks(r, answer, retried)
       PROVE Goal
  BY <1>15, EndsBookCall DEF FetchSubject, SearchBooks, RepliesError
<1>16. CASE PutWork(r)
  <2> DEFINE row == Record(c.named)
             loses == LosesNames(r)
             Next(q) == [reader[q] EXCEPT !.lost = @ \/ (loses /\ reader[q].knew)]
  <2>1. /\ c.pc = "put work" /\ workRow' = row /\ row \in {"named", "bare"}
        /\ c.named <=> row = "named"
        /\ loses <=> workRow = "named" /\ row = "bare"
        /\ reader' = [q \in DOMAIN reader |-> IF q = r THEN PutDone(r) ELSE Next(q)]
    BY <1>16 DEF PutWork, SetByWork, Record, Stands, LosesNames
  <2>2. c.kind # "excerpt"
    BY <1>1, <2>1 DEF BookCallOK, Building, Builders
  <2>3. BookCallOK(PutDone(r), row)
    BY <1>1, <2>1, <2>2 DEF BookCallOK, BookFields, Building, OfEdition, Builders, PutDone, Is
  <2> HIDE DEF row, loses
  <2>4. ASSUME NEW q \in DOMAIN reader, q # r
        PROVE BookCallOK(Next(q), row) /\ Next(q).pc = reader[q].pc
    <3>1. BookCallOK(reader[q], workRow)
      BY DEF BooksInv
    <3> QED BY <2>1, <3>1 DEF BookCallOK, BookFields
  <2>5. BooksInv'
    BY <2>1, <2>3, <2>4 DEF BooksInv
  <2>6. row = "bare" => ~c.knew /\ ~c.saw
    BY <1>1, <2>1 DEF BookCallOK
  <2> QED BY <2>1, <2>4, <2>5, <2>6
<1>17. CASE Goal
  BY <1>17
<1> HIDE DEF Goal
<1> QED BY <1>3, <1>4, <1>5, <1>6, <1>7, <1>8, <1>9, <1>10, <1>11, <1>12, <1>13, <1>14, <1>15,
          <1>16, <1>17 DEF BookStep

LEMMA BookExpiresKeeps ==
    ASSUME BooksInv, BookExpires
    PROVE  BooksInv' /\ (workRow' # "bare" \/ workRow' = workRow)
<1>1. CASE workRow' = workRow /\ reader' = reader
  BY <1>1 DEF BooksInv
<1>2. CASE /\ workRow' = "none"
           /\ reader' = [r \in DOMAIN reader |-> [reader[r] EXCEPT !.knew = FALSE, !.saw = FALSE]]
  <2>1. ASSUME NEW r \in DOMAIN reader
        PROVE BookCallOK([reader[r] EXCEPT !.knew = FALSE, !.saw = FALSE], "none")
    <3>1. BookCallOK(reader[r], workRow)
      BY DEF BooksInv
    <3> QED BY <3>1 DEF BookCallOK, BookFields
  <2> QED BY <1>2, <2>1 DEF BooksInv
<1> QED BY <1>1, <1>2 DEF BookExpires

LEMMA BooksStart == BookInit => BooksInv
<1> SUFFICES ASSUME BookInit PROVE BooksInv
  OBVIOUS
<1>1. PICK plan \in BookPlans : BooksBegin(plan)
  BY DEF BookInit
<1>2. \A r \in DOMAIN plan : BookCallOK(NoCall(plan[r]), "none")
  BY DEF NoCall, BookCallOK, BookFields, Building, OfEdition
<1> QED BY <1>1, <1>2 DEF BooksBegin, BooksInv

LEMMA BooksStep == BooksInv /\ [BookNext]_bookVars => BooksInv'
<1> SUFFICES ASSUME BooksInv, [BookNext]_bookVars PROVE BooksInv'
  OBVIOUS
<1>1. CASE UNCHANGED bookVars
  BY <1>1 DEF bookVars, BooksInv
<1> QED BY <1>1, BookStepKeeps, BookExpiresKeeps DEF BookNext

LEMMA BooksInvariant == BookSpec => []BooksInv
<1> QED BY BooksStart, BooksStep, PTL DEF BookSpec

\* A call that found the work's authors cached when it began, or when it came to
\* store, never replaces them by none (cache_book_record), among any number of
\* overlapping calls, whichever of their lookups fail.
THEOREM AuthorsAreKept == BookSpec => KnownAuthorsAreKept
<1>1. ASSUME BooksInv, [BookNext]_bookVars
      PROVE  [\A r \in DOMAIN reader :
                workRow = "named" /\ workRow' = "bare" /\ reader'[r].pc # reader[r].pc =>
                   ~reader[r].knew /\ ~reader[r].saw]_bookVars
  <2> SUFFICES ASSUME BookNext, NEW r \in DOMAIN reader, workRow = "named", workRow' = "bare",
                      reader'[r].pc # reader[r].pc
               PROVE  ~reader[r].knew /\ ~reader[r].saw
    BY <1>1
  <2>1. CASE BookExpires
    BY <1>1, <2>1, BookExpiresKeeps
  <2>2. ASSUME NEW q \in DOMAIN reader, BookStep(q) PROVE ~reader[r].knew /\ ~reader[r].saw
    BY <1>1, <2>2, BookStepKeeps
  <2> QED BY <2>1, <2>2 DEF BookNext
<1> QED BY <1>1, BooksInvariant, PTL DEF BookSpec, KnownAuthorsAreKept

\* An edition is stored with the authors that were cached while its call ran, and
\* not_found is Google's own answer, however many calls there are
\* (fill_authors_from_cache, get_book_excerpt).
THEOREM BooksAnswered == BookSpec => []BooksAreAnswered
<1>1. BooksInv => BooksAreAnswered
  BY DEF BooksInv, BookCallOK, BooksAreAnswered, KnownAuthorsAreUsed, NotFoundIsAnswered, Is
<1> QED BY <1>1, BooksInvariant, PTL

-----------------------------------------------------------------------------
(* BatchResolve: an answer is in the caller's order, whatever the list mixes.  *)
(* What makes that inductive: an entry that has begun carries its own           *)
(* identifier and the DOI that the groups hold for it, its stage is one of its  *)
(* group, and before the gather nothing has begun.                              *)

DoiAt(i) == DoiOf(Classify(ids).doiMap, i)

Keys == {ids[i].key : i \in DOMAIN ids}

\* A coroutine that has begun, of the group that its identifier is in.
EntryOK(i) ==
    /\ entry[i] \in [pc : {"paper", "openalex", "store", "patent", "isbn", "done", "raised"},
                     raw : {ids[i]}, doi : {DoiAt(i)}, met : BOOLEAN,
                     result : {"none", "not_found", "paper", "openalex", "failed", "patent",
                               "invalid_patent_number", "book"},
                     of : {"none", ids[i].key}]
    /\ entry[i].pc \in {"paper", "openalex", "store"} => i \in PapersOf(ids)
    /\ entry[i].pc \in {"openalex", "store"} => entry[i].doi # "none"
    /\ entry[i].pc = "patent" => i \in PatentsOf(ids)
    /\ entry[i].pc = "isbn" => i \in IsbnsOf(ids)
    /\ entry[i].pc = "raised" => i \in PapersOf(ids) \union IsbnsOf(ids)

NothingBegan == \A i \in DOMAIN ids : entry[i] = NoEntry

\* The entries run from the gather on, and after an exception of one of them.
Begun ==
    /\ batch \in {"gather", "answered", "raised"}
    /\ \A i \in DOMAIN ids : EntryOK(i)
    /\ batch = "raised" => \E i \in DOMAIN ids : entry[i].pc = "raised"

AnsweredInOrder ==
    \A i \in DOMAIN resolved :
        /\ i \in DOMAIN ids
        /\ resolved[i].identifier = ids[i].key
        /\ resolved[i].of \in {"none", ids[i].key}

BatchInv ==
    /\ ids \in Batches
    /\ DOMAIN entry = DOMAIN ids
    /\ batch # "new" => groups = Classify(ids)
    /\ \/ NothingBegan /\ batch \in {"new", "asking", "refused", "raised"}
       \/ Begun
    /\ batch \in {"asking", "refused", "raised"} /\ NothingBegan => groups.papers # {}
    /\ AnsweredInOrder

\* The DOI that the groups hold for an identifier is its own, and a DOI has one.
LEMMA DoiIsItsOwn ==
    ASSUME ids \in Batches, NEW i \in DOMAIN ids
    PROVE  /\ DoiAt(i) \in {"none", ids[i].key}
           /\ ids[i].kind = "doi" => DoiAt(i) = ids[i].key
<1>1. /\ DOMAIN ids[i] = {"kind", "form", "key"}
      /\ ids[i].kind = "doi" => ids[i].form = "doi"
  BY BatchAssumption DEF BatchAssumption
<1>2. ids[i].form = "doi" => i \in PapersOf(ids)
  BY DEF PapersOf, IsbnsOf, PatentsOf, IsPatentNumber
<1> QED BY <1>1, <1>2 DEF DoiAt, DoiOf, Classify

\* A coroutine begins with its own identifier, in its own group.
LEMMA EntriesBegin ==
    ASSUME NEW found, entry' = [i \in DOMAIN ids |-> EntryOf(Classify(ids), i, found)],
           UNCHANGED ids
    PROVE  /\ DOMAIN entry' = DOMAIN ids'
           /\ \A i \in DOMAIN ids' : EntryOK(i)'
<1> SUFFICES ASSUME NEW i \in DOMAIN ids PROVE EntryOK(i)'
  OBVIOUS
<1> DEFINE Starts(pc, met) == [pc |-> pc, raw |-> ids[i], doi |-> DoiAt(i), met |-> met,
                               result |-> "none", of |-> "none"]
<1>1. entry'[i] = CASE i \in PapersOf(ids) -> Starts("paper", i \in found)
                    [] i \in PatentsOf(ids) -> Starts("patent", FALSE)
                    [] OTHER -> Starts("isbn", FALSE)
  BY DEF EntryOf, Classify, DoiAt
<1> HIDE DEF Starts
<1>2. \E met \in BOOLEAN :
        \/ entry'[i] = Starts("paper", met) /\ i \in PapersOf(ids)
        \/ entry'[i] = Starts("patent", met) /\ i \in PatentsOf(ids)
        \/ entry'[i] = Starts("isbn", met) /\ i \in IsbnsOf(ids)
  <2>1. CASE i \in PapersOf(ids)
    <3> DEFINE met == i \in found
    <3>1. met \in BOOLEAN
      OBVIOUS
    <3>2. entry'[i] = Starts("paper", met)
      BY <1>1, <2>1 DEF PapersOf
    <3> HIDE DEF met
    <3> QED BY <2>1, <3>1, <3>2
  <2>2. CASE i \notin PapersOf(ids) /\ i \in PatentsOf(ids)
    BY <1>1, <2>2
  <2>3. CASE i \notin PapersOf(ids) /\ i \notin PatentsOf(ids)
    BY <1>1, <2>3 DEF PapersOf
  <2> QED BY <2>1, <2>2, <2>3
<1>3. PICK met \in BOOLEAN :
        \/ entry'[i] = Starts("paper", met) /\ i \in PapersOf(ids)
        \/ entry'[i] = Starts("patent", met) /\ i \in PatentsOf(ids)
        \/ entry'[i] = Starts("isbn", met) /\ i \in IsbnsOf(ids)
  BY <1>2
<1> USE DEF Starts
<1> QED BY <1>3 DEF EntryOK, DoiAt

\* A step of one entry that leaves it in order keeps the invariant, and can make
\* the call fail only by raising.
LEMMA OneEntry ==
    ASSUME BatchInv, NEW i \in DOMAIN ids, NEW e, entry' = [entry EXCEPT ![i] = e],
           Begun, EntryOK(i)', UNCHANGED <<ids, groups, resolved>>,
           entry[i].pc # "raised",
           batch' = batch \/ (batch' = "raised" /\ e.pc = "raised")
    PROVE  BatchInv'
<1>1. \A j \in DOMAIN ids : j # i => entry'[j] = entry[j]
  BY DEF BatchInv
<1>2. entry'[i] = e /\ DOMAIN entry' = DOMAIN ids
  BY DEF BatchInv
<1>3. \A j \in DOMAIN ids : EntryOK(j)'
  BY <1>1 DEF Begun, EntryOK, DoiAt
<1>4. batch' = "raised" => \E j \in DOMAIN ids : entry'[j].pc = "raised"
  BY <1>1, <1>2 DEF Begun
<1>5. Begun'
  BY <1>3, <1>4 DEF Begun
<1>6. ~NothingBegan'
  BY <1>3 DEF EntryOK, NothingBegan, NoEntry
<1> QED BY <1>2, <1>5, <1>6 DEF BatchInv, Begun, AnsweredInOrder

LEMMA EntryStepKeeps ==
    ASSUME BatchInv, NEW i \in DOMAIN ids,
           \/ ResolvePaper(i) \/ OpenAlexAnswers(i) \/ StoreWork(i)
           \/ ResolvePatent(i) \/ ResolveIsbn(i)
    PROVE  BatchInv'
<1> DEFINE e == entry[i]
<1>1. UNCHANGED <<ids, groups, resolved>>
  BY DEF ResolvePaper, OpenAlexAnswers, StoreWork, ResolvePatent, ResolveIsbn
<1>2. e.pc \in {"paper", "openalex", "store", "patent", "isbn"}
  BY DEF ResolvePaper, OpenAlexAnswers, StoreWork, ResolvePatent, ResolveIsbn
<1>3. Begun
  BY <1>2 DEF BatchInv, NothingBegan, NoEntry
<1>4. EntryOK(i) /\ e.raw.key = ids[i].key /\ i \in DOMAIN entry
  BY <1>3 DEF Begun, EntryOK, BatchInv
<1>5. e.doi \in {"none", ids[i].key}
  BY <1>4, DoiIsItsOwn DEF EntryOK, BatchInv
<1>6. ASSUME NEW result \in {"not_found", "paper", "openalex", "failed", "patent",
                             "invalid_patent_number", "book"},
             NEW of \in {"none", ids[i].key}, Ends(i, result, of), UNCHANGED batch
      PROVE  BatchInv'
  <2> DEFINE k == [e EXCEPT !.pc = "done", !.result = result, !.of = of]
  <2>1. entry' = [entry EXCEPT ![i] = k]
    BY <1>6 DEF Ends
  <2>2. EntryOK(i)'
    BY <1>1, <1>4, <2>1 DEF EntryOK, DoiAt
  <2> HIDE DEF k
  <2> QED BY <1>1, <1>2, <1>3, <1>6, <2>1, <2>2, OneEntry
<1>7. ASSUME NEW pc \in {"openalex", "store"}, e.doi # "none", i \in PapersOf(ids),
             entry' = [entry EXCEPT ![i].pc = pc], UNCHANGED batch
      PROVE  BatchInv'
  <2> DEFINE k == [e EXCEPT !.pc = pc]
  <2>1. entry' = [entry EXCEPT ![i] = k]
    BY <1>7
  <2>2. EntryOK(i)'
    BY <1>1, <1>4, <1>7, <2>1 DEF EntryOK, DoiAt
  <2> HIDE DEF k
  <2> QED BY <1>1, <1>2, <1>3, <1>7, <2>1, <2>2, OneEntry
<1>8. ASSUME Raises(i), i \in PapersOf(ids) \union IsbnsOf(ids) PROVE BatchInv'
  <2> DEFINE k == [e EXCEPT !.pc = "raised"]
  <2>1. entry' = [entry EXCEPT ![i] = k] /\ k.pc = "raised"
    BY <1>4, <1>8 DEF Raises, EntryOK
  <2>2. EntryOK(i)'
    BY <1>1, <1>4, <1>8, <2>1 DEF EntryOK, DoiAt
  <2>3. batch' = batch \/ batch' = "raised"
    BY <1>8 DEF Raises
  <2> HIDE DEF k
  <2> QED BY <1>1, <1>2, <1>3, <2>1, <2>2, <2>3, OneEntry
<1>9. CASE ResolvePaper(i)
  <2>1. e.pc = "paper" /\ i \in PapersOf(ids) /\ UNCHANGED batch
    BY <1>4, <1>9 DEF ResolvePaper, EntryOK
  <2>2. \/ Ends(i, "paper", e.raw.key) \/ Ends(i, "not_found", "none")
        \/ e.doi # "none" /\ Ends(i, "openalex", e.doi)
        \/ e.doi # "none" /\ entry' = [entry EXCEPT ![i].pc = "openalex"]
    BY <1>4, <1>9 DEF ResolvePaper, EntryOK, NotFound
  <2> QED BY <1>4, <1>5, <1>6, <1>7, <2>1, <2>2
<1>10. CASE OpenAlexAnswers(i)
  <2>1. e.doi # "none" /\ i \in PapersOf(ids)
    BY <1>4, <1>10 DEF OpenAlexAnswers, EntryOK
  <2> QED BY <1>6, <1>7, <1>8, <1>10, <2>1 DEF OpenAlexAnswers, NotFound
<1>11. CASE StoreWork(i)
  BY <1>5, <1>6, <1>11 DEF StoreWork
<1>12. CASE ResolvePatent(i)
  BY <1>4, <1>6, <1>12 DEF ResolvePatent, NotFound
<1>13. CASE ResolveIsbn(i)
  <2>1. i \in IsbnsOf(ids)
    BY <1>4, <1>13 DEF ResolveIsbn, EntryOK
  <2> QED BY <1>4, <1>6, <1>8, <1>13, <2>1 DEF ResolveIsbn, NotFound
<1> QED BY <1>9, <1>10, <1>11, <1>12, <1>13

LEMMA BatchStarts == BatchInit => BatchInv
BY DEF BatchInit, BatchBegins, BatchInv, NothingBegan, AnsweredInOrder

LEMMA BatchStep == BatchInv /\ [BatchNext]_batchVars => BatchInv'
<1> SUFFICES ASSUME BatchInv, [BatchNext]_batchVars PROVE BatchInv'
  OBVIOUS
<1>1. CASE UNCHANGED batchVars
  BY <1>1 DEF batchVars, BatchInv, NothingBegan, Begun, EntryOK, DoiAt, AnsweredInOrder
<1>2. ASSUME NEW found, entry' = [i \in DOMAIN ids |-> EntryOf(Classify(ids), i, found)],
             UNCHANGED <<ids, resolved>>, groups' = Classify(ids), batch' = "gather"
      PROVE  BatchInv'
  <2>1. DOMAIN entry' = DOMAIN ids' /\ \A i \in DOMAIN ids' : EntryOK(i)'
    BY <1>2, EntriesBegin
  <2>2. Begun'
    BY <1>2, <2>1 DEF Begun
  <2> QED BY <1>2, <2>1, <2>2 DEF BatchInv, AnsweredInOrder
<1>3. ASSUME UNCHANGED <<ids, entry, resolved>>, groups' = Classify(ids), groups'.papers # {},
             batch \in {"new", "asking"}, batch' \in {"asking", "refused", "raised"}
      PROVE  BatchInv'
  BY <1>3 DEF BatchInv, NothingBegan, Begun, AnsweredInOrder
<1>4. CASE Group
  BY <1>2, <1>3, <1>4 DEF Group
<1>5. CASE S2Answers
  <2>1. groups = Classify(ids) /\ groups.papers # {}
    BY <1>5 DEF S2Answers, BatchInv, Begun
  <2> QED BY <1>2, <1>3, <1>5, <2>1 DEF S2Answers
<1>6. CASE Collect
  <2>1. Begun /\ UNCHANGED <<ids, groups, entry>> /\ batch' = "answered"
    BY <1>6 DEF Collect, BatchInv
  <2>2. Begun'
    BY <2>1 DEF Begun, EntryOK, DoiAt
  <2>3. \A i \in DOMAIN ids : entry[i].raw = ids[i] /\ entry[i].of \in {"none", ids[i].key}
    BY <2>1 DEF Begun, EntryOK
  <2>4. AnsweredInOrder'
    BY <1>6, <2>1, <2>3 DEF AnsweredInOrder, Collect
  <2>5. batch # "new"
    BY <2>1 DEF Begun
  <2>6. Begun' /\ batch' \notin {"asking", "refused", "raised"}
    BY <2>1, <2>2
  <2> QED BY <2>1, <2>4, <2>5, <2>6 DEF BatchInv
<1> QED BY <1>1, <1>4, <1>5, <1>6, EntryStepKeeps DEF BatchNext

\* Entry i of an answer is about identifier i and holds its record, and no patent
\* fails the others, for any list of any length (batch_resolve).
THEOREM BatchAnswered == BatchSpec => []BatchIsAnswered
<1>1. BatchInv => BatchIsAnswered
  <2> SUFFICES ASSUME BatchInv PROVE EntriesMatch /\ PatentsDegradeAlone
    BY DEF BatchIsAnswered
  <2>1. ASSUME NEW i \in DOMAIN ids
        PROVE  /\ entry[i].doi \in {"none", ids[i].key}
               /\ entry[i].result = "not_found" /\ ids[i].kind = "doi" => entry[i].doi = ids[i].key
    <3>1. CASE entry[i] = NoEntry
      BY <3>1 DEF NoEntry
    <3>2. CASE EntryOK(i)
      BY <3>2, DoiIsItsOwn DEF EntryOK, BatchInv
    <3> QED BY <3>1, <3>2 DEF BatchInv, NothingBegan, Begun
  <2>2. EntriesMatch
    BY <2>1 DEF EntriesMatch, BatchInv, AnsweredInOrder
  <2>3. PatentsDegradeAlone
    <3>1. CASE NothingBegan
      BY <3>1 DEF PatentsDegradeAlone, BatchInv, NothingBegan
    <3>2. CASE Begun
      BY <3>2 DEF PatentsDegradeAlone, BatchInv, Begun, EntryOK, Classify
    <3> QED BY <3>1, <3>2 DEF BatchInv
  <2> QED BY <2>2, <2>3
<1> QED BY <1>1, BatchStarts, BatchStep, PTL DEF BatchSpec
=============================================================================
