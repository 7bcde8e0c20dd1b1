------------------------------ MODULE Enrichment ------------------------------
(***************************************************************************)
(* The enrichment pipeline (src/scholar_mcp/_enrichment.py) with the five   *)
(* enrichers that domain.py registers.  Phase by phase, a task for each     *)
(* enricher and record that fit; a semaphore bounds how many run; an        *)
(* enricher reads its cache, else asks its upstream and stores the answer,  *)
(* and puts what it says into the record.  It may raise at each of these    *)
(* steps, which ends it alone, and an answer may lack the field.  The call  *)
(* may be cancelled while it waits for a phase.                             *)
(*                                                                         *)
(* A record is the set of its fields.  Titles, venues and links are left    *)
(* out: a field is there or not.                                            *)
(***************************************************************************)
EXTENDS Naturals, FiniteSets

CONSTANTS
    Records,        \* records of one call
    Given,          \* what they may have to begin with: a set of functions to fields
    Concurrency     \* concurrency

EnrichmentAssumption ==
    /\ Concurrency \in Nat \ {0}
    /\ Given \subseteq [Records -> SUBSET {"doi", "isbn", "standard_title", "venue"}]

ASSUME EnrichmentAssumption

VARIABLES
    tags,       \* the tag the call filters by
    fields,     \* the fields of each record
    phase,      \* the phase that runs, or "over" or "cancelled"
    tasks,      \* the tasks of that phase, see Pairs
    stored,     \* which enricher's answer is cached for which record
    empty       \* history: pairs whose enricher raised or had nothing to put in

enrichmentVars == <<tags, fields, phase, tasks, stored, empty>>

Enrichers == {"crossref", "openalex", "standards", "openlibrary", "google_books"}

\* phase and tags of each enricher.
PhaseOf(e) == IF e \in {"openlibrary", "google_books"} THEN "second" ELSE "first"
TagOf(e) == IF e = "google_books" THEN "books" ELSE "papers"

\* The field an enricher fills.
FieldOf ==
    [crossref |-> "crossref_metadata", openalex |-> "venue", standards |-> "standard_metadata",
     openlibrary |-> "book_metadata", google_books |-> "google_books_url"]

\* can_enrich: what the enricher needs is there, and what it would add is not;
\* Open Library's does not ask for the latter.
CanEnrich(e, record) ==
    CASE e \in {"crossref", "openalex"} -> "doi" \in record /\ FieldOf[e] \notin record
      [] e = "standards" -> "standard_title" \in record /\ FieldOf[e] \notin record
      [] e = "google_books" -> "isbn" \in record /\ FieldOf[e] \notin record
      [] OTHER -> "isbn" \in record

Pairs == Enrichers \X Records

\* The tasks that a phase starts, looked at when it starts.
Chosen(n) ==
    {pair \in Pairs : /\ PhaseOf(pair[1]) = n /\ TagOf(pair[1]) = tags
                      /\ CanEnrich(pair[1], fields[pair[2]])}

Stages == {"none", "queued", "cache", "upstream", "store", "fill", "done"}

EnrichmentBegins(tag, given, cached) ==
    /\ tags = tag
    /\ fields = given
    /\ phase = "new"
    /\ tasks = [pair \in Pairs |-> "none"]
    /\ stored = cached
    /\ empty = {}

\* At most one answer is cached to begin with: more would show nothing new.
EnrichmentInit ==
    \E tag \in {"papers", "books"}, given \in Given :
        \E cached \in {{}} \union {{pair} : pair \in {p \in Pairs : TagOf(p[1]) = tag}} :
            EnrichmentBegins(tag, given, cached)

-----------------------------------------------------------------------------
Running == {pair \in Pairs : tasks[pair] \in {"cache", "upstream", "store", "fill"}}

PhaseEnded == \A pair \in Pairs : tasks[pair] \in {"none", "done"}

\* The table of an enricher.
GetCached(pair) == pair \in stored
SetCached(pair) == stored' = stored \union {pair}

\* Mutated StartPhase: the second phase starts with the first.
StartPhaseTogether(n) ==
    /\ phase = "new"
    /\ phase' = "second"
    /\ tasks' = [pair \in Pairs |->
                  IF pair \in Chosen("first") \union Chosen("second") THEN "queued" ELSE "none"]
    /\ UNCHANGED <<tags, fields, stored, empty>>

\* The phases in their order, each once the one before it is gathered.
StartPhase(n) ==
    /\ <<phase, n>> \in {<<"new", "first">>, <<"first", "second">>}
    /\ PhaseEnded
    /\ phase' = n
    /\ tasks' = [pair \in Pairs |-> IF pair \in Chosen(n) THEN "queued" ELSE "none"]
    /\ UNCHANGED <<tags, fields, stored, empty>>

HandBack ==
    /\ phase = "second"
    /\ PhaseEnded
    /\ phase' = "over"
    /\ UNCHANGED <<tags, fields, tasks, stored, empty>>

\* The caller cancels: gather cancels every task of the phase.
CancelCall ==
    /\ phase \in {"first", "second"}
    /\ ~PhaseEnded
    /\ phase' = "cancelled"
    /\ tasks' = [pair \in Pairs |-> IF tasks[pair] = "none" THEN "none" ELSE "done"]
    /\ UNCHANGED <<tags, fields, stored, empty>>

-----------------------------------------------------------------------------
(* One task.                                                                 *)

Moves(pair, stage) == tasks' = [tasks EXCEPT ![pair] = stage]

\* The semaphore.
Admit(pair) ==
    /\ tasks[pair] = "queued"
    /\ Cardinality(Running) < Concurrency
    /\ Moves(pair, "cache")
    /\ UNCHANGED <<tags, fields, phase, stored, empty>>

LookUp(pair) ==
    /\ tasks[pair] = "cache"
    /\ Moves(pair, IF GetCached(pair) THEN "fill" ELSE "upstream")
    /\ UNCHANGED <<tags, fields, phase, stored, empty>>

UpstreamAnswers(pair) ==
    /\ tasks[pair] = "upstream"
    /\ Moves(pair, "store")
    /\ UNCHANGED <<tags, fields, phase, stored, empty>>

\* Its cache, its upstream and its table may each raise; until it has stored an
\* answer, nothing is in the record.
MayRaise == {"cache", "upstream", "store"}

\* Mutated EnricherFails: the exception passes _run_one and ends the gather,
\* and the call with it, while the other tasks run on.
EnricherRaises(pair) ==
    /\ tasks[pair] \in MayRaise
    /\ Moves(pair, "done")
    /\ phase' = "over"
    /\ empty' = empty \union {pair}
    /\ UNCHANGED <<tags, fields, stored>>

\* There is nothing for the record, or what it does raises, the write into its
\* table of an answer it has got included: the enricher catches the exception,
\* or else _run_one does, and the field stays as it was.
EnricherFails(pair) ==
    /\ tasks[pair] \in MayRaise
    /\ Moves(pair, "done")
    /\ empty' = empty \union {pair}
    /\ UNCHANGED <<tags, fields, phase, stored>>

StoreAnswer(pair) ==
    /\ tasks[pair] = "store"
    /\ SetCached(pair)
    /\ Moves(pair, "fill")
    /\ UNCHANGED <<tags, fields, phase, empty>>

Fill(pair) ==
    /\ tasks[pair] = "fill"
    /\ fields' = [fields EXCEPT ![pair[2]] = @ \union {FieldOf[pair[1]]}]
    /\ Moves(pair, "done")
    /\ UNCHANGED <<tags, phase, stored, empty>>

\* A work without a venue, a volume without a preview link.
FillsNothing(pair) ==
    /\ tasks[pair] = "fill"
    /\ pair[1] \in {"openalex", "google_books"}
    /\ empty' = empty \union {pair}
    /\ Moves(pair, "done")
    /\ UNCHANGED <<tags, fields, phase, stored>>

RunOne(pair) ==
    \/ Admit(pair) \/ LookUp(pair) \/ UpstreamAnswers(pair) \/ EnricherFails(pair)
    \/ StoreAnswer(pair) \/ Fill(pair) \/ FillsNothing(pair)

EnrichmentNext ==
    \/ \E n \in {"first", "second"} : StartPhase(n)
    \/ HandBack \/ CancelCall
    \/ \E pair \in Pairs : RunOne(pair)

EnrichmentSpec == EnrichmentInit /\ [][EnrichmentNext]_enrichmentVars

-----------------------------------------------------------------------------
\* "enrichment failures never propagate": when the call is over, a field that one
\* of its enrichers could still fill is missing for a reason of that enricher's
\* own, which raised or had nothing to put in, never because another failed, the
\* semaphore was full or a phase was left early; once the call is over or cancelled
\* no task goes on writing into its records; and no enricher of the second phase
\* looks at a record that one of the first may still change.
EnrichmentIsContained ==
    /\ phase = "over" =>
          \A pair \in Pairs :
              TagOf(pair[1]) = tags /\ CanEnrich(pair[1], fields[pair[2]]) =>
                  FieldOf[pair[1]] \in fields[pair[2]] \/ pair \in empty
    /\ phase \in {"over", "cancelled"} => PhaseEnded
    /\ (\E pair \in Running : PhaseOf(pair[1]) = "second") =>
          \A pair \in Pairs : PhaseOf(pair[1]) = "first" => tasks[pair] \in {"none", "done"}
=============================================================================
