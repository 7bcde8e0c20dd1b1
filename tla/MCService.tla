------------------------------ MODULE MCService ------------------------------
(* One run over what a tool call goes through: the gate of Semantic Scholar, *)
(* the two modes of a call, the service that is started and stopped around   *)
(* them, and the lookups of papers, books, batches and enrichment.  A        *)
(* behaviour is of one of these worlds, and the others stand still.          *)
EXTENDS MCS2Gate, S2Jobs, ServiceLifecycle, BookRecords, MCBatchResolve,
        Enrichment, PaperRecords

VARIABLE world

allVars == <<world, vars, jobVars, serviceVars, bookVars, batchVars,
             enrichmentVars, paperVars>>

Worlds == {"gate", "jobs", "service", "books", "batch", "enrichment", "papers"}

CONSTANTS asker1, asker2, asker3, isbn1, isbn2, rich, poor

\* Every two kinds of book calls, about an edition each.
TwoBookCalls ==
    {[r \in {asker1, asker2} |-> IF r = asker1 THEN [kind |-> k, isbn |-> isbn1]
                                          ELSE [kind |-> l, isbn |-> isbn2]] :
        k \in BookKinds, l \in BookKinds}

\* Three calls about the work or one edition: what two of them do to each other's
\* authors, a third can have begun before or between.
ThreeBookCalls ==
    {[r \in {asker1, asker2, asker3} |->
        [isbn |-> isbn1, kind |-> CASE r = asker1 -> "work" [] r = asker2 -> k [] OTHER -> "isbn"]] :
        k \in {"isbn", "work"}}

BookCalls == TwoBookCalls \union ThreeBookCalls

\* Two papers by any names, and each other kind next to two of them.
TwoPaperCalls ==
    {[c \in {asker1, asker2} |-> IF c = asker1 THEN [kind |-> "paper", name |-> n]
                                          ELSE [kind |-> "paper", name |-> m]] :
        n \in Names, m \in Names}
    \union
    {[c \in {asker1, asker2} |-> IF c = asker1 THEN [kind |-> k, name |-> n]
                                          ELSE [kind |-> l, name |-> "doi"]] :
        k \in PaperKinds \ {"paper"}, l \in {"enrichment", "author"}, n \in {"doi", "arxiv"}}

\* A record for most enrichers next to one for a single enricher, and two books.
RecordPairs ==
    {[r \in {rich, poor} |-> IF r = rich THEN {"doi", "isbn", "standard_title"} ELSE {"doi", "venue"}],
     [r \in {rich, poor} |-> {"isbn"}]}

Plain(set) == CHOOSE x \in set : TRUE

WorldInit ==
    /\ Init /\ JobsInit /\ ServiceInit
    /\ world \in Worlds
    /\ IF world = "books" THEN BookInit ELSE BooksBegin(Plain(TwoBookCalls))
    /\ IF world = "batch" THEN BatchInit ELSE BatchBegins(<<>>, {})
    /\ IF world = "enrichment" THEN EnrichmentInit
       ELSE EnrichmentBegins("papers", Plain(RecordPairs), {})
    /\ IF world = "papers" THEN PaperInit ELSE PapersBegin(Plain(TwoPaperCalls))

\* In all worlds but the first two a behaviour may come to its end.
WorldNext ==
    \/ /\ world = "gate" /\ Next
       /\ UNCHANGED <<world, jobVars, serviceVars, bookVars, batchVars,
                      enrichmentVars, paperVars>>
    \/ /\ world = "jobs" /\ JobsNext
       /\ UNCHANGED <<world, vars, serviceVars, bookVars, batchVars,
                      enrichmentVars, paperVars>>
    \/ /\ world = "service" /\ ServiceNext
       /\ UNCHANGED <<world, vars, jobVars, bookVars, batchVars,
                      enrichmentVars, paperVars>>
    \/ /\ world = "books" /\ BookNext
       /\ UNCHANGED <<world, vars, jobVars, serviceVars, batchVars,
                      enrichmentVars, paperVars>>
    \/ /\ world = "batch" /\ BatchNext
       /\ UNCHANGED <<world, vars, jobVars, serviceVars, bookVars,
                      enrichmentVars, paperVars>>
    \/ /\ world = "enrichment" /\ EnrichmentNext
       /\ UNCHANGED <<world, vars, jobVars, serviceVars, bookVars, batchVars,
                      paperVars>>
    \/ /\ world = "papers" /\ PaperNext
       /\ UNCHANGED <<world, vars, jobVars, serviceVars, bookVars, batchVars,
                      enrichmentVars>>
    \/ world \notin {"gate", "jobs"} /\ UNCHANGED allVars

\* The fairness of each world, of its own steps (S2Gate, S2Jobs, ServiceLifecycle).
WorldFairness ==
    /\ WF_vars(world = "gate" /\ Tick)
    /\ \A c \in Callers :
        /\ WF_vars(world = "gate" /\ Wake(c))
        /\ WF_vars(world = "gate" /\ WaitTimesOut(c))
        /\ WF_vars(world = "gate" /\ Return(c))
    /\ WF_jobVars(world = "jobs" /\ Wrapper)
    /\ WF_jobVars(world = "jobs" /\ (JobCreated \/ JobRefused))
    /\ WF_jobVars(world = "jobs" /\ SignalFires)
    /\ WF_jobVars(world = "jobs" /\ cancelled /\ BodyEnds)
    /\ WF_jobVars(world = "jobs" /\ SoftTick)
    /\ WF_serviceVars(world = "service" /\ Lifespan)
    /\ WF_serviceVars(world = "service" /\ Keepalive)

WorldSpec == WorldInit /\ [][WorldNext]_allVars /\ WorldFairness
=============================================================================
