# Formal models of scholar-mcp

scholar-mcp is an MCP server (Python, asyncio) that answers questions about
papers, books, patents and standards from Semantic Scholar (S2), OpenAlex,
Open Library, EPO OPS, docling and several standards bodies, with a SQLite
cache underneath. All of its concurrency is one event loop: a coroutine is
interrupted only where it awaits, and everything between two awaits is one
step. The models use exactly that grain.

Paths below are relative to `src/`; the implementation is in
`src/scholar_mcp/`.

## 1. Inventory

| component | state it keeps | operations | what makes it correct |
|---|---|---|---|
| S2 gate `_rate_limiter.py` | last start, shared cooldown, per-call retry context | acquire, cooldown, with_s2_retry, with_s2_try_once | starts spaced, no start during a promised backoff, throttled work ends before its job record |
| Dual-mode tool calls `_s2_jobs.py` | body task, throttle signal, job handle | run inline, defer, start, cancel | one reply; a handle leads to live work; no task is orphaned |
| Standards sync `_standards_sync.py`, `_sync_relaton.py`, `_sync_cen.py`, `cli.py` | standards rows, aliases, sync_runs | sync (per body), identity of a file, withdrawal pass, cache clear | after a sync the rows say what upstream says; "unchanged" is said only when that is so; a joint standard is one row |
| Common Criteria loader `_sync_cc.py` | framework and profile rows, aliases, sync_runs | framework phase, hash gate, profile rows, withdrawals | framework documents are there after every run; the recorded hash stands for stored profiles |
| Citation graph `_tools_graph.py` | frontier, nodes, edges, cached neighbour lists | paging scan, breadth-first walk, bridge search | limits respected, truncation reported, cached and uncached answers agree |
| EPO client `_epo_client.py` | traffic-light cache with its time, request lock | check and record throttle, retry, PDF pages | no request while a service is known to be throttled; bounded retries |
| Patent tools `_tools_patent.py` | search cache, per-section cache, PDF files | sections in parallel, PDF download | a resumed call fetches only what is missing; not-found outranks errors |
| PDF store `_tools_pdf.py`, `_pdf_url_resolver.py`, `_docling_client.py`, `_text_window.py` | PDF files, markdown files | candidates in order, validate, atomic write, convert, windows | an invalid file never poses as the paper; windows tile the text |
| Cache `_cache.py` | SQLite tables with TTLs, columns, applied repairs | open, get, set, TTL expiry, migrations, repairs, clear | each repair runs once and over the rows of its time; no converted text is lost |
| Standards search `_standards_client.py`, `_tools_standards.py` | fetchers per body, search cache | resolve, fan-out search, get, full text | only complete answers are cached; a text reaches those who asked for it |
| Enrichment `_enrichment.py`, `_enricher_*.py` | records being enriched | phases of enrichers in parallel | a failing enricher changes nothing else |
| Service lifecycle `domain.py`, `_server_deps.py`, `server.py` | open clients, keepalive task | start, stop | what was opened is closed on every path |
| Keepalive `_s2_client.py` | failure count, state | ping, sleep, report | reported key status is what the pings saw |
| Record lookup `_paper_cache.py`, `_book_enrichment.py`, `_tools_search.py`, `_tools_recommendations.py`, `_tools_books.py` | paper, author and book caches, aliases | resolve, cache under every id, pages of an author | known authors are not lost; a merged record does not come back; pages tile |
| Batch lookup `_tools_utility.py` | the entries under way, OpenAlex rows | group, fan out, gather in order | entry *i* is about identifier *i*; a patent's failure is one entry's |
| Citations `_tools_citation.py`, `_citation_formatter.py`, `_citation_names.py` | the keys given so far | resolve, enrich, write | keys are unique; names survive; formats agree |
| Configuration, parsing (`config.py`, `_url_guard.py`, `_epo_xml.py`, `_chapter_parser.py`, `_patent_numbers.py`) | none | pure functions | parsing |

### Interactions

A tool call runs `_run_s2_body`, whose body sends its S2 requests through the
one shared `RateLimiter`; the limiter answers a 429 by holding everybody and
by setting the throttle event of the calling tool's context, at which the
wrapper hands the running body to the Jobs manager. The tools read and write
the cache; the command-line tool runs the sync loaders concurrently on the
same SQLite connection. The patent tools go through the EPO client, which has
its own traffic light and lock. The service lifecycle opens all clients and
the keepalive task, and closes them. Papers, books and batches go through the
cache's tables, and what they found passes the enrichment pipeline before it
is answered or formatted as a citation.

### What is hard

Races of sleepers for one slot; refusals that come back out of order; a
caller that cancels while a job is being created; loaders that read rows,
await and write them back; rows two loaders share; a process killed in the
middle of a sync or of a file; a freshness marker that outlives the data it
describes; limits that are reached exactly; lookups that come back empty-handed and then
overwrite what another call knew; a start that fails half-way; repairs that
two processes run at once. PROJECT.json lists them as
hazards, each at its line, with the properties that watch it.

## 2. Modules

| module | code | composes or uses |
|---|---|---|
| `S2Gate`, `MCS2Gate` | `_rate_limiter.py` | |
| `ToolPromise` | what `_s2_jobs.py` promises a caller (abstract) | |
| `S2Jobs` | `_s2_jobs.py` | implements `ToolPromise` |
| `ServiceLifecycle` | `domain.py`, `_server_deps.py`, `run_keepalive` of `_s2_client.py` | |
| `PaperRecords` | `_paper_cache.py`, `_tools_search.py`, `_tools_recommendations.py`, `enrich_paper` | |
| `BookRecords` | `_tools_books.py`, `_book_enrichment.py`, book entries of `batch_resolve` | |
| `BatchResolve`, `MCBatchResolve` | `batch_resolve` in `_tools_utility.py` | an ISBN entry's steps are in `BookRecords` |
| `Enrichment` | `_enrichment.py`, `_enricher_*.py` | |
| `ServiceProofs` | proofs about `S2Gate`, `S2Jobs` and `ServiceLifecycle` | extends them |
| `LookupProofs` | proofs about `Enrichment`, `PaperRecords`, `BookRecords` and `BatchResolve` | extends them |
| `MCService` | one run over `S2Gate`, `S2Jobs`, `ServiceLifecycle`, `PaperRecords`, `BookRecords`, `BatchResolve` and `Enrichment` | extends them |
| `StandardsSync`, `StandardsSyncProofs`, `MCStandardsSync` | `_standards_sync.py`, `_sync_relaton.py`, `_sync_cen.py`, standards part of `_cache.py`, commands of `cli.py` | |
| `RelatonRecords`, `MCRelatonFiles` | how `_sync_relaton.py` makes a record of a file | |
| `MCSyncWorlds` | one run over `StandardsSync` and `RelatonRecords` | extends both |
| `CommonCriteriaSync` | `_sync_cc.py` | |
| `CacheOpen` | `open`, migrations and repairs of `_cache.py` | |
| `CacheProofs` | proofs about `CommonCriteriaSync`, `CacheOpen` and `StandardsLookup` | extends them |
| `CitationPages` | a page of S2's lists, and a filter over it | |
| `BridgeSearch` | `find_bridge_papers` in `_tools_graph.py`, neighbour lists of `_cache.py` | |
| `CitationWalk`, `MCCitationWalk` | `get_citation_graph` | extends `CitationPages` |
| `CitationScan` | `get_citations` with and without `min_citations`, `get_references` | extends `CitationPages` |
| `GraphProofs` | proofs about `CitationScan` and `BridgeSearch` | extends them |
| `WalkProofs` | proofs about `CitationWalk` | extends it and `GraphProofs` |
| `MCCitationTools` | one run over the three graph modules, `CacheOpen` and `CommonCriteriaSync` | extends them |
| `EpoClient` | `_epo_client.py`: light, lock, request | |
| `PatentTools`, `PatentProofs`, `MCPatentTools` | `_tools_patent.py`, `with_epo_retry` | extends `EpoClient` |
| `PdfTools`, `MCPdfTools` | `_tools_pdf.py`, `_pdf_url_resolver.py`, `_docling_client.py`, files of `fetch_patent_pdf` | |
| `TextWindow` | `_text_window.py` | |
| `Citations` | `generate_citations`, `_citation_formatter.py`, `_citation_names.py` | |
| `StandardsLookup` | tools of `_tools_standards.py`, `_standards_client.py`, `_relaton_live.py`, standards tables of `_cache.py` | |
| `FullText` | `_handle_full_text` of `_tools_standards.py` | |
| `DocumentProofs` | proofs about `PdfTools`, `TextWindow`, `FullText` and `Citations` | extends them |
| `MCDocuments` | one run over `PdfTools`, `TextWindow`, `Citations`, `StandardsLookup`, `FullText` | extends them |

A run over several modules puts them side by side, as *worlds*: a variable chooses
which one a behaviour is of, and the others stand still. Nothing is composed by
this; it lets unrelated parts share one run. `CommonCriteriaSync` and `CacheOpen`
are in the run of the citation tools for no other reason than its shorter time.

A name that begins with *Mutated* in its comment (`StartedAfresh`,
`PublishInPlace` and so on) is a wrong version of the definition next to it;
no specification uses it. It documents what the properties are sensitive to:
with the wrong version in place, TLC reports the property PROJECT.json names.

### How states and actions correspond to the code

**S2Gate.** `spacing`, `hold` and `left` are `_last`, `_cooldown_until` and a
context's deadline, kept as the time left until them, because the code only
ever uses the differences from now. `pc` and `timer` say where a caller is:
sleeping in `acquire` (also under `wait_for`, `timed`), or in its HTTP call. The top of `with_s2_retry`'s
loop is `RequestTooLate` and `RequestEnters`; one pass of `acquire` is `Acquire`
(`LetThrough` or `Park`), repeated by `Wake` and ended by `WaitTimesOut`; `Return`
is S2's answer, whose refusals raise the shared `Cooldown` and tell the
retry context (`Notify`) before they go back to `acquire`. A caller is whoever makes one
request at a time; when one has returned it may make the next, for ever. The asyncio loop runs what is due before time moves on:
`Tick` is enabled only when nothing is due, and among sleepers that wake at
the same time any may win.

**S2Jobs.** `wrapper` is the place in `_run_s2_body`, `body` and `signal` are
the two tasks it awaits, `job` is the record. `asyncio.wait` may return with
several tasks done: each combination is a disjunct. Cancellation of the
caller can arrive at each await, also while `jobs.defer` has accepted the
continuation but not returned. `ToolPromise` is the abstract specification;
`KeepsPromise` is the refinement: `replied`, `handed`, `raised` and `left` map to
the one reply, the body task to the work, the job to `tracked`.

**ServiceLifecycle.** `svc` is the place in `start` or `stop`, `cleanup` the
`AsyncExitStack`, `live` what exists and is not closed. `Order` is the order of
`_open_clients` and `start`; each step builds and registers, or fails, and
`CloseNext` takes one cleanup off the stack. The cache registers its close before
it opens, so it is two steps. `task` and `status` are the keepalive's task and
`S2_KEEPALIVE_STATUS`, a module singleton that outlives a service: a process may
start several in turn. `alarms` (history) counts what the log said.

**PaperRecords.** `papers` keeps the id inside each row, because S2 merges one
paper into the other at some time (`Merge`) and a row of the old id may say
either. A call reads the alias, reads the row, asks S2 for the caller's own name, stores
the record under the record's id, stores the alias: five steps between which
rows expire and other calls run. An author's reader follows `next_offset` with
any page sizes over a list whose `paperCount` may overstate it.

**BookRecords.** One work and its editions. A row is nothing, a record without
authors (`bare`) or one with them (`named`), since what can go wrong is that a
record that knows its authors is replaced by one that does not. The four
ways of an answer (found, missing, refused, raised) are told apart as each
client does: Open Library's takes an error status for an absence, Google's raises.
`cache_book_record` is `StoreIsbn`, `CheckWork`, `PutWork`: a check and a write with
an await between them. What a call could have seen is kept with it as history: whether the work's row
named authors when it began (`knew`) or came to store (`saw`), and whether another call has put a
record without them over it since (`lost`).

**BatchResolve.** `Classify` is `_classify` with its `doi_map` by position.
Each identifier has what it is (`kind`) and what it looks like (`form`), which
differ for one kind of S2 id. The entries run under one gather; `Raises` is an
exception of one, which ends the call while the others run on.

**Enrichment.** A task for each enricher and record that fit when the phase
starts; the semaphore is the bound in `Admit`. The cached answer, the upstream, the
write to the enricher's table and the field are steps of their own, and a cancelled call
may cut each of them (`CancelCall`). An enricher may raise in its cache, its upstream or,
with the answer in hand, its table (`MayRaise`): the write comes before the field in
the same `try`, so the field then stays unset. An answer, cached or fresh, may hold
nothing for the record, a work without a venue or a volume without a preview link
(`FillsNothing`). `empty` (history) is the pairs that ended without a field for such a reason.

**StandardsSync.** `loader[b]` is the coroutine of one body: freshness check,
snapshot of `prev_ids`, tarball, record batch, alias batch, withdrawal pass
(read, await, write), marker. A batch is one transaction; between any two of
them others run and the process may be killed. `rows` has one row per
canonical id with its kind (live or synced), source and status. Upstream may
publish a new commit at any time; a tarball is of the commit that was asked for. `clear`, `--force`
and the server's live writes are actions. `promised` and `wiped` are history
variables: what the recorded commit parsed to, and what a clear removed.

**RelatonRecords.** A file is the sequence of its docid entries, each of a body and
with an identifier that is spelled with bodies in some order. `Canonical` is
`_canonical_identifier_and_body`, over the places of the entries that are no trademarks
(`NotTrademarks`); `Joined` is `_normalise_joint`. `RecordAssumption` says that a file lists one
identifier of each of the three bodies, as each of their repositories does: of two, the code would take the
first. One step reads the file; the property compares it with every file that counts the same, in every order.

**CommonCriteriaSync.** `loader.entry` and `loader.written` say how far the
framework phase is in its table, an entry's aliases coming after its records (`WriteAliases`); `Fetch` compares the list's hash (its version) with the recorded
one; `PlanWithdrawal` is the guard, and each profile is read and marked in two
steps. Other loaders write the shared ISO/IEC rows, the portal publishes another
list, the cache is cleared and the process killed at any point.

**CacheOpen.** `columns`, `ledger`, `stored`, `texts` and `marker` are what is committed;
`proc[p].work` is what the open transaction of `p` has made of it. `ALTER TABLE`
commits by itself; `ReadLedger` is the first write of the transaction, which takes
SQLite's write lock; `Commit` ends it and `Leave` rolls it back. A row is what the
repairs' `WHERE` clauses tell apart, and `seen` (history) the ledger when it was
written.

**BridgeSearch, CitationWalk, CitationScan.** The literature is a graph that
stands still during a search (`CitationScan` lets new papers
appear, and is a page of citations, of references, or the threshold scan). Each await is a step that succeeds or fails: the neighbour lists of
`BridgeSearch` are read from the cache, fetched and stored in three steps,
and may expire or be stored by the other call in between. A list of which S2 sends its first page only is any part of that size (`Pages`). The queue, the
visited set, the budget checks and the pages are the code's.

**EpoClient, PatentTools.** `seen` and `age` are the remembered traffic light
and its time; `line` is the FIFO of the request lock; `req` is each request's
stage. `Ask` consults the light before the lock, `Answered` after it. A call
of `PatentTools` starts its coroutines (`Started`), gathers them with the
precedence of the code (`Gather`: missing, then refusal, then error), and
`Report` is what `with_epo_retry` makes of a refusal. What S2 makes of the papers a
patent cites is an outcome of the call's last step.

**PdfTools.** `call[c].stage` is the place in the tool. File work runs in
threads, so opening and writing are separate steps. `pdf[p]` holds how much of a
file is there, the URL it came from and who wrote it; `md` is keyed by stem
and mode as the code's file names are. `CheckOpens` and `CheckCompares` are
the two halves of `_cached_pdf_is_valid`; `Publish` is the rename; patents
and markdown are emptied first and filled later. `Kill` ends all calls and
leaves the files.

**StandardsLookup.** `call[c].stage` is the place in the tool and `job[c][f]` the
coroutine of call `c` in fetcher `f`. A search starts all jobs at once
(`Ask`) and collects them when all have ended (`Searched`, with the rule of
`_collect_search`); a lookup takes them one by one (`Got`). The single requests of a
call touch nothing that is shared and end in one step (`Requests`). The two fetchers
that load a catalogue do so in steps behind their lock: `NistEnters` and
`W3CEnters` are the acquisition with the second look at memory, and the lock is
free when nobody loads. How each fetcher fails is `Outcomes`: ETSI raises the
error that is told, the others answer nothing or crash. `StoreAlias` and `StoreRow` are two
awaits, in the order each tool has them; `Expires` is a TTL that has passed,
and a synced row has none.

**TextWindow.** `WindowStart` and `WindowEnd` are the clamps of `page_text`;
the reader follows `next_offset` with any sizes.

**Citations.** A name is a sequence of words, each a particle, a suffix or
neither; a key is a sequence of symbols, so that a base with a letter can meet
another author's surname (`Numeral` is a number as text, of which only that two numbers differ
matters). `CitationKey` is `generate_bibtex_key`; `BibtexFields`,
`CslFields` and `RisFields` are what each format shows of a record's facts.

**FullText.** Two calls for one standard, with its text or without. `row` is the
metadata row's text, `texts` the table of its own, and a text is the version of the
document it was converted from.

## 3. Runs

Each run is one question. *Violation* runs show a place where the code does
something other than what the quoted line says.

| run | what it shows |
|---|---|
| `service` | *gate*: no two S2 requests start too close or inside a backoff told to anybody; a bounded wait ends before its job record; refusals surface only when ladder or window is used up; nobody waits while the gate stands still, and bounded waits end. *jobs*: every call gets one reply (refinement of `ToolPromise`); no body is orphaned; a handle leads to work; a finished answer reaches a waiting caller. *service*: what is built is closed, last first, whichever step fails; the log and the reported state agree, and a refusal that lasts is reported. *papers, books, batch, enrichment*: a merged record does not come back; pages of an author tile; known authors are kept and used; entry *i* answers identifier *i* and a patent's failure is its own; a failing enricher disturbs nothing else |
| `keepalive` (violation) | a ping that is answered with a 200 whose body is no JSON ends the keepalive |
| `s2_gate_deadline` (violation) | a body that parks in `acquire` before it was throttled has no deadline and may outlive its job record |
| `sync` | the recorded commit stands for stored and published rows; no alias precedes its record; synced rows are lost only to a clear; at most half is withdrawn; a clean report means agreement; a joint standard's files make one row in whatever order they list its identifiers |
| `sync_force` (violation) | `--force` does not pass the 50 % guard, as the docs say it does |
| `citation_tools` | the graph is sound and cut at its rim, and without a mark has all its requests could read if budget was left; a short page without warning is the end of the list; bridge paths are real and at most `max_depth` + 1 hops long, an unmarked one is a shortest and an unmarked "no path" true as far as lists are not cut, searches end; Common Criteria's recorded hash stands for stored profiles, every report leaves the framework documents, at most half of the profiles are withdrawn; each repair of the cache runs once, touches no later row and loses no text |
| `walk_budget` (violation) | a walk whose budget is used up exactly is not reported as truncated |
| `patents` | no throttle hides in an answer; "not found" is true; a repeated call fetches only what is missing; calls end |
| `epo_retry` (violation) | a retry may be refused from a copy another call renewed, without asking EPO |
| `documents` | only whole PDFs are used; a failure has tried every source; what is there is not downloaded or converted again; windows tile the text; citation keys are unique and names and fields survive in each format; what a standards search keeps has all of ETSI's and the synced matches; "not found" is not said after a failure; NIST's catalogue is loaded by one call at a time; a full text reaches those who asked and a failure never passes for one; calls end |
| `pdf_source` (violation) | the second answer for a paper names the wrong source |
| `standards_complete` (violation) | a list cut short by a refusal or a crash is cached as complete |

`CHECK_DEADLOCK FALSE` is set where all calls end and nothing is left to do.

### Bounds

- `service`, *gate*: three callers, two of them requests of one tool body, the third a direct call
  that may be the keepalive's probe (`TryOnce`). Three is the least with which two share
  a context while a stranger competes with them. Each makes requests for ever, so that a
  sleeper may be overtaken again and again: that a wait which no window bounds need not end
  while others go on is part of what `EveryWaitEnds` says. Times are 1 to 4 units, the least
  that keep the code's order delay ≤ backoff ≤ window < record, a window that ends within a
  backoff included. The proofs remove these bounds.
- *jobs*: a soft deadline of 3 units; the rest is finite as it stands.
- *service*: all eight settings (docling, EPO and a key, or not), two services in
  turn, a threshold of two failures (the code has three): the least at which a
  streak can be below, at and above it. `keepalive` needs one service and a threshold of one.
- *books*: every two kinds of calls about two editions of one work, or three calls about one
  edition, the first for the work and the last by ISBN: the least at which one call's late
  write loses the authors that a second had seen. *papers*: two
  papers by any names, or any other kind beside an author's reader or an enrichment, a
  list of three publications that claims four, page sizes 1 and 2.
- *batch*: any three, in any order, of six identifiers: two DOIs, a paper, a paper that
  looks like a patent, a patent and an ISBN.
- *enrichment*: a record that four enrichers take beside one that one takes, or two books,
  two tasks at a time, at most one cached answer to begin with.
- `sync`: a `scene` bounds what a behaviour is about. Here it is two bodies with one own
  and one shared id over two commits, or one body (repository or table) with three ids, one
  of which may not parse, over three commits; the proofs hold for any set of scenes. Three ids are
  the least where "more than half" and "all" differ, three commits the least
  where a withdrawn id can come back. Files: every choice of an entry of ISO, IEC,
  IEEE and a fourth body in each of their usual spellings, with and without a trademark.
- `citation_tools`: all 2048 graphs in which five papers cite older ones or,
  the oldest, the newest, and five requests chosen so that each cut of the code happens: `fetch_limit` 2 and
  5,000 records 3 where a list may have 4 papers, pages of 1, budgets that are left over, used up exactly and exceeded,
  by the walk or by the seeds alone. Seven scanned records with three arrivals. Bridges over five papers of
  five graphs with depth 2 and a limit of 2 neighbours: a short way beside a long one, two papers that cite
  a third, a ring whose target is three hops away, and two lists of three where a page without the target leaves a
  longer way, or none. Common Criteria: one framework document that is published twice and two
  profiles, one of which may be archived and one spoiled, over two lists. The file:
  two processes, one row in each of seven tables, of every kind a repair tells apart.
- `patents`: two calls in five combinations, one retry, a TTL of 1 and a wait
  of 2 units, which keeps wait > TTL, four lights, two pages or patents.
- `documents`: two calls in 36 combinations over three paths, two of which share a
  stem, one kill, two polls; texts of up to 7 characters with windows of up to 3;
  lists of up to three papers whose keys can meet, four to use up both letters,
  five to be too many, every name of up to four words, and every kind of entry;
  eleven pairs of standards calls over nine ids, one or two per source, two pages
  of W3C's list. Two calls are enough to wait at a lock and to write one row or alias.

### Fairness

Nobody is ever obliged to call a tool, and nothing is assumed about who wins
a race.

In `MCService` all fairness is in `WorldFairness`, for the steps of the world a behaviour is of:

- `S2Gate`: time passes; a sleeper that is due runs; an HTTP call that is due
  returns (its timeout makes it due) and a `wait_for` that is due fires. These are
  the event loop's and httpx's guarantees.
- `S2Jobs`: the wrapper, the Jobs manager, the signal task and time go on, and a
  cancelled body ends. A body that nobody cancels need not end.
- `ServiceLifecycle`: start, stop and the keepalive's task go on: each ping is one
  request with a timeout, and the pauses end. No step is obliged to succeed.

The other worlds of that run have no liveness property. In the other runs:

- `BridgeSearch`: each search goes on: its requests end by the gate's guarantee.
- `PatentTools`: something goes on while anything can (a step of a call, EPO's
  answer, or time); all its progress is bounded, so this weak form is enough.
- `StandardsLookup`: some call that can go on does: all requests have timeouts.
- `PdfTools`: some call that can go on does: downloads time out after 120 s and
  conversions are polled at most 200 times.

## 4. Proofs

TLAPS proves the following for all values of the constants. All depend only
on the named assumptions of the modules, which say what the code's constants and
inputs are (positive limits, a library that is finite, records that have the fields they
have, `TimesAssumption`: window plus HTTP timeout fit in the record's TTL) and which TLC
evaluates in the runs. Some theorems have a hypothesis besides, named where they are listed:
`PatentsApart` (PDFs) and `WindowAssumption` (text windows), and
`ReferenceGraphsAreComplete` is about some requests only.

- **ServiceProofs**, gate: `GateTypeCorrect`; `StartsArePaced`, an
  action property, from `SpacingInv` (the age of the last start is what spacing has
  counted off) and `OwedInv` (the shared cooldown is never below what any caller was told);
  `BoundedWorkIsInTime` from `RecordInv`, which relates what is left of the
  window, of a timer and of the record; `RefusalsEarned`. `GateWakesAll`, from `SleepInv` (a sleep is never longer
  than the gate is shut): nobody oversleeps, however requests were let through and refused since it lay down.
- **ServiceProofs**, calls: `AllWorkIsOwned`, with its halves `NoBodyIsOrphaned` and `HandlesMeanWork`,
  and the refinement `PromiseIsKept`. `Shape` ties the wrapper's place to which tasks exist.
  `AnswersReachCallers` needs `AnswerIsKept`: an answer that the body has given is with the body, in
  the record of the handle, or with the caller, until somebody has cancelled. `ToolCallsRunDown` counts what is left to
  happen (`CallHas`); every step of anyone lowers it, so a call comes to rest, though its body need not end.
- **ServiceProofs**, service: `ConnectionsSound` from `ConnectionsInv`: the stack is in
  the order of construction (`StackOK`) and holds exactly what is live, and no
  step has been reached whose predecessors are not built or unwanted (`ReachOK`); closing
  from the top then closes a user before what it uses. `LogAgrees` from `StatusOK`:
  the log is one alarm ahead exactly while the streak has reached the threshold.
- **StandardsSyncProofs**: `TypeCorrect`, `SyncedStays`, `AliasesLeadToRowsAlways` and
  `SyncIsTrueAlways`, all of the sync's property for any bodies, ids and commits. The recorded commit
  (`MarkerMeansStoredAlways`): the key set is `Covered`, ids that are synced
  or were wiped. It only grows, and `StoredInv` says that each stage of a
  loader has covered what it is about to rely on. Withdrawals (`WithdrawalsAreGuardedAlways`): `GuardInv`
  carries the snapshot of `prev_ids` to the withdrawal pass. Agreement (`CleanRunsAgree`,
  `UpToDateMeansPublishedAlways`) from `AgreeInv`: how far a loader has brought each id that only its
  body publishes (`Brought`), that a loader's commit lies between the recorded and
  upstream's and equal commits have equal ids (`Reads`), that a row carries a body that publishes it
  (`RowsFit`), and that what the recorded commit publishes is not withdrawn (`MarkersAgree`).
  `JointRecordsDoAgree`, for any files: what a file counts decides its identity (`SameIdentity`), since
  the first place of a type is one of its places and all of them agree (`SameFirst`), and a file that is
  turned counts the same (`TurnedCounts`).
- **CacheProofs**: `CriteriaTrue`, all of the Common Criteria loader's property. `CriteriaInv`
  says what each phase has done so far: the framework table is stored up to the two
  cursors unless a clear came in between (`FrameworksKept`), what the list publishes is stored
  (`ListedAreStored`), and what it dropped is known to the withdrawal pass
  (`DroppedAreFound`). `RepairsSafe`, for any number of processes that open one file: `OpenInv`
  relates what is committed, and what the one open transaction has made of it, to the
  repairs done so far; the ledger's first write, which takes the lock, is what makes each run once.
  `LookupsHonest`, of the standards tools, for any calls, any answers of the fetchers and any sets of
  standards: `JobSays` is what each fetcher's coroutine vouches for at each place (a crash is one
  of IETF, NIST or W3C, which hold nothing that must be found; a list of ETSI's is all it has), `Walking`
  that a lookup which no longer has ETSI to ask has been told by it or remembers its refusal, and
  `Settled` that aliases lead to keys which their form leaves alone. The assumption
  (`LookupAssumption`) is what the tables of identifiers are: a form is its own form, a sync stores only
  what Relaton, CC and CEN publish, W3C lists what is W3C's. TLC evaluates it in `MCDocuments`.
  Two more theorems say that such a call comes to an end as far as that needs no fairness. `Sent` says where each
  coroutine may be: whatever is asked has begun.
  `LookupsRunDown` counts the steps of each coroutine by its place, those of one still to come as if it had just begun
  (at most 12 × `Pages` + 46 for a call), and `NoLookupHangs` shows that a call which is not over can go on or waits for a
  catalogue whose loader can, so that no crash and no restart leaves a lock behind.
- **LookupProofs**: `EnrichmentContained`, for any records and any
  concurrency and whatever raises: when a call is over, a field that an enricher could still fill is missing only
  because that enricher raised or had nothing for it (`empty`), never through another's failure; no task of it writes later. `MergedStays`: after the merge S2 answers with the
  published id alone, and `Shaped` says where a call's id can come from, so that a
  call that is not behind never stores the other one. `AuthorPagesDoTile`: what a reader
  has got is the list up to its offset (`ReadersOK`), whichever page sizes and whatever
  the record's count says. `AuthorsAreKept` and `BooksAnswered`, for any editions and any
  number of calls: `BookCallOK` relates what a call holds to what the work's row held when it began and came to
  store, unless another call has lost it in between (`lost`). `BatchAnswered`, for any list of identifiers: `EntryOK` says
  of each entry which of the phases may have filled it, and with what.
- **PatentProofs**: `PatentInvariant` for `Inv`, and from it `RefusalsSurface`, `MissingMeansMissing` and
  `NothingIsAskedTwice`, for any calls, lights, waits and number of retries. The lock's line holds exactly
  the requests that ask (the client's `ClientTypeOK`); each call asks for its own
  items, its opening request first (`AsksItsOwn`, `OpensFirst`); a section it was given is stored and is
  asked for by no later request of it (`AskedOnce`). The answer is then sound by the precedence of `Gather`.
  `PatentTypes` adds what the ladder says of a wait (`WaitsFit`; that 2^*n* is a positive number is read off the subsets of
  *n* things). Of `CallsEnd`, which needs fairness, the two halves that do not are proved: `NobodyHangs`, what a
  running call needs next is under way or has ended (`NeededIsThere`), and `CallsRunDown`, an action property over a count of
  the steps a call can still take (`StepsLeft`: what its attempt has left, plus the most any later one can
  take), which each of its steps lowers and no step of another raises. `AloneEveryRetryReprobes` bounds a
  finding: what `epo_retry` refutes with two calls is true with one, since then the light is not
  trusted any more when a wait is over and nothing but the retry's own requests can renew it (`Reprobes`).
- **DocumentProofs**: `WholePdfsOnly`, for calls in which no URL is saved
  under a patent's name (`PatentsApart`; its caller chooses the name, and
  patents are written in place). `WholeInv` says that the files of papers and
  URLs are never partial, which is what makes the header check sufficient.
  `EverythingIsTriedOnce`, with no hypothesis, from `OnceInv`: a paper's call at place *n* of the order has tried
  just the URLs before *n* (`Tried`), its file if it is whole and nobody is about to write it
  stays so (`Settled`, `Calm`), and a markdown file once there never goes away.
  `FileCallsRunDown`: of the safety half of `EveryCallEnds`, a call's stage, its place in the order and its polls
  fix how many steps it has left (`StepsLeft`, at most `MaxPolls` + 36); its own steps lower that, and no other's raise it.
  `WindowsTileTheText` by joining adjacent slices, and
  `WindowIsForward`, the variant that makes a reader come to the end.
  `BibliographiesUsable`, for any papers: `NameIsTakenApart` joins the pieces a name was cut into, `KeyIsNew`
  finds a free number among one more than there are keys (so the search from the count of the keys on
  always ends), and `CitationInv` says that keys and papers to come are together no more than
  `MaxPapers`, and that what is written comes before what is to come.
  `TextsHonest`, for any calls and any number of editions: `TextCallFits` says at each await what the call
  may still do and what it holds; nothing writes the record's row (`ShelfOK`).
- **GraphProofs**, scan: `ShortPages`, for any list, threshold, offset, batch and cap and however the list
  grows. `ScanInv`: a paper that was listed when the call began and lies before the offset of the next
  page is among the items if it passes, since arrivals only push the list towards its end.
- **GraphProofs**, bridges: `BridgesAreReal`, for any literature and number of searches, whatever fails or
  expires and however lists are cut: `RealInv` says that queued paths are walks, that cached lists
  are part of the literature and that no path of more than `max_depth` hops is extended. `BridgesAreTrue` adds
  what an unmarked answer is worth. Of a list longer than one request (`limit=100`) the code reads a page and
  keeps it without a mark, so a way through such a list may be missed. The theorem therefore speaks of the walks along lists that do
  fit (`SureWalks`): none is shorter than a path that is answered, and none of up to `max_depth` + 1 hops leads
  to the target when none was found, wherever else lists are cut. `WholeInv` adds that a cached list has all of a list
  that fits and that a search without a failure is a breadth-first one for such walks (`Level`): the queue holds paths of *n* and behind them of *n* + 1
  papers, all within *n* - 1 sure hops is visited, and each visited paper is spent (its sure neighbours are
  visited and are not the target) or waits at the end of a path. `Past` is what is left once
  paths are too long. An empty queue then means that no sure walk leads out of what was visited.
  `BridgesRunDown` does not need fairness: the papers queued and those not yet visited are together never
  more (`PerPath`), for a paper is queued once (`Bounded`), and each path costs at most three steps per
  kind of list; so a search takes no more than `AtMost` steps.

- **WalkProofs**: `GraphsAreSound`, for any literature and request, whatever fails and wherever lists and
  budget cut: `WalkInv` says that a queued paper is a node within the hops it is queued with, and that the triples a node's
  expansion has found so far are neighbours of that node. The code cuts without a mark where a list
  is longer than a request (`:533`) or than the cap of a scan (`:499`), where a budget used up exactly leaves no room for
  the next request (`:502`, what `walk_budget` shows), where a scan ends as soon as what it
  found could fill the room, although some are nodes already (`:502`), and where the seeds alone exceed the budget (`:780`).
  So `UnmarkedGraphsAreComplete` measures an answer by the lists up to the caps (`ReadCiting`, `ReadCited`), and
  speaks of those whose budget had room left (`RoomToSpare`, of the answer and the request alone):
  without a mark they have every node and edge that their requests could read. `GraphsAreCutAtTheRim` needs no room,
  except for a scan of many pages. `CompleteInv` makes the walk a
  breadth-first one: at each moment there is a hop *k* (`AtHop`) such that the queue holds papers of *k* and
  behind them of *k* + 1 hops, all within *k* hops are nodes, and every paper nearer than that is expanded or waits in the
  queue; once the budget has cut, what was left out is farther than *k* (`Rim`). That a scan which had room to spare has
  read all counts what it has found (`Counted`). `ReferenceGraphsAreComplete` states both for walks
  along references whose seeds fit, room or not.

Four inductions are needed that the library's theorems, which take an operator, do not give: over the
number of hops (`NoWayOut`, `WithinIs`), over the records of a page (`SiftedRuns`) and over the triples of
a paper (`JoinedIs`). `SetInduction` in
`GraphProofs` is induction for a *set* of naturals, proved from the finiteness of intervals
(a set that is closed under successor but lacks a number has a least one that it lacks).

Only model-checked:

- everything under fairness (`EveryWaitEnds`,
  `EveryCallIsAnswered`, `ThrottleIsExplained`, `RefusedKeyIsReported`, `BridgesEnd`, `CallsEnd`, `EveryCallEnds`),
  which TLAPS does not handle. Of `BridgesEnd`, `CallsEnd`, `EveryCallEnds` and `EveryCallIsAnswered` it is shown by proof that the steps run
  out (`BridgesRunDown`, `CallsRunDown`, `FileCallsRunDown`; for `EveryCallIsAnswered`, `ToolCallsRunDown`) and, for `CallsEnd`, that nobody waits for what is not
  under way (`NobodyHangs`); for `EveryWaitEnds` that nobody oversleeps (`GateWakesAll`). `EveryCallEnds` covers the
  calls of `StandardsLookup` too, for which `LookupsRunDown` and `NoLookupHangs` show it but for fairness. That the steps are taken is what
  fairness adds.

The type invariants
of `S2Jobs` and `StandardsSync` are proved (`TypeAndShape` and `TypeCorrect`) and are not part of a run.

## 5. Observations without a run

Met while modelling, each too far from a quotable promise, or outside a model, to be a run.

- `cache clear` leaves `standards_sync_runs`: the next sync reports
  "unchanged" over an empty table (`_sync_relaton.py:537`).
- A joint record is withdrawn when one body drops it, though the other still
  publishes it (`_sync_relaton.py:663`).
- A file that cannot be parsed counts as missing and may be marked withdrawn
  (`_sync_relaton.py:650`).
- A path of `find_bridge_papers` may have `max_depth + 1` hops, since a path of `max_depth` hops is still extended
  (`_tools_graph.py:939`), though `docs/reference/tools/citation-graph.md:199` says "If no path exists within `max_depth`,
  `path` is absent". `PathsAreReal` has the bound that does hold.
- `find_bridge_papers` sees the first 100 neighbours of a paper only
  (`_tools_graph.py:841`) without a mark, so that with longer lists an unmarked answer need not be right, and the page is
  cached as if it were the list. The per-node scan of a walk with `min_citations`
  ends at 5,000 records without a mark (`_tools_graph.py:499`), and stops without one when the papers it has found would
  fill the budget (`:502`), though some of them are nodes already (`:680`); without
  `min_citations`, one page of a list is read (`:533`), and seeds beyond `max_nodes` are dropped (`:780`).
- A paper whose PDF is on disk is answered `no_oa_pdf` when no source knows a
  URL at the moment, for instance because Unpaywall failed: the file is
  looked at only inside the loop over candidates (`_tools_pdf.py:210`).
- `convert_pdf_to_markdown` names its cache file after the stem alone: two
  files of one name in different directories share one text (`_tools_pdf.py:353`).
- Markdown and patent PDFs are written in place and taken by existence: after
  a kill in between, a torn one is served from then on; two calls that convert
  at once may leave a mixture (`part` and `mixed` in `PdfTools`).
- `resolve_standard_identifier` searches all sources when a text has no form it knows and
  drops their failures (`_standards_client.py:1580`): a null record without a
  warning need not mean that "the sources looked and found nothing"
  (`_tools_standards.py:125`), and the only match of the sources that did answer is
  stored as the text's alias.
- A stub that Relaton's fetcher makes up when GitHub fails is stored as the
  standard's record for 90 days (`_relaton_live.py:229`); ETSI's first hit is taken for the
  record asked for, whatever it is (`_standards_client.py:1162`); a search of an
  unknown body is an empty complete answer (`:1442`); IETF's refusal is
  `not_found` (`:376`).
- Two `sync-standards` processes on one file are not guarded against each other.

Service:

- `server_lifespan` builds its `Service()` from the environment, not from the
  configuration that `make_server` was given.
- `sync-standards`, `cache stats` and `cache clear` open the cache before their `try`: an
  open that fails leaves the connection to the process's end. `sync-standards` of a single
  body exits with "no body synced" when one of its files could not be parsed.

Cache and sync:

- Of two processes that open a version 1 database at once, the second `ALTER TABLE` fails
  with "duplicate column" and so does its open, though the comment at
  `_cache.py:421` says that two may open at once.
- A run whose withdrawals were aborted by the guard, or with files or rows that did not
  parse, records its commit or hash all the same: the next one is "unchanged" and without
  errors. After `cache clear` an unchanged Common Criteria list leaves the profiles away.
- The text inside a NIST row under a foreign identity is deleted with its row, before the
  repair that would have moved it. Common Criteria's shared ISO/IEC row is deleted
  by a later repair of the same open if it had lost its `synced_at`, until the next sync.

Lookups:

- Open Library's error statuses are `not_found` to the caller; a search that was refused is kept
  as an empty one for seven days, and an ISBN whose authors could not be had for thirty, even
  when the work's row names them. Two calls may both pass the check of
  `cache_book_record` and the later, poorer one wins if the first wrote in between: only
  what a call could have seen is kept (`KnownAuthorsAreKept`).
- A request that waits in `acquire` with no retry window around it may be overtaken by others for ever (`EveryWaitEnds`).
- `batch_resolve`: an S2 id is 40 hexadecimal digits; one that begins with be, ca or de and a decimal digit passes `is_patent_number`
  (`_patent_numbers.py:157`) and is answered as `invalid_patent_number`, without asking S2 (the identifier "be1" of `MCBatchResolve` is
  such an id), though `_tools_utility.py:276` lists "S2 IDs". Plain DOIs without the `DOI:` prefix, which the docstring lists, get no OpenAlex fallback; the
  model's batches have none (`BatchAssumption`). A network error of OpenAlex or Open Library fails the whole batch, and
  its siblings run on. `enrich_paper` answers `not_found` for every status of S2 but 429.
- `get_author` with a limit of 0 answers an empty page whose `next_offset` is its
  offset. A cached record that is shorter than S2's list is read to its end and no further.
- A book's cover is written in place and taken by existence.
- `get_patent`: an S2 throttle while the cited papers are resolved ends the call as S2's rate
  limit, although EPO's sections are cached by then.
- `get_standard` promises `full_text` or an error (`_tools_standards.py:316`); with no docling
  configured it has neither (`:279`). Two calls that convert one document at once may store
  different editions, the later over the earlier.

Citations:

- Authors' names are not escaped in BibTeX, unlike titles and venues. A name with a suffix and no
  given name ("King Jr.") is written "King, Jr.", which BibTeX reads as a given name. The key of a
  book whose authors come from `book_metadata` begins with "anon", and that of a surname
  without ASCII letters is a bare year, or empty.

## 6. Not modelled, and what comes next

Not modelled because they keep no state: the parsing of EPO's XML, of
chapters and of patent numbers (`_epo_xml.py`, `_chapter_parser.py`, `_patent_numbers.py`), the choice of
titles, dates and identifier patterns in upstream files, escaping and layout of citations,
access links, the URL guard, configuration, registration and prompts, the
repository's scripts. `get_sync_status` and `cache stats` are plain reads. The cover that `get_book`
downloads and the order of book search results are left out. SQLite, httpx, the
asyncio loop, docling, the Jobs manager and the upstream services are
external and modelled by what the code sees of them.

Three hazards have no property: sync aliases expire while their records do not
(`_cache.py:1401`), and files that are written in place (`_tools_patent.py:414`); neither is
promised anywhere, so no property could be stated that the code means to keep. The third, a paper's id that
begins like a patent number, is answered wrongly (section 5).

What could follow:

1. The TTL of sync aliases next to an unchanged run, once it is decided what should hold.
2. `S2Jobs` composed with the gate that its body waits at, through the throttle signal both share.
