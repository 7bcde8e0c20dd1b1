---------------------------- MODULE PatentTools ----------------------------
(***************************************************************************)
(* The patent tools on top of EpoClient: search_patents, get_patent with   *)
(* its sections fetched together, get_citing_patents and the document      *)
(* download (_tools_patent.py), each run by with_epo_retry                 *)
(* (_epo_client.py), which repeats the whole operation after a throttle    *)
(* and waits longer than a seen light is trusted.                          *)
(*                                                                         *)
(* All calls ask about one publication.  Its sections are cached one by    *)
(* one, so that a repeated operation resumes.  Files are not modelled      *)
(* here: a download ends with the document in memory.                      *)
(***************************************************************************)
EXTENDS EpoClient, FiniteSets

CONSTANTS Wishes,  \* what the callers may come to ask, a record of kind and sections each
          MaxRefs, \* most patents a citing search answers, and pages a document has
          Delay,   \* the first wait of the ladder, in ticks (65 s)
          Retries  \* attempts after the first (_THROTTLE_MAX_RETRIES)

Sections == {"biblio", "claims", "description", "family", "legal", "citations"}
Kinds == {"search", "sections", "citing", "document"}
Wish == [kind : Kinds, wanted : SUBSET Sections]

ASSUME WishesAssumption == Wishes \subseteq [Callers -> Wish]
ASSUME LadderAssumption == Delay \in Nat /\ Delay > TTL /\ Retries \in Nat
ASSUME MaxRefsAssumption == MaxRefs \in Nat \ {0}

VARIABLES wish,     \* what the callers ask
          exists,   \* whether EPO has the publication
          call,     \* the state of each call
          stored,   \* the sections in the cache
          searched, \* whether the search result is in the cache
          fetched   \* how often EPO answered a call with a section

vars == <<seen, age, line, req, wish, exists, call, stored, searched, fetched>>

Answers == {"results", "sections", "patents", "document", "patent_not_found", "search_failed",
            "pdf_not_available", "rate_limited", "epo_unavailable", "s2_throttled", "raised"}
\* What becomes of the papers a patent cites, at Semantic Scholar.
NplOutcomes == {"none", "resolved", "unresolved", "throttled"}
States == {"new", "running", "waiting", "done"}

\* One run of an operation: its attempt, what is left of the wait before the
\* next, how far a sequential operation has come (patents looked up, pages
\* fetched) and of how many, whether a request of the attempt reached EPO.
TypeOK ==
    /\ ClientTypeOK
    /\ wish \in Wishes
    /\ exists \in BOOLEAN
    /\ call \in [Callers -> [state : States, attempt : 0..Retries, wait : Nat, step : 0..MaxRefs,
                             total : 0..MaxRefs, probed : BOOLEAN, npl : NplOutcomes, answer : Answers \cup {"none"}]]
    /\ \A c \in Callers : /\ call[c].wait <= Delay * 2 ^ call[c].attempt
                          /\ call[c].step <= call[c].total
                          /\ call[c].wait > 0 => call[c].state = "waiting"
    /\ stored \subseteq Sections
    /\ searched \in BOOLEAN
    /\ fetched \in [Requests -> Nat]

New == [state |-> "new", attempt |-> 0, wait |-> 0, step |-> 0, total |-> 0,
        probed |-> FALSE, npl |-> "none", answer |-> "none"]

Init ==
    /\ ClientInit
    /\ wish \in Wishes
    /\ exists \in BOOLEAN
    /\ call = [c \in Callers |-> New]
    /\ stored = {}
    /\ searched = FALSE
    /\ fetched = [r \in Requests |-> 0]

Running(c, kind) == call[c].state = "running" /\ wish[c].kind = kind

\* The tables of the sections, and of searches.
GetSection(i) == i \in stored
SetSection(i) == stored' = stored \cup {i}
GetSearch == searched
SetSearch(answered) == searched' = (searched \/ answered)

\* The sections an attempt fetches: biblio is always probed.
Fetchers(c) == wish[c].wanted \cup {"biblio"}

\* Mutated Started: a repeated attempt starts over.
StartedAfresh(c) ==
    CASE wish[c].kind = "sections" -> [i \in Items |-> IF i \in Fetchers(c) THEN "ready" ELSE "none"]
      [] wish[c].kind = "document" -> [i \in Items |-> IF i = "inquiry" THEN "ready" ELSE "none"]
      [] OTHER -> [i \in Items |-> IF i = "search" THEN "ready" ELSE "none"]

\* The coroutines an attempt starts with; a section that is cached is taken from there.
Started(c) ==
    CASE wish[c].kind = "sections" ->
            [i \in Items |-> IF i \notin Fetchers(c) THEN "none" ELSE IF GetSection(i) THEN "ok" ELSE "ready"]
      [] wish[c].kind = "document" -> [i \in Items |-> IF i = "inquiry" THEN "ready" ELSE "none"]
      [] OTHER -> [i \in Items |-> IF i = "search" THEN "ready" ELSE "none"]

Launch(c, attempt) ==
    /\ call' = [call EXCEPT ![c] = [New EXCEPT !.state = "running", !.attempt = attempt]]
    /\ req' = [r \in Requests |-> IF r[1] = c THEN Started(c)[r[2]] ELSE req[r]]

Finish(c, answer) ==
    call' = [call EXCEPT ![c].state = "done", ![c].answer = answer, ![c].wait = 0]

\* A throttle repeats the whole operation after a wait that doubles, until the
\* ladder is used up; an exhausted quota is told at once.
Report(c, refusal) ==
    IF refusal = "quota" THEN Finish(c, "epo_unavailable")
    ELSE IF call[c].attempt = Retries THEN Finish(c, "rate_limited")
    ELSE call' = [call EXCEPT ![c].state = "waiting", ![c].wait = Delay * 2 ^ call[c].attempt]

Unasked == UNCHANGED <<seen, age, line, wish, exists>>

Call(c) ==
    /\ call[c].state = "new"
    /\ IF wish[c].kind = "search" /\ GetSearch
       THEN Finish(c, "results") /\ UNCHANGED req
       ELSE Launch(c, 0)
    /\ Unasked /\ UNCHANGED <<stored, searched, fetched>>

\* Mutated Retry: the retry waits for a light that only a request could bring.
RetryOnGreen(c) ==
    /\ call[c].state = "waiting" /\ call[c].wait = 0
    /\ \A b \in Buckets : seen[b] = "green"
    /\ Launch(c, call[c].attempt + 1)
    /\ Unasked /\ UNCHANGED <<stored, searched, fetched>>

Retry(c) ==
    /\ call[c].state = "waiting" /\ call[c].wait = 0
    /\ Launch(c, call[c].attempt + 1)
    /\ Unasked /\ UNCHANGED <<stored, searched, fetched>>

\* A section that another call stores meanwhile may be found in the cache or be
\* asked for again: the cache is read across an await.
Find(c, i) ==
    /\ Running(c, "sections") /\ req[<<c, i>>] = "ready" /\ GetSection(i)
    /\ req' = [req EXCEPT ![<<c, i>>] = "ok"]
    /\ Unasked /\ UNCHANGED <<call, stored, searched, fetched>>

Request(c, i) ==
    /\ call[c].state = "running" /\ Ask(<<c, i>>)
    /\ call' = [call EXCEPT ![c].probed = @ \/ line' # line]
    /\ UNCHANGED <<wish, exists, stored, searched, fetched>>

\* What EPO can say of a request: a publication that does not exist has an empty
\* biblio or none at all, and no section.
IsSection(r) == wish[r[1]].kind = "sections"
Bodies(r) == CASE ~IsSection(r) -> {"ok"}
               [] IsSection(r) /\ exists -> {"ok"}
               [] OTHER -> IF r[2] = "biblio" THEN {"missing"} ELSE {}
Errors(r) == IF IsSection(r) /\ r[2] = "biblio" /\ exists THEN {"failed"} ELSE {"missing", "failed"}

\* A section that arrives is stored before the attempt is judged.
Stored(r, now) ==
    IF IsSection(r) /\ now[r] = "ok"
    THEN /\ SetSection(r[2])
         /\ fetched' = [fetched EXCEPT ![r] = @ + 1]
    ELSE UNCHANGED <<stored, fetched>>

Respond(r) ==
    /\ \E lights \in Lights, body \in Bodies(r) : Answered(r, lights, body)
    /\ Stored(r, req')
    /\ UNCHANGED <<wish, exists, call, searched>>

Break(r) ==
    /\ \E error \in Errors(r) : Fails(r, error)
    /\ UNCHANGED <<wish, exists, call, stored, searched, fetched>>
\* search_patents: a complete answer is cached.
SearchEnds(c) ==
    LET r == <<c, "search">>
    IN /\ Running(c, "search") /\ req[r] \in Ended
       /\ CASE req[r] = "ok" -> Finish(c, "results") [] req[r] \in Refusals -> Report(c, req[r])
            [] OTHER -> Finish(c, "raised")
       /\ SetSearch(req[r] = "ok")
       /\ Unasked /\ UNCHANGED <<req, stored, fetched>>

\* The citations, cached or new, are resolved at Semantic Scholar every time.  A
\* throttle of the last ends the section, other errors leave the papers as text.
ResolveNpl(c) ==
    /\ Running(c, "sections") /\ req[<<c, "citations">>] = "ok" /\ call[c].npl = "none"
    /\ \E outcome \in NplOutcomes \ {"none"} : call' = [call EXCEPT ![c].npl = outcome]
    /\ Unasked /\ UNCHANGED <<req, stored, searched, fetched>>

NplOutstanding(c) == req[<<c, "citations">>] = "ok" /\ call[c].npl = "none"

\* Mutated Gather: any missing section makes the publication missing.
GatherMissing(c) ==
    LET outcome == [i \in Fetchers(c) |-> req[<<c, i>>]]
        outcomes == {outcome[i] : i \in Fetchers(c)}
    IN /\ Running(c, "sections") /\ outcomes \subseteq Ended /\ ~NplOutstanding(c)
       /\ \/ "missing" \in outcomes /\ Finish(c, "patent_not_found")
          \/ "missing" \notin outcomes /\ \E refusal \in outcomes \cap Refusals : Report(c, refusal)
          \/ outcomes = {"ok"} /\ Finish(c, "sections")
          \/ outcomes \cap (Refusals \cup {"missing"}) = {} /\ outcomes # {"ok"} /\ Finish(c, "raised")
       /\ Unasked /\ UNCHANGED <<req, stored, searched, fetched>>

\* get_patent waits for all its coroutines.  A publication that is not there
\* outranks every error, a refusal of EPO's the other errors; of several errors
\* the first in the caller's order of the sections is reported.
Gather(c) ==
    LET outcome == [i \in Fetchers(c) |-> req[<<c, i>>]]
        outcomes == {outcome[i] : i \in Fetchers(c)}
        found == outcome["biblio"] # "missing"
        unrefused == found /\ outcomes \cap Refusals = {}
        throttled == call[c].npl = "throttled"
    IN /\ Running(c, "sections") /\ outcomes \subseteq Ended /\ ~NplOutstanding(c)
       /\ \/ ~found /\ Finish(c, "patent_not_found")
          \/ found /\ \E refusal \in outcomes \cap Refusals : Report(c, refusal)
          \/ outcomes = {"ok"} /\ ~throttled /\ Finish(c, "sections")
          \/ unrefused /\ throttled /\ Finish(c, "s2_throttled")
          \/ unrefused /\ outcomes # {"ok"} /\ Finish(c, "raised")
       /\ Unasked /\ UNCHANGED <<req, stored, searched, fetched>>

\* A sequential operation turns to its next request, or ends with its answer.
Advance(c, item, step, total, answer) ==
    IF step = total
    THEN Finish(c, answer) /\ UNCHANGED req
    ELSE /\ call' = [call EXCEPT ![c].step = step, ![c].total = total]
         /\ req' = [req EXCEPT ![<<c, item>>] = "ready"]

\* get_citing_patents: a throttled search is reported, any other failure of it is
\* an empty answer with a note.
CitingSearched(c) ==
    LET r == <<c, "search">>
    IN /\ Running(c, "citing") /\ call[c].total = 0 /\ req[r] \in Ended
       /\ CASE req[r] \in Refusals -> Report(c, req[r]) /\ UNCHANGED req
            [] req[r] = "ok" -> \E n \in 0..MaxRefs : Advance(c, "biblio", 0, n, "patents")
            [] OTHER -> Finish(c, "search_failed") /\ UNCHANGED req
       /\ Unasked /\ UNCHANGED <<stored, searched, fetched>>

\* Mutated CitingListed: whatever keeps a biblio from coming, the patent is skipped.
CitingListedSkipping(c) ==
    LET r == <<c, "biblio">>
    IN /\ Running(c, "citing") /\ call[c].total > 0 /\ req[r] \in Ended
       /\ Advance(c, "biblio", call[c].step + 1, call[c].total, "patents")
       /\ Unasked /\ UNCHANGED <<stored, searched, fetched>>

\* The biblio of one citing patent is listed, or skipped when it fails.
CitingListed(c) ==
    LET r == <<c, "biblio">>
    IN /\ Running(c, "citing") /\ call[c].total > 0 /\ req[r] \in Ended
       /\ IF req[r] \in Refusals
          THEN Report(c, req[r]) /\ UNCHANGED req
          ELSE Advance(c, "biblio", call[c].step + 1, call[c].total, "patents")
       /\ Unasked /\ UNCHANGED <<stored, searched, fetched>>

\* get_pdf: the inquiry tells how many pages there are, one if it does not say,
\* or that there is no document.
Inquired(c) ==
    LET r == <<c, "inquiry">>
    IN /\ Running(c, "document") /\ call[c].total = 0 /\ req[r] \in Ended
       /\ CASE req[r] \in Refusals -> Report(c, req[r]) /\ UNCHANGED req
            [] req[r] = "ok" -> \/ Finish(c, "pdf_not_available") /\ UNCHANGED req
                               \/ \E n \in 1..MaxRefs : Advance(c, "page", 0, n, "document")
            [] OTHER -> Finish(c, "raised") /\ UNCHANGED req
       /\ Unasked /\ UNCHANGED <<stored, searched, fetched>>

\* One page after the other; one that fails loses all before it.
PageFetched(c) ==
    LET r == <<c, "page">>
    IN /\ Running(c, "document") /\ call[c].total > 0 /\ req[r] \in Ended
       /\ CASE req[r] \in Refusals -> Report(c, req[r]) /\ UNCHANGED req
            [] req[r] = "ok" -> Advance(c, "page", call[c].step + 1, call[c].total, "document")
            [] OTHER -> Finish(c, "raised") /\ UNCHANGED req
       /\ Unasked /\ UNCHANGED <<stored, searched, fetched>>

Waiting == {c \in Callers : call[c].wait > 0}

Tick ==
    /\ Waiting # {} \/ age <= TTL
    /\ Ages
    /\ call' = [c \in Callers |-> IF c \in Waiting THEN [call[c] EXCEPT !.wait = @ - 1] ELSE call[c]]
    /\ UNCHANGED <<seen, line, req, wish, exists, stored, searched, fetched>>

Step(c) ==
    \/ Retry(c) \/ SearchEnds(c) \/ ResolveNpl(c) \/ Gather(c) \/ CitingSearched(c) \/ CitingListed(c)
    \/ Inquired(c) \/ PageFetched(c)
    \/ \E i \in Items : req[<<c, i>>] = "ready" /\ (Find(c, i) \/ Request(c, i))

Epo == line # <<>> /\ (Respond(Head(line)) \/ Break(Head(line)))

Next == (\E c \in Callers : Call(c) \/ Step(c)) \/ Epo \/ Tick

Spec == Init /\ [][Next]_vars

\* The event loop runs what is ready, the thread's HTTP calls return, and time
\* passes: something of this happens as long as it can.  Nobody is obliged to call.
Fairness == WF_vars((\E c \in Callers : Step(c)) \/ Epo \/ Tick)

FairSpec == Spec /\ Fairness

-----------------------------------------------------------------------------
Done(c) == call[c].state = "done"
Outcomes(c) == {req[<<c, i>>] : i \in Items}

\* A throttle or an exhausted quota never hides in an answer that looks
\* successful: what the last attempt of such a call was refused, it was given in
\* the end (_epo_client.py:204, "Never swallow these").
NoThrottleSwallowed ==
    \A c \in Callers : Done(c) /\ call[c].answer \in {"results", "sections", "patents", "document",
                                                   "search_failed", "raised"}
        => Outcomes(c) \cap Refusals = {} /\ (call[c].answer = "sections" => call[c].npl # "throttled")

\* Only a publication EPO does not have is answered patent_not_found, whatever
\* became of its other sections; and of such a one nothing else is ever said but
\* that EPO could not be asked.
NotFoundIsTrue ==
    \A c \in Callers : Done(c) /\ wish[c].kind = "sections" =>
        /\ call[c].answer = "patent_not_found" => ~exists
        /\ ~exists => call[c].answer \in {"patent_not_found", "rate_limited", "epo_unavailable", "raised", "s2_throttled"}

\* A get_patent call resumes: however often it is repeated, and whatever other
\* calls do, EPO gives it each section once, and what it answers is all it asked.
ResumesWhatIsMissing ==
    \A c \in Callers : /\ \A i \in Items : fetched[<<c, i>>] <= 1
                       /\ call[c].answer = "sections" => wish[c].wanted \subseteq stored

\* Every call is answered although EPO may refuse for ever.
CallsEnd == \A c \in Callers : call[c].state = "running" ~> Done(c)

\* "Waiting past the cache means every retry genuinely re-probes"
\* (_epo_client.py:220): no attempt but the first ends in a throttle that EPO
\* was not asked about.
EveryRetryReprobes ==
    \A c \in Callers :
        \/ call[c].state = "waiting" /\ call[c].attempt > 0
        \/ call[c].answer = "rate_limited" /\ call[c].attempt > 0
        => call[c].probed
=============================================================================
