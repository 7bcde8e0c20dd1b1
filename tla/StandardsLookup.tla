-------------------------- MODULE StandardsLookup --------------------------
(***************************************************************************)
(* The standards tools of the server (_tools_standards.py): search,         *)
(* resolve and get, over the fetchers of StandardsClient                    *)
(* (_standards_client.py, _relaton_live.py) and three tables of the cache.  *)
(*                                                                         *)
(* Fetchers fail in different ways.  ETSI raises; IETF and W3C answer       *)
(* nothing for a refusal and crash when they are not reached; NIST and W3C  *)
(* load a catalogue once, under a lock, and keep it; Relaton answers a      *)
(* stub; "local" (CC and CEN) reads the cache.  Answers are sets: the       *)
(* matches of a text fit the limit.                                         *)
(***************************************************************************)
EXTENDS Integers, Sequences, FiniteSets

CONSTANTS Clients, \* calls that may overlap
          Identifiers, \* standards that exist, and canonical ids that do not
          Phrases, \* what callers write, other than canonical ids
          Fetcher, \* the fetcher an id belongs to
          LocalId,  \* resolve_identifier_local: of every key, an id or NoRecord
          Hits,   \* what exists and matches a key, by fetchers that search for it
          Synced, \* identifiers a sync has stored
          ListPages, \* W3C's list: a sequence of sets of ids, one set per page
          Queries, \* what the callers may come to ask
          NoRecord, Stub

Fetchers == {"IETF", "NIST", "W3C", "ETSI", "Relaton", "local"}
AllBodies == "all"
Keys == Identifiers \cup Phrases
Query == [tool : {"search", "resolve", "get"}, text : Keys, body : Fetchers \cup {AllBodies}]

\* What the constants are.
LookupAssumption ==
    /\ Fetcher \in [Identifiers -> Fetchers]
    /\ LocalId \in [Keys -> Identifiers \cup {NoRecord}] /\ NoRecord \notin Keys
    /\ \A k \in Keys : LocalId[k] # NoRecord => LocalId[LocalId[k]] = LocalId[k]
    /\ \A i \in Identifiers \ Synced : LocalId[i] \in {i, NoRecord}  \* a synced amendment may have its base's form
    /\ Hits \in [Keys -> SUBSET Identifiers] /\ Stub \notin Identifiers /\ Stub # NoRecord
    /\ Synced \subseteq {i \in Identifiers : Fetcher[i] \in {"Relaton", "local"}}
    /\ ListPages \in Seq(SUBSET {i \in Identifiers : Fetcher[i] = "W3C"}) /\ ListPages # <<>>
    /\ Queries \subseteq [Clients -> Query]

ASSUME LookupAssumption

VARIABLES query,
          lookup,    \* the state of each call
          job,       \* of each call, its coroutine in each fetcher
          nist,      \* the catalogue in memory and on disk
          stubs,     \* W3C's list in memory, or NoRecord
          records,   \* standards: of a key, the id its record describes, Stub or NoRecord
          alias,     \* standards_aliases: of a text, a key or NoRecord
          searches   \* standards_search: what was found, by text and body

catalogues == <<nist, stubs>>
tables == <<records, alias, searches>>
lookupVars == <<query, lookup, job, catalogues, tables>>

Of(f) == {i \in Identifiers : Fetcher[i] = f}
Places == {"idle", "ask", "lock", "url", "mods", "page", "details", "list", "refused", "crashed"}
Ended == {"list", "refused", "crashed"}
LookupStages == {"start", "fetch", "store", "alias", "row", "done", "dead"}
Answers == {"none", "cached", "complete", "partial", "found", "ambiguous", "null", "warned",
            "not_found", "upstream_error", "raised"}

Kept(text, body) == {s \in searches : s.text = text /\ s.body = body}

LookupTypeOK ==
    /\ query \in Queries
    /\ \A c \in Clients :
        /\ lookup[c].stage \in LookupStages /\ lookup[c].key \in Keys /\ lookup[c].answer \in Answers
        /\ lookup[c].mode \in {"search", "get"} /\ lookup[c].known \in BOOLEAN
        /\ lookup[c].asks \in Seq(Fetchers) /\ lookup[c].got \subseteq Identifiers \cup {Stub}
        /\ lookup[c].failed \subseteq Fetchers
        /\ \A f \in Fetchers : /\ job[c][f].place \in Places
                               /\ job[c][f].found \subseteq Identifiers \cup {Stub}
                               /\ job[c][f].page \in 1..Len(ListPages)
    /\ nist \in [memory : BOOLEAN, disk : {"none", "torn", "whole"}]
    /\ stubs \in (SUBSET Of("W3C")) \cup {NoRecord}
    /\ records \in [Keys -> Identifiers \cup {Stub, NoRecord}]
    /\ \A i \in Synced : records[i] = i
    /\ alias \in [Keys -> Keys \cup {NoRecord}]
    /\ \A s \in searches : /\ s.text \in Keys /\ s.body \in Fetchers \cup {AllBodies} /\ s.found \subseteq Identifiers
                          /\ Kept(s.text, s.body) = {s}

NotAsked == [place |-> "idle", found |-> {}, page |-> 1]

LookupInit ==
    /\ query \in Queries
    /\ lookup = [c \in Clients |-> [stage |-> "start", mode |-> "get", key |-> query[c].text,
                                  known |-> FALSE, asks |-> <<>>, got |-> {}, failed |-> {},
                                  answer |-> "none"]]
    /\ job = [c \in Clients |-> [f \in Fetchers |-> NotAsked]]
    /\ nist \in [memory : {FALSE}, disk : {"none", "whole"}]
    /\ stubs = NoRecord
    /\ records = [k \in Keys |-> IF k \in Synced THEN k ELSE NoRecord]
    /\ alias = [k \in Keys |-> NoRecord]
    /\ searches = {}

InStage(c, stage) == lookup[c].stage = stage
AnswerWith(c, answer) == [lookup[c] EXCEPT !.stage = "done", !.answer = answer]

\* get_standard_alias: the canonical identifier of a text, or Nothing.
GetAlias(text) == alias[text]

-----------------------------------------------------------------------------
(* The fetchers. *)

\* Where a fetcher begins: two of them load their catalogue, W3C only to search.
FirstPlace(mode, f) ==
    [NotAsked EXCEPT !.place = IF f = "NIST" \/ (f = "W3C" /\ mode = "search") THEN "lock" ELSE "ask"]

AtPlace(c, f, place) == InStage(c, "fetch") /\ job[c][f].place = place

JobGoes(c, f, place) == job' = [job EXCEPT ![c][f].place = place]
Lists(c, f, found) == job' = [job EXCEPT ![c][f].place = "list", ![c][f].found = found]

\* What f has for call c: all its matches, or the record of that name.  ETSI's get
\* is a search whose first hit is taken for the record.
MatchesFor(c, f) ==
    LET key == lookup[c].key
    IN Hits[key] \cap Of(f) \cap (IF lookup[c].mode = "search" \/ f = "ETSI" THEN Identifiers ELSE {key})

List(found) == [NotAsked EXCEPT !.place = "list", !.found = found]
Stopped(place) == [NotAsked EXCEPT !.place = place]
Heard(c, f) ==
    IF lookup[c].mode = "search" THEN {List(MatchesFor(c, f))}
    ELSE IF MatchesFor(c, f) = {} THEN {List({})} ELSE {List({i}) : i \in MatchesFor(c, f)}

\* search_synced_standards: what a sync has stored and matches.
SearchSynced(key, f) == Hits[key] \cap Synced \cap Of(f)

\* CC and CEN altogether, and a search of Relaton.
FromCache(c, f) ==
    {List(IF lookup[c].mode = "search" THEN SearchSynced(lookup[c].key, f)
          ELSE {records[lookup[c].key]} \ {NoRecord})}

\* These two read the form of a key first: one of another source is answered
\* without a request.
Unreadable(c, f) == f \in {"IETF", "Relaton"} /\ lookup[c].mode = "get" /\ lookup[c].key \notin Of(f)

\* What becomes of a single request.  ETSI reports whatever goes wrong; the others
\* answer nothing when they are refused, and crash when they are not reached.
FetchOutcomes(c, f) ==
    IF f = "local" \/ (f = "Relaton" /\ lookup[c].mode = "search") THEN FromCache(c, f)
    ELSE IF Unreadable(c, f) THEN {List({})}
    ELSE CASE f = "ETSI" -> Heard(c, f) \cup {Stopped("refused")}
           [] f = "Relaton" -> {List({Stub})} \cup (Heard(c, f) \ {List({})})
           [] OTHER -> Heard(c, f) \cup {List({}), Stopped("crashed")}

\* The single requests of a call end.  They share nothing with other calls, so
\* their order does not matter and they end together.
Requests(c) ==
    LET O(f) == IF AtPlace(c, f, "ask") THEN FetchOutcomes(c, f) ELSE {job[c][f]}
    IN /\ \E f \in Fetchers : AtPlace(c, f, "ask")
       /\ \E i \in O("IETF"), w \in O("W3C"), e \in O("ETSI"), r \in O("Relaton"), l \in O("local") :
             job' = [job EXCEPT ![c] = [@ EXCEPT !["IETF"] = i, !["W3C"] = w, !["ETSI"] = e,
                                                 !["Relaton"] = r, !["local"] = l]]
       /\ UNCHANGED <<query, lookup, catalogues, tables>>

\* A request for a catalogue or a detail does not get through.
Crashes(c, f) ==
    /\ \/ AtPlace(c, f, "url") \/ AtPlace(c, f, "mods") \/ AtPlace(c, f, "page")
       \/ AtPlace(c, f, "details") /\ MatchesFor(c, f) \cap stubs # {}
    /\ JobGoes(c, f, "crashed")
    /\ UNCHANGED <<query, lookup, catalogues, tables>>

Loading(f) == \E c \in Clients : AtPlace(c, f, "url") \/ AtPlace(c, f, "mods") \/ AtPlace(c, f, "page")

\* Mutated NistEnters: what was loaded while the lock was awaited is not looked at.
NistEntersBlind(c) ==
    /\ AtPlace(c, "NIST", "lock")
    /\ IF nist.memory THEN Lists(c, "NIST", MatchesFor(c, "NIST")) ELSE JobGoes(c, "NIST", "url")
    /\ UNCHANGED <<query, lookup, catalogues, tables>>

\* Whether the file serves: it must be whole, and not too old.
FileServes == {nist.disk = "whole", FALSE}

\* What becomes of the file when the catalogue is written.
Written == {nist.disk, "torn", "whole"}

\* The lock is free: memory, then the file, then upstream.
NistEnters(c) ==
    /\ AtPlace(c, "NIST", "lock")
    /\ ~Loading("NIST")
    /\ \E serves \in FileServes :
          IF nist.memory \/ serves
          THEN Lists(c, "NIST", MatchesFor(c, "NIST")) /\ nist' = [nist EXCEPT !.memory = TRUE]
          ELSE JobGoes(c, "NIST", "url") /\ UNCHANGED nist
    /\ UNCHANGED <<query, lookup, stubs, tables>>

\* The release names the file, or there is none to be had.
NistUrl(c) ==
    /\ AtPlace(c, "NIST", "url")
    /\ JobGoes(c, "NIST", "mods") \/ Lists(c, "NIST", {})
    /\ UNCHANGED <<query, lookup, catalogues, tables>>

\* The catalogue is there: it is kept in memory, and on disk if that can be done.
NistLoads(c) ==
    /\ AtPlace(c, "NIST", "mods")
    /\ Lists(c, "NIST", MatchesFor(c, "NIST"))
    /\ \E disk \in Written : nist' = [memory |-> TRUE, disk |-> disk]
    /\ UNCHANGED <<query, lookup, stubs, tables>>

\* It was refused, or cannot be parsed: an empty answer that is not kept.
NistFails(c) ==
    /\ AtPlace(c, "NIST", "mods")
    /\ Lists(c, "NIST", {})
    /\ UNCHANGED <<query, lookup, catalogues, tables>>

W3CEnters(c) ==
    /\ AtPlace(c, "W3C", "lock")
    /\ ~Loading("W3C")
    /\ JobGoes(c, "W3C", IF stubs = NoRecord THEN "page" ELSE "details")
    /\ UNCHANGED <<query, lookup, catalogues, tables>>

\* A page of W3C's list, and the last is followed by the details.
W3CPage(c) ==
    LET here == job[c]["W3C"]
        list == here.found \cup ListPages[here.page]
    IN /\ AtPlace(c, "W3C", "page")
       /\ IF here.page < Len(ListPages)
          THEN /\ job' = [job EXCEPT ![c]["W3C"] = [here EXCEPT !.page = here.page + 1, !.found = list]]
               /\ UNCHANGED stubs
          ELSE JobGoes(c, "W3C", "details") /\ stubs' = list
       /\ UNCHANGED <<query, lookup, nist, tables>>

\* A page that is refused ends the list, which is kept as it is.
W3CPageRefused(c) ==
    /\ AtPlace(c, "W3C", "page")
    /\ JobGoes(c, "W3C", "details")
    /\ stubs' = job[c]["W3C"].found
    /\ UNCHANGED <<query, lookup, nist, tables>>

\* One request per match; a refused one is left out.
W3CDetails(c) ==
    /\ AtPlace(c, "W3C", "details")
    /\ \E found \in SUBSET (MatchesFor(c, "W3C") \cap stubs) : Lists(c, "W3C", found)
    /\ UNCHANGED <<query, lookup, catalogues, tables>>

Fetching(c) ==
    \/ Requests(c) \/ \E f \in {"NIST", "W3C"} : Crashes(c, f)
    \/ NistEnters(c) \/ NistUrl(c) \/ NistLoads(c) \/ NistFails(c)
    \/ W3CEnters(c) \/ W3CPage(c) \/ W3CPageRefused(c) \/ W3CDetails(c)

-----------------------------------------------------------------------------
(* The tools. *)

\* One fetcher per class, in the order they are registered.
Walk == <<"IETF", "NIST", "W3C", "ETSI", "Relaton", "local">>

\* A search asks its fetchers together, a get one after the other.
Ask(c, mode, key, asks) ==
    /\ lookup' = [lookup EXCEPT ![c].stage = "fetch", ![c].mode = mode, ![c].key = key, ![c].asks = asks,
                            ![c].known = (GetAlias(query[c].text) # NoRecord)]
    /\ job' = [job EXCEPT ![c] =
          [f \in Fetchers |-> IF \E k \in DOMAIN asks : asks[k] = f /\ (mode = "search" \/ k = 1)
                              THEN FirstPlace(mode, f) ELSE NotAsked]]

\* get_with_failures: an id is asked of its fetcher, anything else of all.
AskFor(c, key) == Ask(c, "get", key, IF LocalId[key] # NoRecord THEN <<Fetcher[LocalId[key]]>> ELSE Walk)

\* StandardsClient.resolve of a text without a form asks all and takes what comes.
SearchAll(c, text) == Ask(c, "search", text, Walk)

Says(c, state) == lookup' = [lookup EXCEPT ![c] = state] /\ UNCHANGED job

SearchStarts(c) ==
    LET w == query[c]
    IN /\ InStage(c, "start") /\ w.tool = "search"
       /\ IF Kept(w.text, w.body) # {}
          THEN Says(c, [AnswerWith(c, "cached") EXCEPT !.got = UNION {s.found : s \in Kept(w.text, w.body)}])
          ELSE Ask(c, "search", w.text, IF w.body = AllBodies THEN Walk ELSE <<w.body>>)
       /\ UNCHANGED <<query, catalogues, tables>>

\* The id its form gives a text, or the text itself.
Canonical(text) == IF LocalId[text] # NoRecord THEN LocalId[text] ELSE text

\* The key a text leads to: its alias before its form.
KeyOf(text) == IF GetAlias(text) # NoRecord THEN GetAlias(text) ELSE Canonical(text)

ResolveStarts(c) ==
    LET text == query[c].text
    IN /\ InStage(c, "start") /\ query[c].tool = "resolve"
       /\ IF GetAlias(text) # NoRecord /\ records[KeyOf(text)] # NoRecord
          THEN Says(c, [AnswerWith(c, "found") EXCEPT !.key = KeyOf(text), !.got = {records[KeyOf(text)]}])
          ELSE IF LocalId[text] # NoRecord THEN AskFor(c, LocalId[text])
          ELSE SearchAll(c, text)
       /\ UNCHANGED <<query, catalogues, tables>>

GetStarts(c) ==
    LET key == KeyOf(query[c].text)
    IN /\ InStage(c, "start") /\ query[c].tool = "get"
       /\ IF records[key] # NoRecord THEN Says(c, [AnswerWith(c, "found") EXCEPT !.key = key, !.got = {records[key]}])
          ELSE AskFor(c, key)
       /\ UNCHANGED <<query, catalogues, tables>>

Asked(c) == {lookup[c].asks[k] : k \in DOMAIN lookup[c].asks}
Those(c, place) == {f \in Asked(c) : job[c][f].place = place}

\* gather and _collect_search: what was listed together, what was refused by
\* name; a crash is dropped among several fetchers, and raised by the only one.
\* resolve takes the list alone.
Collect(c, failed) ==
    LET got == UNION {job[c][f].found : f \in Those(c, "list")}
        state == [lookup[c] EXCEPT !.got = got, !.failed = failed]
    IN /\ InStage(c, "fetch") /\ lookup[c].mode = "search"
       /\ \A f \in Asked(c) : job[c][f].place \in Ended
       /\ Says(c, IF Those(c, "crashed") = Asked(c) THEN AnswerWith(c, "raised")
                  ELSE IF query[c].tool = "search"
                  THEN IF failed = {} THEN [state EXCEPT !.stage = "store"]
                       ELSE [state EXCEPT !.stage = "done", !.answer = "partial"]
                  ELSE IF Cardinality(got) # 1
                  THEN [state EXCEPT !.stage = "done", !.answer = IF got = {} THEN "null" ELSE "ambiguous"]
                  ELSE [state EXCEPT !.stage = "alias", !.key = CHOOSE i \in got : TRUE])
       /\ UNCHANGED <<query, catalogues, tables>>

\* Mutated Searched: refusals are dropped with the crashes.
SearchedQuietly(c) == Collect(c, {})

Searched(c) == Collect(c, Those(c, "refused"))

\* get_with_failures: a refusal is remembered and the walk goes on; at its end,
\* whether the record is absent depends on the failures.
Take(c, failed) ==
    LET f == Head(lookup[c].asks)
        rest == Tail(lookup[c].asks)
        here == job[c][f]
        get == query[c].tool = "get"
    IN /\ InStage(c, "fetch") /\ lookup[c].mode = "get"
       /\ here.place \in Ended
       /\ IF here.place = "crashed" THEN Says(c, AnswerWith(c, "raised"))
          ELSE IF here.found # {}
          THEN Says(c, [lookup[c] EXCEPT !.stage = IF get THEN "row" ELSE "alias", !.got = here.found])
          ELSE IF rest # <<>>
          THEN /\ lookup' = [lookup EXCEPT ![c].asks = rest, ![c].failed = failed]
               /\ job' = [job EXCEPT ![c][Head(rest)] = FirstPlace("get", Head(rest))]
          ELSE Says(c, [AnswerWith(c, IF failed = {} THEN IF get THEN "not_found" ELSE "null"
                                  ELSE IF get THEN "upstream_error" ELSE "warned") EXCEPT !.failed = failed])
       /\ UNCHANGED <<query, catalogues, tables>>

Refused(c) == IF job[c][Head(lookup[c].asks)].place = "refused" THEN {Head(lookup[c].asks)} ELSE {}

\* Mutated Got: the walk forgets a refusal when it goes on.
GotForgetting(c) == InStage(c, "fetch") /\ Take(c, Refused(c))

\* Mutated Got: what was refused is asked again.
GotRepeating(c) ==
    IF InStage(c, "fetch") /\ lookup[c].mode = "get" /\ Refused(c) # {}
    THEN /\ job' = [job EXCEPT ![c][Head(lookup[c].asks)] = FirstPlace("get", Head(lookup[c].asks))]
         /\ UNCHANGED <<query, lookup, catalogues, tables>>
    ELSE Take(c, lookup[c].failed)

Got(c) == InStage(c, "fetch") /\ Take(c, lookup[c].failed \cup Refused(c))

\* A search that nobody refused is kept.
StoreSearch(c) ==
    /\ InStage(c, "store")
    /\ LET w == query[c]
       IN searches' = (searches \ Kept(w.text, w.body))
                      \cup {[text |-> w.text, body |-> w.body, found |-> lookup[c].got]}
    /\ Says(c, AnswerWith(c, "complete"))
    /\ UNCHANGED <<query, catalogues, records, alias>>

\* resolve stores the alias first, get the row.
StoreAlias(c) ==
    /\ InStage(c, "alias")
    /\ alias' = [alias EXCEPT ![query[c].text] = lookup[c].key]
    /\ Says(c, IF query[c].tool = "resolve" THEN [lookup[c] EXCEPT !.stage = "row"] ELSE AnswerWith(c, "found"))
    /\ UNCHANGED <<query, catalogues, records, searches>>

\* A live row does not replace a synced one.
StoreRow(c) ==
    /\ InStage(c, "row")
    /\ records' = [records EXCEPT ![lookup[c].key] = IF lookup[c].key \in Synced THEN @ ELSE CHOOSE i \in lookup[c].got : TRUE]
    /\ Says(c, IF query[c].tool = "get" /\ ~lookup[c].known THEN [lookup[c] EXCEPT !.stage = "alias"]
               ELSE AnswerWith(c, "found"))
    /\ UNCHANGED <<query, catalogues, alias, searches>>

LookupStep(c) ==
    \/ SearchStarts(c) \/ ResolveStarts(c) \/ GetStarts(c)
    \/ Fetching(c) \/ Searched(c) \/ Got(c)
    \/ StoreSearch(c) \/ StoreAlias(c) \/ StoreRow(c)

\* Rows, aliases and searches have a time to live.
Expires ==
    /\ \/ \E k \in Keys \ Synced :
             records[k] # NoRecord /\ records' = [records EXCEPT ![k] = NoRecord] /\ UNCHANGED <<alias, searches>>
       \/ \E k \in Keys :
             alias[k] # NoRecord /\ alias' = [alias EXCEPT ![k] = NoRecord] /\ UNCHANGED <<records, searches>>
       \/ \E s \in searches : searches' = searches \ {s} /\ UNCHANGED <<records, alias>>
    /\ UNCHANGED <<query, lookup, job, catalogues>>

\* The server is restarted: calls and memory are gone, and the file may have been
\* half written.
Restart ==
    /\ \E c \in Clients : ~InStage(c, "done") /\ ~InStage(c, "start")
    /\ lookup' = [c \in Clients |-> IF InStage(c, "done") \/ InStage(c, "start") THEN lookup[c]
                                  ELSE [lookup[c] EXCEPT !.stage = "dead"]]
    /\ \E disk \in {nist.disk} \cup (IF \E c \in Clients : AtPlace(c, "NIST", "mods") THEN {"torn"} ELSE {}) :
          nist' = [memory |-> FALSE, disk |-> disk]
    /\ stubs' = NoRecord
    /\ UNCHANGED <<query, job, tables>>

LookupNext == (\E c \in Clients : LookupStep(c)) \/ Expires \/ Restart

LookupSpec == LookupInit /\ [][LookupNext]_lookupVars

\* Requests end by their timeouts and the event loop goes on.
FairLookupSpec == LookupSpec /\ WF_lookupVars(\E c \in Clients : LookupStep(c))

-----------------------------------------------------------------------------
Asking(body) == IF body = AllBodies THEN Fetchers ELSE {body}

\* What a search has kept, and gives to later callers as complete, are matches
\* of its text, and all that ETSI has or a sync has stored: a refusal never
\* becomes a cached answer, whatever else was under way (search_standards).
SearchesAreHonest ==
    \A s \in searches :
        /\ s.found \subseteq Hits[s.text]
        /\ \A f \in Asking(s.body) : Hits[s.text] \cap Of(f) \cap (Synced \cup Of("ETSI")) \subseteq s.found

\* "stop asking about that identifier" (get_standard) is said only when ETSI,
\* if it was one to ask, has answered that it holds nothing, and never of a
\* synced standard or one in Relaton.
NotFoundIsHeard ==
    \A c \in Clients : lookup[c].answer = "not_found" =>
        LET key == lookup[c].key
        IN /\ Hits[key] \cap Of("ETSI") = {} \/ (LocalId[key] # NoRecord /\ Fetcher[LocalId[key]] # "ETSI")
           /\ key \notin Synced
           /\ LocalId[key] # NoRecord => Fetcher[LocalId[key]] # "Relaton"

\* However many calls need it, NIST's catalogue is loaded by one of them at a
\* time and by none once it is there (the lock and the two looks of _fetch_all).
CatalogueIsShared ==
    LET loaders == {c \in Clients : AtPlace(c, "NIST", "url") \/ AtPlace(c, "NIST", "mods")}
    IN Cardinality(loaders) <= (IF nist.memory THEN 0 ELSE 1)

\* The three: what is kept is complete, what is said of an absence was heard, and
\* what is loaded is loaded once, over values of their types.
LookupsAreHonest ==
    /\ LookupTypeOK
    /\ SearchesAreHonest
    /\ NotFoundIsHeard
    /\ CatalogueIsShared

\* Every call ends, be it for a restart.
LookupsEnd == \A c \in Clients : <>(InStage(c, "done") \/ InStage(c, "dead"))

-----------------------------------------------------------------------------
\* _tools_standards.py:233 "Only complete answers are cached, so a hit is
\* complete by construction".
CachedIsComplete ==
    \A s \in searches : \A f \in Asking(s.body) \cap {"IETF", "NIST", "W3C", "ETSI"} :
        Hits[s.text] \cap Of(f) \subseteq s.found
=============================================================================
