--------------------------- MODULE ServiceLifecycle ---------------------------
(***************************************************************************)
(* The server's service (src/scholar_mcp/domain.py, Service.start and stop  *)
(* under server_lifespan) and the task it keeps: the ping of Semantic       *)
(* Scholar that keeps an API key alive (_s2_client.py, run_keepalive).      *)
(*                                                                         *)
(* Start builds the clients, the cache and the task in a fixed order, each  *)
(* registering its cleanup on one exit stack, and may fail at any of them;  *)
(* stop unwinds the stack.  The keepalive's record is a module singleton:   *)
(* it outlives a service, so a process may start several in turn.           *)
(***************************************************************************)
EXTENDS Naturals, Sequences

CONSTANTS
    DegradedAfter,  \* KEEPALIVE_DEGRADED_AFTER_FAILURES
    MaxStarts       \* bound of the model: services of one process

ASSUME ServiceAssumption ==
    /\ DegradedAfter \in Nat \ {0}
    /\ MaxStarts \in Nat \ {0}

VARIABLES
    svc,        \* where start or stop is
    configured, \* docling, EPO and the S2 key, as configured
    cleanup,    \* the exit stack
    live,       \* what exists and is not closed
    task,       \* the keepalive task
    status,     \* S2_KEEPALIVE_STATUS
    alarms,     \* history: degraded lines less recovered lines
    starts      \* history: services started

serviceVars == <<svc, configured, cleanup, live, task, status, alarms, starts>>

Optional == {"docling", "epo", "keepalive"}

\* The order of _open_clients and start.
Order == <<"s2", "openalex", "crossref", "google_books", "openlibrary",
           "docling", "epo", "cache", "standards", "keepalive">>

Resources == {Order[k] : k \in DOMAIN Order}

\* Who calls whom until it is closed.
Uses == {<<"standards", "cache">>, <<"keepalive", "s2">>}

\* _build_docling and _build_epo give None for what is not configured.
HasDocling == "docling" \in configured
HasEpo == "epo" \in configured
HasKey == "keepalive" \in configured

Wanted(r) ==
    /\ r = "docling" => HasDocling
    /\ r = "epo" => HasEpo
    /\ r = "keepalive" => HasKey

Kinds == {"rate_limited", "forbidden", "http_error", "network_error"}

\* A failure streak above DegradedAfter is one above it.
Streaks == 0..(DegradedAfter + 1)

ServiceTypeOK ==
    /\ svc \in [pc : {"off", "starting", "migrating", "up", "unwinding"},
                next : 1..(Len(Order) + 1)]
    /\ configured \subseteq Optional
    /\ cleanup \in Seq(Resources)
    /\ live \subseteq Resources
    /\ task \in {"off", "created", "pinging", "resting", "retrying", "dead"}
    /\ status \in [configured : BOOLEAN, failures : Streaks, answered : BOOLEAN,
                   kind : Kinds \union {"none"}]
    /\ alarms \in {0, 1}
    /\ starts \in 0..MaxStarts

ServiceInit ==
    /\ svc = [pc |-> "off", next |-> 1]
    /\ configured = {}
    /\ cleanup = <<>>
    /\ live = {}
    /\ task = "off"
    /\ status = [configured |-> FALSE, failures |-> 0, answered |-> FALSE, kind |-> "none"]
    /\ alarms = 0
    /\ starts = 0

-----------------------------------------------------------------------------
(* Service.start.                                                           *)

Start(settings) ==
    /\ svc.pc = "off"
    /\ starts < MaxStarts
    /\ svc' = [pc |-> "starting", next |-> 1]
    /\ configured' = settings
    /\ starts' = starts + 1
    /\ UNCHANGED <<cleanup, live, task, status, alarms>>

Building(r) == svc.pc = "starting" /\ svc.next \in DOMAIN Order /\ Order[svc.next] = r

Onward == svc' = [pc |-> "starting", next |-> svc.next + 1]

\* A resource exists, and its close is on the stack.
Register(r) == live' = live \union {r} /\ cleanup' = Append(cleanup, r)

\* Semantic Scholar, OpenAlex, ... standards: made, then registered.
Build(r) ==
    /\ r \notin {"cache", "keepalive"}
    /\ Building(r)
    /\ IF Wanted(r) THEN Register(r) ELSE UNCHANGED <<live, cleanup>>
    /\ Onward
    /\ UNCHANGED <<configured, task, status, alarms, starts>>

\* Mutated ConnectCache: close is registered once open() has returned.
ConnectCacheUnregistered ==
    /\ Building("cache")
    /\ live' = live \union {"cache"}
    /\ svc' = [svc EXCEPT !.pc = "migrating"]
    /\ UNCHANGED <<cleanup, configured, task, status, alarms, starts>>

\* The cache's close is registered before open(), which connects ...
ConnectCache ==
    /\ Building("cache")
    /\ Register("cache")
    /\ svc' = [svc EXCEPT !.pc = "migrating"]
    /\ UNCHANGED <<configured, task, status, alarms, starts>>

\* ... and then applies the schema and the migrations (CacheOpen).
Migrated ==
    /\ svc.pc = "migrating"
    /\ Onward
    /\ UNCHANGED <<configured, cleanup, live, task, status, alarms, starts>>

\* KeepaliveStatus: what its methods make of the record.
MarkConfigured == [status EXCEPT !.configured = TRUE]
MarkNotConfigured == [status EXCEPT !.configured = FALSE]
RecordSuccess == [status EXCEPT !.failures = 0, !.answered = TRUE]
\* Mutated RecordFailure: a failure of another kind begins a streak of its own.
RecordFailurePerKind(kind) ==
    [status EXCEPT !.failures = IF kind # status.kind THEN 1
                                ELSE IF @ > DegradedAfter THEN @ ELSE @ + 1,
                   !.kind = kind]

RecordFailure(kind) ==
    [status EXCEPT !.failures = IF @ > DegradedAfter THEN @ ELSE @ + 1, !.kind = kind]

\* _start_s2_keepalive: a task if there is a key.
StartKeepalive ==
    /\ Building("keepalive")
    /\ IF Wanted("keepalive")
       THEN /\ task' = "created"
            /\ Register("keepalive")
            /\ UNCHANGED status
       ELSE /\ status' = MarkNotConfigured
            /\ UNCHANGED <<task, live, cleanup>>
    /\ Onward
    /\ UNCHANGED <<configured, alarms, starts>>

\* The service keeps the stack (pop_all) and the lifespan yields it.
Started ==
    /\ svc.pc = "starting" /\ svc.next = Len(Order) + 1
    /\ svc' = [svc EXCEPT !.pc = "up"]
    /\ UNCHANGED <<configured, cleanup, live, task, status, alarms, starts>>

\* A constructor, the connection or a migration raises, or start is cancelled.
StartFails ==
    /\ svc.pc = "migrating" \/ (svc.pc = "starting" /\ svc.next \in DOMAIN Order)
    /\ svc' = [svc EXCEPT !.pc = "unwinding"]
    /\ UNCHANGED <<configured, cleanup, live, task, status, alarms, starts>>

-----------------------------------------------------------------------------
(* Service.stop, and what a failed start unwinds.                           *)

Stop ==
    /\ svc.pc = "up"
    /\ svc' = [svc EXCEPT !.pc = "unwinding"]
    /\ UNCHANGED <<configured, cleanup, live, task, status, alarms, starts>>

\* Mutated CloseNext: cleanups run in the order they were registered.
CloseFirst ==
    /\ svc.pc = "unwinding" /\ cleanup # <<>>
    /\ LET r == Head(cleanup)
       IN /\ live' = live \ {r}
          /\ task' = IF r = "keepalive" THEN "off" ELSE task
    /\ cleanup' = Tail(cleanup)
    /\ UNCHANGED <<svc, configured, status, alarms, starts>>

\* _cancel_task: the task is cancelled at its await and waited for.
CancelTask == "off"

\* The stack runs its last cleanup; one that raises does not keep it from the
\* next.
CloseNext ==
    /\ svc.pc = "unwinding" /\ cleanup # <<>>
    /\ LET r == cleanup[Len(cleanup)]
       IN /\ live' = live \ {r}
          /\ task' = IF r = "keepalive" THEN CancelTask ELSE task
    /\ cleanup' = SubSeq(cleanup, 1, Len(cleanup) - 1)
    /\ UNCHANGED <<svc, configured, status, alarms, starts>>

Stopped ==
    /\ svc.pc = "unwinding" /\ cleanup = <<>>
    /\ svc' = [pc |-> "off", next |-> 1]
    /\ UNCHANGED <<configured, cleanup, live, task, status, alarms, starts>>

-----------------------------------------------------------------------------
(* run_keepalive.                                                           *)

Degraded(s) == s.failures >= DegradedAfter

\* key_status
KeyStatus ==
    IF ~status.configured THEN "not_configured"
    ELSE IF Degraded(status) THEN "degraded"
    ELSE IF status.failures > 0 THEN "failing"
    ELSE IF status.answered THEN "ok" ELSE "unknown"

\* The task's first step records that there is a key.
FirstPing ==
    /\ task = "created"
    /\ task' = "pinging"
    /\ status' = MarkConfigured
    /\ UNCHANGED <<svc, configured, cleanup, live, alarms, starts>>

\* Mutated PingAnswered: the streak is read after the ping has reset it.
PingAnsweredForgetting ==
    /\ task = "pinging"
    /\ status' = RecordSuccess
    /\ alarms' = IF Degraded(status') THEN alarms - 1 ELSE alarms
    /\ task' = "resting"
    /\ UNCHANGED <<svc, configured, cleanup, live, starts>>

\* S2 answers: the streak is over, a degraded one is reported as recovered,
\* and the loop rests for a week.
PingAnswered ==
    /\ task = "pinging"
    /\ status' = RecordSuccess
    /\ alarms' = IF Degraded(status) THEN alarms - 1 ELSE alarms
    /\ task' = "resting"
    /\ UNCHANGED <<svc, configured, cleanup, live, starts>>

\* S2 refuses or cannot be reached: one more failure, reported as degraded
\* when the streak reaches the threshold, and a retry in an hour.
PingRefused(kind) ==
    /\ task = "pinging"
    /\ status' = RecordFailure(kind)
    /\ alarms' = IF status'.failures = DegradedAfter THEN alarms + 1 ELSE alarms
    /\ task' = "retrying"
    /\ UNCHANGED <<svc, configured, cleanup, live, starts>>

\* A 200 whose body is not JSON raises a ValueError, which nothing catches: the
\* task is over, and nobody looks at it before stop.
PingMalformed ==
    /\ task = "pinging"
    /\ task' = "dead"
    /\ UNCHANGED <<svc, configured, cleanup, live, status, alarms, starts>>

\* The pause is over, that of a week or that of an hour.
WakePing ==
    /\ task \in {"resting", "retrying"}
    /\ task' = "pinging"
    /\ UNCHANGED <<svc, configured, cleanup, live, status, alarms, starts>>

PingEnds == PingAnswered \/ PingMalformed \/ \E kind \in Kinds : PingRefused(kind)

Keepalive == FirstPing \/ PingEnds \/ WakePing

Lifespan ==
    \/ \E r \in Resources : Build(r)
    \/ ConnectCache \/ Migrated \/ StartKeepalive \/ Started \/ StartFails
    \/ CloseNext \/ Stopped

ServiceNext ==
    \/ \E settings \in SUBSET Optional : Start(settings)
    \/ Lifespan \/ Stop
    \/ Keepalive

ServiceSpec == ServiceInit /\ [][ServiceNext]_serviceVars

\* The event loop runs what start, stop and the task have to do next, and a ping
\* ends by the client's timeout.
ServiceFairSpec == ServiceSpec /\ WF_serviceVars(Lifespan) /\ WF_serviceVars(Keepalive)

-----------------------------------------------------------------------------
\* When a service is off, because it was stopped or because its start failed at
\* any point, nothing of what it built is open and its task is over.
NothingLeftOpen == svc.pc = "off" => live = {} /\ task = "off"

\* What a part of the service uses is closed after it: no ping runs on a closed
\* client, and the standards client never outlives its cache.
UsedIsOpen ==
    /\ \A pair \in Uses : pair[1] \in live => pair[2] \in live
    /\ task # "off" => "keepalive" \in live

\* What is built is closed, and in an order in which nothing is used after that,
\* whatever step of a start fails (with the type invariant).
ConnectionsAreSound == ServiceTypeOK /\ NothingLeftOpen /\ UsedIsOpen

\* "the field and the s2_keepalive_degraded log line never disagree": the log
\* says degraded, and says so once, exactly while the streak is that long, over
\* restarts of the service and whatever kind of refusal makes up the streak.
LogMatchesStatus ==
    /\ alarms = IF Degraded(status) THEN 1 ELSE 0
    /\ KeyStatus = "degraded" => alarms = 1

\* "Sustained refusal is escalated on persistence, not on status code": a task that
\* goes on running and is never answered any more comes to be reported as degraded,
\* and stays so, whatever kinds of refusal follow each other and however long a
\* streak it found.
RefusedKeyIsReported ==
    <>[](task \in {"pinging", "retrying"}) => <>[](alarms = 1)

\* _s2_client.py:600 "Each iteration's failure is caught and logged so one bad cycle
\* never stops future ones": a service that has a key and stays up pings again and
\* again.
PingsGoOn == svc.pc = "up" /\ HasKey ~> (task = "pinging" \/ svc.pc # "up")
=============================================================================
