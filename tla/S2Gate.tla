------------------------------- MODULE S2Gate -------------------------------
(***************************************************************************)
(* The Semantic Scholar gate (src/scholar_mcp/_rate_limiter.py): one        *)
(* RateLimiter shared by every S2 request of the server, and the two ways   *)
(* a request goes through it, with_s2_retry (a tool body, with or without  *)
(* an S2RetryContext) and with_s2_try_once (the keepalive probe).           *)
(*                                                                         *)
(* Time.  The code compares event-loop timestamps with "now" only through   *)
(* differences, so every timestamp is kept here as the time left until it, *)
(* floored at 0: spacing stands for _last + delay - now, hold for           *)
(* _cooldown_until - now, left[x] for deadline - now (floored at -1, "it    *)
(* has passed") and timer[c] for the end of a sleep or of an HTTP call.     *)
(* Tick is one unit of time.  The event loop runs what is due before time   *)
(* moves on, so Tick waits for the coroutines that are due (Due).           *)
(***************************************************************************)
EXTENDS Integers

CONSTANTS
    Callers,      \* coroutines that send S2 requests, one after the other
    TryOnce,      \* those that may go through with_s2_try_once (the keepalive)
    Contexts,     \* S2RetryContext objects, one per running S2 tool call
    NoContext,    \* ContextVar default: a direct client call
    ContextOf,    \* the context a caller runs under
    Delay,        \* RateLimiter.delay
    BaseDelay,    \* _S2_BASE_DELAY_S
    MaxBackoff,   \* the 60 s cap of one backoff
    MaxRetries,   \* _S2_MAX_RETRIES
    Window,       \* _retry_window_s: deadline - start of the tool call
    RecordTTL,    \* result_ttl_s: how long a job record is kept
    CallLimit     \* bound on one HTTP call (the client's timeout)

ASSUME CallersAssumption ==
    /\ TryOnce \subseteq Callers
    /\ NoContext \notin Contexts
    /\ ContextOf \in [Callers -> Contexts \union {NoContext}]
    /\ \A c \in TryOnce : ContextOf[c] = NoContext

ASSUME TimesAssumption ==
    /\ Delay \in Nat
    /\ BaseDelay \in Nat \ {0}
    /\ MaxBackoff \in Nat \ {0}
    /\ BaseDelay <= MaxBackoff
    /\ MaxRetries \in Nat
    /\ Window \in Nat \ {0}
    /\ CallLimit \in Nat \ {0}
    /\ RecordTTL \in Nat
    \* a sixth of the TTL is more than one HTTP call takes
    /\ Window + CallLimit < RecordTTL

VARIABLES
    spacing,    \* _last + delay - now
    hold,       \* _cooldown_until - now
    pc,         \* "idle", "sleeping" in acquire, or "calling" coro_func
    timer,      \* what is left of the sleep or of the HTTP call
    timed,      \* acquire runs under wait_for(timeout=remaining)
    attempt,    \* with_s2_retry's attempt (only a direct call reads it)
    backoff,    \* the wait its next 429 will impose
    outcome,    \* how the caller's last request ended
    throttled,  \* S2RetryContext.throttled
    left,       \* S2RetryContext.deadline - now
    record,     \* history: what is left of the job record that the throttle
                \* made the tool call answer with
    owed,       \* history: what is left of the last backoff told to a caller
    age         \* history: time since the last request started, up to Delay

vars == <<spacing, hold, pc, timer, timed, attempt, backoff, outcome,
          throttled, left, record, owed, age>>

Outcomes == {"none", "ok", "error", "http429", "rate_limited", "deadline"}

TypeOK ==
    /\ spacing \in 0..Delay
    /\ hold \in 0..MaxBackoff
    /\ pc \in [Callers -> {"idle", "sleeping", "calling"}]
    /\ timer \in [Callers -> Nat]
    /\ timed \in [Callers -> BOOLEAN]
    /\ attempt \in [Callers -> 0..MaxRetries]
    /\ backoff \in [Callers -> 1..MaxBackoff]
    /\ outcome \in [Callers -> Outcomes]
    /\ throttled \in [Contexts -> BOOLEAN]
    /\ left \in [Contexts -> -1..Window]
    /\ record \in [Contexts -> 0..RecordTTL]
    /\ owed \in [Callers -> 0..MaxBackoff]
    /\ age \in 0..Delay

-----------------------------------------------------------------------------
Larger(m, n) == IF m >= n THEN m ELSE n
Smaller(m, n) == IF m <= n THEN m ELSE n
Less1(n) == IF n > 0 THEN n - 1 ELSE 0

HasContext(c) == ContextOf[c] # NoContext

\* context is not None and context.throttled.is_set()
Throttled(c) == HasContext(c) /\ throttled[ContextOf[c]]

\* context.notify(...): sets the event, at which the tool wrapper defers the
\* body to a job; retry_after_s is only a hint.
Notify(c) ==
    /\ throttled' = [x \in Contexts |-> throttled[x] \/ x = ContextOf[c]]
    /\ record' = [x \in Contexts |-> IF x = ContextOf[c] /\ ~throttled[x]
                                     THEN RecordTTL ELSE record[x]]

Finish(c, how) ==
    /\ pc' = [pc EXCEPT ![c] = "idle"]
    /\ timer' = [timer EXCEPT ![c] = 0]
    /\ timed' = [timed EXCEPT ![c] = FALSE]
    /\ outcome' = [outcome EXCEPT ![c] = how]

(***************************************************************************)
(* One pass through the locked section of RateLimiter.acquire.  It holds no *)
(* await, so it is atomic: the caller is let through, or it leaves the lock *)
(* and sleeps for the wait computed now (a waiter under a cooldown also     *)
(* tells its context).                                                      *)
(***************************************************************************)
LetThrough(c) ==
    /\ spacing = 0
    /\ hold = 0
    /\ spacing' = Delay
    /\ pc' = [pc EXCEPT ![c] = "calling"]
    /\ timer' = [timer EXCEPT ![c] = CallLimit]
    /\ age' = 0
    /\ UNCHANGED <<hold, throttled, record>>

Park(c) ==
    /\ Larger(spacing, hold) > 0
    /\ pc' = [pc EXCEPT ![c] = "sleeping"]
    /\ timer' = [timer EXCEPT ![c] = Larger(spacing, hold)]
    /\ IF hold > 0 THEN Notify(c) ELSE UNCHANGED <<throttled, record>>
    /\ UNCHANGED <<spacing, hold, age>>

Acquire(c) == LetThrough(c) \/ Park(c)

-----------------------------------------------------------------------------
Init ==
    /\ spacing = 0
    /\ hold = 0
    /\ pc = [c \in Callers |-> "idle"]
    /\ timer = [c \in Callers |-> 0]
    /\ timed = [c \in Callers |-> FALSE]
    /\ attempt = [c \in Callers |-> 0]
    /\ backoff = [c \in Callers |-> BaseDelay]
    /\ outcome = [c \in Callers |-> "none"]
    /\ throttled = [x \in Contexts |-> FALSE]
    /\ left = [x \in Contexts |-> Window]
    /\ record = [x \in Contexts |-> 0]
    /\ owed = [c \in Callers |-> 0]
    /\ age = Delay

\* A caller makes its next request.  A body whose window closed is over.
Request(c) ==
    /\ pc[c] = "idle"
    /\ outcome[c] # "deadline"
    /\ attempt' = [attempt EXCEPT ![c] = 0]
    /\ backoff' = [backoff EXCEPT ![c] = BaseDelay]
    /\ UNCHANGED <<left, owed>>

\* The loop top of with_s2_retry finds the window closed.
RequestTooLate(c) ==
    /\ Request(c)
    /\ Throttled(c)
    /\ left[ContextOf[c]] <= 0
    /\ Finish(c, "deadline")
    /\ UNCHANGED <<spacing, hold, throttled, record, age>>

\* Mutated RequestEnters: the loop top does not look at the deadline.
RequestEntersLate(c) ==
    /\ Request(c)
    /\ timed' = [timed EXCEPT ![c] = Throttled(c)]
    /\ Acquire(c)
    /\ UNCHANGED outcome

\* The loop top enters acquire, under wait_for only once its context has
\* been throttled.
RequestEnters(c) ==
    /\ Request(c)
    /\ Throttled(c) => left[ContextOf[c]] > 0
    /\ timed' = [timed EXCEPT ![c] = Throttled(c)]
    /\ Acquire(c)
    /\ UNCHANGED outcome

\* Mutated Wake: acquire sleeps once and goes, without its loop.
WakeUnchecked(c) ==
    /\ pc[c] = "sleeping"
    /\ timer[c] = 0
    /\ spacing' = Delay
    /\ pc' = [pc EXCEPT ![c] = "calling"]
    /\ timer' = [timer EXCEPT ![c] = CallLimit]
    /\ age' = 0
    /\ UNCHANGED <<hold, timed, attempt, backoff, outcome, throttled,
                   left, record, owed>>

\* asyncio.sleep(wait) is over: acquire looks at the gate again.
Wake(c) ==
    /\ pc[c] = "sleeping"
    /\ timer[c] = 0
    /\ Acquire(c)
    /\ UNCHANGED <<timed, attempt, backoff, outcome, left, owed>>

\* wait_for cancels the acquire when the window closes.
WaitTimesOut(c) ==
    /\ pc[c] = "sleeping"
    /\ timed[c]
    /\ left[ContextOf[c]] <= 0
    /\ Finish(c, "deadline")
    /\ UNCHANGED <<spacing, hold, attempt, backoff, throttled, left,
                   record, owed, age>>

\* S2 answers, or the call fails with something other than a 429.
Answered(c, how) ==
    /\ pc[c] = "calling"
    /\ Finish(c, how)
    /\ UNCHANGED <<spacing, hold, attempt, backoff, throttled, left,
                   record, owed, age>>

\* Mutated Cooldown: a later, shorter backoff replaces the active one.
CooldownShortened(c, wait) ==
    /\ hold' = wait
    /\ owed' = [owed EXCEPT ![c] = wait]

\* RateLimiter.cooldown, and the history of what it promised the caller.
Cooldown(c, wait) ==
    /\ hold' = Larger(hold, wait)
    /\ owed' = [owed EXCEPT ![c] = wait]

\* What a 429 answered to with_s2_retry does in any case.
Refused(c) ==
    /\ pc[c] = "calling"
    /\ Cooldown(c, backoff[c])
    /\ backoff' = [backoff EXCEPT ![c] = Smaller(2 * @, MaxBackoff)]
    /\ UNCHANGED <<spacing, left, age>>

\* Mutated RefusedForGood: the last retry is not made.
RefusedForGoodEarly(c) ==
    /\ Refused(c)
    /\ ~HasContext(c)
    /\ attempt[c] + 1 = MaxRetries
    /\ Finish(c, "http429")
    /\ UNCHANGED <<attempt, throttled, record>>

\* A direct call gives up after max_retries retries ...
RefusedForGood(c) ==
    /\ Refused(c)
    /\ ~HasContext(c)
    /\ attempt[c] = MaxRetries
    /\ Finish(c, "http429")
    /\ UNCHANGED <<attempt, throttled, record>>

\* ... and goes back to acquire before that.  The loop does not await
\* between the 429 and acquire's first look, which sees the new cooldown.
RefusedDirect(c) ==
    /\ Refused(c)
    /\ ~HasContext(c)
    /\ attempt[c] < MaxRetries
    /\ attempt' = [attempt EXCEPT ![c] = @ + 1]
    /\ pc' = [pc EXCEPT ![c] = "sleeping"]
    /\ timer' = [timer EXCEPT ![c] = Larger(spacing, hold')]
    /\ UNCHANGED <<timed, outcome, throttled, record>>

\* Mutated RefusedInContext: the retry has no deadline.
RefusedInContextForever(c) ==
    /\ Refused(c)
    /\ HasContext(c)
    /\ Notify(c)
    /\ pc' = [pc EXCEPT ![c] = "sleeping"]
    /\ timer' = [timer EXCEPT ![c] = Larger(spacing, hold')]
    /\ UNCHANGED <<timed, outcome, attempt>>

\* Under a context the event is set, and the next acquire has the rest of
\* the window; attempt is not read again.
RefusedInContext(c) ==
    /\ Refused(c)
    /\ HasContext(c)
    /\ Notify(c)
    /\ IF left[ContextOf[c]] <= 0
       THEN Finish(c, "deadline")
       ELSE /\ pc' = [pc EXCEPT ![c] = "sleeping"]
            /\ timer' = [timer EXCEPT ![c] = Larger(spacing, hold')]
            /\ timed' = [timed EXCEPT ![c] = TRUE]
            /\ UNCHANGED outcome
    /\ UNCHANGED attempt

\* with_s2_try_once: a 429 still holds the gate for everybody.  Which of the two
\* ways a request takes shows at its first 429, and not before.
ProbeRefused(c) ==
    /\ pc[c] = "calling"
    /\ c \in TryOnce
    /\ attempt[c] = 0
    /\ Cooldown(c, BaseDelay)
    /\ Finish(c, "rate_limited")
    /\ UNCHANGED <<spacing, attempt, backoff, throttled, left, record,
                   age>>

Return(c) ==
    \/ Answered(c, "ok")
    \/ Answered(c, "error")
    \/ RefusedForGood(c)
    \/ RefusedDirect(c)
    \/ RefusedInContext(c)
    \/ ProbeRefused(c)

\* Something the event loop runs before time moves on.
Due(c) ==
    \/ pc[c] # "idle" /\ timer[c] = 0
    \/ pc[c] = "sleeping" /\ timed[c] /\ left[ContextOf[c]] <= 0

Tick ==
    /\ \A c \in Callers : ~Due(c)
    /\ spacing' = Less1(spacing)
    /\ hold' = Less1(hold)
    /\ timer' = [c \in Callers |-> Less1(timer[c])]
    /\ left' = [x \in Contexts |-> IF left[x] > -1 THEN left[x] - 1 ELSE -1]
    /\ record' = [x \in Contexts |-> Less1(record[x])]
    /\ owed' = [c \in Callers |-> Less1(owed[c])]
    /\ age' = IF age < Delay THEN age + 1 ELSE Delay
    /\ UNCHANGED <<pc, timed, attempt, backoff, outcome, throttled>>

Next ==
    \/ Tick
    \/ \E c \in Callers :
        \/ RequestTooLate(c)
        \/ RequestEnters(c)
        \/ Wake(c)
        \/ WaitTimesOut(c)
        \/ Return(c)

Spec == Init /\ [][Next]_vars

\* The loop runs what is due, time passes, and an HTTP call ends by its
\* timeout.  Nothing is assumed about who wins a race for the gate, nor that
\* S2 ever stops refusing.
Fairness ==
    /\ WF_vars(Tick)
    /\ \A c \in Callers :
        /\ WF_vars(Wake(c))
        /\ WF_vars(WaitTimesOut(c))
        /\ WF_vars(Return(c))

FairSpec == Spec /\ Fairness

-----------------------------------------------------------------------------
\* A request starts when acquire lets its caller through.
Starts(c) == pc[c] # "calling" /\ pc'[c] = "calling"

\* Two requests of the whole server never start less than Delay apart,
\* whoever sends them and however the sleeps interleave (RateLimiter.acquire);
\* and after a 429 told a caller d to back off for some time, no request of any
\* caller starts before that time is over, although calls in flight may be
\* refused later with a shorter backoff (RateLimiter.cooldown).
StartsPaced ==
    [][\A c \in Callers : Starts(c) => age = Delay /\ \A d \in Callers : owed[d] = 0]_vars

\* A tool body that was throttled before its request entered the gate has
\* that request settled, and so can answer, while the job record it was
\* deferred to still exists: the retry window, the HTTP timeout and the
\* record's TTL are three clocks (with_s2_retry, _retry_window_s).
BoundedWorkBeatsRecord ==
    \A c \in Callers : timed[c] => record[ContextOf[c]] > 0

\* A 429 reaches the caller only from a direct call that has used its whole
\* ladder; a tool body is told "deadline" instead, and only when S2 throttled
\* it and its window is over (with_s2_retry).
RefusalsAreEarned ==
    \A c \in Callers :
        /\ outcome[c] = "http429" /\ pc[c] = "idle" =>
              ~HasContext(c) /\ attempt[c] = MaxRetries
        /\ outcome[c] = "deadline" =>
              Throttled(c) /\ left[ContextOf[c]] <= 0

\* From some time on nobody but c makes requests.
LeftAlone(c) == <>[](\A d \in Callers \ {c} : pc[d] = "idle")

\* Callers compete for the gate for ever, and S2 may refuse every call for ever.
\* Then nobody waits while the gate stands still: as long as one caller sleeps,
\* requests go on being started, be it others'.  A wait that is bounded by the
\* retry window ends however many compete (with_s2_retry); one that is not, which
\* others may overtake again and again, ends when they stop.
EveryWaitEnds ==
    \A c \in Callers :
        /\ pc[c] = "sleeping" ~> (pc[c] = "idle" \/ \E d \in Callers : pc[d] = "calling")
        /\ timed[c] ~> ~timed[c]
        /\ LeftAlone(c) => (pc[c] # "idle" ~> pc[c] = "idle")

-----------------------------------------------------------------------------
\* The strengthenings that make the properties above inductive.

\* The age of the last start is what spacing has counted off.
SpacingInv == age = Delay - spacing

\* The shared cooldown covers every backoff still owed.
OwedInv == \A d \in Callers : owed[d] <= hold

\* Within the window, a job record outlives it by RecordTTL - Window; a
\* bounded wait lies within the window and its call within the rest.
RecordInv ==
    /\ \A x \in Contexts : throttled[x] /\ left[x] >= 0 =>
          record[x] >= left[x] + (RecordTTL - Window)
    /\ \A c \in Callers : timed[c] =>
          /\ Throttled(c)
          /\ pc[c] = "sleeping" => left[ContextOf[c]] >= 0
          /\ pc[c] = "calling" =>
                record[ContextOf[c]] >= timer[c] + (RecordTTL - Window - CallLimit)
          /\ pc[c] # "idle"

-----------------------------------------------------------------------------
\* docs/use/background-jobs.md:23 "If Semantic Scholar keeps refusing, the
\* job completes before its record expires": no body that has been deferred
\* because of a throttle still waits for S2 when its record is gone.
ThrottledWorkBeatsRecord ==
    \A c \in Callers :
        Throttled(c) /\ pc[c] # "idle" => record[ContextOf[c]] > 0

=============================================================================
