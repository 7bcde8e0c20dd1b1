------------------------------- MODULE S2Jobs -------------------------------
(***************************************************************************)
(* One Semantic Scholar tool call (src/scholar_mcp/_s2_jobs.py,             *)
(* _run_s2_body): the tool body runs as a task of its own, next to a task   *)
(* that waits for the throttle event.  The wrapper waits for the first of   *)
(* them or for the soft deadline, and answers inline or hands the running   *)
(* body to a job.  The Jobs manager (fastmcp_pvl_core) is external: it      *)
(* accepts the continuation, or raises without having accepted it.          *)
(*                                                                         *)
(* What the body does between its awaits is left out: it can be throttled   *)
(* (S2RetryContext.notify, module S2Gate), and it can end with an answer    *)
(* (also {"error": "rate_limited"}, its deadline's answer) or an exception. *)
(***************************************************************************)
EXTENDS Naturals

CONSTANT SoftDeadline   \* config.soft_deadline_s

ASSUME SoftDeadlineAssumption == SoftDeadline \in Nat

VARIABLES
    wrapper,    \* where _run_s2_body is
    body,       \* the task of _body
    cancelled,  \* task.cancel() was called on it
    slowed,     \* context.throttled
    signal,     \* the task that waits for context.throttled
    reason,     \* which verb hands the body over, "defer" or "start"
    job,        \* the job record of this call
    soft        \* what is left of the soft deadline

jobVars == <<wrapper, body, cancelled, slowed, signal, reason, job, soft>>

Ended == {"answered", "failed", "cancelled"}
Over == {"replied", "handed", "raised", "left"}

JobsTypeOK ==
    /\ wrapper \in {"new", "native", "waiting", "adopting", "cleaning",
                    "cancelling", "replying", "handing", "raising"} \union Over
    /\ body \in {"none", "running"} \union Ended
    /\ cancelled \in BOOLEAN
    /\ slowed \in BOOLEAN
    /\ signal \in {"none", "waiting", "set", "cancelled"}
    /\ reason \in {"none", "defer", "start"}
    /\ job \in {"none", "tracking", "completed", "failed"}
    /\ soft \in 0..SoftDeadline

JobsInit ==
    /\ wrapper = "new"
    /\ body = "none"
    /\ cancelled = FALSE
    /\ slowed = FALSE
    /\ signal = "none"
    /\ reason = "none"
    /\ job = "none"
    /\ soft = SoftDeadline

-----------------------------------------------------------------------------
(* The wrapper.                                                             *)

\* A native MCP task has its own handle: the body is awaited in place.
RunNative ==
    /\ wrapper = "new"
    /\ wrapper' = "native"
    /\ body' = "running"
    /\ UNCHANGED <<cancelled, slowed, signal, reason, job, soft>>

Launch ==
    /\ wrapper = "new"
    /\ wrapper' = "waiting"
    /\ body' = "running"
    /\ signal' = "waiting"
    /\ UNCHANGED <<cancelled, slowed, reason, job, soft>>

\* Mutated ReturnsInline: an answer that came through a throttle is dropped.
ReturnsInlineUnthrottled ==
    /\ wrapper = "waiting"
    /\ body \in Ended
    /\ wrapper' = IF body = "answered" /\ ~slowed THEN "replying"
                                                     ELSE "raising"
    /\ signal' = "cancelled"
    /\ UNCHANGED <<body, cancelled, slowed, reason, job, soft>>

\* asyncio.wait returned: what counts is who is done now, the body first.
ReturnsInline ==
    /\ wrapper = "waiting"
    /\ body \in Ended
    /\ wrapper' = IF body = "answered" THEN "replying" ELSE "raising"
    /\ signal' = "cancelled"
    /\ UNCHANGED <<body, cancelled, slowed, reason, job, soft>>

\* Mutated HandsOver: asyncio.wait without its timeout.
HandsOverThrottled ==
    /\ wrapper = "waiting"
    /\ signal = "set"
    /\ body \notin Ended
    /\ wrapper' = "adopting"
    /\ reason' = "defer"
    /\ UNCHANGED <<body, cancelled, slowed, signal, job, soft>>

\* Mutated HandsOver: jobs.start whoever is in done.
HandsOverPlainly ==
    /\ wrapper = "waiting"
    /\ signal = "set" \/ soft = 0
    /\ body \notin Ended
    /\ wrapper' = "adopting"
    /\ reason' = "start"
    /\ UNCHANGED <<body, cancelled, slowed, signal, job, soft>>

\* The signal or the timeout ended the wait while the body runs.
HandsOver ==
    /\ wrapper = "waiting"
    /\ signal = "set" \/ soft = 0
    /\ body \notin Ended
    /\ wrapper' = "adopting"
    /\ reason' = IF signal = "set" THEN "defer" ELSE "start"
    /\ UNCHANGED <<body, cancelled, slowed, signal, job, soft>>

\* jobs.defer or jobs.start: the manager tracks the continuation ...
JobCreated ==
    /\ wrapper = "adopting"
    /\ job = "none"
    /\ job' = "tracking"
    /\ UNCHANGED <<wrapper, body, cancelled, slowed, signal, reason, soft>>

\* Mutated JobReturned: the clean-up of the other ways out cancels the body.
JobReturnedCancelling ==
    /\ wrapper = "adopting"
    /\ job # "none"
    /\ wrapper' = "handing"
    /\ signal' = "cancelled"
    /\ cancelled' = TRUE
    /\ UNCHANGED <<body, slowed, reason, job, soft>>

\* ... and returns its handle, ...
JobReturned ==
    /\ wrapper = "adopting"
    /\ job # "none"
    /\ wrapper' = "handing"
    /\ signal' = "cancelled"
    /\ UNCHANGED <<body, cancelled, slowed, reason, job, soft>>

\* Mutated JobRefused: the body is awaited but not cancelled.
JobRefusedKeepsBody ==
    /\ wrapper = "adopting"
    /\ job = "none"
    /\ wrapper' = "cleaning"
    /\ UNCHANGED <<body, cancelled, slowed, signal, reason, job, soft>>

\* ... or refuses it (the per-subject job limit).
JobRefused ==
    /\ wrapper = "adopting"
    /\ job = "none"
    /\ wrapper' = "cleaning"
    /\ cancelled' = TRUE
    /\ UNCHANGED <<body, slowed, signal, reason, job, soft>>

\* Mutated Cleaned: the cancelled body is not awaited.
CleanedAtOnce ==
    /\ wrapper \in {"cleaning", "cancelling"}
    /\ wrapper' = IF wrapper = "cleaning" THEN "raising" ELSE "left"
    /\ signal' = "cancelled"
    /\ UNCHANGED <<body, cancelled, slowed, reason, job, soft>>

\* gather(task) returned; the finally clause cancels the signal.
Cleaned ==
    /\ wrapper \in {"cleaning", "cancelling"}
    /\ body \in Ended
    /\ wrapper' = IF wrapper = "cleaning" THEN "raising" ELSE "left"
    /\ signal' = "cancelled"
    /\ UNCHANGED <<body, cancelled, slowed, reason, job, soft>>

\* The finally clause awaited the signal task; what was decided gets out.
Leaves ==
    /\ wrapper \in {"replying", "handing", "raising"}
    /\ wrapper' = CASE wrapper = "replying" -> "replied"
                    [] wrapper = "handing"  -> "handed"
                    [] wrapper = "raising"  -> "raised"
    /\ UNCHANGED <<body, cancelled, slowed, signal, reason, job, soft>>

NativeEnds ==
    /\ wrapper = "native"
    /\ body \in Ended
    /\ wrapper' = IF body = "answered" THEN "replied" ELSE "raised"
    /\ UNCHANGED <<body, cancelled, slowed, signal, reason, job, soft>>

-----------------------------------------------------------------------------
(* The caller cancels the call: CancelledError at the await it is in.       *)

\* Inside the outer try, in wait, in jobs.defer or start, or in the clean-up
\* after a refusal: the body is cancelled and awaited.
CancelledInside ==
    /\ wrapper \in {"waiting", "adopting", "cleaning"}
    /\ wrapper' = "cancelling"
    /\ cancelled' = TRUE
    /\ UNCHANGED <<body, slowed, signal, reason, job, soft>>

\* A second cancel interrupts that await; the finally clause still runs.
CancelledAgain ==
    /\ wrapper = "cancelling"
    /\ wrapper' = "left"
    /\ signal' = "cancelled"
    /\ UNCHANGED <<body, cancelled, slowed, reason, job, soft>>

\* In the finally clause nothing is undone: a job that was created goes on.
CancelledOnTheWayOut ==
    /\ wrapper \in {"replying", "handing", "raising"}
    /\ wrapper' = "left"
    /\ UNCHANGED <<body, cancelled, slowed, signal, reason, job, soft>>

\* A native call awaits the body in place, so the cancel hits the body.
CancelledNative ==
    /\ wrapper = "native"
    /\ body = "running"
    /\ cancelled' = TRUE
    /\ UNCHANGED <<wrapper, body, slowed, signal, reason, job, soft>>

Cancel ==
    CancelledInside \/ CancelledAgain \/ CancelledOnTheWayOut \/ CancelledNative

-----------------------------------------------------------------------------
(* The tasks and the job record.                                            *)

BodyThrottled ==
    /\ body = "running"
    /\ ~cancelled
    /\ slowed' = TRUE
    /\ UNCHANGED <<wrapper, body, cancelled, signal, reason, job, soft>>

BodyEnds ==
    /\ body = "running"
    /\ IF cancelled THEN body' = "cancelled"
                    ELSE body' \in {"answered", "failed"}
    /\ UNCHANGED <<wrapper, cancelled, slowed, signal, reason, job, soft>>

SignalFires ==
    /\ signal = "waiting"
    /\ slowed
    /\ signal' = "set"
    /\ UNCHANGED <<wrapper, body, cancelled, slowed, reason, job, soft>>

\* _await_task: the record gets what the body ended with.
JobSettles ==
    /\ job = "tracking"
    /\ body \in Ended
    /\ job' = IF body = "answered" THEN "completed" ELSE "failed"
    /\ UNCHANGED <<wrapper, body, cancelled, slowed, signal, reason, soft>>

\* Time moves on once the event loop has run what is due.
SoftTick ==
    /\ soft > 0
    /\ wrapper = "waiting" => signal # "set" /\ body \notin Ended
    /\ slowed => signal # "waiting"
    /\ soft' = soft - 1
    /\ UNCHANGED <<wrapper, body, cancelled, slowed, signal, reason, job>>

Wrapper ==
    \/ RunNative \/ Launch \/ ReturnsInline \/ HandsOver \/ JobReturned
    \/ Cleaned \/ Leaves \/ NativeEnds

Finished ==
    /\ wrapper \in Over
    /\ body \in Ended
    /\ job # "tracking"
    /\ UNCHANGED jobVars

JobsNext ==
    \/ Wrapper
    \/ JobCreated \/ JobRefused \/ JobSettles
    \/ Cancel
    \/ BodyThrottled \/ BodyEnds \/ SignalFires
    \/ SoftTick
    \/ Finished

JobsSpec == JobsInit /\ [][JobsNext]_jobVars

\* The event loop runs the wrapper, the signal and a cancelled body, the Jobs
\* manager answers, and time passes.  The body need not end.
JobsFairness ==
    /\ WF_jobVars(Wrapper)
    /\ WF_jobVars(JobCreated \/ JobRefused)
    /\ WF_jobVars(SignalFires)
    /\ WF_jobVars(cancelled /\ BodyEnds)
    /\ WF_jobVars(SoftTick)

JobsFairSpec == JobsSpec /\ JobsFairness

-----------------------------------------------------------------------------
\* A body that runs is somebody's: the wrapper (or the native task) still
\* awaits it, a job tracks it, or it has been told to stop.  Nor does a call
\* that is over leave its signal task waiting (_run_s2_body).
NoOrphans ==
    /\ body = "running" =>
          \/ wrapper \in {"native", "waiting", "adopting"}
          \/ job = "tracking"
          \/ cancelled
    /\ wrapper \in Over => signal # "waiting"

\* A call that failed or was left without a job has nothing running, and a
\* handle leads to work nobody cancels (_run_s2_body's two clean-ups).
HandleMeansWork ==
    /\ wrapper = "raised" => body \in Ended
    /\ wrapper = "left" /\ job = "none" => body \in Ended \/ cancelled
    /\ wrapper = "handed" => job # "none" /\ ~cancelled

\* Work and its owners agree, whatever fails or is cancelled at whatever await:
\* no body runs for nobody, and no handle leads to nothing (_run_s2_body).
WorkIsOwned == NoOrphans /\ HandleMeansWork

\* The body's own answer reaches the caller: inline, or in the record whose
\* handle it got; only a call whose caller cancelled, or that the Jobs
\* manager refused, may end without it.
AnswerReachesCaller ==
    body = "answered" /\ wrapper \in Over =>
        \/ wrapper = "replied"
        \/ wrapper = "handed" /\ job \in {"tracking", "completed"}
        \/ wrapper = "left"
        \/ wrapper = "raised" /\ cancelled /\ job = "none"

\* docs/use/background-jobs.md:23: a call that S2 throttles while it waits,
\* before its soft deadline, leaves the wait with the throttling reason, not
\* with the plain handle of a slow call, unless it ends or is cancelled first.
ThrottleIsExplained ==
    (slowed /\ soft > 0 /\ wrapper = "waiting")
        ~> (reason = "defer" \/ cancelled \/ body \in Ended)

\* Every call is answered although its body may run for ever.
EveryCallIsAnswered ==
    wrapper \in {"waiting", "adopting", "cleaning", "cancelling"}
        ~> wrapper \in Over

-----------------------------------------------------------------------------
\* Where the wrapper is tells what has become of the body.
Shape ==
    /\ wrapper = "new" <=> body = "none"
    /\ body = "cancelled" => cancelled
    /\ wrapper \in {"replying", "replied"} => body = "answered"
    /\ wrapper = "raising" => body \in Ended
    /\ wrapper \in {"cleaning", "cancelling"} => cancelled
    /\ wrapper \in {"new", "waiting", "adopting", "handing"} => ~cancelled
    /\ wrapper \in {"new", "native", "waiting", "cleaning", "raising"} =>
          job = "none"
    /\ wrapper = "handing" => job # "none"
    /\ job \in {"completed", "failed"} => body \in Ended
    /\ wrapper \in {"replying", "handing", "raising"} \union Over =>
          signal # "waiting"
    /\ wrapper \in {"new", "native"} => signal = "none"

-----------------------------------------------------------------------------
(* The refinement.                                                          *)

Promise == INSTANCE ToolPromise WITH
    reply <- CASE wrapper = "replied" -> "answer"
               [] wrapper = "handed"  -> "handle"
               [] wrapper = "raised"  -> "error"
               [] wrapper = "left"    -> "gone"
               [] OTHER -> "none",
    work <- IF body \in {"answered", "failed"} THEN "settled"
            ELSE IF body = "cancelled" \/ cancelled THEN "dropped"
            ELSE "running",
    tracked <- job # "none"

\* _run_s2_body keeps the promise of a tool call.
KeepsPromise == Promise!Spec

=============================================================================
