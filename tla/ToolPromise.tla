----------------------------- MODULE ToolPromise -----------------------------
(***************************************************************************)
(* What a Semantic Scholar tool promises its caller, whatever runs it: one  *)
(* reply; the answer itself, or a handle to work that goes on and is never *)
(* dropped once the handle is out, or an error once nothing runs any more. *)
(***************************************************************************)

VARIABLES
    reply,    \* "none", "answer", "handle", "error" or "gone" (caller left)
    work,     \* "running", "settled" or "dropped"
    tracked   \* a job record follows the work

vars == <<reply, work, tracked>>

Init ==
    /\ reply = "none"
    /\ work = "running"
    /\ tracked = FALSE

\* The tool body comes to its end.
Settle ==
    /\ work = "running"
    /\ work' = "settled"
    /\ UNCHANGED <<reply, tracked>>

\* The work is abandoned, which only a call without a reply may do.
Drop ==
    /\ reply = "none"
    /\ work = "running"
    /\ work' = "dropped"
    /\ UNCHANGED <<reply, tracked>>

Track ==
    /\ reply = "none"
    /\ tracked' = TRUE
    /\ UNCHANGED <<reply, work>>

Answer ==
    /\ reply = "none"
    /\ work = "settled"
    /\ reply' = "answer"
    /\ UNCHANGED <<work, tracked>>

Handle ==
    /\ reply = "none"
    /\ tracked
    /\ work # "dropped"
    /\ reply' = "handle"
    /\ UNCHANGED <<work, tracked>>

Fail ==
    /\ reply = "none"
    /\ work # "running"
    /\ reply' = "error"
    /\ UNCHANGED <<work, tracked>>

\* The caller left: the work is over, abandoned or somebody else's.
Leave ==
    /\ reply = "none"
    /\ work # "running" \/ tracked
    /\ reply' = "gone"
    /\ UNCHANGED <<work, tracked>>

Next == Settle \/ Drop \/ Track \/ Answer \/ Handle \/ Fail \/ Leave

Spec == Init /\ [][Next]_vars
=============================================================================
