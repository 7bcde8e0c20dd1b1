----------------------------- MODULE EpoClient -----------------------------
(***************************************************************************)
(* EpoClient (_epo_client.py): the traffic light that every response of    *)
(* EPO carries, the copy of it the client keeps for 60 seconds, and the    *)
(* one lock around the thread that talks to EPO.                           *)
(*                                                                         *)
(* The light is consulted before a request waits for the lock and not      *)
(* again when the lock is given, so requests that queued under a green     *)
(* light go out under whatever light has been seen since.  A response      *)
(* whose light is not green is thrown away, content and all.               *)
(*                                                                         *)
(* A request is a caller and the item it asks for.  "idle" stands for the  *)
(* system state and the colour that let a request pass, yellow and red     *)
(* are one colour: the code tells them from black only.                    *)
(***************************************************************************)
EXTENDS Naturals, Sequences, SequencesExt

CONSTANTS Callers, \* the tool calls that share the client
          Lights,  \* the traffic lights EPO may answer with, one colour for each bucket
          TTL      \* how long a seen light is trusted, in ticks (60 s)

\* The bucket each method of the client bills (search, get_biblio, ...; "inquiry"
\* and "page" are the two steps of get_pdf).
Billed == [search |-> "search", biblio |-> "retrieval", claims |-> "retrieval",
           description |-> "retrieval", family |-> "inpadoc", legal |-> "inpadoc",
           citations |-> "retrieval", inquiry |-> "retrieval", page |-> "images"]

Items == DOMAIN Billed
Buckets == {Billed[i] : i \in Items}
Colours == {"green", "busy", "black"}
Requests == Callers \X Items

ASSUME LightsAssumption == Lights \subseteq [Buckets -> Colours]
ASSUME TTLAssumption == TTL \in Nat

VARIABLES seen, \* the light of the last response (_throttle_cache)
          age,  \* ticks since then, as far as they matter (_throttle_cache_ts)
          line, \* the requests that wait for the lock, its holder first
          req   \* how far each request has come

client == <<seen, age, line, req>>

Refusals == {"busy", "quota"}
Ended == {"ok", "missing", "failed"} \cup Refusals
Stages == {"none", "ready", "asked"} \cup Ended

ClientTypeOK ==
    /\ seen \in [Buckets -> Colours]
    /\ age \in 0..(TTL + 1)
    /\ line \in Seq(Requests) /\ IsInjective(line)
    /\ req \in [Requests -> Stages]
    /\ \A r \in Requests : req[r] = "asked" <=> r \in ToSet(line)

ClientInit ==
    /\ seen = [b \in Buckets |-> "green"]
    /\ age = TTL + 1
    /\ line = <<>>
    /\ req = [r \in Requests |-> "none"]

\* What a light makes of a request: it passes, may be retried, or is out of quota.
Verdict(colour, body) ==
    CASE colour = "green" -> body [] colour = "busy" -> "busy" [] colour = "black" -> "quota"

Throttled(bucket) == age <= TTL /\ seen[bucket] # "green"

\* The light is consulted, and the request joins the line unless it is refused.
Ask(r) ==
    LET bucket == Billed[r[2]]
    IN /\ req[r] = "ready"
       /\ IF Throttled(bucket)
          THEN /\ req' = [req EXCEPT ![r] = Verdict(seen[bucket], "ok")]
               /\ UNCHANGED line
          ELSE /\ req' = [req EXCEPT ![r] = "asked"]
               /\ line' = Append(line, r)
       /\ UNCHANGED <<seen, age>>

\* EPO answers the holder of the lock: its light is remembered for everybody,
\* and the body counts only under a green one.
Answered(r, lights, body) ==
    /\ line # <<>> /\ r = Head(line)
    /\ line' = Tail(line)
    /\ seen' = lights
    /\ age' = 0
    /\ req' = [req EXCEPT ![r] = Verdict(lights[Billed[r[2]]], body)]

\* The HTTP library raises: no light is seen.  A search that finds nothing is
\* answered with 404 and is an empty result, not an error.
Fails(r, error) ==
    /\ line # <<>> /\ r = Head(line)
    /\ line' = Tail(line)
    /\ req' = [req EXCEPT ![r] = IF r[2] = "search" /\ error = "missing" THEN "ok" ELSE error]
    /\ UNCHANGED <<seen, age>>

\* One tick of the monotonic clock, as far as the light is concerned.
Ages == age' = IF age > TTL THEN age ELSE age + 1
=============================================================================
