---------------------------- MODULE PatentProofs ----------------------------
(***************************************************************************)
(* Proofs about PatentTools: whatever EPO answers and however many calls   *)
(* share its light and its lock, no throttle hides in a successful answer, *)
(* only a missing publication is reported missing, and a repeated call     *)
(* asks for what it lacks.                                                 *)
(***************************************************************************)
EXTENDS PatentTools, SequenceTheorems, FiniteSetTheorems, TLAPS

CallRecord == [state : States, attempt : 0..Retries, wait : Int, step : 0..MaxRefs,
               total : 0..MaxRefs, probed : BOOLEAN, npl : NplOutcomes, answer : Answers \cup {"none"}]

\* A call waits only while the ladder has a rung left, and stops at its total.
OnItsLadder(k) ==
    /\ k.state = "waiting" => k.attempt < Retries
    /\ k.state = "running" /\ k.total > 0 => k.step < k.total
    /\ k.answer # "none" <=> k.state = "done"

\* TypeOK but for what it says of 2 ^ attempt.
Typed ==
    /\ ClientTypeOK
    /\ wish \in Wishes
    /\ exists \in BOOLEAN
    /\ call \in [Callers -> CallRecord]
    /\ \A c \in Callers : OnItsLadder(call[c])
    /\ stored \subseteq Sections
    /\ searched \in BOOLEAN
    /\ fetched \in [Requests -> Nat]

\* The items a call may come to ask for, and the one a sequence opens with.
Own(c) ==
    CASE wish[c].kind = "sections" -> Fetchers(c)
      [] wish[c].kind = "citing" -> {"search", "biblio"}
      [] wish[c].kind = "document" -> {"inquiry", "page"}
      [] OTHER -> {"search"}

Sequential(c) == wish[c].kind \in {"citing", "document"}
Opening(c) == IF wish[c].kind = "document" THEN "inquiry" ELSE "search"

Open == {"ready", "asked"}
Settled == Ended \cup {"none"}

\* Only running calls have requests under way, and only of their own items.
AsksItsOwn ==
    \A c \in Callers, i \in Items :
        /\ req[<<c, i>>] \in Open => call[c].state = "running"
        /\ req[<<c, i>>] # "none" => i \in Own(c) /\ call[c].state # "new"

\* A sequence goes on only after its opening request was answered.
OpensFirst ==
    \A c \in Callers : Sequential(c) =>
        /\ call[c].total > 0 => req[<<c, Opening(c)>>] = "ok"
        /\ call[c].total = 0 => \A i \in Items \ {Opening(c)} : req[<<c, i>>] = "none"

\* What a call has of the publication is stored, and of one that does not exist
\* there is nothing.
NothingIsMade ==
    /\ ~exists => stored = {}
    /\ \A c \in Callers, i \in Items : wish[c].kind = "sections" =>
          /\ req[<<c, i>>] = "missing" /\ i = "biblio" => ~exists
          /\ req[<<c, i>>] = "ok" => i \in stored

\* A section that a call was given is stored and never again under way for it.
AskedOnce ==
    \A c \in Callers, i \in Items :
        /\ wish[c].kind # "sections" => fetched[<<c, i>>] = 0
        /\ fetched[<<c, i>>] <= 1
        /\ fetched[<<c, i>>] > 0 => i \in stored /\ req[<<c, i>>] \notin Open

\* What an answer says of the requests it was made from.
Soundly(k, c) ==
    LET outcome == [i \in Items |-> req[<<c, i>>]] IN
    /\ k.answer \in {"results", "sections", "patents", "document", "search_failed", "raised"}
        => \A i \in Items : outcome[i] \notin Refusals
    /\ k.answer = "sections" => /\ wish[c].kind = "sections" /\ k.npl # "throttled"
                                /\ \A i \in Fetchers(c) : outcome[i] = "ok"
    /\ k.answer = "patent_not_found" => wish[c].kind = "sections" /\ outcome["biblio"] = "missing"
    /\ wish[c].kind = "sections" /\ k.answer # "none"
        => k.answer \in {"sections", "patent_not_found", "rate_limited", "epo_unavailable", "raised", "s2_throttled"}

AnswersAreSound == \A c \in Callers : Soundly(call[c], c)

Inv == Typed /\ AsksItsOwn /\ OpensFirst /\ NothingIsMade /\ AskedOnce /\ AnswersAreSound

-----------------------------------------------------------------------------
LEMMA ItemsAre ==
    Items = {"search", "biblio", "claims", "description", "family", "legal", "citations", "inquiry", "page"}
BY DEF Items, Billed

LEMMA InSequence ==
    ASSUME NEW S, NEW s \in Seq(S)
    PROVE \A q : q \in ToSet(s) <=> \E n \in 1..Len(s) : s[n] = q
BY DEF ToSet

\* The request that EPO answers leaves the line, and no other.
LEMMA LineShrinks ==
    ASSUME ClientTypeOK, line # <<>>, NEW e \in Ended,
           line' = Tail(line), req' = [req EXCEPT ![Head(line)] = e]
    PROVE /\ Head(line) \in Requests /\ req[Head(line)] = "asked"
          /\ line' \in Seq(Requests) /\ IsInjective(line')
          /\ req' \in [Requests -> Stages]
          /\ \A q \in Requests : req'[q] = "asked" <=> q \in ToSet(line')
<1> DEFINE h == Head(line)
<1>1. /\ line \in Seq(Requests) /\ Len(line) \in Nat \ {0} /\ h = line[1]
      /\ h \in Requests /\ Len(line') = Len(line) - 1 /\ line' \in Seq(Requests)
      /\ \A n \in 1..Len(line') : line'[n] = line[n + 1]
  BY DEF ClientTypeOK
<1>2. \A m, n \in 1..Len(line) : line[m] = line[n] => m = n
  BY <1>1 DEF ClientTypeOK, IsInjective
<1>3. IsInjective(line')
  BY <1>1, <1>2 DEF IsInjective
<1>4. \A q : q \in ToSet(line) <=> \E n \in 1..Len(line) : line[n] = q
  BY <1>1, InSequence
<1>5. \A q : q \in ToSet(line') <=> \E n \in 1..Len(line') : line'[n] = q
  <2> DEFINE l == line'
  <2>1. l \in Seq(Requests) BY <1>1
  <2> HIDE DEF l
  <2>2. \A q : q \in ToSet(l) <=> \E n \in 1..Len(l) : l[n] = q
    BY <2>1, InSequence
  <2> QED BY <2>2 DEF l
<1>6. \A q : q \in ToSet(line') <=> q \in ToSet(line) /\ q # h
  <2>1. ASSUME NEW q, q \in ToSet(line') PROVE q \in ToSet(line) /\ q # h
    <3>1. PICK n \in 1..Len(line') : line'[n] = q
      BY <2>1, <1>5
    <3>2. n + 1 \in 1..Len(line) /\ line[n + 1] = q /\ n + 1 # 1
      BY <3>1, <1>1
    <3>3. 1 \in 1..Len(line)
      BY <1>1
    <3> QED BY <3>2, <3>3, <1>1, <1>2, <1>4
  <2>2. ASSUME NEW q, q \in ToSet(line), q # h PROVE q \in ToSet(line')
    <3>1. PICK n \in 1..Len(line) : line[n] = q
      BY <2>2, <1>4
    <3>2. n # 1
      BY <3>1, <2>2, <1>1
    <3>3. n - 1 \in 1..Len(line') /\ line'[n - 1] = q
      BY <3>1, <3>2, <1>1
    <3> QED BY <3>3, <1>5
  <2> QED BY <2>1, <2>2
<1>7. h \in ToSet(line)
  BY <1>1, <1>4
<1>8. req[h] = "asked" /\ e # "asked" /\ e \in Stages
  BY <1>1, <1>7 DEF ClientTypeOK, Ended, Refusals, Stages
<1>9. req \in [Requests -> Stages] /\ \A q \in Requests : req[q] = "asked" <=> q \in ToSet(line)
  BY DEF ClientTypeOK
<1>10. req' \in [Requests -> Stages] /\ \A q \in Requests : req'[q] = IF q = h THEN e ELSE req[q]
  BY <1>8, <1>9, <1>1
<1> HIDE DEF h
<1>11. \A q \in Requests : req'[q] = "asked" <=> q \in ToSet(line')
  BY <1>6, <1>8, <1>9, <1>10
<1> QED BY <1>1, <1>3, <1>8, <1>10, <1>11 DEF h

\* A request that is let through is the last of the line.
LEMMA LineGrows ==
    ASSUME ClientTypeOK, NEW r \in Requests, req[r] = "ready",
           line' = Append(line, r), req' = [req EXCEPT ![r] = "asked"]
    PROVE /\ line' \in Seq(Requests) /\ IsInjective(line')
          /\ req' \in [Requests -> Stages]
          /\ \A q \in Requests : req'[q] = "asked" <=> q \in ToSet(line')
<1>1. /\ line \in Seq(Requests) /\ Len(line) \in Nat /\ Len(line') = Len(line) + 1
      /\ line' \in Seq(Requests) /\ line'[Len(line) + 1] = r
      /\ \A n \in 1..Len(line) : line'[n] = line[n]
  BY DEF ClientTypeOK
<1>2. \A m, n \in 1..Len(line) : line[m] = line[n] => m = n
  BY <1>1 DEF ClientTypeOK, IsInjective
<1>3. \A q : q \in ToSet(line) <=> \E n \in 1..Len(line) : line[n] = q
  BY <1>1, InSequence
<1>4. \A q : q \in ToSet(line') <=> \E n \in 1..Len(line') : line'[n] = q
  BY <1>1, InSequence
<1>5. r \notin ToSet(line)
  BY DEF ClientTypeOK
<1>6. IsInjective(line')
  <2> SUFFICES ASSUME NEW m \in 1..Len(line'), NEW n \in 1..Len(line'), line'[m] = line'[n]
               PROVE  m = n
    BY <1>1 DEF IsInjective
  <2>1. \A k \in 1..Len(line) : line[k] # r
    BY <1>3, <1>5
  <2> QED BY <2>1, <1>1, <1>2
<1>7. \A q : q \in ToSet(line') <=> q \in ToSet(line) \/ q = r
  <2>1. ASSUME NEW q, q \in ToSet(line') PROVE q \in ToSet(line) \/ q = r
    <3>1. PICK n \in 1..Len(line') : line'[n] = q
      BY <2>1, <1>4
    <3> QED BY <3>1, <1>1, <1>3
  <2>2. ASSUME NEW q, q \in ToSet(line) PROVE q \in ToSet(line')
    <3>1. PICK n \in 1..Len(line) : line[n] = q
      BY <2>2, <1>3
    <3>2. n \in 1..Len(line') /\ line'[n] = q
      BY <3>1, <1>1
    <3> QED BY <3>2, <1>4
  <2>3. Len(line) + 1 \in 1..Len(line')
    BY <1>1
  <2> QED BY <2>1, <2>2, <2>3, <1>1, <1>4
<1>8. req \in [Requests -> Stages] /\ \A q \in Requests : req[q] = "asked" <=> q \in ToSet(line)
  BY DEF ClientTypeOK
<1>9. req' \in [Requests -> Stages]
  BY <1>8 DEF Stages
<1>10. \A q \in Requests : req'[q] = IF q = r THEN "asked" ELSE req[q]
  BY <1>8
<1> QED BY <1>1, <1>6, <1>7, <1>8, <1>9, <1>10

-----------------------------------------------------------------------------
\* What one call's step leaves of the others.
OthersStay(c) == \A d \in Callers : d # c => call'[d] = call[d]

LEMMA CallRecords ==
    ASSUME NEW k \in CallRecord, NEW state \in States, NEW w \in Int, NEW answer \in Answers
    PROVE [k EXCEPT !.state = state, !.answer = answer, !.wait = w] \in CallRecord
BY DEF CallRecord

LEMMA NewRecords ==
    ASSUME NEW state \in States, NEW attempt \in 0..Retries, NEW w \in Int, NEW n \in 0..MaxRefs
    PROVE [state |-> state, attempt |-> attempt, wait |-> w, step |-> n, total |-> n,
           probed |-> FALSE, npl |-> "none", answer |-> "none"] \in CallRecord
BY DEF CallRecord, NplOutcomes

LEMMA PowerOfTwo ==
    ASSUME NEW n \in Nat PROVE 2 ^ n \in Int
OBVIOUS

\* A call that is answered keeps everything but its state and its answer.
LEMMA Finishes ==
    ASSUME Typed, NEW c \in Callers, NEW answer \in Answers, Finish(c, answer)
    PROVE /\ call' \in [Callers -> CallRecord] /\ OthersStay(c) /\ OnItsLadder(call'[c])
          /\ call'[c].state = "done" /\ call'[c].answer = answer
          /\ call'[c].total = call[c].total /\ call'[c].npl = call[c].npl
<1>1. call[c] \in CallRecord /\ call \in [Callers -> CallRecord]
  BY DEF Typed
<1>2. answer # "none" /\ "done" \in States
  BY DEF Answers, States
<1> DEFINE k == [call[c] EXCEPT !.state = "done", !.answer = answer, !.wait = 0]
<1>3. k \in CallRecord
  BY <1>1, <1>2, 0 \in Int, CallRecords
<1>4. /\ k.state = "done" /\ k.answer = answer
      /\ k.total = call[c].total /\ k.npl = call[c].npl
  BY <1>1 DEF CallRecord
<1>5. call' = [call EXCEPT ![c] = k]
  BY <1>1 DEF Finish
<1> HIDE DEF k
<1>6. call' \in [Callers -> CallRecord] /\ OthersStay(c) /\ call'[c] = k
  BY <1>1, <1>3, <1>5 DEF OthersStay
<1>7. OnItsLadder(call'[c])
  BY <1>2, <1>4, <1>6 DEF OnItsLadder
<1> QED BY <1>4, <1>6, <1>7

\* A refusal is answered, or waited out when the ladder has a rung left.
LEMMA Reports ==
    ASSUME Typed, NEW c \in Callers, call[c].state = "running", NEW refusal, Report(c, refusal)
    PROVE /\ call' \in [Callers -> CallRecord] /\ OthersStay(c) /\ OnItsLadder(call'[c])
          /\ \/ call'[c].state = "waiting" /\ call'[c].answer = "none"
             \/ call'[c].state = "done" /\ call'[c].answer \in {"epo_unavailable", "rate_limited"}
          /\ call'[c].total = call[c].total
<1>1. call[c] \in CallRecord /\ call \in [Callers -> CallRecord] /\ OnItsLadder(call[c])
  BY DEF Typed
<1>2. CASE Finish(c, "epo_unavailable") \/ Finish(c, "rate_limited")
  <2>1. "epo_unavailable" \in Answers /\ "rate_limited" \in Answers
    BY DEF Answers
  <2> QED BY <1>2, <2>1, Finishes
<1>3. CASE /\ call[c].attempt # Retries
           /\ call' = [call EXCEPT ![c].state = "waiting", ![c].wait = Delay * 2 ^ call[c].attempt]
  <2> DEFINE w == Delay * 2 ^ call[c].attempt
  <2>1. w \in Int
    <3>1. call[c].attempt \in Nat
      BY <1>1, LadderAssumption DEF CallRecord
    <3>2. 2 ^ call[c].attempt \in Int
      BY <3>1, PowerOfTwo
    <3> QED BY <3>2, LadderAssumption
  <2>2. call' = [call EXCEPT ![c] = [call[c] EXCEPT !.state = "waiting", !.wait = w]]
    BY <1>1, <1>3
  <2>3. call[c].attempt < Retries /\ call[c].answer = "none"
    BY <1>1, <1>3, LadderAssumption DEF CallRecord, OnItsLadder
  <2>4. "waiting" \in States
    BY DEF States
  <2> HIDE DEF w
  <2>5. [call[c] EXCEPT !.state = "waiting", !.wait = w] \in CallRecord
    BY <1>1, <2>1, <2>4 DEF CallRecord
  <2>6. /\ call' \in [Callers -> CallRecord] /\ OthersStay(c)
        /\ call'[c] = [call[c] EXCEPT !.state = "waiting", !.wait = w]
    BY <1>1, <2>2, <2>5 DEF OthersStay
  <2>7. /\ call'[c].state = "waiting" /\ call'[c].attempt = call[c].attempt
        /\ call'[c].answer = call[c].answer /\ call'[c].total = call[c].total
    BY <1>1, <2>6 DEF CallRecord
  <2> QED BY <2>3, <2>6, <2>7 DEF OnItsLadder
<1> QED BY <1>2, <1>3 DEF Report

\* A sequence ends, or turns to the request of its next item.
LEMMA Advances ==
    ASSUME Typed, NEW c \in Callers, call[c].state = "running", NEW item \in Items,
           NEW step \in 0..MaxRefs, NEW total \in 0..MaxRefs, step <= total,
           NEW answer \in Answers, Advance(c, item, step, total, answer)
    PROVE /\ call' \in [Callers -> CallRecord] /\ OthersStay(c) /\ OnItsLadder(call'[c])
          /\ \/ /\ call'[c].state = "done" /\ call'[c].answer = answer /\ req' = req
                /\ call'[c].total = call[c].total /\ call'[c].npl = call[c].npl
             \/ /\ call'[c].state = "running" /\ call'[c].answer = "none"
                /\ call'[c].total = total /\ total > 0
                /\ req' = [req EXCEPT ![<<c, item>>] = "ready"]
<1>1. call[c] \in CallRecord /\ call \in [Callers -> CallRecord] /\ OnItsLadder(call[c])
  BY DEF Typed
<1>2. CASE step = total
  <2>1. Finish(c, answer) /\ req' = req
    BY <1>2 DEF Advance
  <2> QED BY <2>1, Finishes
<1>3. CASE step # total
  <2>1. /\ call' = [call EXCEPT ![c].step = step, ![c].total = total]
        /\ req' = [req EXCEPT ![<<c, item>>] = "ready"]
    BY <1>3 DEF Advance
  <2>2. step < total /\ total > 0
    BY <1>3, MaxRefsAssumption
  <2>3. call' = [call EXCEPT ![c] = [call[c] EXCEPT !.step = step, !.total = total]]
    BY <1>1, <2>1
  <2>4. [call[c] EXCEPT !.step = step, !.total = total] \in CallRecord
    BY <1>1 DEF CallRecord
  <2>5. /\ call' \in [Callers -> CallRecord] /\ OthersStay(c)
        /\ call'[c] = [call[c] EXCEPT !.step = step, !.total = total]
    BY <1>1, <2>3, <2>4 DEF OthersStay
  <2>6. /\ call'[c].state = call[c].state /\ call'[c].attempt = call[c].attempt
        /\ call'[c].answer = call[c].answer /\ call'[c].step = step /\ call'[c].total = total
    BY <1>1, <2>5 DEF CallRecord
  <2> QED BY <1>1, <2>1, <2>2, <2>5, <2>6 DEF OnItsLadder
<1> QED BY <1>2, <1>3

\* An attempt starts with requests that are ready or served by the cache.
LEMMA Launches ==
    ASSUME Typed, NEW c \in Callers, NEW attempt \in 0..Retries, Launch(c, attempt)
    PROVE /\ call' \in [Callers -> CallRecord] /\ OthersStay(c) /\ OnItsLadder(call'[c])
          /\ call'[c].state = "running" /\ call'[c].total = 0 /\ call'[c].answer = "none"
          /\ req' = [r \in Requests |-> IF r[1] = c THEN Started(c)[r[2]] ELSE req[r]]
<1>1. call[c] \in CallRecord /\ call \in [Callers -> CallRecord]
  BY DEF Typed
<1>2. [New EXCEPT !.state = "running", !.attempt = attempt] \in CallRecord
  <2>1. 0 \in 0..MaxRefs /\ 0 \in Int /\ 0 \in 0..Retries
    BY MaxRefsAssumption, LadderAssumption
  <2>2. "new" \in States /\ "running" \in States
    BY DEF States
  <2>3. New \in CallRecord
    BY <2>1, <2>2, NewRecords DEF New
  <2> QED BY <2>2, <2>3 DEF CallRecord
<1>3. /\ call' \in [Callers -> CallRecord] /\ OthersStay(c)
      /\ call'[c] = [New EXCEPT !.state = "running", !.attempt = attempt]
  BY <1>1, <1>2 DEF Launch, OthersStay
<1>4. call'[c].state = "running" /\ call'[c].total = 0 /\ call'[c].answer = "none"
  BY <1>3 DEF New
<1>5. OnItsLadder(call'[c])
  BY <1>4 DEF OnItsLadder
<1>6. req' = [r \in Requests |-> IF r[1] = c THEN Started(c)[r[2]] ELSE req[r]]
  BY DEF Launch
<1> QED BY <1>3, <1>4, <1>5, <1>6

-----------------------------------------------------------------------------
\* The kinds of calls are distinct, and each knows its items.
LEMMA Owned ==
    ASSUME Typed, NEW c \in Callers
    PROVE /\ wish[c].kind \in Kinds /\ wish[c].wanted \subseteq Sections
          /\ wish[c].kind = "sections" => Own(c) = Fetchers(c) /\ Own(c) \subseteq Sections /\ ~Sequential(c)
          /\ wish[c].kind = "citing" => Own(c) = {"search", "biblio"} /\ Sequential(c) /\ Opening(c) = "search"
          /\ wish[c].kind = "document" => Own(c) = {"inquiry", "page"} /\ Sequential(c) /\ Opening(c) = "inquiry"
          /\ wish[c].kind = "search" => Own(c) = {"search"} /\ ~Sequential(c)
          /\ Own(c) \subseteq Items
<1>1. wish[c] \in Wish
  BY WishesAssumption DEF Typed
<1>2. wish[c].kind \in Kinds /\ wish[c].wanted \subseteq Sections
  BY <1>1 DEF Wish
<1>3. Fetchers(c) \subseteq Sections
  BY <1>2 DEF Fetchers, Sections
<1> QED BY <1>2, <1>3, ItemsAre DEF Own, Sequential, Opening, Kinds, Sections

\* Outside its own items a call has no request.
LEMMA NothingElse ==
    ASSUME AsksItsOwn, NEW c \in Callers
    PROVE \A i \in Items : i \notin Own(c) => req[<<c, i>>] = "none"
BY DEF AsksItsOwn

\* Where an attempt starts.
LEMMA Starts ==
    ASSUME Typed, NEW c \in Callers, NEW i \in Items
    PROVE /\ Started(c)[i] \in {"none", "ok", "ready"}
          /\ Started(c)[i] # "none" => i \in Own(c)
          /\ Started(c)[i] = "ok" => wish[c].kind = "sections" /\ i \in stored
          /\ Started(c)[i] = "ready" /\ wish[c].kind = "sections" => i \notin stored
          /\ Sequential(c) /\ i # Opening(c) => Started(c)[i] = "none"
<1>1. CASE wish[c].kind = "sections"
  <2>1. Started(c)[i] = IF i \notin Fetchers(c) THEN "none" ELSE IF GetSection(i) THEN "ok" ELSE "ready"
    BY <1>1 DEF Started
  <2> QED BY <1>1, <2>1, Owned DEF GetSection
<1>2. CASE wish[c].kind = "document"
  <2>1. Started(c)[i] = IF i = "inquiry" THEN "ready" ELSE "none"
    BY <1>2 DEF Started
  <2> QED BY <1>2, <2>1, Owned
<1>3. CASE wish[c].kind \in {"search", "citing"}
  <2>1. Started(c)[i] = IF i = "search" THEN "ready" ELSE "none"
    BY <1>3 DEF Started
  <2> QED BY <1>3, <2>1, Owned
<1> QED BY <1>1, <1>2, <1>3, Owned DEF Kinds

\* What a step that judges an attempt makes of its call: it ends or waits with
\* nothing under way and an answer its requests bear out, or the sequence goes on.
Judged(c) ==
    /\ call' \in [Callers -> CallRecord] /\ OthersStay(c) /\ OnItsLadder(call'[c])
    /\ call[c].state = "running"
    /\ \/ /\ call'[c].state \in {"waiting", "done"} /\ req' = req
          /\ call'[c].total = call[c].total
          /\ \A i \in Items : req[<<c, i>>] \in Settled
          /\ Soundly(call'[c], c)
       \/ /\ call'[c].state = "running" /\ call'[c].answer = "none" /\ call'[c].total > 0
          /\ Sequential(c) /\ req[<<c, Opening(c)>>] = "ok"
          /\ \E i \in Own(c) \ {Opening(c)} :
                 req[<<c, i>>] \in Settled /\ req' = [req EXCEPT ![<<c, i>>] = "ready"]

LEMMA RefusalIsJudged ==
    ASSUME Typed, NEW c \in Callers, call[c].state = "running",
           NEW refusal, Report(c, refusal), req' = req,
           \A i \in Items : req[<<c, i>>] \in Settled
    PROVE Judged(c)
<1>1. /\ call' \in [Callers -> CallRecord] /\ OthersStay(c) /\ OnItsLadder(call'[c])
      /\ \/ call'[c].state = "waiting" /\ call'[c].answer = "none"
         \/ call'[c].state = "done" /\ call'[c].answer \in {"epo_unavailable", "rate_limited"}
      /\ call'[c].total = call[c].total
  BY Reports
<1>2. Soundly(call'[c], c)
  BY <1>1 DEF Soundly
<1> QED BY <1>1, <1>2 DEF Judged

\* A call that is not about sections is answered once no request of it is refused.
LEMMA AnswerIsJudged ==
    ASSUME Typed, NEW c \in Callers, call[c].state = "running", wish[c].kind # "sections",
           NEW answer \in Answers \ {"sections", "patent_not_found"}, Finish(c, answer), req' = req,
           \A i \in Items : req[<<c, i>>] \in Settled \ Refusals
    PROVE Judged(c)
<1>1. /\ call' \in [Callers -> CallRecord] /\ OthersStay(c) /\ OnItsLadder(call'[c])
      /\ call'[c].state = "done" /\ call'[c].answer = answer
      /\ call'[c].total = call[c].total
  BY Finishes
<1>2. Soundly(call'[c], c)
  BY <1>1 DEF Soundly
<1> QED BY <1>1, <1>2 DEF Judged

LEMMA AdvanceIsJudged ==
    ASSUME Typed, NEW c \in Callers, call[c].state = "running", Sequential(c),
           NEW i \in Own(c) \ {Opening(c)}, req[<<c, Opening(c)>>] = "ok",
           \A j \in Items : req[<<c, j>>] \in Settled \ Refusals,
           NEW step \in 0..MaxRefs, NEW total \in 0..MaxRefs, step <= total,
           NEW answer \in Answers \ {"sections", "patent_not_found"},
           Advance(c, i, step, total, answer)
    PROVE Judged(c)
<1>1. i \in Items /\ wish[c].kind # "sections"
  BY Owned DEF Sequential
<1>2. /\ call' \in [Callers -> CallRecord] /\ OthersStay(c) /\ OnItsLadder(call'[c])
      /\ \/ /\ call'[c].state = "done" /\ call'[c].answer = answer /\ req' = req
            /\ call'[c].total = call[c].total
         \/ /\ call'[c].state = "running" /\ call'[c].answer = "none"
            /\ call'[c].total = total /\ total > 0
            /\ req' = [req EXCEPT ![<<c, i>>] = "ready"]
  BY <1>1, Advances
<1>3. CASE call'[c].state = "done"
  <2>1. call'[c].answer = answer /\ req' = req /\ call'[c].total = call[c].total
    BY <1>2, <1>3
  <2>2. Soundly(call'[c], c)
    BY <1>1, <2>1 DEF Soundly
  <2> QED BY <1>2, <1>3, <2>1, <2>2 DEF Judged
<1>4. CASE call'[c].state = "running"
  BY <1>1, <1>2, <1>4 DEF Judged
<1> QED BY <1>2, <1>3, <1>4

\* Every step that judges an attempt, action by action.
LEMMA Judgements ==
    ASSUME Typed, AsksItsOwn, OpensFirst, NEW c \in Callers,
           SearchEnds(c) \/ Gather(c) \/ CitingSearched(c) \/ CitingListed(c) \/ Inquired(c) \/ PageFetched(c)
    PROVE /\ Judged(c)
          /\ UNCHANGED <<seen, age, line, wish, exists, stored, fetched>>
          /\ searched' \in BOOLEAN
<1>1. \A i \in Items : i \notin Own(c) => req[<<c, i>>] = "none"
  BY NothingElse
<1>2. Ended \subseteq Settled /\ "none" \in Settled \ Refusals /\ "ok" \in Settled \ Refusals
  BY DEF Ended, Settled, Refusals
<1>3. searched \in BOOLEAN /\ call[c] \in CallRecord /\ OnItsLadder(call[c])
  BY DEF Typed
<1>4. Sequential(c) /\ call[c].total = 0 => \A i \in Items \ {Opening(c)} : req[<<c, i>>] = "none"
  BY DEF OpensFirst
<1>5. Sequential(c) /\ call[c].total > 0 => req[<<c, Opening(c)>>] = "ok"
  BY DEF OpensFirst
<1>6. CASE SearchEnds(c)
  <2>1. wish[c].kind = "search" /\ call[c].state = "running" /\ req[<<c, "search">>] \in Ended /\ req' = req
    BY <1>6 DEF SearchEnds, Running
  <2>2. \A i \in Items : i # "search" => req[<<c, i>>] = "none"
    BY <1>1, <2>1, Owned
  <2>3. \A i \in Items : req[<<c, i>>] \in Settled
    BY <1>2, <2>1, <2>2
  <2>4. ASSUME req[<<c, "search">>] \in Refusals PROVE Judged(c)
    <3>1. Report(c, req[<<c, "search">>])
      BY <1>6, <2>4 DEF SearchEnds, Refusals
    <3> QED BY <2>1, <2>3, <3>1, RefusalIsJudged
  <2>5. ASSUME req[<<c, "search">>] \notin Refusals PROVE Judged(c)
    <3>1. \A i \in Items : req[<<c, i>>] \in Settled \ Refusals
      BY <1>2, <2>2, <2>3, <2>5
    <3>2. Finish(c, "results") \/ Finish(c, "raised")
      BY <1>6, <2>1, <2>5 DEF SearchEnds, Refusals, Ended
    <3>3. {"results", "raised"} \subseteq Answers \ {"sections", "patent_not_found"}
      BY DEF Answers
    <3> QED BY <2>1, <3>1, <3>2, <3>3, AnswerIsJudged
  <2>6. Judged(c)
    BY <2>4, <2>5
  <2>7. searched' \in BOOLEAN
    BY <1>6 DEF SearchEnds, SetSearch
  <2> QED BY <1>6, <2>6, <2>7 DEF SearchEnds, Unasked
<1>7. CASE Gather(c)
  <2> DEFINE outcome == [i \in Fetchers(c) |-> req[<<c, i>>]]
             outcomes == {outcome[i] : i \in Fetchers(c)}
  <2>1. /\ wish[c].kind = "sections" /\ call[c].state = "running" /\ req' = req
        /\ outcomes \subseteq Ended
    BY <1>7 DEF Gather, Running
  <2>2. Own(c) = Fetchers(c) /\ "biblio" \in Fetchers(c) /\ Fetchers(c) \subseteq Items
    BY <2>1, Owned DEF Fetchers
  <2>3. \A i \in Fetchers(c) : req[<<c, i>>] \in outcomes /\ outcome[i] = req[<<c, i>>]
    OBVIOUS
  <2>4. \A i \in Items : req[<<c, i>>] \in Settled
    BY <1>1, <1>2, <2>1, <2>2, <2>3
  <2>5. ASSUME NEW answer \in Answers, Finish(c, answer),
               answer \in {"sections", "patent_not_found", "raised", "s2_throttled"},
               answer \in {"sections", "raised"} => \A i \in Items : req[<<c, i>>] \notin Refusals,
               answer = "sections" => call[c].npl # "throttled" /\ \A i \in Fetchers(c) : req[<<c, i>>] = "ok",
               answer = "patent_not_found" => req[<<c, "biblio">>] = "missing"
        PROVE Judged(c)
    <3>1. /\ call' \in [Callers -> CallRecord] /\ OthersStay(c) /\ OnItsLadder(call'[c])
          /\ call'[c].state = "done" /\ call'[c].answer = answer
          /\ call'[c].total = call[c].total /\ call'[c].npl = call[c].npl
      BY <2>5, Finishes
    <3>2. Soundly(call'[c], c)
      <4>1. \A i \in Items : [j \in Items |-> req[<<c, j>>]][i] = req[<<c, i>>]
        OBVIOUS
      <4>2. "biblio" \in Items
        BY <2>2
      <4> QED BY <2>1, <2>2, <2>5, <3>1, <4>1, <4>2 DEF Soundly
    <3> QED BY <2>1, <2>4, <3>1, <3>2 DEF Judged
  <2>6. {"sections", "patent_not_found", "raised", "s2_throttled"} \subseteq Answers
    BY DEF Answers
  <2>7. outcomes \cap Refusals = {} => \A i \in Items : req[<<c, i>>] \notin Refusals
    BY <1>1, <1>2, <2>2, <2>3
  <2>8. ASSUME req[<<c, "biblio">>] = "missing" /\ Finish(c, "patent_not_found") PROVE Judged(c)
    BY <2>5, <2>6, <2>8
  <2>9. ASSUME \E refusal \in Refusals : Report(c, refusal) PROVE Judged(c)
    BY <2>1, <2>4, <2>9, RefusalIsJudged
  <2>10. ASSUME outcomes = {"ok"} /\ call[c].npl # "throttled" /\ Finish(c, "sections") PROVE Judged(c)
    <3>1. \A i \in Fetchers(c) : req[<<c, i>>] = "ok"
      BY <2>3, <2>10
    <3>2. outcomes \cap Refusals = {}
      BY <2>10 DEF Refusals
    <3> QED BY <2>5, <2>6, <2>7, <2>10, <3>1, <3>2
  <2>11. ASSUME outcomes \cap Refusals = {} /\ (Finish(c, "s2_throttled") \/ Finish(c, "raised")) PROVE Judged(c)
    BY <2>5, <2>6, <2>7, <2>11
  <2>12. Judged(c)
    BY <1>7, <2>2, <2>3, <2>8, <2>9, <2>10, <2>11 DEF Gather
  <2> QED BY <1>3, <1>7, <2>12 DEF Gather, Unasked
<1>8. CASE CitingSearched(c)
  <2>1. /\ wish[c].kind = "citing" /\ call[c].state = "running" /\ call[c].total = 0
        /\ req[<<c, "search">>] \in Ended
    BY <1>8 DEF CitingSearched, Running
  <2>2. /\ Sequential(c) /\ Opening(c) = "search" /\ "biblio" \in Own(c) \ {Opening(c)}
        /\ wish[c].kind # "sections"
    BY <2>1, Owned
  <2>3. \A i \in Items : i # "search" => req[<<c, i>>] = "none"
    BY <1>4, <2>1, <2>2
  <2>4. \A i \in Items : req[<<c, i>>] \in Settled
    BY <1>2, <2>1, <2>3
  <2>5. ASSUME req[<<c, "search">>] \in Refusals PROVE Judged(c)
    <3>1. Report(c, req[<<c, "search">>]) /\ req' = req
      BY <1>8, <2>5 DEF CitingSearched, Refusals
    <3> QED BY <2>1, <2>4, <3>1, RefusalIsJudged
  <2>6. ASSUME req[<<c, "search">>] \notin Refusals PROVE Judged(c)
    <3>1. \A i \in Items : req[<<c, i>>] \in Settled \ Refusals
      BY <1>2, <2>3, <2>4, <2>6
    <3>2. {"patents", "search_failed"} \subseteq Answers \ {"sections", "patent_not_found"}
      BY DEF Answers
    <3>3. ASSUME req[<<c, "search">>] = "ok" PROVE Judged(c)
      <4>1. PICK n \in 0..MaxRefs : Advance(c, "biblio", 0, n, "patents")
        BY <1>8, <3>3 DEF CitingSearched, Refusals
      <4>2. 0 \in 0..MaxRefs /\ 0 <= n
        BY MaxRefsAssumption
      <4> QED BY <2>1, <2>2, <3>1, <3>2, <3>3, <4>1, <4>2, AdvanceIsJudged
    <3>4. ASSUME req[<<c, "search">>] # "ok" PROVE Judged(c)
      <4>1. Finish(c, "search_failed") /\ req' = req
        BY <1>8, <2>6, <3>4 DEF CitingSearched
      <4> QED BY <2>1, <2>2, <3>1, <3>2, <4>1, AnswerIsJudged
    <3> QED BY <3>3, <3>4
  <2>7. Judged(c)
    BY <2>5, <2>6
  <2> QED BY <1>3, <1>8, <2>7 DEF CitingSearched, Unasked
<1>9. CASE CitingListed(c)
  <2>1. /\ wish[c].kind = "citing" /\ call[c].state = "running" /\ call[c].total > 0
        /\ req[<<c, "biblio">>] \in Ended
    BY <1>9 DEF CitingListed, Running
  <2>2. /\ Sequential(c) /\ Opening(c) = "search" /\ "biblio" \in Own(c) \ {Opening(c)}
        /\ wish[c].kind # "sections" /\ Own(c) = {"search", "biblio"}
    BY <2>1, Owned
  <2>3. /\ req[<<c, "search">>] = "ok"
        /\ \A i \in Items : i \notin {"search", "biblio"} => req[<<c, i>>] = "none"
    BY <1>1, <1>5, <2>1, <2>2
  <2>4. \A i \in Items : req[<<c, i>>] \in Settled
    BY <1>2, <2>1, <2>3
  <2>5. ASSUME req[<<c, "biblio">>] \in Refusals PROVE Judged(c)
    <3>1. Report(c, req[<<c, "biblio">>]) /\ req' = req
      BY <1>9, <2>5 DEF CitingListed
    <3> QED BY <2>1, <2>4, <3>1, RefusalIsJudged
  <2>6. ASSUME req[<<c, "biblio">>] \notin Refusals PROVE Judged(c)
    <3>1. \A i \in Items : req[<<c, i>>] \in Settled \ Refusals
      BY <1>2, <2>3, <2>4, <2>6
    <3>2. Advance(c, "biblio", call[c].step + 1, call[c].total, "patents")
      BY <1>9, <2>6 DEF CitingListed
    <3>3. "patents" \in Answers \ {"sections", "patent_not_found"}
      BY DEF Answers
    <3>4. call[c].step + 1 \in 0..MaxRefs /\ call[c].total \in 0..MaxRefs /\ call[c].step + 1 <= call[c].total
      BY <1>3, <2>1, MaxRefsAssumption DEF CallRecord, OnItsLadder
    <3> QED BY <2>1, <2>2, <2>3, <3>1, <3>2, <3>3, <3>4, AdvanceIsJudged
  <2>7. Judged(c)
    BY <2>5, <2>6
  <2> QED BY <1>3, <1>9, <2>7 DEF CitingListed, Unasked
<1>10. CASE Inquired(c)
  <2>1. /\ wish[c].kind = "document" /\ call[c].state = "running" /\ call[c].total = 0
        /\ req[<<c, "inquiry">>] \in Ended
    BY <1>10 DEF Inquired, Running
  <2>2. /\ Sequential(c) /\ Opening(c) = "inquiry" /\ "page" \in Own(c) \ {Opening(c)}
        /\ wish[c].kind # "sections"
    BY <2>1, Owned
  <2>3. \A i \in Items : i # "inquiry" => req[<<c, i>>] = "none"
    BY <1>4, <2>1, <2>2
  <2>4. \A i \in Items : req[<<c, i>>] \in Settled
    BY <1>2, <2>1, <2>3
  <2>5. ASSUME req[<<c, "inquiry">>] \in Refusals PROVE Judged(c)
    <3>1. Report(c, req[<<c, "inquiry">>]) /\ req' = req
      BY <1>10, <2>5 DEF Inquired, Refusals
    <3> QED BY <2>1, <2>4, <3>1, RefusalIsJudged
  <2>6. ASSUME req[<<c, "inquiry">>] \notin Refusals PROVE Judged(c)
    <3>1. \A i \in Items : req[<<c, i>>] \in Settled \ Refusals
      BY <1>2, <2>3, <2>4, <2>6
    <3>2. {"pdf_not_available", "document", "raised"} \subseteq Answers \ {"sections", "patent_not_found"}
      BY DEF Answers
    <3>3. ASSUME \E n \in 1..MaxRefs : Advance(c, "page", 0, n, "document") /\ req[<<c, "inquiry">>] = "ok" PROVE Judged(c)
      <4>1. PICK n \in 1..MaxRefs : Advance(c, "page", 0, n, "document")
        BY <3>3
      <4>2. 0 \in 0..MaxRefs /\ n \in 0..MaxRefs /\ 0 <= n
        BY MaxRefsAssumption
      <4> QED BY <2>1, <2>2, <3>1, <3>2, <3>3, <4>1, <4>2, AdvanceIsJudged
    <3>4. ASSUME (Finish(c, "pdf_not_available") \/ Finish(c, "raised")) /\ req' = req PROVE Judged(c)
      BY <2>1, <2>2, <3>1, <3>2, <3>4, AnswerIsJudged
    <3> QED BY <1>10, <2>6, <3>3, <3>4 DEF Inquired, Refusals
  <2>7. Judged(c)
    BY <2>5, <2>6
  <2> QED BY <1>3, <1>10, <2>7 DEF Inquired, Unasked
<1>11. CASE PageFetched(c)
  <2>1. /\ wish[c].kind = "document" /\ call[c].state = "running" /\ call[c].total > 0
        /\ req[<<c, "page">>] \in Ended
    BY <1>11 DEF PageFetched, Running
  <2>2. /\ Sequential(c) /\ Opening(c) = "inquiry" /\ "page" \in Own(c) \ {Opening(c)}
        /\ wish[c].kind # "sections" /\ Own(c) = {"inquiry", "page"}
    BY <2>1, Owned
  <2>3. /\ req[<<c, "inquiry">>] = "ok"
        /\ \A i \in Items : i \notin {"inquiry", "page"} => req[<<c, i>>] = "none"
    BY <1>1, <1>5, <2>1, <2>2
  <2>4. \A i \in Items : req[<<c, i>>] \in Settled
    BY <1>2, <2>1, <2>3
  <2>5. ASSUME req[<<c, "page">>] \in Refusals PROVE Judged(c)
    <3>1. Report(c, req[<<c, "page">>]) /\ req' = req
      BY <1>11, <2>5 DEF PageFetched, Refusals
    <3> QED BY <2>1, <2>4, <3>1, RefusalIsJudged
  <2>6. ASSUME req[<<c, "page">>] \notin Refusals PROVE Judged(c)
    <3>1. \A i \in Items : req[<<c, i>>] \in Settled \ Refusals
      BY <1>2, <2>3, <2>4, <2>6
    <3>2. {"document", "raised"} \subseteq Answers \ {"sections", "patent_not_found"}
      BY DEF Answers
    <3>3. ASSUME Advance(c, "page", call[c].step + 1, call[c].total, "document") PROVE Judged(c)
      <4>1. call[c].step + 1 \in 0..MaxRefs /\ call[c].total \in 0..MaxRefs /\ call[c].step + 1 <= call[c].total
        BY <1>3, <2>1, MaxRefsAssumption DEF CallRecord, OnItsLadder
      <4> QED BY <2>1, <2>2, <2>3, <3>1, <3>2, <3>3, <4>1, AdvanceIsJudged
    <3>4. ASSUME Finish(c, "raised") /\ req' = req PROVE Judged(c)
      BY <2>1, <2>2, <3>1, <3>2, <3>4, AnswerIsJudged
    <3> QED BY <1>11, <2>6, <3>3, <3>4 DEF PageFetched
  <2>7. Judged(c)
    BY <2>5, <2>6
  <2> QED BY <1>3, <1>11, <2>7 DEF PageFetched, Unasked
<1> QED BY <1>6, <1>7, <1>8, <1>9, <1>10, <1>11

-----------------------------------------------------------------------------
\* The wishes are fixed, and with them what a call may ask for.
LEMMA WishesStay ==
    ASSUME wish' = wish
    PROVE \A c : /\ Own(c)' = Own(c) /\ Fetchers(c)' = Fetchers(c)
                 /\ Sequential(c)' = Sequential(c) /\ Opening(c)' = Opening(c)
BY DEF Own, Fetchers, Sequential, Opening

\* An answer stands as long as the requests it was made from do.
LEMMA SoundnessStays ==
    ASSUME AnswersAreSound, wish' = wish, NEW c \in Callers,
           \/ call'[c].answer = "none"
           \/ /\ call'[c].answer = call[c].answer /\ call'[c].npl = call[c].npl
              /\ \A i \in Items : req'[<<c, i>>] = req[<<c, i>>]
    PROVE Soundly(call[c], c)'
<1>1. CASE call'[c].answer = "none"
  BY <1>1 DEF Soundly
<1>2. CASE /\ call'[c].answer = call[c].answer /\ call'[c].npl = call[c].npl
           /\ \A i \in Items : req'[<<c, i>>] = req[<<c, i>>]
  <2>1. Soundly(call[c], c) /\ Fetchers(c)' = Fetchers(c)
    BY WishesStay DEF AnswersAreSound
  <2>2. [i \in Items |-> req'[<<c, i>>]] = [i \in Items |-> req[<<c, i>>]]
    BY <1>2
  <2> QED BY <1>2, <2>1, <2>2 DEF Soundly
<1> QED BY <1>1, <1>2

LEMMA StagesApart ==
    /\ Settled \subseteq Stages /\ Open \subseteq Stages
    /\ Settled \cap Open = {} /\ Ended \subseteq Settled
    /\ "ok" \in Ended /\ "missing" \in Ended /\ "none" \in Settled
BY DEF Settled, Ended, Open, Refusals, Stages

\* A judgement keeps the invariant.
LEMMA JudgementKeeps ==
    ASSUME Inv, NEW c \in Callers, Judged(c), searched' \in BOOLEAN,
           UNCHANGED <<seen, age, line, wish, exists, stored, fetched>>
    PROVE Inv'
<1> USE DEF Inv
<1>1. /\ call' \in [Callers -> CallRecord] /\ OthersStay(c) /\ OnItsLadder(call'[c])
      /\ call[c].state = "running" /\ req \in [Requests -> Stages] /\ Own(c) \subseteq Items
  BY Owned DEF Judged, Typed, ClientTypeOK
<1>2. \A d \in Callers : OnItsLadder(call'[d])
  BY <1>1 DEF Typed, OthersStay
<1>3. \A d : Own(d)' = Own(d) /\ Sequential(d)' = Sequential(d) /\ Opening(d)' = Opening(d)
  BY WishesStay
<1>4. CASE /\ call'[c].state \in {"waiting", "done"} /\ req' = req
           /\ call'[c].total = call[c].total
           /\ \A i \in Items : req[<<c, i>>] \in Settled
           /\ Soundly(call'[c], c)
  <2>1. Typed'
    BY <1>1, <1>2, <1>4 DEF Typed, ClientTypeOK
  <2>2. AsksItsOwn'
    BY <1>1, <1>3, <1>4, StagesApart DEF AsksItsOwn, OthersStay
  <2>3. OpensFirst'
    BY <1>1, <1>3, <1>4 DEF OpensFirst, OthersStay
  <2>4. NothingIsMade' /\ AskedOnce'
    BY <1>4 DEF NothingIsMade, AskedOnce
  <2>5. ASSUME NEW d \in Callers PROVE Soundly(call[d], d)'
    <3>1. CASE d = c
      <4>1. Soundly(call[c], c)' <=> Soundly(call'[c], c)
        BY <1>4, WishesStay DEF Soundly
      <4> QED BY <1>4, <3>1, <4>1
    <3>2. CASE d # c
      BY <1>1, <1>4, <3>2, SoundnessStays DEF OthersStay
    <3> QED BY <3>1, <3>2
  <2> QED BY <2>1, <2>2, <2>3, <2>4, <2>5 DEF AnswersAreSound
<1>5. ASSUME /\ call'[c].state = "running" /\ call'[c].answer = "none" /\ call'[c].total > 0
             /\ Sequential(c) /\ req[<<c, Opening(c)>>] = "ok",
             NEW i \in Own(c) \ {Opening(c)}, req[<<c, i>>] \in Settled,
             req' = [req EXCEPT ![<<c, i>>] = "ready"]
      PROVE Inv'
  <2> DEFINE r == <<c, i>>
  <2>1. r \in Requests /\ i \in Items /\ wish[c].kind # "sections"
    BY <1>1, <1>5 DEF Requests, Sequential
  <2>2. /\ req' \in [Requests -> Stages] /\ req'[r] = "ready" /\ req[r] # "asked"
        /\ \A q \in Requests : q # r => req'[q] = req[q]
    BY <1>1, <1>5, <2>1, StagesApart DEF Stages, Open
  <2>3. \A d \in Callers, j \in Items : <<d, j>> \in Requests /\ (<<d, j>> = r <=> d = c /\ j = i)
    BY DEF Requests
  <2> HIDE DEF r
  <2>4. Typed'
    BY <1>1, <1>2, <2>2 DEF Typed, ClientTypeOK
  <2>5. AsksItsOwn'
    BY <1>1, <1>3, <1>5, <2>1, <2>2, <2>3 DEF AsksItsOwn, OthersStay
  <2>6. OpensFirst'
    BY <1>1, <1>3, <1>5, <2>2, <2>3, Owned DEF OpensFirst, OthersStay
  <2>7. NothingIsMade'
    BY <2>1, <2>2, <2>3 DEF NothingIsMade
  <2>8. AskedOnce'
    <3> SUFFICES ASSUME NEW d \in Callers, NEW j \in Items
                 PROVE  /\ wish[d].kind # "sections" => fetched[<<d, j>>] = 0
                        /\ fetched[<<d, j>>] <= 1
                        /\ fetched[<<d, j>>] > 0 => j \in stored /\ req'[<<d, j>>] \notin Open
      BY DEF AskedOnce
    <3>1. CASE d = c /\ j = i
      BY <2>1, <3>1 DEF AskedOnce
    <3>2. CASE ~(d = c /\ j = i)
      BY <2>2, <2>3, <3>2 DEF AskedOnce
    <3> QED BY <3>1, <3>2
  <2>9. ASSUME NEW d \in Callers PROVE Soundly(call[d], d)'
    BY <1>1, <1>5, <2>2, <2>3, SoundnessStays DEF OthersStay
  <2> QED BY <2>4, <2>5, <2>6, <2>7, <2>8, <2>9 DEF AnswersAreSound
<1> QED BY <1>4, <1>5 DEF Judged

\* A new attempt starts with nothing under way, and asks only for what is not stored.
LEMMA LaunchKeeps ==
    ASSUME Inv, NEW c \in Callers, call[c].state # "running", NEW attempt \in 0..Retries, Launch(c, attempt),
           UNCHANGED <<seen, age, line, wish, exists, stored, searched, fetched>>
    PROVE Inv'
<1> USE DEF Inv
<1>1. /\ call' \in [Callers -> CallRecord] /\ OthersStay(c) /\ OnItsLadder(call'[c])
      /\ call'[c].state = "running" /\ call'[c].total = 0 /\ call'[c].answer = "none"
      /\ req' = [r \in Requests |-> IF r[1] = c THEN Started(c)[r[2]] ELSE req[r]]
  BY Launches
<1>2. \A d \in Callers : OnItsLadder(call'[d])
  BY <1>1 DEF Typed, OthersStay
<1>3. \A d : Own(d)' = Own(d) /\ Sequential(d)' = Sequential(d) /\ Opening(d)' = Opening(d)
  BY WishesStay
<1>4. \A d \in Callers, i \in Items :
          <<d, i>> \in Requests /\ req'[<<d, i>>] = IF d = c THEN Started(c)[i] ELSE req[<<d, i>>]
  BY <1>1 DEF Requests
<1>5. \A i \in Items : req[<<c, i>>] \notin Open
  BY DEF AsksItsOwn
<1>6. \A i \in Items : Started(c)[i] \in {"none", "ok", "ready"}
  BY Starts
<1>7. ClientTypeOK'
  <2>1. \A r \in Requests : r[1] \in Callers /\ r[2] \in Items /\ r = <<r[1], r[2]>>
    BY DEF Requests
  <2>2. /\ req' \in [Requests -> Stages]
        /\ \A r \in Requests : req'[r] = "asked" <=> req[r] = "asked"
    BY <1>1, <1>5, <1>6, <2>1 DEF Typed, ClientTypeOK, Stages, Open, Ended
  <2> QED BY <2>2 DEF Typed, ClientTypeOK
<1>8. Typed'
  BY <1>1, <1>2, <1>7 DEF Typed
<1>9. AsksItsOwn'
  BY <1>1, <1>3, <1>4, Starts DEF AsksItsOwn, OthersStay
<1>10. OpensFirst'
  <2> SUFFICES ASSUME NEW d \in Callers, Sequential(d)
               PROVE  /\ call'[d].total > 0 => req'[<<d, Opening(d)>>] = "ok"
                      /\ call'[d].total = 0 => \A i \in Items \ {Opening(d)} : req'[<<d, i>>] = "none"
    BY <1>3 DEF OpensFirst
  <2>1. CASE d = c
    BY <1>1, <1>4, <2>1, Starts
  <2>2. CASE d # c
    <3>1. Opening(d) \in Items
      BY ItemsAre DEF Opening
    <3> QED BY <1>1, <1>4, <2>2, <3>1 DEF OpensFirst, OthersStay
  <2> QED BY <2>1, <2>2
<1>11. NothingIsMade'
  BY <1>4, Starts DEF NothingIsMade
<1>12. AskedOnce'
  <2> SUFFICES ASSUME NEW d \in Callers, NEW i \in Items
               PROVE  /\ wish[d].kind # "sections" => fetched[<<d, i>>] = 0
                      /\ fetched[<<d, i>>] <= 1
                      /\ fetched[<<d, i>>] > 0 => i \in stored /\ req'[<<d, i>>] \notin Open
    BY DEF AskedOnce
  <2>1. CASE d = c
    <3>1. /\ wish[c].kind # "sections" => fetched[<<c, i>>] = 0
          /\ fetched[<<c, i>>] <= 1
          /\ fetched[<<c, i>>] > 0 => i \in stored
      BY DEF AskedOnce
    <3>2. fetched[<<c, i>>] > 0 => Started(c)[i] \notin Open
      BY <3>1, Starts DEF Open
    <3> QED BY <1>4, <2>1, <3>1, <3>2
  <2>2. CASE d # c
    BY <1>4, <2>2 DEF AskedOnce
  <2> QED BY <2>1, <2>2
<1>13. ASSUME NEW d \in Callers PROVE Soundly(call[d], d)'
  BY <1>1, <1>4, SoundnessStays DEF OthersStay
<1> QED BY <1>8, <1>9, <1>10, <1>11, <1>12, <1>13 DEF AnswersAreSound

\* A call that only notes something, or waits a tick.
LEMMA NoteKeeps ==
    ASSUME Inv, call' \in [Callers -> CallRecord], UNCHANGED <<req, wish, exists, stored, fetched>>,
           ClientTypeOK', searched' \in BOOLEAN,
           \A c \in Callers : /\ call'[c].state = call[c].state /\ call'[c].attempt = call[c].attempt
                              /\ call'[c].step = call[c].step /\ call'[c].total = call[c].total
                              /\ call'[c].answer = call[c].answer
                              /\ call'[c].npl = call[c].npl \/ call[c].state = "running"
    PROVE Inv'
<1> USE DEF Inv
<1>1. \A d : Own(d)' = Own(d) /\ Sequential(d)' = Sequential(d) /\ Opening(d)' = Opening(d)
  BY WishesStay
<1>2. \A c \in Callers : OnItsLadder(call[c]) /\ OnItsLadder(call'[c])
  BY DEF Typed, OnItsLadder
<1>3. Typed'
  BY <1>2 DEF Typed
<1>4. AsksItsOwn' /\ OpensFirst'
  BY <1>1 DEF AsksItsOwn, OpensFirst
<1>5. NothingIsMade' /\ AskedOnce'
  BY DEF NothingIsMade, AskedOnce
<1>6. ASSUME NEW d \in Callers PROVE Soundly(call[d], d)'
  BY <1>2, SoundnessStays DEF OnItsLadder
<1> QED BY <1>3, <1>4, <1>5, <1>6 DEF AnswersAreSound

\* A running call's request comes a stage further, one of its items stored with it.
LEMMA ProgressKeeps ==
    ASSUME Inv, NEW c \in Callers, NEW i \in Items, NEW stage,
           call[c].state = "running", req[<<c, i>>] \in Open,
           req' = [req EXCEPT ![<<c, i>>] = stage], stage # "none", ClientTypeOK',
           call' \in [Callers -> CallRecord],
           \A d \in Callers : /\ call'[d].state = call[d].state /\ call'[d].attempt = call[d].attempt
                              /\ call'[d].step = call[d].step /\ call'[d].total = call[d].total
                              /\ call'[d].answer = call[d].answer /\ call'[d].npl = call[d].npl,
           UNCHANGED <<wish, exists, searched>>,
           stored \subseteq stored', ~exists => stored' = {}, stored' \subseteq Sections,
           fetched' \in [Requests -> Nat],
           \A r \in Requests : r # <<c, i>> => fetched'[r] = fetched[r],
           \/ fetched'[<<c, i>>] = fetched[<<c, i>>]
           \/ fetched'[<<c, i>>] = fetched[<<c, i>>] + 1 /\ stage = "ok" /\ IsSection(<<c, i>>),
           IsSection(<<c, i>>) => /\ stage = "ok" => i \in stored'
                                  /\ i = "biblio" /\ stage = "missing" => ~exists
    PROVE Inv'
<1> USE DEF Inv
<1> DEFINE r == <<c, i>>
<1>1. \A d : Own(d)' = Own(d) /\ Sequential(d)' = Sequential(d) /\ Opening(d)' = Opening(d)
  BY WishesStay
<1>2. /\ r \in Requests
      /\ \A d \in Callers, j \in Items : <<d, j>> \in Requests /\ (<<d, j>> = r <=> d = c /\ j = i)
  BY DEF Requests
<1>3. IsSection(r) <=> wish[c].kind = "sections"
  BY DEF IsSection
<1>4. /\ req'[r] = stage /\ req[r] \in Open
      /\ \A q \in Requests : q # r => req'[q] = req[q]
  BY <1>2 DEF Typed, ClientTypeOK
<1> HIDE DEF r
<1>5. Typed'
  <2>1. \A d \in Callers : OnItsLadder(call'[d])
    BY DEF Typed, OnItsLadder
  <2> QED BY <2>1 DEF Typed
<1>6. AsksItsOwn'
  <2>1. i \in Own(c) /\ call[c].state = "running"
    BY DEF AsksItsOwn, Open
  <2> QED BY <1>1, <1>2, <1>4, <2>1 DEF AsksItsOwn
<1>7. OpensFirst'
  BY <1>1, <1>2, <1>4 DEF OpensFirst, Open
<1>8. NothingIsMade'
  BY <1>2, <1>3, <1>4 DEF NothingIsMade, r
<1>9. AskedOnce'
  <2>1. fetched[r] = 0 /\ \A q \in Requests : fetched[q] \in Nat
    BY <1>2, <1>4 DEF AskedOnce, Typed, r
  <2>2. stage = "ok" => stage \notin Open
    BY DEF Open
  <2>3. \A d \in Callers, j \in Items : <<d, j>> # r => fetched'[<<d, j>>] = fetched[<<d, j>>]
    BY <1>2 DEF r
  <2>4. /\ fetched'[r] <= 1
        /\ wish[c].kind # "sections" => fetched'[r] = 0
        /\ fetched'[r] > 0 => i \in stored' /\ req'[r] \notin Open
    BY <1>3, <1>4, <2>1, <2>2 DEF r
  <2> SUFFICES ASSUME NEW d \in Callers, NEW j \in Items
               PROVE  /\ wish[d].kind # "sections" => fetched'[<<d, j>>] = 0
                      /\ fetched'[<<d, j>>] <= 1
                      /\ fetched'[<<d, j>>] > 0 => j \in stored' /\ req'[<<d, j>>] \notin Open
    BY DEF AskedOnce
  <2>5. CASE <<d, j>> = r
    BY <1>2, <2>4, <2>5
  <2>6. CASE <<d, j>> # r
    BY <1>2, <1>4, <2>3, <2>6 DEF AskedOnce
  <2> QED BY <2>5, <2>6
<1>10. ASSUME NEW d \in Callers PROVE Soundly(call[d], d)'
  <2>1. d = c => call[d].answer = "none"
    BY DEF Typed, OnItsLadder
  <2> QED BY <1>2, <1>4, <2>1, SoundnessStays
<1> QED BY <1>5, <1>6, <1>7, <1>8, <1>9, <1>10 DEF AnswersAreSound

-----------------------------------------------------------------------------
LEMMA NplKeeps ==
    ASSUME Inv, NEW c \in Callers, ResolveNpl(c) PROVE Inv'
<1>1. call \in [Callers -> CallRecord] /\ call[c].state = "running"
  BY DEF Inv, Typed, ResolveNpl, Running
<1>2. PICK outcome \in NplOutcomes : call' = [call EXCEPT ![c].npl = outcome]
  BY DEF ResolveNpl
<1>3. [call[c] EXCEPT !.npl = outcome] \in CallRecord
  BY <1>1 DEF CallRecord
<1>4. call' = [call EXCEPT ![c] = [call[c] EXCEPT !.npl = outcome]]
  BY <1>1, <1>2
<1>5. call' \in [Callers -> CallRecord]
  BY <1>1, <1>3, <1>4
<1>6. \A d \in Callers : /\ call'[d].state = call[d].state /\ call'[d].attempt = call[d].attempt
                         /\ call'[d].step = call[d].step /\ call'[d].total = call[d].total
                         /\ call'[d].answer = call[d].answer
                         /\ call'[d].npl = call[d].npl \/ call[d].state = "running"
  BY <1>1, <1>4 DEF CallRecord
<1>7. UNCHANGED <<seen, age, line, req, wish, exists, stored, searched, fetched>>
  BY DEF ResolveNpl, Unasked
<1>8. ClientTypeOK' /\ searched' \in BOOLEAN
  BY <1>7 DEF Inv, Typed, ClientTypeOK
<1> QED BY <1>5, <1>6, <1>7, <1>8, NoteKeeps

LEMMA TickKeeps ==
    ASSUME Inv, Tick PROVE Inv'
<1>1. call \in [Callers -> CallRecord]
  BY DEF Inv, Typed
<1>2. \A d \in Callers : call'[d] = IF d \in Waiting THEN [call[d] EXCEPT !.wait = @ - 1] ELSE call[d]
  BY DEF Tick
<1>3. \A d \in Callers : call[d].wait - 1 \in Int
  BY <1>1 DEF CallRecord
<1>4. \A d \in Callers, w \in Int : [call[d] EXCEPT !.wait = w] \in CallRecord
  BY <1>1 DEF CallRecord
<1>5. call' \in [Callers -> CallRecord]
  <2>1. \A d \in Callers : [call[d] EXCEPT !.wait = @ - 1] \in CallRecord
    BY <1>3, <1>4
  <2> QED BY <1>1, <2>1 DEF Tick
<1>6. \A d \in Callers : /\ call'[d].state = call[d].state /\ call'[d].attempt = call[d].attempt
                         /\ call'[d].step = call[d].step /\ call'[d].total = call[d].total
                         /\ call'[d].answer = call[d].answer /\ call'[d].npl = call[d].npl
  BY <1>1, <1>2 DEF CallRecord
<1>7. UNCHANGED <<seen, line, req, wish, exists, stored, searched, fetched>>
  BY DEF Tick
<1>8. age' \in 0..(TTL + 1)
  BY TTLAssumption DEF Tick, Ages, Inv, Typed, ClientTypeOK
<1>9. ClientTypeOK' /\ searched' \in BOOLEAN
  BY <1>7, <1>8 DEF Inv, Typed, ClientTypeOK
<1> QED BY <1>5, <1>6, <1>7, <1>9, NoteKeeps

LEMMA FindKeeps ==
    ASSUME Inv, NEW c \in Callers, NEW i \in Items, Find(c, i) PROVE Inv'
<1>1. /\ call[c].state = "running" /\ req[<<c, i>>] = "ready" /\ i \in stored
      /\ req' = [req EXCEPT ![<<c, i>>] = "ok"]
      /\ UNCHANGED <<seen, age, line, wish, exists, call, stored, searched, fetched>>
  BY DEF Find, Running, GetSection, Unasked
<1>2. <<c, i>> \in Requests
  BY DEF Requests
<1>3. ClientTypeOK'
  <2>1. /\ req' \in [Requests -> Stages]
        /\ \A q \in Requests : req'[q] = "asked" <=> req[q] = "asked"
    BY <1>1, <1>2, StagesApart DEF Inv, Typed, ClientTypeOK
  <2> QED BY <1>1, <2>1 DEF Inv, Typed, ClientTypeOK
<1>4. /\ call \in [Callers -> CallRecord] /\ fetched \in [Requests -> Nat] /\ stored \subseteq Sections
      /\ ~exists => stored = {}
  BY DEF Inv, Typed, NothingIsMade
<1>5. req[<<c, i>>] \in Open
  BY <1>1 DEF Open
<1> QED BY <1>1, <1>3, <1>4, <1>5, ProgressKeeps

LEMMA RequestKeeps ==
    ASSUME Inv, NEW c \in Callers, NEW i \in Items, Request(c, i) PROVE Inv'
<1> DEFINE r == <<c, i>>
           colour == seen[Billed[i]]
<1>1. /\ call[c].state = "running" /\ req[r] = "ready"
      /\ UNCHANGED <<seen, age, wish, exists, stored, searched, fetched>>
      /\ call' = [call EXCEPT ![c].probed = @ \/ line' # line]
  BY DEF Request, Ask
<1>2. /\ call \in [Callers -> CallRecord] /\ fetched \in [Requests -> Nat] /\ stored \subseteq Sections
      /\ ~exists => stored = {}
  BY DEF Inv, Typed, NothingIsMade
<1>3. r \in Requests /\ ClientTypeOK /\ colour \in Colours
  BY DEF Requests, Inv, Typed, ClientTypeOK, Buckets
<1>4. req[r] \in Open /\ r[2] = i
  BY <1>1 DEF Open
<1>5. call' \in [Callers -> CallRecord]
  <2> DEFINE p == call[c].probed \/ line' # line
  <2>1. p \in BOOLEAN
    OBVIOUS
  <2>2. call' = [call EXCEPT ![c] = [call[c] EXCEPT !.probed = p]]
    BY <1>1, <1>2
  <2> HIDE DEF p
  <2>3. [call[c] EXCEPT !.probed = p] \in CallRecord
    BY <1>2, <2>1 DEF CallRecord
  <2> QED BY <1>2, <2>2, <2>3
<1>6. \A d \in Callers : /\ call'[d].state = call[d].state /\ call'[d].attempt = call[d].attempt
                         /\ call'[d].step = call[d].step /\ call'[d].total = call[d].total
                         /\ call'[d].answer = call[d].answer /\ call'[d].npl = call[d].npl
  BY <1>1, <1>2 DEF CallRecord
<1>7. CASE Throttled(Billed[i])
  <2>1. req' = [req EXCEPT ![r] = Verdict(colour, "ok")] /\ line' = line
    BY <1>4, <1>7 DEF Request, Ask
  <2>2. Verdict(colour, "ok") \in Refusals
    BY <1>3, <1>7 DEF Throttled, Verdict, Colours, Refusals
  <2>3. ClientTypeOK'
    <3>1. /\ req' \in [Requests -> Stages]
          /\ \A q \in Requests : req'[q] = "asked" <=> req[q] = "asked"
      BY <1>1, <1>3, <2>1, <2>2 DEF ClientTypeOK, Stages, Ended, Refusals
    <3> QED BY <1>1, <1>3, <2>1, <3>1 DEF ClientTypeOK
  <2>4. Verdict(colour, "ok") \notin {"none", "ok", "missing"}
    BY <2>2 DEF Refusals
  <2> QED BY <1>1, <1>2, <1>4, <1>5, <1>6, <2>1, <2>3, <2>4, ProgressKeeps
<1>8. CASE ~Throttled(Billed[i])
  <2>1. req' = [req EXCEPT ![r] = "asked"] /\ line' = Append(line, r)
    BY <1>4, <1>8 DEF Request, Ask
  <2>2. ClientTypeOK'
    BY <1>1, <1>3, <2>1, LineGrows DEF ClientTypeOK
  <2> QED BY <1>1, <1>2, <1>4, <1>5, <1>6, <2>1, <2>2, ProgressKeeps
<1> QED BY <1>7, <1>8

LEMMA RespondKeeps ==
    ASSUME Inv, line # <<>>, Respond(Head(line)) PROVE Inv'
<1> DEFINE r == Head(line)
<1>1. PICK lights \in Lights, body \in Bodies(r) : Answered(r, lights, body)
  BY DEF Respond
<1> DEFINE e == Verdict(lights[Billed[r[2]]], body)
<1>2. /\ line' = Tail(line) /\ seen' = lights /\ age' = 0 /\ req' = [req EXCEPT ![r] = e]
      /\ UNCHANGED <<wish, exists, call, searched>>
  BY <1>1 DEF Answered, Respond
<1>3. ClientTypeOK /\ r \in Requests /\ req[r] = "asked"
  BY InSequence DEF Inv, Typed, ClientTypeOK
<1>4. PICK c \in Callers, i \in Items : r = <<c, i>>
  BY <1>3 DEF Requests
<1>5. lights \in [Buckets -> Colours] /\ lights[Billed[r[2]]] \in Colours
  <2>1. Billed[r[2]] \in Buckets
    BY <1>4 DEF Buckets
  <2> QED BY <2>1, LightsAssumption
<1>6. body \in {"ok", "missing"} /\ (body = "missing" => IsSection(r) /\ i = "biblio" /\ ~exists)
      /\ (body = "ok" /\ IsSection(r) => exists)
  BY <1>4 DEF Bodies
<1>7. /\ e \in Refusals \cup {body}
      /\ e \in Ended /\ e # "none"
  BY <1>5, <1>6 DEF Verdict, Colours, Refusals, Ended
<1>8. req'[r] = e
  BY <1>2, <1>3 DEF ClientTypeOK
<1>9. e = "ok" \/ e = "missing" => e = body
  BY <1>7 DEF Refusals
<1> HIDE DEF e
<1>10. ClientTypeOK'
  <2>1. 0 \in 0..(TTL + 1)
    BY TTLAssumption
  <2> QED BY <1>2, <1>3, <1>5, <1>7, <2>1, LineShrinks DEF ClientTypeOK
<1>11. /\ call \in [Callers -> CallRecord] /\ fetched \in [Requests -> Nat] /\ stored \subseteq Sections
       /\ ~exists => stored = {}
  BY DEF Inv, Typed, NothingIsMade
<1>12. req[r] \in Open /\ call[c].state = "running"
  BY <1>3, <1>4 DEF Open, Inv, AsksItsOwn
<1>13. IsSection(r) => i \in Sections
  <2>1. i \in Own(c)
    BY <1>3, <1>4 DEF Inv, AsksItsOwn
  <2> QED BY <1>4, <2>1, Owned DEF Inv, IsSection
<1>14. CASE IsSection(r) /\ e = "ok"
  <2>1. stored' = stored \cup {i} /\ fetched' = [fetched EXCEPT ![r] = @ + 1]
    BY <1>4, <1>8, <1>14 DEF Respond, Stored, SetSection
  <2>2. /\ stored \subseteq stored' /\ i \in stored' /\ stored' \subseteq Sections /\ exists
    BY <1>6, <1>9, <1>11, <1>13, <1>14, <2>1
  <2>3. /\ fetched' \in [Requests -> Nat] /\ fetched'[r] = fetched[r] + 1
        /\ \A q \in Requests : q # r => fetched'[q] = fetched[q]
    BY <1>3, <1>11, <2>1
  <2> QED BY <1>2, <1>4, <1>7, <1>9, <1>10, <1>11, <1>12, <1>14, <2>2, <2>3, ProgressKeeps
<1>15. CASE ~(IsSection(r) /\ e = "ok")
  <2>1. stored' = stored /\ fetched' = fetched
    BY <1>8, <1>15 DEF Respond, Stored
  <2> QED BY <1>2, <1>4, <1>6, <1>7, <1>9, <1>10, <1>11, <1>12, <1>15, <2>1, ProgressKeeps
<1> QED BY <1>14, <1>15

LEMMA BreakKeeps ==
    ASSUME Inv, line # <<>>, Break(Head(line)) PROVE Inv'
<1> DEFINE r == Head(line)
<1>1. PICK error \in Errors(r) : Fails(r, error)
  BY DEF Break
<1> DEFINE e == IF r[2] = "search" /\ error = "missing" THEN "ok" ELSE error
<1>2. /\ line' = Tail(line) /\ req' = [req EXCEPT ![r] = e]
      /\ UNCHANGED <<seen, age, wish, exists, call, stored, searched, fetched>>
  BY <1>1 DEF Fails, Break
<1>3. ClientTypeOK /\ r \in Requests /\ req[r] = "asked"
  BY InSequence DEF Inv, Typed, ClientTypeOK
<1>4. PICK c \in Callers, i \in Items : r = <<c, i>>
  BY <1>3 DEF Requests
<1>5. e \in Ended /\ e # "none"
  BY DEF Errors, Ended
<1>6. IsSection(r) => i \in Sections
  <2>1. i \in Own(c)
    BY <1>3, <1>4 DEF Inv, AsksItsOwn
  <2> QED BY <1>4, <2>1, Owned DEF Inv, IsSection
<1>7. IsSection(r) => e # "ok" /\ (i = "biblio" /\ e = "missing" => ~exists)
  BY <1>4, <1>6 DEF Errors, Sections
<1>8. ClientTypeOK'
  BY <1>2, <1>3, <1>5, LineShrinks DEF ClientTypeOK
<1>9. /\ call \in [Callers -> CallRecord] /\ fetched \in [Requests -> Nat] /\ stored \subseteq Sections
      /\ ~exists => stored = {}
  BY DEF Inv, Typed, NothingIsMade
<1>10. req[r] \in Open /\ call[c].state = "running"
  BY <1>3, <1>4 DEF Open, Inv, AsksItsOwn
<1> HIDE DEF e
<1> QED BY <1>2, <1>4, <1>5, <1>7, <1>8, <1>9, <1>10, ProgressKeeps

LEMMA CallKeeps ==
    ASSUME Inv, NEW c \in Callers, Call(c) PROVE Inv'
<1> USE DEF Inv
<1>1. /\ call[c].state = "new"
      /\ UNCHANGED <<seen, age, line, wish, exists, stored, searched, fetched>>
  BY DEF Call, Unasked
<1>2. CASE Launch(c, 0)
  <2>1. 0 \in 0..Retries
    BY LadderAssumption
  <2> QED BY <1>1, <1>2, <2>1, LaunchKeeps
<1>3. CASE wish[c].kind = "search" /\ Finish(c, "results") /\ req' = req
  <2>1. \A i \in Items : req[<<c, i>>] = "none"
    BY <1>1 DEF AsksItsOwn
  <2>2. "results" \in Answers
    BY DEF Answers
  <2>3. /\ call' \in [Callers -> CallRecord] /\ OthersStay(c) /\ OnItsLadder(call'[c])
        /\ call'[c].state = "done" /\ call'[c].answer = "results"
        /\ call'[c].total = call[c].total
    BY <1>3, <2>2, Finishes
  <2>4. \A d : Own(d)' = Own(d) /\ Sequential(d)' = Sequential(d) /\ Opening(d)' = Opening(d)
    BY <1>1, WishesStay
  <2>5. Typed'
    <3>1. \A d \in Callers : OnItsLadder(call'[d])
      BY <2>3 DEF Typed, OthersStay
    <3> QED BY <1>1, <1>3, <2>3, <3>1 DEF Typed, ClientTypeOK
  <2>6. AsksItsOwn'
    BY <1>3, <2>1, <2>3, <2>4 DEF AsksItsOwn, OthersStay, Open
  <2>7. OpensFirst'
    BY <1>3, <2>3, <2>4 DEF OpensFirst, OthersStay
  <2>8. NothingIsMade' /\ AskedOnce'
    BY <1>1, <1>3 DEF NothingIsMade, AskedOnce
  <2>9. ASSUME NEW d \in Callers PROVE Soundly(call[d], d)'
    <3>1. CASE d = c
      <4>1. "none" \notin Refusals
        BY DEF Refusals
      <4> QED BY <1>1, <1>3, <2>1, <2>3, <3>1, <4>1 DEF Soundly
    <3>2. CASE d # c
      BY <1>1, <1>3, <2>3, <3>2, SoundnessStays DEF OthersStay
    <3> QED BY <3>1, <3>2
  <2> QED BY <2>5, <2>6, <2>7, <2>8, <2>9 DEF AnswersAreSound
<1> QED BY <1>2, <1>3 DEF Call

LEMMA RetryKeeps ==
    ASSUME Inv, NEW c \in Callers, Retry(c) PROVE Inv'
<1>1. /\ call[c].state = "waiting" /\ Launch(c, call[c].attempt + 1)
      /\ UNCHANGED <<seen, age, line, wish, exists, stored, searched, fetched>>
  BY DEF Retry, Unasked
<1>2. call[c].attempt + 1 \in 0..Retries
  BY <1>1, LadderAssumption DEF Inv, Typed, OnItsLadder, CallRecord
<1> QED BY <1>1, <1>2, LaunchKeeps

LEMMA InitInv == Init => Inv
<1> SUFFICES ASSUME Init PROVE Inv
  OBVIOUS
<1>1. /\ wish \in Wishes /\ exists \in BOOLEAN /\ call = [c \in Callers |-> New]
      /\ stored = {} /\ searched = FALSE /\ fetched = [r \in Requests |-> 0]
      /\ seen = [b \in Buckets |-> "green"] /\ age = TTL + 1 /\ line = <<>>
      /\ req = [r \in Requests |-> "none"]
  BY DEF Init, ClientInit
<1>2. \A c \in Callers, i \in Items : <<c, i>> \in Requests
  BY DEF Requests
<1>3. ClientTypeOK
  <2>1. ToSet(line) = {} /\ line \in Seq(Requests) /\ IsInjective(line)
    BY <1>1 DEF ToSet, IsInjective
  <2>2. age \in 0..(TTL + 1)
    BY <1>1, TTLAssumption
  <2> QED BY <1>1, <2>1, <2>2 DEF ClientTypeOK, Colours, Stages
<1>4. New \in CallRecord /\ OnItsLadder(New)
  <2>1. 0 \in 0..MaxRefs /\ 0 \in Int /\ 0 \in 0..Retries
    BY MaxRefsAssumption, LadderAssumption
  <2>2. "new" \in States
    BY DEF States
  <2>3. New \in CallRecord
    BY <2>1, <2>2, NewRecords DEF New
  <2> QED BY <2>3 DEF New, OnItsLadder
<1>5. Typed
  BY <1>1, <1>3, <1>4 DEF Typed
<1>6. AsksItsOwn /\ OpensFirst
  <2>1. \A c \in Callers : Opening(c) \in Items /\ call[c].total = 0
    BY <1>1, ItemsAre DEF Opening, New
  <2> QED BY <1>1, <1>2, <2>1 DEF AsksItsOwn, OpensFirst, Open
<1>7. NothingIsMade /\ AskedOnce
  BY <1>1, <1>2 DEF NothingIsMade, AskedOnce
<1>8. AnswersAreSound
  BY <1>1 DEF AnswersAreSound, Soundly, New
<1> QED BY <1>5, <1>6, <1>7, <1>8 DEF Inv

LEMMA NextInv == Inv /\ [Next]_vars => Inv'
<1> SUFFICES ASSUME Inv, [Next]_vars PROVE Inv'
  OBVIOUS
<1>1. CASE \E c \in Callers : Call(c)
  BY <1>1, CallKeeps
<1>2. ASSUME NEW c \in Callers, Step(c) PROVE Inv'
  <2>1. CASE Retry(c)
    BY <2>1, RetryKeeps
  <2>2. CASE SearchEnds(c) \/ Gather(c) \/ CitingSearched(c) \/ CitingListed(c) \/ Inquired(c) \/ PageFetched(c)
    <3>1. /\ Judged(c) /\ searched' \in BOOLEAN
          /\ UNCHANGED <<seen, age, line, wish, exists, stored, fetched>>
      BY <2>2, Judgements DEF Inv
    <3> QED BY <3>1, JudgementKeeps
  <2>3. CASE ResolveNpl(c)
    BY <2>3, NplKeeps
  <2>4. CASE \E i \in Items : Find(c, i) \/ Request(c, i)
    BY <2>4, FindKeeps, RequestKeeps
  <2> QED BY <1>2, <2>1, <2>2, <2>3, <2>4 DEF Step
<1>3. CASE Epo
  BY <1>3, RespondKeeps, BreakKeeps DEF Epo
<1>4. CASE Tick
  BY <1>4, TickKeeps
<1>5. CASE UNCHANGED vars
  <2>1. Typed' /\ AsksItsOwn' /\ OpensFirst' /\ NothingIsMade' /\ AskedOnce'
    <3> USE <1>5 DEF vars, Inv
    <3>1. Typed'
      BY DEF Typed, ClientTypeOK
    <3>2. AsksItsOwn' /\ OpensFirst'
      BY WishesStay DEF AsksItsOwn, OpensFirst
    <3>3. NothingIsMade' /\ AskedOnce'
      BY DEF NothingIsMade, AskedOnce
    <3> QED BY <3>1, <3>2, <3>3
  <2>2. \A d \in Callers : Soundly(call[d], d)'
    BY <1>5, SoundnessStays DEF vars, Inv
  <2> QED BY <2>1, <2>2 DEF Inv, AnswersAreSound
<1> QED BY <1>1, <1>2, <1>3, <1>4, <1>5 DEF Next

\* The invariant of the patent tools, for every behaviour.
THEOREM PatentInvariant == Spec => []Inv
<1> QED BY InitInv, NextInv, PTL DEF Spec

\* No refusal of EPO's hides in an answer that looks successful, whatever the
\* light did between its check, the answer and the next attempt
\* (with_epo_retry and the handlers of _tools_patent.py).
THEOREM RefusalsSurface == Spec => []NoThrottleSwallowed
<1>1. Inv => NoThrottleSwallowed
  BY DEF Inv, AnswersAreSound, Soundly, NoThrottleSwallowed, Outcomes
<1> QED BY <1>1, PatentInvariant, PTL

\* A publication is reported missing only if EPO has none, and of a missing one
\* no sections are ever answered (_fetch_patent_sections).
THEOREM MissingMeansMissing == Spec => []NotFoundIsTrue
<1>1. Inv => NotFoundIsTrue
  <2> SUFFICES ASSUME Inv, NEW c \in Callers, Done(c), wish[c].kind = "sections"
               PROVE  /\ call[c].answer = "patent_not_found" => ~exists
                      /\ ~exists => call[c].answer \in {"patent_not_found", "rate_limited", "epo_unavailable",
                                                       "raised", "s2_throttled"}
    BY DEF NotFoundIsTrue
  <2>1. "biblio" \in Items /\ "biblio" \in Fetchers(c)
    BY ItemsAre DEF Fetchers
  <2>2. call[c].answer # "none"
    BY DEF Inv, Typed, OnItsLadder, Done
  <2>3. Soundly(call[c], c)
    BY DEF Inv, AnswersAreSound
  <2>4. req[<<c, "biblio">>] = "missing" => ~exists
    BY <2>1 DEF Inv, NothingIsMade
  <2>5. req[<<c, "biblio">>] = "ok" => exists
    BY <2>1 DEF Inv, NothingIsMade
  <2>6. call[c].answer = "sections" => req[<<c, "biblio">>] = "ok"
    BY <2>1, <2>3 DEF Soundly
  <2> QED BY <2>1, <2>2, <2>3, <2>4, <2>5, <2>6 DEF Soundly
<1> QED BY <1>1, PatentInvariant, PTL

\* However often a get_patent call is repeated and whatever others do, EPO gives
\* it each section once, and its answer holds all it asked (_fetch_patent_sections).
THEOREM NothingIsAskedTwice == Spec => []ResumesWhatIsMissing
<1>1. Inv => ResumesWhatIsMissing
  <2> SUFFICES ASSUME Inv, NEW c \in Callers
               PROVE  /\ \A i \in Items : fetched[<<c, i>>] <= 1
                      /\ call[c].answer = "sections" => wish[c].wanted \subseteq stored
    BY DEF ResumesWhatIsMissing
  <2>1. \A i \in Items : fetched[<<c, i>>] <= 1
    BY DEF Inv, AskedOnce
  <2>2. ASSUME call[c].answer = "sections" PROVE wish[c].wanted \subseteq stored
    <3>1. wish[c].kind = "sections" /\ Fetchers(c) \subseteq Items
      BY <2>2, Owned DEF Inv, AnswersAreSound, Soundly
    <3>2. \A i \in Fetchers(c) : req[<<c, i>>] = "ok"
      BY <2>2, <3>1 DEF Inv, AnswersAreSound, Soundly
    <3>3. \A i \in Fetchers(c) : i \in stored
      BY <3>1, <3>2 DEF Inv, NothingIsMade
    <3> QED BY <3>3 DEF Fetchers
  <2> QED BY <2>1, <2>2
<1> QED BY <1>1, PatentInvariant, PTL

-----------------------------------------------------------------------------
(* How long a call waits, and how many steps it can take. *)

\* A wait is at most the delay doubled once per attempt, only a waiting call has
\* one, and a sequence is never past its total.
WaitFits(k) ==
    /\ k.wait \in Nat /\ k.wait <= Delay * 2 ^ k.attempt
    /\ k.wait > 0 => k.state = "waiting"
    /\ k.step <= k.total

WaitsFit == \A c \in Callers : WaitFits(call[c])

\* 2 ^ n counts the subsets of a set of n elements.
LEMMA PowersArePositive ==
    ASSUME NEW n \in Nat PROVE 2 ^ n \in Nat \ {0}
<1> DEFINE S == 1..n
<1>1. IsFiniteSet(S) /\ Cardinality(S) = n
  BY FS_Interval
<1> HIDE DEF S
<1>2. IsFiniteSet(SUBSET S) /\ Cardinality(SUBSET S) = 2 ^ n
  BY <1>1, FS_SUBSET
<1>3. Cardinality(SUBSET S) \in Nat
  BY <1>2, FS_CardinalityType
<1>4. Cardinality(SUBSET S) # 0
  <2>1. S \in SUBSET S
    OBVIOUS
  <2> QED BY <1>2, <2>1, FS_EmptySet
<1> QED BY <1>2, <1>3, <1>4

LEMMA LongWaits ==
    ASSUME NEW n \in Nat PROVE Delay * 2 ^ n \in Nat /\ Delay * 2 ^ n >= Delay
<1> DEFINE p == 2 ^ n
<1>1. p \in Nat \ {0}
  BY PowersArePositive
<1> HIDE DEF p
<1>2. PICK q \in Nat : p = q + 1
  BY <1>1
<1>3. Delay * p = Delay * q + Delay /\ Delay * q \in Nat
  BY <1>2, LadderAssumption
<1> QED BY <1>3, LadderAssumption DEF p

\* What becomes of a call whose attempt is judged: it ends, waits, or turns to the
\* next request of its sequence, which is settled.
Concludes(c) ==
    /\ call[c].state = "running"
    /\ \/ \E answer \in Answers \ {"rate_limited"} : Finish(c, answer) /\ req' = req
       \/ \E refusal \in Refusals, i \in Own(c) : req[<<c, i>>] = refusal /\ Report(c, refusal) /\ req' = req
       \/ \E i \in Own(c), step \in 0..MaxRefs, total \in 0..MaxRefs, answer \in Answers :
             /\ answer \in {"patents", "document"}
             /\ Sequential(c) /\ step <= total /\ req[<<c, i>>] \in Settled
             /\ i = (IF wish[c].kind = "document" THEN "page" ELSE "biblio")
             /\ IF call[c].total = 0 THEN step = 0 ELSE step = call[c].step + 1 /\ total = call[c].total
             /\ Advance(c, i, step, total, answer)

\* The steps that judge an attempt, action by action.
LEMMA Conclusions ==
    ASSUME Inv, NEW c \in Callers,
           SearchEnds(c) \/ Gather(c) \/ CitingSearched(c) \/ CitingListed(c) \/ Inquired(c) \/ PageFetched(c)
    PROVE Concludes(c) /\ UNCHANGED <<age, line, wish>>
<1>1. call[c] \in CallRecord /\ OnItsLadder(call[c])
  BY DEF Inv, Typed
<1>2. Ended \subseteq Settled /\ Refusals \subseteq Ended
  BY DEF Ended, Settled
<1>3. {"results", "sections", "patents", "document", "patent_not_found", "search_failed",
       "pdf_not_available", "s2_throttled", "raised"} \subseteq Answers \ {"rate_limited"}
  BY DEF Answers
<1>4. Typed
  BY DEF Inv
<1>5. 0 \in 0..MaxRefs
  BY MaxRefsAssumption
<1>6. call[c].state = "running" /\ call[c].total > 0 =>
         /\ call[c].step + 1 \in 0..MaxRefs /\ call[c].total \in 0..MaxRefs
         /\ call[c].step + 1 <= call[c].total
  BY <1>1, MaxRefsAssumption DEF CallRecord, OnItsLadder
<1>7. CASE SearchEnds(c)
  <2>1. wish[c].kind = "search" /\ call[c].state = "running" /\ req[<<c, "search">>] \in Ended /\ req' = req
    BY <1>7 DEF SearchEnds, Running
  <2>2. "search" \in Own(c)
    BY <1>4, <2>1, Owned
  <2>3. CASE req[<<c, "search">>] \in Refusals
    <3>1. Report(c, req[<<c, "search">>])
      BY <1>7, <2>3 DEF SearchEnds, Refusals
    <3> QED BY <1>7, <2>1, <2>2, <2>3, <3>1 DEF Concludes, SearchEnds, Unasked
  <2>4. CASE req[<<c, "search">>] \notin Refusals
    <3>1. Finish(c, "results") \/ Finish(c, "raised")
      BY <1>7, <2>1, <2>4 DEF SearchEnds, Refusals, Ended
    <3> QED BY <1>3, <1>7, <2>1, <3>1 DEF Concludes, SearchEnds, Unasked
  <2> QED BY <2>3, <2>4
<1>8. CASE Gather(c)
  <2> DEFINE outcome == [i \in Fetchers(c) |-> req[<<c, i>>]]
             outcomes == {outcome[i] : i \in Fetchers(c)}
  <2>1. wish[c].kind = "sections" /\ call[c].state = "running" /\ req' = req
    BY <1>8 DEF Gather, Running
  <2>2. Own(c) = Fetchers(c)
    BY <1>4, <2>1, Owned
  <2>3. CASE \E refusal \in outcomes \cap Refusals : Report(c, refusal)
    <3>1. \E i \in Own(c) : req[<<c, i>>] \in Refusals /\ Report(c, req[<<c, i>>])
      BY <2>2, <2>3
    <3> QED BY <1>8, <2>1, <3>1 DEF Concludes, Gather, Unasked
  <2>4. CASE \E answer \in {"patent_not_found", "sections", "s2_throttled", "raised"} : Finish(c, answer)
    BY <1>3, <1>8, <2>1, <2>4 DEF Concludes, Gather, Unasked
  <2> QED BY <1>8, <2>3, <2>4 DEF Gather
<1>9. CASE CitingSearched(c)
  <2>1. /\ wish[c].kind = "citing" /\ call[c].state = "running" /\ call[c].total = 0
        /\ req[<<c, "search">>] \in Ended
    BY <1>9 DEF CitingSearched, Running
  <2>2. Sequential(c) /\ Opening(c) = "search" /\ "search" \in Own(c) /\ "biblio" \in Own(c)
    BY <1>4, <2>1, Owned
  <2>3. req[<<c, "biblio">>] \in Settled
    BY <2>1, <2>2, ItemsAre DEF Inv, OpensFirst, Settled
  <2>4. CASE req[<<c, "search">>] \in Refusals
    <3>1. Report(c, req[<<c, "search">>]) /\ req' = req
      BY <1>9, <2>4 DEF CitingSearched, Refusals
    <3> QED BY <1>9, <2>1, <2>2, <2>4, <3>1 DEF Concludes, CitingSearched, Unasked
  <2>5. CASE req[<<c, "search">>] = "ok"
    <3>1. PICK n \in 0..MaxRefs : Advance(c, "biblio", 0, n, "patents")
      BY <1>9, <2>5 DEF CitingSearched, Refusals
    <3>2. 0 <= n
      OBVIOUS
    <3> QED BY <1>3, <1>5, <1>9, <2>1, <2>2, <2>3, <3>1, <3>2 DEF Concludes, CitingSearched, Unasked
  <2>6. CASE req[<<c, "search">>] \notin Refusals \cup {"ok"}
    <3>1. Finish(c, "search_failed") /\ req' = req
      BY <1>9, <2>6 DEF CitingSearched
    <3> QED BY <1>3, <1>9, <2>1, <3>1 DEF Concludes, CitingSearched, Unasked
  <2> QED BY <2>4, <2>5, <2>6
<1>10. CASE CitingListed(c)
  <2>1. /\ wish[c].kind = "citing" /\ call[c].state = "running" /\ call[c].total > 0
        /\ req[<<c, "biblio">>] \in Ended
    BY <1>10 DEF CitingListed, Running
  <2>2. Sequential(c) /\ "biblio" \in Own(c)
    BY <1>4, <2>1, Owned
  <2>3. CASE req[<<c, "biblio">>] \in Refusals
    <3>1. Report(c, req[<<c, "biblio">>]) /\ req' = req
      BY <1>10, <2>3 DEF CitingListed
    <3> QED BY <1>10, <2>1, <2>2, <2>3, <3>1 DEF Concludes, CitingListed, Unasked
  <2>4. CASE req[<<c, "biblio">>] \notin Refusals
    <3>1. Advance(c, "biblio", call[c].step + 1, call[c].total, "patents")
      BY <1>10, <2>4 DEF CitingListed
    <3>2. UNCHANGED <<age, line, wish>>
      BY <1>10 DEF CitingListed, Unasked
    <3>3. call[c].total # 0
      BY <2>1
    <3> QED BY <1>2, <1>3, <1>6, <2>1, <2>2, <3>1, <3>2, <3>3 DEF Concludes
  <2> QED BY <2>3, <2>4
<1>11. CASE Inquired(c)
  <2>1. /\ wish[c].kind = "document" /\ call[c].state = "running" /\ call[c].total = 0
        /\ req[<<c, "inquiry">>] \in Ended
    BY <1>11 DEF Inquired, Running
  <2>2. Sequential(c) /\ Opening(c) = "inquiry" /\ "inquiry" \in Own(c) /\ "page" \in Own(c)
    BY <1>4, <2>1, Owned
  <2>3. req[<<c, "page">>] \in Settled
    BY <2>1, <2>2, ItemsAre DEF Inv, OpensFirst, Settled
  <2>4. UNCHANGED <<age, line, wish>>
    BY <1>11 DEF Inquired, Unasked
  <2>5. CASE Report(c, req[<<c, "inquiry">>]) /\ req' = req /\ req[<<c, "inquiry">>] \in Refusals
    BY <2>1, <2>2, <2>4, <2>5 DEF Concludes
  <2>6. CASE \E n \in 1..MaxRefs : Advance(c, "page", 0, n, "document")
    <3>1. PICK n \in 1..MaxRefs : Advance(c, "page", 0, n, "document")
      BY <2>6
    <3>2. 0 <= n /\ n \in 0..MaxRefs
      OBVIOUS
    <3> QED BY <1>3, <1>5, <2>1, <2>2, <2>3, <2>4, <3>1, <3>2 DEF Concludes
  <2>7. CASE (Finish(c, "pdf_not_available") \/ Finish(c, "raised")) /\ req' = req
    BY <1>3, <2>1, <2>4, <2>7 DEF Concludes
  <2> QED BY <1>11, <2>5, <2>6, <2>7 DEF Inquired, Refusals
<1>12. CASE PageFetched(c)
  <2>1. /\ wish[c].kind = "document" /\ call[c].state = "running" /\ call[c].total > 0
        /\ req[<<c, "page">>] \in Ended
    BY <1>12 DEF PageFetched, Running
  <2>2. Sequential(c) /\ "page" \in Own(c)
    BY <1>4, <2>1, Owned
  <2>3. UNCHANGED <<age, line, wish>>
    BY <1>12 DEF PageFetched, Unasked
  <2>4. CASE Report(c, req[<<c, "page">>]) /\ req' = req /\ req[<<c, "page">>] \in Refusals
    BY <2>1, <2>2, <2>3, <2>4 DEF Concludes
  <2>5. CASE Advance(c, "page", call[c].step + 1, call[c].total, "document")
    <3>1. call[c].total # 0
      BY <2>1
    <3> QED BY <1>2, <1>3, <1>6, <2>1, <2>2, <2>3, <2>5, <3>1 DEF Concludes
  <2>6. CASE Finish(c, "raised") /\ req' = req
    BY <1>3, <2>1, <2>3, <2>6 DEF Concludes
  <2> QED BY <1>12, <2>4, <2>5, <2>6 DEF PageFetched, Refusals
<1> QED BY <1>7, <1>8, <1>9, <1>10, <1>11, <1>12

\* What a conclusion makes of the call: it ends, waits for as long as the ladder
\* says, or goes on one step further.
Ends(c) ==
    /\ call'[c].state = "done" /\ call'[c].wait = 0 /\ req' = req
    /\ call'[c].step = call[c].step /\ call'[c].total = call[c].total
    /\ call'[c].attempt = call[c].attempt /\ call'[c].probed = call[c].probed

Waits(c) ==
    /\ call'[c].state = "waiting" /\ call'[c].wait = Delay * 2 ^ call[c].attempt /\ req' = req
    /\ call'[c].step = call[c].step /\ call'[c].total = call[c].total
    /\ call'[c].attempt = call[c].attempt /\ call'[c].probed = call[c].probed
    /\ call'[c].answer = "none"

GoesOn(c) ==
    /\ call'[c].state = "running" /\ call'[c].wait = call[c].wait
    /\ call'[c].attempt = call[c].attempt /\ call'[c].probed = call[c].probed
    /\ call'[c].npl = call[c].npl /\ call'[c].answer = call[c].answer
    /\ call'[c].step \in 0..MaxRefs /\ call'[c].total \in 0..MaxRefs /\ call'[c].step < call'[c].total
    /\ IF call[c].total = 0 THEN call'[c].step = 0
       ELSE call'[c].step = call[c].step + 1 /\ call'[c].total = call[c].total
    /\ Sequential(c)
    /\ LET i == IF wish[c].kind = "document" THEN "page" ELSE "biblio"
       IN i \in Own(c) /\ req[<<c, i>>] \in Settled /\ req' = [req EXCEPT ![<<c, i>>] = "ready"]

LEMMA Endings ==
    ASSUME Typed, NEW c \in Callers, NEW answer, Finish(c, answer), req' = req
    PROVE OthersStay(c) /\ Ends(c) /\ call'[c].answer = answer
<1>1. call[c] \in CallRecord /\ call \in [Callers -> CallRecord]
  BY DEF Typed
<1>2. call' = [call EXCEPT ![c] = [call[c] EXCEPT !.state = "done", !.answer = answer, !.wait = 0]]
  BY <1>1 DEF Finish
<1> QED BY <1>1, <1>2 DEF OthersStay, Ends, CallRecord

LEMMA Waitings ==
    ASSUME Typed, NEW c \in Callers, call[c].state = "running", NEW refusal, Report(c, refusal), req' = req
    PROVE /\ OthersStay(c)
          /\ \/ Ends(c) /\ call'[c].answer \in {"epo_unavailable", "rate_limited"}
             \/ Waits(c) /\ call[c].attempt < Retries
<1>1. call[c] \in CallRecord /\ call \in [Callers -> CallRecord] /\ OnItsLadder(call[c])
  BY DEF Typed
<1>2. CASE Finish(c, "epo_unavailable") \/ Finish(c, "rate_limited")
  BY <1>2, Endings
<1>3. CASE /\ call[c].attempt # Retries
           /\ call' = [call EXCEPT ![c].state = "waiting", ![c].wait = Delay * 2 ^ call[c].attempt]
  <2> DEFINE w == Delay * 2 ^ call[c].attempt
  <2> HIDE DEF w
  <2>1. call' = [call EXCEPT ![c] = [call[c] EXCEPT !.state = "waiting", !.wait = w]]
    BY <1>1, <1>3 DEF w
  <2>2. call[c].attempt < Retries /\ call[c].answer = "none"
    BY <1>1, <1>3, LadderAssumption DEF CallRecord, OnItsLadder
  <2>3. OthersStay(c) /\ call'[c] = [call[c] EXCEPT !.state = "waiting", !.wait = w]
    BY <1>1, <2>1 DEF OthersStay
  <2>4. /\ call'[c].state = "waiting" /\ call'[c].wait = w /\ call'[c].answer = call[c].answer
        /\ call'[c].step = call[c].step /\ call'[c].total = call[c].total
        /\ call'[c].attempt = call[c].attempt /\ call'[c].probed = call[c].probed
    BY <1>1, <2>3 DEF CallRecord
  <2> QED BY <2>2, <2>3, <2>4 DEF Waits, w
<1> QED BY <1>2, <1>3 DEF Report

LEMMA ConclusionCases ==
    ASSUME Typed, NEW c \in Callers, Concludes(c)
    PROVE /\ OthersStay(c)
          /\ \/ Ends(c)
             \/ Waits(c) /\ call[c].attempt < Retries
             \/ GoesOn(c)
          /\ Waits(c) \/ call'[c].answer = "rate_limited" =>
                \E i \in Own(c) : req[<<c, i>>] \in Refusals
<1>1. call[c] \in CallRecord /\ call \in [Callers -> CallRecord] /\ OnItsLadder(call[c])
  BY DEF Typed
<1>2. call[c].state = "running" /\ call[c].answer = "none"
  BY <1>1 DEF Concludes, OnItsLadder
<1>3. CASE \E answer \in Answers : Finish(c, answer) /\ req' = req /\ answer # "rate_limited"
  <2>1. PICK answer \in Answers : Finish(c, answer) /\ req' = req /\ answer # "rate_limited"
    BY <1>3
  <2>2. OthersStay(c) /\ Ends(c) /\ call'[c].answer = answer
    BY <2>1, Endings
  <2>3. ~Waits(c)
    BY <2>2 DEF Ends, Waits
  <2> QED BY <2>1, <2>2, <2>3
<1>4. CASE \E refusal \in Refusals, i \in Own(c) : req[<<c, i>>] = refusal /\ Report(c, refusal) /\ req' = req
  BY <1>2, <1>4, Waitings
<1>5. CASE \E i \in Own(c), step \in 0..MaxRefs, total \in 0..MaxRefs, answer \in Answers :
             /\ answer \in {"patents", "document"}
             /\ Sequential(c) /\ step <= total /\ req[<<c, i>>] \in Settled
             /\ i = (IF wish[c].kind = "document" THEN "page" ELSE "biblio")
             /\ IF call[c].total = 0 THEN step = 0 ELSE step = call[c].step + 1 /\ total = call[c].total
             /\ Advance(c, i, step, total, answer)
  <2>1. PICK i \in Own(c), step \in 0..MaxRefs, total \in 0..MaxRefs, answer \in Answers :
             /\ answer \in {"patents", "document"}
             /\ Sequential(c) /\ step <= total /\ req[<<c, i>>] \in Settled
             /\ i = (IF wish[c].kind = "document" THEN "page" ELSE "biblio")
             /\ IF call[c].total = 0 THEN step = 0 ELSE step = call[c].step + 1 /\ total = call[c].total
             /\ Advance(c, i, step, total, answer)
    BY <1>5
  <2>2. CASE step = total
    <3>1. Finish(c, answer) /\ req' = req
      BY <2>1, <2>2 DEF Advance
    <3> QED BY <1>3, <2>1, <3>1
  <2>3. CASE step # total
    <3>1. /\ call' = [call EXCEPT ![c].step = step, ![c].total = total]
          /\ req' = [req EXCEPT ![<<c, i>>] = "ready"]
      BY <2>1, <2>3 DEF Advance
    <3>2. call' = [call EXCEPT ![c] = [call[c] EXCEPT !.step = step, !.total = total]]
      BY <1>1, <3>1
    <3>3. OthersStay(c) /\ call'[c] = [call[c] EXCEPT !.step = step, !.total = total]
      BY <1>1, <3>2 DEF OthersStay
    <3>4. /\ call'[c].state = "running" /\ call'[c].wait = call[c].wait
          /\ call'[c].attempt = call[c].attempt /\ call'[c].probed = call[c].probed
          /\ call'[c].npl = call[c].npl /\ call'[c].answer = call[c].answer
          /\ call'[c].step = step /\ call'[c].total = total
      BY <1>1, <1>2, <3>3 DEF CallRecord
    <3>5. step < total
      BY <2>1, <2>3, MaxRefsAssumption
    <3>6. GoesOn(c)
      BY <2>1, <3>1, <3>4, <3>5 DEF GoesOn
    <3>7. ~Waits(c)
      BY <3>4 DEF Waits
    <3>8. call'[c].answer # "rate_limited"
      BY <1>2, <3>4
    <3> QED BY <3>3, <3>6, <3>7, <3>8
  <2> QED BY <2>2, <2>3
<1> QED BY <1>3, <1>4, <1>5 DEF Concludes

LEMMA FirstSteps ==
    ASSUME Typed, NEW c \in Callers, NEW attempt, Launch(c, attempt)
    PROVE /\ OthersStay(c)
          /\ call'[c].state = "running" /\ call'[c].attempt = attempt /\ call'[c].wait = 0
          /\ call'[c].step = 0 /\ call'[c].total = 0 /\ call'[c].probed = FALSE
          /\ call'[c].npl = "none" /\ call'[c].answer = "none"
          /\ \A i \in Items : req'[<<c, i>>] = Started(c)[i]
          /\ \A d \in Callers, i \in Items : d # c => req'[<<d, i>>] = req[<<d, i>>]
<1>1. call \in [Callers -> CallRecord]
  BY DEF Typed
<1>2. OthersStay(c) /\ call'[c] = [New EXCEPT !.state = "running", !.attempt = attempt]
  BY <1>1 DEF Launch, OthersStay
<1>3. \A d \in Callers, i \in Items : <<d, i>> \in Requests /\ <<d, i>>[1] = d /\ <<d, i>>[2] = i
  BY DEF Requests
<1>4. \A d \in Callers, i \in Items : req'[<<d, i>>] = IF d = c THEN Started(c)[i] ELSE req[<<d, i>>]
  <2>1. \A r \in Requests : req'[r] = IF r[1] = c THEN Started(c)[r[2]] ELSE req[r]
    BY DEF Launch
  <2>2. ASSUME NEW d \in Callers, NEW i \in Items
        PROVE  req'[<<d, i>>] = IF d = c THEN Started(c)[i] ELSE req[<<d, i>>]
    BY <1>3, <2>1
  <2> QED BY <2>2, Zenon
<1> QED BY <1>2, <1>4 DEF New

\* What of a call its other steps change: what Semantic Scholar said, and whether
\* EPO was asked.
Same(c) ==
    /\ OthersStay(c) /\ call[c].state = "running" /\ call'[c].state = "running"
    /\ call'[c].attempt = call[c].attempt /\ call'[c].wait = call[c].wait
    /\ call'[c].step = call[c].step /\ call'[c].total = call[c].total
    /\ call'[c].answer = call[c].answer

LEMMA NplNotes ==
    ASSUME Typed, NEW c \in Callers, ResolveNpl(c)
    PROVE /\ Same(c) /\ call'[c].probed = call[c].probed
          /\ call'[c].npl # "none" /\ call[c].npl = "none"
<1>1. call[c] \in CallRecord /\ call \in [Callers -> CallRecord]
  BY DEF Typed
<1>2. PICK outcome \in NplOutcomes \ {"none"} : call' = [call EXCEPT ![c].npl = outcome]
  BY DEF ResolveNpl
<1>3. call[c].state = "running" /\ call[c].npl = "none"
  BY DEF ResolveNpl, Running
<1>4. call' = [call EXCEPT ![c] = [call[c] EXCEPT !.npl = outcome]]
  BY <1>1, <1>2
<1>5. OthersStay(c) /\ call'[c] = [call[c] EXCEPT !.npl = outcome]
  BY <1>1, <1>4 DEF OthersStay
<1> QED BY <1>1, <1>3, <1>5 DEF CallRecord, Same

LEMMA AskNotes ==
    ASSUME Typed, NEW c \in Callers, NEW i \in Items, Request(c, i)
    PROVE /\ Same(c) /\ call'[c].npl = call[c].npl
          /\ call'[c].probed = (call[c].probed \/ line' # line)
<1> DEFINE p == call[c].probed \/ line' # line
<1>1. call[c] \in CallRecord /\ call \in [Callers -> CallRecord]
  BY DEF Typed
<1>2. call[c].state = "running" /\ call' = [call EXCEPT ![c].probed = p]
  BY DEF Request
<1>3. p \in BOOLEAN
  BY <1>1 DEF CallRecord
<1> HIDE DEF p
<1>4. call' = [call EXCEPT ![c] = [call[c] EXCEPT !.probed = p]]
  BY <1>1, <1>2
<1>5. OthersStay(c) /\ call'[c] = [call[c] EXCEPT !.probed = p]
  BY <1>1, <1>4 DEF OthersStay
<1>6. /\ call'[c].state = "running"
      /\ call'[c].attempt = call[c].attempt /\ call'[c].wait = call[c].wait
      /\ call'[c].step = call[c].step /\ call'[c].total = call[c].total
      /\ call'[c].answer = call[c].answer /\ call'[c].npl = call[c].npl /\ call'[c].probed = p
  BY <1>1, <1>2, <1>5 DEF CallRecord
<1> QED BY <1>2, <1>5, <1>6 DEF Same, p

LEMMA TicksAre ==
    ASSUME Typed, Tick
    PROVE \A c \in Callers :
            /\ call'[c].state = call[c].state /\ call'[c].attempt = call[c].attempt
            /\ call'[c].wait = IF call[c].wait > 0 THEN call[c].wait - 1 ELSE call[c].wait
            /\ call'[c].step = call[c].step /\ call'[c].total = call[c].total
            /\ call'[c].probed = call[c].probed /\ call'[c].npl = call[c].npl
            /\ call'[c].answer = call[c].answer
<1> SUFFICES ASSUME NEW c \in Callers
             PROVE  /\ call'[c].state = call[c].state /\ call'[c].attempt = call[c].attempt
                    /\ call'[c].wait = IF call[c].wait > 0 THEN call[c].wait - 1 ELSE call[c].wait
                    /\ call'[c].step = call[c].step /\ call'[c].total = call[c].total
                    /\ call'[c].probed = call[c].probed /\ call'[c].npl = call[c].npl
                    /\ call'[c].answer = call[c].answer
  OBVIOUS
<1>1. call[c] \in CallRecord
  BY DEF Typed
<1>2. call'[c] = IF call[c].wait > 0 THEN [call[c] EXCEPT !.wait = call[c].wait - 1] ELSE call[c]
  BY <1>1 DEF Tick, Waiting
<1> QED BY <1>1, <1>2 DEF CallRecord

\* Every step of the program, as far as it changes the record of a call.
LEMMA WaitsGoOn == Inv /\ WaitsFit /\ [Next]_vars => WaitsFit'
<1> SUFFICES ASSUME Inv, WaitsFit, [Next]_vars PROVE WaitsFit'
  OBVIOUS
<1>1. Typed /\ \A c \in Callers : call[c] \in CallRecord /\ WaitFits(call[c])
  BY DEF Inv, Typed, WaitsFit
<1>2. \A c \in Callers : call[c].attempt \in Nat /\ Delay * 2 ^ call[c].attempt \in Nat
  BY <1>1, LongWaits, LadderAssumption DEF CallRecord
<1>3. ASSUME NEW c \in Callers, OthersStay(c), WaitFits(call'[c]) PROVE WaitsFit'
  BY <1>1, <1>3 DEF WaitsFit, OthersStay
<1>4. ASSUME NEW c \in Callers, NEW attempt \in Nat, Launch(c, attempt) PROVE WaitsFit'
  <2>1. /\ call'[c].wait = 0 /\ call'[c].attempt = attempt
        /\ call'[c].step = 0 /\ call'[c].total = 0
    BY <1>1, <1>4, FirstSteps
  <2>2. WaitFits(call'[c])
    <3> DEFINE w == Delay * 2 ^ attempt
    <3>1. w \in Nat /\ w = Delay * 2 ^ call'[c].attempt
      BY <2>1, LongWaits
    <3> HIDE DEF w
    <3> QED BY <2>1, <3>1 DEF WaitFits
  <2> QED BY <1>1, <1>3, <1>4, <2>2, FirstSteps
<1>5. ASSUME NEW c \in Callers, Call(c) PROVE WaitsFit'
  <2>1. CASE Launch(c, 0)
    BY <1>4, <2>1
  <2>2. CASE Finish(c, "results") /\ req' = req
    <3>1. OthersStay(c) /\ Ends(c)
      BY <1>1, <2>2, Endings
    <3>2. WaitFits(call'[c])
      BY <1>1, <1>2, <3>1 DEF Ends, WaitFits
    <3> QED BY <1>3, <3>1, <3>2
  <2> QED BY <1>5, <2>1, <2>2 DEF Call
<1>6. ASSUME NEW c \in Callers, Step(c) PROVE WaitsFit'
  <2>1. CASE Retry(c)
    <3>1. call[c].attempt + 1 \in Nat /\ Launch(c, call[c].attempt + 1)
      BY <1>2, <2>1 DEF Retry
    <3> QED BY <1>4, <3>1
  <2>2. CASE SearchEnds(c) \/ Gather(c) \/ CitingSearched(c) \/ CitingListed(c) \/ Inquired(c) \/ PageFetched(c)
    <3>1. Concludes(c)
      BY <2>2, Conclusions
    <3>2. OthersStay(c) /\ (Ends(c) \/ Waits(c) \/ GoesOn(c))
      BY <1>1, <3>1, ConclusionCases
    <3>3. CASE Ends(c)
      <4>1. WaitFits(call'[c])
        BY <1>1, <1>2, <3>3 DEF Ends, WaitFits
      <4> QED BY <1>3, <3>2, <4>1
    <3>4. CASE Waits(c)
      <4>1. WaitFits(call'[c])
        <5> DEFINE w == Delay * 2 ^ call[c].attempt
        <5>1. w \in Nat /\ call'[c].wait = w /\ w = Delay * 2 ^ call'[c].attempt
          BY <1>2, <3>4 DEF Waits
        <5> HIDE DEF w
        <5> QED BY <1>1, <3>4, <5>1 DEF Waits, WaitFits
      <4> QED BY <1>3, <3>2, <4>1
    <3>5. CASE GoesOn(c)
      <4>1. call'[c].step <= call'[c].total
        BY <3>5, MaxRefsAssumption DEF GoesOn
      <4>2. WaitFits(call'[c])
        BY <1>1, <3>1, <3>5, <4>1 DEF Concludes, GoesOn, WaitFits
      <4> QED BY <1>3, <3>2, <4>2
    <3> QED BY <3>2, <3>3, <3>4, <3>5
  <2>3. CASE ResolveNpl(c) \/ \E i \in Items : Request(c, i)
    <3>1. PICK i \in Items : ResolveNpl(c) \/ Request(c, i)
      BY <2>3, ItemsAre
    <3>2. Same(c)
      BY <1>1, <3>1, NplNotes, AskNotes
    <3>3. WaitFits(call'[c])
      BY <1>1, <3>2 DEF Same, WaitFits
    <3> QED BY <1>3, <3>2, <3>3 DEF Same
  <2>4. CASE \E i \in Items : Find(c, i)
    BY <2>4 DEF Find, WaitsFit
  <2> QED BY <1>6, <2>1, <2>2, <2>3, <2>4 DEF Step
<1>7. CASE Epo
  BY <1>7 DEF Epo, Respond, Break, WaitsFit
<1>8. CASE Tick
  <2>1. \A c \in Callers : WaitFits(call'[c])
    <3> SUFFICES ASSUME NEW c \in Callers PROVE WaitFits(call'[c])
      OBVIOUS
    <3> QED BY <1>1, <1>2, <1>8, TicksAre DEF WaitFits
  <2> QED BY <2>1 DEF WaitsFit
<1>9. CASE UNCHANGED vars
  BY <1>9 DEF vars, WaitsFit
<1> QED BY <1>5, <1>6, <1>7, <1>8, <1>9 DEF Next

LEMMA WaitsBegin == Init => WaitsFit
<1> SUFFICES ASSUME Init, NEW c \in Callers PROVE WaitFits(call[c])
  BY DEF WaitsFit
<1>1. call[c] = New
  BY DEF Init
<1>2. Delay * 2 ^ 0 \in Nat
  BY LongWaits
<1> QED BY <1>1, <1>2 DEF New, WaitFits

LEMMA WaitsInvariant == Spec => [](Inv /\ WaitsFit)
<1> QED BY InitInv, NextInv, WaitsBegin, WaitsGoOn, PTL DEF Spec

\* Every value has its type; and a call waits at most the delay doubled once per
\* attempt, only between attempts, and asks for no more items than its sequence
\* has (with_epo_retry, _tools_patent.py).
THEOREM PatentTypes == Spec => []TypeOK
<1>1. Inv /\ WaitsFit => TypeOK
  <2> SUFFICES ASSUME Inv, WaitsFit PROVE TypeOK
    OBVIOUS
  <2>1. \A c \in Callers : call[c] \in CallRecord /\ WaitFits(call[c])
    BY DEF Inv, Typed, WaitsFit
  <2>2. \A c \in Callers :
           call[c] \in [state : States, attempt : 0..Retries, wait : Nat, step : 0..MaxRefs, total : 0..MaxRefs,
                        probed : BOOLEAN, npl : NplOutcomes, answer : Answers \cup {"none"}]
    BY <2>1 DEF CallRecord, WaitFits
  <2>3. call \in [Callers -> [state : States, attempt : 0..Retries, wait : Nat, step : 0..MaxRefs,
                              total : 0..MaxRefs, probed : BOOLEAN, npl : NplOutcomes, answer : Answers \cup {"none"}]]
    BY <2>2 DEF Inv, Typed
  <2>4. \A c \in Callers : /\ call[c].wait <= Delay * 2 ^ call[c].attempt
                           /\ call[c].step <= call[c].total
                           /\ call[c].wait > 0 => call[c].state = "waiting"
    BY <2>1 DEF WaitFits
  <2> QED BY <2>3, <2>4 DEF TypeOK, Inv, Typed
<1> QED BY <1>1, WaitsInvariant, PTL

-----------------------------------------------------------------------------
\* The requests whose outcomes the next judgement of a call is made from.
Needed(c) ==
    CASE wish[c].kind = "sections" -> Fetchers(c)
      [] wish[c].kind = "citing" -> IF call[c].total = 0 THEN {"search"} ELSE {"biblio"}
      [] wish[c].kind = "document" -> IF call[c].total = 0 THEN {"inquiry"} ELSE {"page"}
      [] OTHER -> {"search"}

\* A running call waits for nothing that nobody is about to bring: what its next
\* judgement needs is under way or has ended.
NoCallHangs ==
    \A c \in Callers : call[c].state = "running" =>
        \A i \in Needed(c) : req[<<c, i>>] \in Open \cup Ended

\* The steps a call can still take.  In an attempt: two for a request, three for
\* each item of its sequence, one for what Semantic Scholar says and one to judge.
Weight(stage) == IF stage = "ready" THEN 2 ELSE IF stage = "asked" THEN 1 ELSE 0
LoadOf(c, i) == Weight(req[<<c, i>>])
UnderWay(c) ==
    LoadOf(c, "search") + LoadOf(c, "biblio") + LoadOf(c, "claims") + LoadOf(c, "description")
    + LoadOf(c, "family") + LoadOf(c, "legal") + LoadOf(c, "citations") + LoadOf(c, "inquiry") + LoadOf(c, "page")

Ahead(k) == IF k.total = 0 THEN MaxRefs + 1 ELSE k.total - k.step
InAttempt(k) == 1 + 3 * Ahead(k) + (IF k.npl = "none" THEN 1 ELSE 0)
PerAttempt == 3 * MaxRefs + 24
LaterAttempts(n) == PerAttempt * (Retries - n)

StepsIn(k, underWay) ==
    CASE k.state = "new" -> PerAttempt + LaterAttempts(0)
      [] k.state = "running" -> LaterAttempts(k.attempt) + InAttempt(k) + underWay
      [] k.state = "waiting" -> LaterAttempts(k.attempt)
      [] OTHER -> 0

StepsLeft(c) == StepsIn(call[c], UnderWay(c))

\* A step of a call, or an answer of EPO's to it, leaves it fewer to take, and
\* nothing that others do ever adds to them.
CountsDown ==
    \A c \in Callers :
        /\ StepsLeft(c) \in Nat /\ StepsLeft(c)' \in Nat
        /\ StepsLeft(c)' <= StepsLeft(c)
        /\ Call(c) \/ Step(c) \/ (Epo /\ c = Head(line)[1]) => StepsLeft(c)' < StepsLeft(c)

\* How the requests change outside the judgements and the starts of attempts.
LEMMA AskMoves ==
    ASSUME Typed, NEW c \in Callers, NEW i \in Items, Request(c, i)
    PROVE /\ req[<<c, i>>] = "ready" /\ UNCHANGED <<age, wish>>
          /\ \E s \in {"asked"} \cup Refusals :
                /\ req' = [req EXCEPT ![<<c, i>>] = s]
                /\ s = "asked" => ~Throttled(Billed[i]) /\ line' # line
                /\ s # "asked" => Throttled(Billed[i])
<1> DEFINE bucket == Billed[i]
<1>1. /\ req[<<c, i>>] = "ready" /\ UNCHANGED <<age, wish>>
      /\ IF Throttled(bucket) THEN /\ req' = [req EXCEPT ![<<c, i>>] = Verdict(seen[bucket], "ok")]
         ELSE req' = [req EXCEPT ![<<c, i>>] = "asked"] /\ line' = Append(line, <<c, i>>)
  BY DEF Request, Ask
<1>2. seen[bucket] \in Colours /\ line \in Seq(Requests)
  BY DEF Typed, ClientTypeOK, Buckets
<1>3. CASE Throttled(bucket)
  <2>1. Verdict(seen[bucket], "ok") \in Refusals
    BY <1>2, <1>3 DEF Throttled, Verdict, Colours, Refusals
  <2>2. Verdict(seen[bucket], "ok") # "asked"
    BY <2>1 DEF Refusals
  <2> QED BY <1>1, <1>3, <2>1, <2>2
<1>4. CASE ~Throttled(bucket)
  <2>1. line' # line
    <3>1. <<c, i>> \in Requests
      BY DEF Requests
    <3>2. line' = Append(line, <<c, i>>)
      BY <1>1, <1>4
    <3>3. Len(line') = Len(line) + 1 /\ Len(line) \in Nat
      BY <1>2, <3>1, <3>2
    <3> QED BY <3>3
  <2> QED BY <1>1, <1>4, <2>1
<1> QED BY <1>3, <1>4

LEMMA EpoMoves ==
    ASSUME Inv, Epo
    PROVE \E c \in Callers, i \in Items, e \in Ended :
             /\ Head(line) = <<c, i>> /\ req[<<c, i>>] = "asked" /\ call[c].state = "running"
             /\ req' = [req EXCEPT ![<<c, i>>] = e] /\ UNCHANGED <<call, wish>>
<1> DEFINE r == Head(line)
<1>1. line # <<>> /\ (Respond(r) \/ Break(r))
  BY DEF Epo
<1>2. ClientTypeOK /\ r \in Requests /\ req[r] = "asked"
  BY <1>1, InSequence DEF Inv, Typed, ClientTypeOK
<1>3. PICK c \in Callers, i \in Items : r = <<c, i>>
  BY <1>2 DEF Requests
<1>4. \E e \in Ended : req' = [req EXCEPT ![r] = e]
  <2>1. CASE Respond(r)
    <3>1. PICK lights \in Lights, body \in Bodies(r) : Answered(r, lights, body)
      BY <2>1 DEF Respond
    <3>2. lights[Billed[r[2]]] \in Colours
      <4>1. lights \in [Buckets -> Colours] /\ Billed[r[2]] \in Buckets
        BY <1>3, LightsAssumption DEF Buckets
      <4> QED BY <4>1
    <3>3. body \in {"ok", "missing"}
      BY <3>1 DEF Bodies
    <3>4. Verdict(lights[Billed[r[2]]], body) \in Ended
      BY <3>2, <3>3 DEF Verdict, Colours, Ended, Refusals
    <3> QED BY <3>1, <3>4 DEF Answered
  <2>2. CASE Break(r)
    <3>1. PICK error \in Errors(r) : Fails(r, error)
      BY <2>2 DEF Break
    <3>2. (IF r[2] = "search" /\ error = "missing" THEN "ok" ELSE error) \in Ended
      BY DEF Errors, Ended
    <3> QED BY <3>1, <3>2 DEF Fails
  <2> QED BY <1>1, <2>1, <2>2
<1>5. UNCHANGED <<call, wish>>
  BY <1>1 DEF Respond, Break
<1>6. call[c].state = "running"
  BY <1>2, <1>3 DEF Inv, AsksItsOwn, Open
<1> QED BY <1>2, <1>3, <1>4, <1>5, <1>6

\* One request changes, and nothing of the others.
LEMMA OneMoves ==
    ASSUME Typed, NEW c \in Callers, NEW i \in Items, NEW s, req' = [req EXCEPT ![<<c, i>>] = s]
    PROVE /\ req'[<<c, i>>] = s
          /\ \A j \in Items : j # i => req'[<<c, j>>] = req[<<c, j>>]
          /\ \A d \in Callers, j \in Items : d # c => req'[<<d, j>>] = req[<<d, j>>]
<1>1. \A d \in Callers, j \in Items : <<d, j>> \in DOMAIN req
  BY DEF Typed, ClientTypeOK, Requests
<1>2. \A d \in Callers, j \in Items : <<d, j>> = <<c, i>> <=> d = c /\ j = i
  OBVIOUS
<1> QED BY <1>1, <1>2

-----------------------------------------------------------------------------
NeededIsThere(c) == call[c].state = "running" => \A i \in Needed(c) : req[<<c, i>>] # "none"

LEMMA Neededs ==
    ASSUME Typed, NEW c \in Callers PROVE Needed(c) \subseteq Items
<1>1. wish[c].kind \in Kinds /\ wish[c].wanted \subseteq Sections
  BY Owned
<1>2. Fetchers(c) \subseteq Items
  BY <1>1, ItemsAre DEF Fetchers, Sections
<1> QED BY <1>2, ItemsAre DEF Needed

\* What is needed stays there as long as the call is at the same place and its
\* requests only move on.
LEMMA NeededStays ==
    ASSUME Typed, NEW c \in Callers, NeededIsThere(c), wish' = wish,
           \/ call'[c].state # "running"
           \/ /\ call[c].state = "running" /\ (call'[c].total = 0 <=> call[c].total = 0)
              /\ \A i \in Items : req[<<c, i>>] # "none" => req'[<<c, i>>] # "none"
    PROVE NeededIsThere(c)'
<1>1. CASE call'[c].state # "running"
  BY <1>1 DEF NeededIsThere
<1>2. CASE /\ call[c].state = "running" /\ (call'[c].total = 0 <=> call[c].total = 0)
           /\ \A i \in Items : req[<<c, i>>] # "none" => req'[<<c, i>>] # "none"
  <2>1. Needed(c)' = Needed(c)
    BY <1>2 DEF Needed, Fetchers
  <2>2. Needed(c) \subseteq Items
    BY Neededs
  <2> QED BY <1>2, <2>1, <2>2 DEF NeededIsThere
<1> QED BY <1>1, <1>2

LEMMA NeededStarts ==
    ASSUME Typed, NEW c \in Callers, NEW attempt, Launch(c, attempt), wish' = wish
    PROVE NeededIsThere(c)'
<1>1. call'[c].total = 0 /\ \A i \in Items : req'[<<c, i>>] = Started(c)[i]
  BY FirstSteps
<1>2. /\ wish[c].kind \in Kinds
      /\ wish[c].kind = "sections" => Fetchers(c) \subseteq Items
  BY Owned, ItemsAre DEF Sections
<1>3. CASE wish[c].kind = "sections"
  <2>1. Needed(c)' = Fetchers(c)
    BY <1>3 DEF Needed, Fetchers
  <2>2. \A i \in Fetchers(c) : Started(c)[i] # "none"
    BY <1>2, <1>3 DEF Started
  <2> QED BY <1>1, <1>2, <1>3, <2>1, <2>2 DEF NeededIsThere
<1>4. CASE wish[c].kind = "document"
  <2>1. Needed(c)' = {"inquiry"}
    BY <1>1, <1>4 DEF Needed
  <2>2. Started(c)["inquiry"] = "ready" /\ "inquiry" \in Items
    BY <1>4, ItemsAre DEF Started
  <2> QED BY <1>1, <2>1, <2>2 DEF NeededIsThere
<1>5. CASE wish[c].kind \in {"search", "citing"}
  <2>1. Needed(c)' = {"search"}
    BY <1>1, <1>5 DEF Needed
  <2>2. Started(c)["search"] = "ready" /\ "search" \in Items
    BY <1>5, ItemsAre DEF Started
  <2> QED BY <1>1, <2>1, <2>2 DEF NeededIsThere
<1> QED BY <1>2, <1>3, <1>4, <1>5 DEF Kinds

LEMMA NeededGoesOn ==
    ASSUME Typed, NEW c \in Callers, GoesOn(c), wish' = wish
    PROVE NeededIsThere(c)'
<1>1. PICK i \in Items : i = IF wish[c].kind = "document" THEN "page" ELSE "biblio"
  BY ItemsAre
<1>2. Sequential(c) /\ call'[c].total # 0 /\ req' = [req EXCEPT ![<<c, i>>] = "ready"]
  BY <1>1, MaxRefsAssumption DEF GoesOn
<1>3. Needed(c)' = {i}
  BY <1>1, <1>2 DEF Needed, Sequential
<1>4. req'[<<c, i>>] = "ready"
  <2>1. <<c, i>> \in DOMAIN req
    BY DEF Typed, ClientTypeOK, Requests
  <2> QED BY <1>2, <2>1
<1>5. \A j \in Needed(c)' : req'[<<c, j>>] # "none"
  BY <1>3, <1>4
<1> QED BY <1>5 DEF NeededIsThere

LEMMA WishesAreKept == [Next]_vars => wish' = wish
<1>1. ASSUME NEW c \in Callers, Call(c) PROVE wish' = wish
  BY <1>1 DEF Call, Unasked
<1>2. ASSUME NEW c \in Callers, Step(c) PROVE wish' = wish
  <2>1. ASSUME Retry(c) \/ SearchEnds(c) \/ ResolveNpl(c) \/ Gather(c) PROVE wish' = wish
    BY <2>1 DEF Retry, SearchEnds, ResolveNpl, Gather, Unasked
  <2>2. ASSUME CitingSearched(c) \/ CitingListed(c) \/ Inquired(c) \/ PageFetched(c) PROVE wish' = wish
    BY <2>2 DEF CitingSearched, CitingListed, Inquired, PageFetched, Unasked
  <2>3. ASSUME NEW i \in Items, Find(c, i) \/ Request(c, i) PROVE wish' = wish
    BY <2>3 DEF Find, Request, Unasked
  <2> QED BY <1>2, <2>1, <2>2, <2>3, Zenon DEF Step
<1>3. ASSUME Epo \/ Tick \/ UNCHANGED vars PROVE wish' = wish
  <2>1. Epo => wish' = wish
    BY DEF Epo, Respond, Break
  <2>2. Tick => wish' = wish
    BY DEF Tick
  <2>3. UNCHANGED vars => wish' = wish
    BY DEF vars
  <2> QED BY <1>3, <2>1, <2>2, <2>3
<1> QED BY <1>1, <1>2, <1>3, Zenon DEF Next

LEMMA NeededKept ==
    Inv /\ (\A c \in Callers : NeededIsThere(c)) /\ [Next]_vars => \A c \in Callers : NeededIsThere(c)'
<1> SUFFICES ASSUME Inv, \A d \in Callers : NeededIsThere(d), [Next]_vars, NEW d \in Callers
             PROVE  NeededIsThere(d)'
  OBVIOUS
<1>1. Typed
  BY DEF Inv
<1>2. wish' = wish
  BY WishesAreKept
<1>3. ASSUME /\ call'[d] = call[d] \/ call'[d].state # "running"
                \/ (call'[d].state = call[d].state /\ call'[d].total = call[d].total)
             /\ \A i \in Items : req[<<d, i>>] # "none" => req'[<<d, i>>] # "none"
      PROVE  NeededIsThere(d)'
  BY <1>1, <1>2, <1>3, NeededStays
<1>4. ASSUME NEW c \in Callers, NEW attempt, Launch(c, attempt) PROVE NeededIsThere(d)'
  <2>1. CASE d = c
    BY <1>1, <1>2, <1>4, <2>1, NeededStarts
  <2>2. CASE d # c
    BY <1>1, <1>3, <1>4, <2>2, FirstSteps DEF OthersStay
  <2> QED BY <2>1, <2>2
<1>5. ASSUME NEW c \in Callers, Call(c) PROVE NeededIsThere(d)'
  <2>1. CASE Launch(c, 0)
    BY <1>4, <2>1
  <2>2. CASE Finish(c, "results") /\ req' = req
    BY <1>1, <1>3, <2>2, Endings DEF OthersStay, Ends
  <2> QED BY <1>5, <2>1, <2>2 DEF Call
<1>6. ASSUME NEW c \in Callers, Step(c) PROVE NeededIsThere(d)'
  <2>1. CASE Retry(c)
    BY <1>4, <2>1 DEF Retry
  <2>2. CASE SearchEnds(c) \/ Gather(c) \/ CitingSearched(c) \/ CitingListed(c) \/ Inquired(c) \/ PageFetched(c)
    <3>1. Concludes(c)
      BY <2>2, Conclusions
    <3>2. OthersStay(c) /\ (Ends(c) \/ Waits(c) \/ GoesOn(c))
      BY <1>1, <3>1, ConclusionCases
    <3>3. CASE Ends(c) \/ Waits(c)
      BY <1>3, <3>2, <3>3 DEF OthersStay, Ends, Waits
    <3>4. CASE GoesOn(c)
      <4>1. CASE d = c
        BY <1>1, <1>2, <3>4, <4>1, NeededGoesOn
      <4>2. CASE d # c
        <5>1. PICK i \in Items : req' = [req EXCEPT ![<<c, i>>] = "ready"]
          BY <3>4, ItemsAre DEF GoesOn
        <5>2. \A j \in Items : req'[<<d, j>>] = req[<<d, j>>]
          BY <1>1, <4>2, <5>1, OneMoves
        <5> QED BY <1>3, <3>2, <4>2, <5>2 DEF OthersStay
      <4> QED BY <4>1, <4>2
    <3> QED BY <3>2, <3>3, <3>4
  <2>3. CASE ResolveNpl(c)
    <3>1. Same(c) /\ req' = req
      BY <1>1, <2>3, NplNotes DEF ResolveNpl
    <3> QED BY <1>3, <3>1 DEF Same, OthersStay
  <2>4. CASE \E i \in Items : Request(c, i)
    <3>1. PICK i \in Items : Request(c, i)
      BY <2>4
    <3>2. Same(c)
      BY <1>1, <3>1, AskNotes
    <3>3. PICK s \in {"asked"} \cup Refusals : req' = [req EXCEPT ![<<c, i>>] = s]
      BY <1>1, <3>1, AskMoves
    <3>4. s # "none"
      BY DEF Refusals
    <3>5. \A j \in Items : req[<<d, j>>] # "none" => req'[<<d, j>>] # "none"
      BY <1>1, <3>3, <3>4, OneMoves
    <3> QED BY <1>3, <3>2, <3>5 DEF Same, OthersStay
  <2>5. CASE \E i \in Items : Find(c, i)
    <3>1. PICK i \in Items : req' = [req EXCEPT ![<<c, i>>] = "ok"] /\ call' = call
      BY <2>5 DEF Find
    <3>2. \A j \in Items : req[<<d, j>>] # "none" => req'[<<d, j>>] # "none"
      BY <1>1, <3>1, OneMoves
    <3> QED BY <1>3, <3>1, <3>2
  <2> QED BY <1>6, <2>1, <2>2, <2>3, <2>4, <2>5 DEF Step
<1>7. CASE Epo
  <2>1. PICK c \in Callers, i \in Items, e \in Ended : req' = [req EXCEPT ![<<c, i>>] = e] /\ call' = call
    BY <1>7, EpoMoves
  <2>2. e # "none"
    BY DEF Ended, Refusals
  <2>3. \A j \in Items : req[<<d, j>>] # "none" => req'[<<d, j>>] # "none"
    BY <1>1, <2>1, <2>2, OneMoves
  <2> QED BY <1>3, <2>1, <2>3
<1>8. CASE Tick
  <2>1. req' = req
    BY <1>8 DEF Tick
  <2> QED BY <1>1, <1>3, <1>8, <2>1, TicksAre
<1>9. CASE UNCHANGED vars
  BY <1>3, <1>9 DEF vars
<1> QED BY <1>5, <1>6, <1>7, <1>8, <1>9 DEF Next

\* What a running call needs is always under way or has ended: no wake-up is
\* lost between the requests of an attempt and its judgement, whatever became of
\* each of them (get_patent's gather, get_citing_patents, get_pdf).
THEOREM NobodyHangs == Spec => []NoCallHangs
<1> DEFINE N == \A c \in Callers : NeededIsThere(c)
<1>1. Init => N
  BY DEF Init, New, NeededIsThere
<1>2. Inv /\ N /\ [Next]_vars => N'
  BY NeededKept
<1>3. Inv /\ N => NoCallHangs
  <2> SUFFICES ASSUME Inv, N, NEW c \in Callers, call[c].state = "running", NEW i \in Needed(c)
               PROVE  req[<<c, i>>] \in Open \cup Ended
    BY DEF NoCallHangs
  <2>1. i \in Items /\ req[<<c, i>>] # "none"
    BY Neededs DEF Inv, NeededIsThere
  <2>2. req[<<c, i>>] \in Stages
    BY <2>1 DEF Inv, Typed, ClientTypeOK, Requests
  <2> QED BY <2>1, <2>2 DEF Stages, Open
<1> HIDE DEF N
<1> QED BY <1>1, <1>2, <1>3, InitInv, NextInv, PTL DEF Spec

-----------------------------------------------------------------------------
LEMMA Later ==
    ASSUME NEW n \in 0..Retries
    PROVE /\ PerAttempt \in Nat /\ LaterAttempts(n) \in Nat
          /\ n < Retries => LaterAttempts(n) = LaterAttempts(n + 1) + PerAttempt
<1> DEFINE p == PerAttempt
<1>1. p \in Nat
  BY MaxRefsAssumption DEF PerAttempt
<1> HIDE DEF p
<1>2. Retries - n \in Nat /\ p * (Retries - n) \in Nat
  BY <1>1, LadderAssumption
<1>3. ASSUME n < Retries PROVE p * (Retries - n) = p * (Retries - (n + 1)) + p
  <2>1. PICK m \in Nat : Retries - n = m + 1
    BY <1>3, LadderAssumption
  <2>2. Retries - (n + 1) = m
    BY <2>1, LadderAssumption
  <2>3. p * (m + 1) = p * m + p
    BY <1>1
  <2> QED BY <2>1, <2>2, <2>3
<1> QED BY <1>1, <1>2, <1>3 DEF LaterAttempts, p

LEMMA UnderWays ==
    ASSUME NEW c PROVE UnderWay(c) \in 0..18
<1>1. \A i : LoadOf(c, i) \in 0..2
  BY DEF LoadOf, Weight
<1> QED BY <1>1 DEF UnderWay

LEMMA LoadStays ==
    ASSUME NEW c, \A i \in Items : req'[<<c, i>>] = req[<<c, i>>]
    PROVE UnderWay(c)' = UnderWay(c)
<1>1. \A i \in Items : LoadOf(c, i)' = LoadOf(c, i)
  BY DEF LoadOf, Weight
<1> QED BY <1>1, ItemsAre DEF UnderWay

LEMMA LoadMoves ==
    ASSUME NEW c, NEW i \in Items, \A j \in Items : j # i => req'[<<c, j>>] = req[<<c, j>>]
    PROVE UnderWay(c)' = UnderWay(c) - Weight(req[<<c, i>>]) + Weight(req'[<<c, i>>])
<1>1. \A j : LoadOf(c, j) \in 0..2 /\ LoadOf(c, j)' \in 0..2
  BY DEF LoadOf, Weight
<1>2. \A j \in Items : j # i => LoadOf(c, j)' = LoadOf(c, j)
  BY DEF LoadOf, Weight
<1>3. UnderWay(c)' = UnderWay(c) - LoadOf(c, i) + LoadOf(c, i)'
  BY <1>1, <1>2, ItemsAre, SMTT(30) DEF UnderWay
<1>4. LoadOf(c, i) = Weight(req[<<c, i>>]) /\ LoadOf(c, i)' = Weight(req'[<<c, i>>])
  BY DEF LoadOf
<1> QED BY <1>3, <1>4

LEMMA Aheads ==
    ASSUME NEW k, k.step \in 0..MaxRefs, k.total \in 0..MaxRefs, k.step <= k.total
    PROVE InAttempt(k) \in Nat /\ InAttempt(k) >= 1
BY MaxRefsAssumption DEF InAttempt, Ahead

\* The count is a number, and what it is.
LEMMA Counts ==
    ASSUME Typed, WaitsFit, NEW c \in Callers
    PROVE /\ StepsLeft(c) \in Nat
          /\ call[c].state = "new" => StepsLeft(c) = PerAttempt + LaterAttempts(0)
          /\ call[c].state = "running" =>
                 /\ StepsLeft(c) = LaterAttempts(call[c].attempt) + InAttempt(call[c]) + UnderWay(c)
                 /\ StepsLeft(c) > LaterAttempts(call[c].attempt)
          /\ call[c].state = "waiting" => StepsLeft(c) = LaterAttempts(call[c].attempt)
          /\ LaterAttempts(call[c].attempt) \in Nat
<1>1. call[c] \in CallRecord /\ call[c].step <= call[c].total
  BY DEF Typed, WaitsFit, WaitFits
<1>2. /\ call[c].attempt \in 0..Retries /\ call[c].step \in 0..MaxRefs /\ call[c].total \in 0..MaxRefs
      /\ call[c].state \in States
  BY <1>1 DEF CallRecord
<1>3. InAttempt(call[c]) \in Nat /\ InAttempt(call[c]) >= 1
  BY <1>1, <1>2, Aheads
<1>4. LaterAttempts(call[c].attempt) \in Nat /\ LaterAttempts(0) \in Nat /\ PerAttempt \in Nat
  BY <1>2, Later, LadderAssumption
<1>5. UnderWay(c) \in Nat
  BY UnderWays
<1> QED BY <1>2, <1>3, <1>4, <1>5 DEF StepsLeft, StepsIn, States

\* Nothing is added to the steps of a call that is left alone.
LEMMA CountStays ==
    ASSUME NEW c, \A i \in Items : req'[<<c, i>>] = req[<<c, i>>],
           /\ call'[c].state = call[c].state /\ call'[c].attempt = call[c].attempt
           /\ call'[c].step = call[c].step /\ call'[c].total = call[c].total /\ call'[c].npl = call[c].npl
    PROVE StepsLeft(c)' = StepsLeft(c)
<1>1. UnderWay(c)' = UnderWay(c)
  BY LoadStays
<1>2. InAttempt(call'[c]) = InAttempt(call[c])
  BY DEF InAttempt, Ahead
<1>3. StepsLeft(c)' = StepsIn(call'[c], UnderWay(c)')
  BY DEF StepsLeft, StepsIn, LaterAttempts, PerAttempt, InAttempt, Ahead
<1>4. StepsIn(call'[c], UnderWay(c)) = StepsIn(call[c], UnderWay(c))
  BY <1>2 DEF StepsIn
<1> QED BY <1>1, <1>3, <1>4 DEF StepsLeft

Fewer(c) ==
    /\ StepsLeft(c)' < StepsLeft(c)
    /\ \A d \in Callers : d # c => StepsLeft(d)' = StepsLeft(d)

LEMMA OthersCount ==
    ASSUME NEW c \in Callers, OthersStay(c),
           \A d \in Callers, j \in Items : d # c => req'[<<d, j>>] = req[<<d, j>>]
    PROVE \A d \in Callers : d # c => StepsLeft(d)' = StepsLeft(d)
BY CountStays DEF OthersStay

LEMMA LaunchCounts ==
    ASSUME Typed, WaitsFit, Typed', WaitsFit', NEW c \in Callers, NEW attempt \in 0..Retries, Launch(c, attempt),
           StepsLeft(c) = PerAttempt + LaterAttempts(attempt)
    PROVE Fewer(c)
<1>1. /\ OthersStay(c) /\ call'[c].state = "running" /\ call'[c].attempt = attempt
      /\ call'[c].total = 0 /\ call'[c].npl = "none"
      /\ \A d \in Callers, j \in Items : d # c => req'[<<d, j>>] = req[<<d, j>>]
  BY FirstSteps
<1>2. StepsLeft(c)' = LaterAttempts(attempt) + InAttempt(call'[c]) + UnderWay(c)'
  BY <1>1 DEF StepsLeft, StepsIn, LaterAttempts, PerAttempt, InAttempt, Ahead
<1>3. InAttempt(call'[c]) = 1 + 3 * (MaxRefs + 1) + 1
  BY <1>1 DEF InAttempt, Ahead
<1>4. UnderWay(c)' \in 0..18
  <2>1. \A i : LoadOf(c, i)' \in 0..2
    BY DEF LoadOf, Weight
  <2> QED BY <2>1 DEF UnderWay
<1>5. LaterAttempts(attempt) \in Nat
  BY Later
<1>6. StepsLeft(c)' < StepsLeft(c)
  BY <1>2, <1>3, <1>4, <1>5, MaxRefsAssumption DEF PerAttempt
<1> QED BY <1>1, <1>6, OthersCount DEF Fewer

LEMMA ConclusionCounts ==
    ASSUME Typed, WaitsFit, NEW c \in Callers, Concludes(c)
    PROVE Fewer(c)
<1>1. OthersStay(c) /\ (Ends(c) \/ Waits(c) \/ GoesOn(c))
  BY ConclusionCases
<1>2. /\ StepsLeft(c) = LaterAttempts(call[c].attempt) + InAttempt(call[c]) + UnderWay(c)
      /\ StepsLeft(c) \in Nat /\ LaterAttempts(call[c].attempt) \in Nat
      /\ StepsLeft(c) > LaterAttempts(call[c].attempt)
  BY Counts DEF Concludes
<1>3. CASE Ends(c)
  <2>1. StepsLeft(c)' = 0
    BY <1>3 DEF StepsLeft, StepsIn, Ends
  <2>2. \A d \in Callers : d # c => StepsLeft(d)' = StepsLeft(d)
    BY <1>1, <1>3, OthersCount DEF Ends
  <2> QED BY <1>2, <2>1, <2>2 DEF Fewer
<1>4. CASE Waits(c)
  <2>1. StepsLeft(c)' = LaterAttempts(call[c].attempt)
    BY <1>4 DEF StepsLeft, StepsIn, Waits, LaterAttempts, PerAttempt
  <2>2. \A d \in Callers : d # c => StepsLeft(d)' = StepsLeft(d)
    BY <1>1, <1>4, OthersCount DEF Waits
  <2> QED BY <1>2, <2>1, <2>2 DEF Fewer
<1>5. CASE GoesOn(c)
  <2>1. PICK i \in Items : req[<<c, i>>] \in Settled /\ req' = [req EXCEPT ![<<c, i>>] = "ready"]
    BY <1>5, ItemsAre DEF GoesOn
  <2>2. /\ req'[<<c, i>>] = "ready"
        /\ \A j \in Items : j # i => req'[<<c, j>>] = req[<<c, j>>]
        /\ \A d \in Callers, j \in Items : d # c => req'[<<d, j>>] = req[<<d, j>>]
    BY <2>1, OneMoves
  <2>3. Weight(req[<<c, i>>]) = 0 /\ Weight(req'[<<c, i>>]) = 2
    BY <2>1, <2>2 DEF Weight, Settled, Ended, Refusals
  <2>4. UnderWay(c)' = UnderWay(c) + 2 /\ UnderWay(c) \in Nat
    <3>1. UnderWay(c)' = UnderWay(c) - Weight(req[<<c, i>>]) + Weight(req'[<<c, i>>])
      BY <2>2, LoadMoves
    <3>2. UnderWay(c) \in 0..18
      BY UnderWays
    <3> QED BY <2>3, <3>1, <3>2
  <2>5. /\ call[c].total \in 0..MaxRefs /\ call[c].step \in 0..MaxRefs
        /\ call[c].step <= call[c].total
    BY DEF Typed, WaitsFit, WaitFits, CallRecord
  <2>6. /\ call'[c].total \in 0..MaxRefs /\ call'[c].step \in 0..MaxRefs /\ call'[c].step < call'[c].total
        /\ call'[c].npl = call[c].npl /\ call'[c].attempt = call[c].attempt /\ call'[c].state = "running"
        /\ IF call[c].total = 0 THEN call'[c].step = 0
           ELSE call'[c].step = call[c].step + 1 /\ call'[c].total = call[c].total
    BY <1>5 DEF GoesOn
  <2>7. Ahead(call'[c]) <= Ahead(call[c]) - 1 /\ Ahead(call[c]) \in Int /\ Ahead(call'[c]) \in Int
    BY <2>5, <2>6, MaxRefsAssumption DEF Ahead
  <2>8. InAttempt(call'[c]) <= InAttempt(call[c]) - 3 /\ InAttempt(call[c]) \in Int /\ InAttempt(call'[c]) \in Int
    BY <2>6, <2>7 DEF InAttempt
  <2>9. StepsLeft(c)' = LaterAttempts(call[c].attempt) + InAttempt(call'[c]) + UnderWay(c)'
    BY <2>6 DEF StepsLeft, StepsIn, LaterAttempts, PerAttempt, InAttempt, Ahead
  <2>10. StepsLeft(c)' < StepsLeft(c)
    BY <1>2, <2>4, <2>8, <2>9
  <2> QED BY <1>1, <2>2, <2>10, OthersCount DEF Fewer
<1> QED BY <1>1, <1>3, <1>4, <1>5

\* A request that moves on takes a step off its call, which else stays as it is.
LEMMA MoveCounts ==
    ASSUME Typed, WaitsFit, NEW c \in Callers, NEW i \in Items, NEW s,
           req' = [req EXCEPT ![<<c, i>>] = s], Weight(s) < Weight(req[<<c, i>>]),
           OthersStay(c), call[c].state = "running", call'[c].state = "running",
           call'[c].attempt = call[c].attempt, call'[c].step = call[c].step,
           call'[c].total = call[c].total, call'[c].npl = call[c].npl
    PROVE Fewer(c)
<1>1. /\ req'[<<c, i>>] = s
      /\ \A j \in Items : j # i => req'[<<c, j>>] = req[<<c, j>>]
      /\ \A d \in Callers, j \in Items : d # c => req'[<<d, j>>] = req[<<d, j>>]
  BY OneMoves
<1>2. UnderWay(c)' = UnderWay(c) - Weight(req[<<c, i>>]) + Weight(s)
  BY <1>1, LoadMoves
<1>3. UnderWay(c) \in Nat /\ Weight(s) \in Nat /\ Weight(req[<<c, i>>]) \in Nat
  BY UnderWays DEF Weight
<1>4. InAttempt(call'[c]) = InAttempt(call[c])
  BY DEF InAttempt, Ahead
<1>5. StepsLeft(c)' = LaterAttempts(call[c].attempt) + InAttempt(call'[c]) + UnderWay(c)'
  BY DEF StepsLeft, StepsIn, LaterAttempts, PerAttempt, InAttempt, Ahead
<1>6. /\ StepsLeft(c) = LaterAttempts(call[c].attempt) + InAttempt(call[c]) + UnderWay(c)
      /\ LaterAttempts(call[c].attempt) \in Nat
  BY Counts
<1>7. InAttempt(call[c]) \in Nat
  BY Aheads DEF Typed, WaitsFit, WaitFits, CallRecord
<1>8. StepsLeft(c)' < StepsLeft(c)
  BY <1>2, <1>3, <1>4, <1>5, <1>6, <1>7
<1> QED BY <1>1, <1>8, OthersCount DEF Fewer

LEMMA OwnStepCounts ==
    ASSUME Inv, WaitsFit, Inv', WaitsFit', NEW c \in Callers, Call(c) \/ Step(c)
    PROVE Fewer(c)
<1>1. Typed /\ Typed' /\ call[c] \in CallRecord
  BY DEF Inv, Typed
<1>2. CASE Call(c)
  <2>1. StepsLeft(c) = PerAttempt + LaterAttempts(0) /\ 0 \in 0..Retries
    BY <1>1, <1>2, Counts, LadderAssumption DEF Call
  <2>2. CASE Launch(c, 0)
    BY <1>1, <2>1, <2>2, LaunchCounts
  <2>3. CASE Finish(c, "results") /\ req' = req
    <3>1. OthersStay(c) /\ Ends(c)
      BY <1>1, <2>3, Endings
    <3>2. StepsLeft(c)' = 0
      BY <3>1 DEF StepsLeft, StepsIn, Ends
    <3>3. StepsLeft(c) > 0
      <4>1. PerAttempt \in Nat /\ PerAttempt > 0 /\ LaterAttempts(0) \in Nat
        BY <2>1, Later, MaxRefsAssumption DEF PerAttempt
      <4> QED BY <2>1, <4>1
    <3>4. \A d \in Callers : d # c => StepsLeft(d)' = StepsLeft(d)
      BY <2>3, <3>1, OthersCount
    <3> QED BY <3>2, <3>3, <3>4 DEF Fewer
  <2> QED BY <1>2, <2>2, <2>3 DEF Call
<1>3. CASE Retry(c)
  <2>1. call[c].state = "waiting" /\ Launch(c, call[c].attempt + 1)
    BY <1>3 DEF Retry
  <2>2. call[c].attempt \in 0..Retries /\ call[c].attempt < Retries
    BY <1>1, <2>1 DEF Typed, OnItsLadder, CallRecord
  <2>3. StepsLeft(c) = PerAttempt + LaterAttempts(call[c].attempt + 1) /\ call[c].attempt + 1 \in 0..Retries
    <3>1. StepsLeft(c) = LaterAttempts(call[c].attempt)
      BY <1>1, <2>1, Counts
    <3>2. call[c].attempt + 1 \in 0..Retries
      BY <2>2, LadderAssumption
    <3>3. LaterAttempts(call[c].attempt) = LaterAttempts(call[c].attempt + 1) + PerAttempt
      BY <2>2, Later
    <3>4. LaterAttempts(call[c].attempt + 1) \in Nat /\ PerAttempt \in Nat
      BY <3>2, Later
    <3> QED BY <3>1, <3>2, <3>3, <3>4
  <2>4. \A attempt \in 0..Retries : Launch(c, attempt) /\ StepsLeft(c) = PerAttempt + LaterAttempts(attempt) => Fewer(c)
    BY <1>1, LaunchCounts
  <2> QED BY <2>1, <2>3, <2>4
<1>4. CASE SearchEnds(c) \/ Gather(c) \/ CitingSearched(c) \/ CitingListed(c) \/ Inquired(c) \/ PageFetched(c)
  BY <1>1, <1>4, Conclusions, ConclusionCounts
<1>5. CASE ResolveNpl(c)
  <2>1. Same(c) /\ call'[c].npl # "none" /\ call[c].npl = "none" /\ req' = req
    BY <1>1, <1>5, NplNotes DEF ResolveNpl
  <2>2. UnderWay(c)' = UnderWay(c)
    BY <2>1, LoadStays
  <2>3. InAttempt(call'[c]) = InAttempt(call[c]) - 1
    <3>1. Ahead(call'[c]) = Ahead(call[c]) /\ Ahead(call[c]) \in Int
      BY <1>1, <2>1, MaxRefsAssumption DEF Same, Ahead, CallRecord
    <3> QED BY <2>1, <3>1 DEF InAttempt
  <2>4. StepsLeft(c)' = LaterAttempts(call[c].attempt) + InAttempt(call'[c]) + UnderWay(c)'
    BY <2>1 DEF Same, StepsLeft, StepsIn, LaterAttempts, PerAttempt, InAttempt, Ahead
  <2>5. /\ StepsLeft(c) = LaterAttempts(call[c].attempt) + InAttempt(call[c]) + UnderWay(c)
        /\ LaterAttempts(call[c].attempt) \in Nat
    BY <1>1, <2>1, Counts DEF Same
  <2>6. InAttempt(call[c]) \in Nat /\ UnderWay(c) \in Nat
    BY UnderWays, Aheads DEF Inv, Typed, WaitsFit, WaitFits, CallRecord
  <2>7. StepsLeft(c)' < StepsLeft(c)
    BY <2>2, <2>3, <2>4, <2>5, <2>6
  <2> QED BY <2>1, <2>7, OthersCount DEF Fewer, Same
<1>6. CASE \E i \in Items : Request(c, i)
  <2>1. PICK i \in Items : Request(c, i)
    BY <1>6
  <2>2. Same(c) /\ call'[c].npl = call[c].npl
    BY <1>1, <2>1, AskNotes
  <2>3. PICK s \in {"asked"} \cup Refusals : req' = [req EXCEPT ![<<c, i>>] = s] /\ req[<<c, i>>] = "ready"
    BY <1>1, <2>1, AskMoves
  <2>4. Weight(s) < Weight(req[<<c, i>>])
    BY <2>3 DEF Weight, Refusals
  <2> QED BY <1>1, <2>2, <2>3, <2>4, MoveCounts DEF Same
<1>7. CASE \E i \in Items : Find(c, i)
  <2>1. PICK i \in Items : /\ req[<<c, i>>] = "ready" /\ req' = [req EXCEPT ![<<c, i>>] = "ok"]
                           /\ call' = call /\ call[c].state = "running"
    BY <1>7 DEF Find, Running
  <2>2. Weight("ok") < Weight(req[<<c, i>>])
    BY <2>1 DEF Weight
  <2> QED BY <1>1, <2>1, <2>2, MoveCounts DEF OthersStay
<1> QED BY <1>2, <1>3, <1>4, <1>5, <1>6, <1>7, Zenon DEF Step

LEMMA EpoCounts ==
    ASSUME Inv, WaitsFit, Epo
    PROVE \E c \in Callers : c = Head(line)[1] /\ Fewer(c)
<1>1. PICK c \in Callers, i \in Items, e \in Ended :
         /\ Head(line) = <<c, i>> /\ req[<<c, i>>] = "asked" /\ call[c].state = "running"
         /\ req' = [req EXCEPT ![<<c, i>>] = e] /\ call' = call
  BY EpoMoves
<1>2. Weight(e) < Weight(req[<<c, i>>])
  BY <1>1 DEF Weight, Ended, Refusals
<1>3. Fewer(c)
  BY <1>1, <1>2, MoveCounts DEF OthersStay, Inv
<1> QED BY <1>1, <1>3

AreCounted == \A c \in Callers : StepsLeft(c) \in Nat

LEMMA StepsCount ==
    ASSUME Inv, WaitsFit, Inv', WaitsFit', AreCounted', [Next]_vars PROVE CountsDown
<1>1. Typed /\ Typed'
  BY DEF Inv
<1>2. \A c \in Callers : StepsLeft(c) \in Nat /\ StepsLeft(c)' \in Nat
  <2>1. \A c \in Callers : StepsLeft(c) \in Nat
    BY <1>1, Counts
  <2>2. \A c \in Callers : StepsLeft(c)' \in Nat
    BY DEF AreCounted
  <2> QED BY <2>1, <2>2
<1>3. ASSUME NEW c \in Callers, Call(c) \/ Step(c) PROVE Fewer(c)
  BY <1>3, OwnStepCounts
<1>4. ASSUME Epo PROVE \E c \in Callers : c = Head(line)[1] /\ Fewer(c)
  BY <1>4, EpoCounts
<1>5. ASSUME Tick \/ UNCHANGED vars PROVE \A d \in Callers : StepsLeft(d)' = StepsLeft(d)
  <2>1. CASE Tick
    <3>1. req' = req
      BY <2>1 DEF Tick
    <3> QED BY <1>1, <2>1, <3>1, TicksAre, CountStays
  <2>2. CASE UNCHANGED vars
    BY <2>2, CountStays DEF vars
  <2> QED BY <1>5, <2>1, <2>2
<1>6. \A d \in Callers : StepsLeft(d)' <= StepsLeft(d)
  <2> SUFFICES ASSUME NEW d \in Callers PROVE StepsLeft(d)' <= StepsLeft(d)
    OBVIOUS
  <2>1. ASSUME NEW c \in Callers, Fewer(c) PROVE StepsLeft(d)' <= StepsLeft(d)
    BY <1>2, <2>1 DEF Fewer
  <2>2. (StepsLeft(d)' = StepsLeft(d)) => StepsLeft(d)' <= StepsLeft(d)
    BY <1>2
  <2> QED BY <1>3, <1>4, <1>5, <2>1, <2>2 DEF Next
<1>7. ASSUME NEW d \in Callers, Call(d) \/ Step(d) \/ (Epo /\ d = Head(line)[1]) PROVE StepsLeft(d)' < StepsLeft(d)
  BY <1>3, <1>4, <1>7 DEF Fewer
<1> QED BY <1>2, <1>6, <1>7 DEF CountsDown

\* No call runs for ever: each step of its own and each answer of EPO's to it uses
\* up one of a number of steps that is fixed when it begins, for every ladder and
\* every length of its sequence, and nothing that other calls or the light do
\* gives it back (with_epo_retry's bounded attempts over the loops of the tools).
THEOREM CallsRunDown == Spec => [][CountsDown]_vars
<1>1. Inv /\ WaitsFit => AreCounted
  BY Counts DEF Inv, AreCounted
<1>2. Inv /\ WaitsFit /\ Inv' /\ WaitsFit' /\ AreCounted' /\ [Next]_vars => [CountsDown]_vars
  BY StepsCount
<1> QED BY <1>1, <1>2, WaitsInvariant, PTL DEF Spec

-----------------------------------------------------------------------------
(* What "every retry genuinely re-probes" is true of. *)

\* The light is no longer trusted when a wait is over, and an attempt after the
\* first has been refused nothing before it has asked.
Reprobes(c) ==
    /\ call[c].state = "waiting" => age + call[c].wait > TTL
    /\ call[c].state = "running" /\ call[c].attempt > 0 /\ ~call[c].probed =>
          age > TTL /\ \A i \in Items : req[<<c, i>>] \notin {"asked"} \cup Refusals
    /\ (call[c].state = "waiting" \/ call[c].answer = "rate_limited") /\ call[c].attempt > 0 => call[c].probed

LEMMA ReprobesKept ==
    ASSUME Inv, WaitsFit, NEW c \in Callers, Callers = {c}, Reprobes(c), [Next]_vars
    PROVE Reprobes(c)'
<1>1. /\ Typed /\ call[c] \in CallRecord /\ OnItsLadder(call[c])
      /\ call[c].wait \in Nat /\ call[c].attempt \in Nat /\ age \in Nat
  BY LadderAssumption, TTLAssumption DEF Inv, Typed, ClientTypeOK, WaitsFit, WaitFits, CallRecord
<1>2. call[c].probed \in BOOLEAN
  BY <1>1 DEF CallRecord
<1>3. ASSUME /\ call'[c].state = "running" /\ call'[c].answer = "none"
             /\ call'[c].attempt > 0 /\ ~call'[c].probed =>
                  age' > TTL /\ \A i \in Items : req'[<<c, i>>] \notin {"asked"} \cup Refusals
      PROVE  Reprobes(c)'
  BY <1>3 DEF Reprobes
<1>4. CASE Call(c)
  <2>1. CASE Launch(c, 0)
    <3>1. call'[c].state = "running" /\ call'[c].attempt = 0 /\ call'[c].answer = "none"
      BY <1>1, <2>1, FirstSteps
    <3> QED BY <1>3, <3>1
  <2>2. CASE Finish(c, "results") /\ req' = req
    <3>1. Ends(c) /\ call'[c].answer = "results"
      BY <1>1, <2>2, Endings
    <3> QED BY <3>1 DEF Ends, Reprobes
  <2> QED BY <1>4, <2>1, <2>2 DEF Call
<1>5. CASE Retry(c)
  <2>1. /\ call[c].state = "waiting" /\ call[c].wait = 0 /\ Launch(c, call[c].attempt + 1) /\ age' = age
    BY <1>5 DEF Retry, Unasked
  <2>2. age > TTL
    BY <1>1, <2>1, TTLAssumption DEF Reprobes
  <2>3. \A i \in Items : req'[<<c, i>>] \in {"none", "ok", "ready"}
    <3>1. \A i \in Items : req'[<<c, i>>] = Started(c)[i]
      BY <1>1, <2>1, FirstSteps
    <3> QED BY <1>1, <3>1, Starts
  <2>4. call'[c].state = "running" /\ call'[c].answer = "none"
    BY <1>1, <2>1, FirstSteps
  <2> QED BY <1>3, <2>1, <2>2, <2>3, <2>4 DEF Refusals
<1>6. CASE SearchEnds(c) \/ Gather(c) \/ CitingSearched(c) \/ CitingListed(c) \/ Inquired(c) \/ PageFetched(c)
  <2>1. Concludes(c) /\ age' = age
    BY <1>6, Conclusions
  <2>2. /\ Ends(c) \/ (Waits(c) /\ call[c].attempt < Retries) \/ GoesOn(c)
        /\ Waits(c) \/ call'[c].answer = "rate_limited" => \E i \in Own(c) : req[<<c, i>>] \in Refusals
    BY <1>1, <2>1, ConclusionCases
  <2>3. call[c].state = "running" /\ call[c].answer = "none"
    BY <1>1, <2>1 DEF Concludes, OnItsLadder
  <2>4. (\E i \in Own(c) : req[<<c, i>>] \in Refusals) /\ call[c].attempt > 0 => call[c].probed
    <3>1. Own(c) \subseteq Items
      BY <1>1, Owned
    <3> QED BY <2>3, <3>1 DEF Reprobes
  <2>5. CASE Ends(c)
    BY <2>2, <2>4, <2>5 DEF Ends, Reprobes
  <2>6. CASE Waits(c)
    <3> DEFINE w == Delay * 2 ^ call[c].attempt
    <3>1. w \in Nat /\ w >= Delay
      BY <1>1, LongWaits
    <3>2. call'[c].state = "waiting" /\ call'[c].wait = w /\ call'[c].attempt = call[c].attempt
          /\ call'[c].probed = call[c].probed
      BY <2>6 DEF Waits
    <3> HIDE DEF w
    <3>3. age' + call'[c].wait > TTL
      BY <1>1, <2>1, <3>1, <3>2, LadderAssumption, TTLAssumption
    <3> QED BY <2>2, <2>4, <2>6, <3>2, <3>3 DEF Reprobes
  <2>7. CASE GoesOn(c)
    <3>1. /\ call'[c].state = "running" /\ call'[c].answer = "none"
          /\ call'[c].attempt = call[c].attempt /\ call'[c].probed = call[c].probed
      BY <2>3, <2>7 DEF GoesOn
    <3>2. PICK i \in Items : req' = [req EXCEPT ![<<c, i>>] = "ready"]
      BY <2>7, ItemsAre DEF GoesOn
    <3>3. \A j \in Items : req'[<<c, j>>] = "ready" \/ req'[<<c, j>>] = req[<<c, j>>]
      BY <1>1, <3>2, OneMoves
    <3> QED BY <1>3, <2>1, <2>3, <3>1, <3>3 DEF Reprobes, Refusals
  <2> QED BY <2>2, <2>5, <2>6, <2>7
<1>7. CASE ResolveNpl(c)
  <2>1. Same(c) /\ call'[c].probed = call[c].probed /\ UNCHANGED <<req, age>>
    BY <1>1, <1>7, NplNotes DEF ResolveNpl, Unasked
  <2> QED BY <2>1 DEF Same, Reprobes
<1>8. CASE \E i \in Items : Request(c, i)
  <2>1. PICK i \in Items : Request(c, i)
    BY <1>8
  <2>2. Same(c) /\ call'[c].probed = (call[c].probed \/ line' # line)
    BY <1>1, <2>1, AskNotes
  <2>3. PICK s \in {"asked"} \cup Refusals :
           /\ s = "asked" => ~Throttled(Billed[i]) /\ line' # line
           /\ s # "asked" => Throttled(Billed[i])
    BY <1>1, <2>1, AskMoves
  <2>4. call[c].attempt > 0 => call'[c].probed
    <3>1. CASE s = "asked"
      BY <2>2, <2>3, <3>1
    <3>2. CASE s # "asked"
      <4>1. ~(age > TTL)
        BY <1>1, <2>3, <3>2, TTLAssumption DEF Throttled
      <4> QED BY <1>2, <2>2, <4>1 DEF Reprobes, Same
    <3> QED BY <3>1, <3>2
  <2>5. call'[c].answer = "none"
    BY <1>1, <2>2 DEF Same, OnItsLadder
  <2> QED BY <1>3, <2>2, <2>4, <2>5 DEF Same
<1>9. CASE \E i \in Items : Find(c, i)
  <2>1. PICK i \in Items : Find(c, i)
    BY <1>9
  <2>2. /\ call' = call /\ age' = age /\ req' = [req EXCEPT ![<<c, i>>] = "ok"]
        /\ call[c].state = "running"
    BY <2>1 DEF Find, Unasked, Running
  <2>3. \A j \in Items : req'[<<c, j>>] = "ok" \/ req'[<<c, j>>] = req[<<c, j>>]
    BY <1>1, <2>2, OneMoves
  <2> QED BY <2>2, <2>3 DEF Reprobes, Refusals
<1>10. CASE Epo
  <2>1. \E i \in Items : req[<<c, i>>] = "asked" /\ call[c].state = "running" /\ call' = call
    BY <1>10, EpoMoves
  <2>2. call[c].attempt > 0 => call[c].probed
    BY <2>1 DEF Reprobes
  <2>3. call[c].answer = "none"
    BY <1>1, <2>1 DEF OnItsLadder
  <2> QED BY <1>3, <2>1, <2>2, <2>3
<1>11. CASE Tick
  <2>1. req' = req /\ age' = IF age > TTL THEN age ELSE age + 1
    BY <1>11 DEF Tick, Ages
  <2>2. /\ call'[c].state = call[c].state /\ call'[c].attempt = call[c].attempt
        /\ call'[c].wait = IF call[c].wait > 0 THEN call[c].wait - 1 ELSE call[c].wait
        /\ call'[c].probed = call[c].probed /\ call'[c].answer = call[c].answer
    BY <1>1, <1>11, TicksAre
  <2>3. call[c].state = "waiting" => age' + call'[c].wait > TTL
    BY <1>1, <2>1, <2>2, TTLAssumption DEF Reprobes
  <2>4. age > TTL => age' > TTL
    BY <1>1, <2>1, TTLAssumption
  <2> QED BY <2>1, <2>2, <2>3, <2>4 DEF Reprobes
<1>12. CASE UNCHANGED vars
  BY <1>12 DEF vars, Reprobes
<1>13. Step(c) => \/ Retry(c) \/ ResolveNpl(c)
                  \/ SearchEnds(c) \/ Gather(c) \/ CitingSearched(c) \/ CitingListed(c) \/ Inquired(c) \/ PageFetched(c)
                  \/ (\E i \in Items : Request(c, i)) \/ (\E i \in Items : Find(c, i))
  BY Zenon DEF Step
<1>14. Next => Call(c) \/ Step(c) \/ Epo \/ Tick
  BY DEF Next
<1> QED BY <1>4, <1>5, <1>6, <1>7, <1>8, <1>9, <1>10, <1>11, <1>12, <1>13, <1>14

\* While no other call renews the light, the comment of with_epo_retry is right:
\* no attempt but the first ends in a throttle that EPO was not asked about
\* (_epo_client.py:220).  It is a second call that can break it.
THEOREM AloneEveryRetryReprobes ==
    ASSUME NEW c, Callers = {c}
    PROVE Spec => []EveryRetryReprobes
<1>1. c \in Callers
  OBVIOUS
<1>2. Init => Reprobes(c)
  <2>1. Init => call[c] = New
    BY <1>1 DEF Init
  <2> QED BY <2>1 DEF New, Reprobes
<1>3. Inv /\ WaitsFit /\ Reprobes(c) /\ [Next]_vars => Reprobes(c)'
  BY <1>1, ReprobesKept
<1>4. Reprobes(c) => EveryRetryReprobes
  BY DEF Reprobes, EveryRetryReprobes
<1> QED BY <1>2, <1>3, <1>4, WaitsInvariant, PTL DEF Spec
=============================================================================
