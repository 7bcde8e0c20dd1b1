---------------------------- MODULE ServiceProofs ----------------------------
(***************************************************************************)
(* Proofs about the gate that spaces requests to Semantic Scholar (S2Gate), *)
(* the calls of the tools that use it (S2Jobs) and the service that is      *)
(* started and stopped around them (ServiceLifecycle): for any callers,     *)
(* contexts, times, deadlines, thresholds and numbers of starts.            *)
(***************************************************************************)
EXTENDS S2Gate, S2Jobs, ServiceLifecycle, TLAPS

-----------------------------------------------------------------------------
(* The gate: requests are spaced and held back, throttled work ends before    *)
(* its job record, and a refusal is told only when all attempts are used up.  *)


\* Setting the throttle event of a caller's context keeps both context
\* variables well typed.
LEMMA NotifyTyped ==
    ASSUME TypeOK, TimesAssumption, NEW c, Notify(c)
    PROVE  /\ throttled' \in [Contexts -> BOOLEAN]
           /\ record' \in [Contexts -> 0..RecordTTL]
<1>1. throttled' \in [Contexts -> BOOLEAN]
  <2>1. \A x \in Contexts : (throttled[x] \/ x = ContextOf[c]) \in BOOLEAN
    OBVIOUS
  <2>2. QED
    BY <2>1, Zenon DEF Notify
<1>2. record' \in [Contexts -> 0..RecordTTL]
  BY DEF Notify, TypeOK, TimesAssumption
<1>3. QED
  BY <1>1, <1>2

\* The state of the gate is well typed in every reachable state.
THEOREM GateTypeCorrect == Spec => []TypeOK
<1> USE CallersAssumption, TimesAssumption DEF Outcomes, HasContext
<1>1. Init => TypeOK
  BY DEF Init, TypeOK
<1>2. TypeOK /\ [Next]_vars => TypeOK'
  <2> SUFFICES ASSUME TypeOK, [Next]_vars PROVE TypeOK'
    OBVIOUS
  <2> USE DEF TypeOK
  <2>1. CASE Tick
    BY <2>1 DEF Tick, Less1
  <2>2. ASSUME NEW c \in Callers, RequestTooLate(c) PROVE TypeOK'
    BY <2>2 DEF RequestTooLate, Request, Finish
  <2>3. ASSUME NEW c \in Callers, RequestEnters(c) PROVE TypeOK'
    <3>0. Throttled(c) \in BOOLEAN
      BY DEF Throttled
    <3>1. CASE LetThrough(c)
      BY <2>3, <3>0, <3>1 DEF RequestEnters, Request, LetThrough
    <3>2. CASE Park(c)
      BY <2>3, <3>0, <3>2, NotifyTyped DEF RequestEnters, Request, Park, Larger
    <3>3. QED
      BY <2>3, <3>1, <3>2 DEF RequestEnters, Acquire
  <2>4. ASSUME NEW c \in Callers, Wake(c) PROVE TypeOK'
    <3>1. CASE LetThrough(c)
      BY <2>4, <3>1 DEF Wake, LetThrough
    <3>2. CASE Park(c)
      BY <2>4, <3>2, NotifyTyped DEF Wake, Park, Larger
    <3>3. QED
      BY <2>4, <3>1, <3>2 DEF Wake, Acquire
  <2>5. ASSUME NEW c \in Callers, WaitTimesOut(c) PROVE TypeOK'
    BY <2>5 DEF WaitTimesOut, Finish
  <2>6. ASSUME NEW c \in Callers, Return(c) PROVE TypeOK'
    <3>1. ASSUME NEW how \in {"ok", "error"}, Answered(c, how) PROVE TypeOK'
      BY <3>1 DEF Answered, Finish
    <3>2. CASE RefusedForGood(c)
      BY <3>2 DEF RefusedForGood, Refused, Cooldown, Finish, Larger, Smaller
    <3>3. CASE RefusedDirect(c)
      BY <3>3 DEF RefusedDirect, Refused, Cooldown, Larger, Smaller
    <3>4. CASE RefusedInContext(c)
      <4>1. /\ throttled' \in [Contexts -> BOOLEAN]
            /\ record' \in [Contexts -> 0..RecordTTL]
        BY <3>4, NotifyTyped DEF RefusedInContext
      <4>2. /\ hold' \in 0..MaxBackoff
            /\ owed' \in [Callers -> 0..MaxBackoff]
            /\ backoff' \in [Callers -> 1..MaxBackoff]
            /\ UNCHANGED <<spacing, attempt, left, age>>
        BY <3>4 DEF RefusedInContext, Refused, Cooldown, Larger, Smaller
      <4>3. /\ pc' \in [Callers -> {"idle", "sleeping", "calling"}]
            /\ timer' \in [Callers -> Nat]
            /\ timed' \in [Callers -> BOOLEAN]
            /\ outcome' \in [Callers -> Outcomes]
        <5>1. CASE left[ContextOf[c]] <= 0
          <6>1. Finish(c, "deadline")
            BY <3>4, <5>1, Zenon DEF RefusedInContext
          <6>2. QED
            BY <6>1 DEF Finish
        <5>2. CASE ~(left[ContextOf[c]] <= 0)
          <6>1. Larger(spacing, hold') \in Nat
            BY <4>2 DEF Larger
          <6>2. /\ pc' = [pc EXCEPT ![c] = "sleeping"]
                /\ timer' = [timer EXCEPT ![c] = Larger(spacing, hold')]
                /\ timed' = [timed EXCEPT ![c] = TRUE]
                /\ UNCHANGED outcome
            BY <3>4, <5>2, Zenon DEF RefusedInContext
          <6>3. QED
            BY <6>1, <6>2
        <5>3. QED
          BY <5>1, <5>2
      <4>4. QED
        BY <4>1, <4>2, <4>3
    <3>5. CASE ProbeRefused(c)
      BY <3>5 DEF ProbeRefused, Cooldown, Finish, Larger
    <3>6. QED
      BY <2>6, <3>1, <3>2, <3>3, <3>4, <3>5 DEF Return
  <2>7. CASE UNCHANGED vars
    BY <2>7 DEF vars
  <2>8. QED
    BY <2>1, <2>2, <2>3, <2>4, <2>5, <2>6, <2>7 DEF Next
<1>3. QED
  BY <1>1, <1>2, PTL DEF Spec

-----------------------------------------------------------------------------
\* Only acquire starts a request, and only through an open gate.
LEMMA StartsThroughOpenGate ==
    ASSUME TypeOK, Next, NEW c \in Callers, Starts(c)
    PROVE  spacing = 0 /\ hold = 0
<1> USE DEF TypeOK, Starts
<1>1. CASE Tick
  BY <1>1 DEF Tick
<1>2. ASSUME NEW d \in Callers, RequestTooLate(d) PROVE FALSE
  BY <1>2 DEF RequestTooLate, Finish
<1>3. ASSUME NEW d \in Callers, RequestEnters(d) \/ Wake(d)
      PROVE  spacing = 0 /\ hold = 0
  <2>1. CASE LetThrough(d)
    BY <2>1 DEF LetThrough
  <2>2. CASE Park(d)
    BY <2>2 DEF Park
  <2>3. QED
    BY <1>3, <2>1, <2>2 DEF RequestEnters, Wake, Acquire
<1>4. ASSUME NEW d \in Callers, WaitTimesOut(d) PROVE FALSE
  BY <1>4 DEF WaitTimesOut, Finish
<1>5. ASSUME NEW d \in Callers, Return(d) PROVE FALSE
  <2>1. ASSUME NEW how, Answered(d, how) PROVE FALSE
    BY <2>1 DEF Answered, Finish
  <2>2. CASE RefusedForGood(d)
    BY <2>2 DEF RefusedForGood, Finish
  <2>3. CASE RefusedDirect(d)
    BY <2>3 DEF RefusedDirect
  <2>4. CASE RefusedInContext(d)
    BY <2>4 DEF RefusedInContext, Finish
  <2>5. CASE ProbeRefused(d)
    BY <2>5 DEF ProbeRefused, Finish
  <2>6. QED
    BY <1>5, <2>1, <2>2, <2>3, <2>4, <2>5 DEF Return
<1>6. QED
  BY <1>1, <1>2, <1>3, <1>4, <1>5 DEF Next

\* spacing and age count the same time, and every backoff still owed is
\* covered by the shared cooldown.
LEMMA ClocksAgree == Spec => [](SpacingInv /\ OwedInv)
<1> USE TimesAssumption DEF SpacingInv, OwedInv
<1>1. Init => SpacingInv /\ OwedInv
  BY DEF Init
<1>2. TypeOK /\ SpacingInv /\ OwedInv /\ [Next]_vars
      => (SpacingInv /\ OwedInv)'
  <2> SUFFICES ASSUME TypeOK, SpacingInv, OwedInv, [Next]_vars
               PROVE  (SpacingInv /\ OwedInv)'
    OBVIOUS
  <2> USE DEF TypeOK
  <2>1. CASE Tick
    BY <2>1 DEF Tick, Less1
  <2>2. ASSUME NEW c \in Callers, RequestTooLate(c)
        PROVE (SpacingInv /\ OwedInv)'
    BY <2>2 DEF RequestTooLate, Request
  <2>3. ASSUME NEW c \in Callers, RequestEnters(c) \/ Wake(c)
        PROVE (SpacingInv /\ OwedInv)'
    <3>1. UNCHANGED <<hold, owed>>
      BY <2>3 DEF RequestEnters, Request, Wake, Acquire, LetThrough, Park
    <3>2. \/ spacing = 0 /\ spacing' = Delay /\ age' = 0
          \/ UNCHANGED <<spacing, age>>
      BY <2>3 DEF RequestEnters, Wake, Acquire, LetThrough, Park
    <3>3. QED
      BY <3>1, <3>2
  <2>4. ASSUME NEW c \in Callers, WaitTimesOut(c)
        PROVE (SpacingInv /\ OwedInv)'
    BY <2>4 DEF WaitTimesOut
  <2>5. ASSUME NEW c \in Callers, Return(c)
        PROVE (SpacingInv /\ OwedInv)'
    <3>1. ASSUME NEW how, Answered(c, how) PROVE (SpacingInv /\ OwedInv)'
      BY <3>1 DEF Answered
    <3>2. ASSUME NEW wait \in 1..MaxBackoff, Cooldown(c, wait),
                 UNCHANGED <<spacing, age>>
          PROVE  (SpacingInv /\ OwedInv)'
      BY <3>2 DEF Cooldown, Larger
    <3>3. CASE Refused(c)
      BY <3>2, <3>3 DEF Refused
    <3>4. CASE ProbeRefused(c)
      BY <3>2, <3>4 DEF ProbeRefused
    <3>5. QED
      BY <2>5, <3>1, <3>3, <3>4 DEF Return, RefusedForGood, RefusedDirect,
                                    RefusedInContext
  <2>6. CASE UNCHANGED vars
    BY <2>6 DEF vars
  <2>7. QED
    BY <2>1, <2>2, <2>3, <2>4, <2>5, <2>6 DEF Next
<1>3. QED
  BY <1>1, <1>2, GateTypeCorrect, PTL DEF Spec

\* No request starts less than Delay after another, nor before every backoff
\* that S2 was promised is over (RateLimiter.acquire, RateLimiter.cooldown).
THEOREM StartsArePaced == Spec => StartsPaced
<1>1. TypeOK /\ SpacingInv /\ [Next]_vars
      => [\A c \in Callers : Starts(c) => age = Delay]_vars
  BY StartsThroughOpenGate, TimesAssumption DEF SpacingInv, TypeOK
<1>2. TypeOK /\ OwedInv /\ [Next]_vars
      => [\A c \in Callers : Starts(c) => \A d \in Callers : owed[d] = 0]_vars
  BY StartsThroughOpenGate DEF OwedInv, TypeOK
<1>3. TypeOK /\ SpacingInv /\ OwedInv /\ [Next]_vars
      => [\A c \in Callers : Starts(c) => age = Delay /\ \A d \in Callers : owed[d] = 0]_vars
  BY <1>1, <1>2
<1>4. QED
  BY <1>3, ClocksAgree, GateTypeCorrect, PTL DEF Spec, StartsPaced

-----------------------------------------------------------------------------
\* Notify keeps throttled contexts as they are, and gives a context it
\* throttles a fresh record.
LEMMA NotifyEffect ==
    ASSUME TypeOK, TimesAssumption, NEW c, Notify(c), NEW x \in Contexts
    PROVE  /\ throttled[x] => throttled'[x] /\ record'[x] = record[x]
           /\ throttled'[x] => throttled[x] \/ record'[x] = RecordTTL
           /\ x = ContextOf[c] => throttled'[x]
BY DEF Notify, TypeOK

\* The job record of a throttled body outlives its bounded work.
LEMMA RecordInductive == Spec => []RecordInv
<1> USE CallersAssumption, TimesAssumption
<1>1. Init => RecordInv
  BY DEF Init, RecordInv
<1>2. TypeOK /\ RecordInv /\ [Next]_vars => RecordInv'
  <2> SUFFICES ASSUME TypeOK, RecordInv, [Next]_vars PROVE RecordInv'
    OBVIOUS
  <2> USE DEF TypeOK, RecordInv, Throttled, HasContext
  <2>1. CASE Tick
    BY <2>1 DEF Tick, Less1, Due
  <2>2. ASSUME NEW c \in Callers, RequestTooLate(c) PROVE RecordInv'
    BY <2>2 DEF RequestTooLate, Request, Finish
  <2>3. ASSUME NEW c \in Callers, RequestEnters(c) \/ Wake(c)
        PROVE RecordInv'
    <3>1. /\ UNCHANGED left
          /\ timed' = timed \/ timed' = [timed EXCEPT ![c] = Throttled(c)]
          /\ timed'[c] => Throttled(c) /\ left[ContextOf[c]] >= 0
      BY <2>3 DEF RequestEnters, Request, Wake
    <3>2. CASE LetThrough(c)
      BY <3>1, <3>2 DEF LetThrough
    <3>3. CASE Park(c)
      <4>1. \A x \in Contexts :
               /\ throttled[x] => throttled'[x] /\ record'[x] = record[x]
               /\ throttled'[x] => throttled[x] \/ record'[x] = RecordTTL
        BY <3>3, NotifyEffect DEF Park
      <4>2. QED
        BY <3>1, <3>3, <4>1 DEF Park
    <3>4. QED
      BY <2>3, <3>2, <3>3 DEF RequestEnters, Wake, Acquire
  <2>4. ASSUME NEW c \in Callers, WaitTimesOut(c) PROVE RecordInv'
    BY <2>4 DEF WaitTimesOut, Finish
  <2>5. ASSUME NEW c \in Callers, Return(c) PROVE RecordInv'
    <3>1. ASSUME NEW how \in {"ok", "error"}, Answered(c, how)
          PROVE RecordInv'
      BY <3>1 DEF Answered, Finish
    <3>2. CASE RefusedForGood(c)
      BY <3>2 DEF RefusedForGood, Refused, Finish
    <3>3. CASE RefusedDirect(c)
      BY <3>3 DEF RefusedDirect, Refused
    <3>4. CASE RefusedInContext(c)
      <4>1. /\ UNCHANGED left
            /\ HasContext(c)
            /\ \A x \in Contexts :
                 /\ throttled[x] => throttled'[x] /\ record'[x] = record[x]
                 /\ throttled'[x] => throttled[x] \/ record'[x] = RecordTTL
                 /\ x = ContextOf[c] => throttled'[x]
        BY <3>4, NotifyEffect DEF RefusedInContext, Refused
      <4>2. CASE left[ContextOf[c]] <= 0
        <5>1. Finish(c, "deadline")
          BY <3>4, <4>2, Zenon DEF RefusedInContext
        <5>2. QED
          BY <4>1, <5>1 DEF Finish
      <4>3. CASE ~(left[ContextOf[c]] <= 0)
        <5>1. /\ pc' = [pc EXCEPT ![c] = "sleeping"]
              /\ timer' = [timer EXCEPT ![c] = Larger(spacing, hold')]
              /\ timed' = [timed EXCEPT ![c] = TRUE]
          BY <3>4, <4>3, Zenon DEF RefusedInContext
        <5>2. QED
          BY <4>1, <4>3, <5>1
      <4>4. QED
        BY <4>2, <4>3
    <3>5. CASE ProbeRefused(c)
      BY <3>5 DEF ProbeRefused, Finish
    <3>6. QED
      BY <2>5, <3>1, <3>2, <3>3, <3>4, <3>5 DEF Return
  <2>6. CASE UNCHANGED vars
    BY <2>6 DEF vars
  <2>7. QED
    BY <2>1, <2>2, <2>3, <2>4, <2>5, <2>6 DEF Next
<1>3. QED
  BY <1>1, <1>2, GateTypeCorrect, PTL DEF Spec

\* Whatever entered the gate after its body was throttled is settled while
\* the body's job record exists.
THEOREM BoundedWorkIsInTime == Spec => []BoundedWorkBeatsRecord
<1>1. TypeOK /\ RecordInv => BoundedWorkBeatsRecord
  BY CallersAssumption, TimesAssumption
     DEF TypeOK, RecordInv, BoundedWorkBeatsRecord, Throttled, HasContext
<1>2. QED
  BY <1>1, RecordInductive, GateTypeCorrect, PTL

-----------------------------------------------------------------------------
\* A caller in acquire sleeps no longer than the gate is shut, and a request no
\* longer than an HTTP call may last.
SleepInv ==
    \A c \in Callers : /\ pc[c] = "sleeping" => timer[c] <= Larger(spacing, hold)
                       /\ pc[c] = "calling" => timer[c] <= CallLimit

\* Once the gate is open whoever sleeps is due, however long the cooldown was when
\* it lay down, and no sleep is longer than the longest backoff or the spacing.
NobodyOversleeps ==
    \A c \in Callers : pc[c] = "sleeping" =>
        /\ spacing = 0 /\ hold = 0 => Due(c)
        /\ timer[c] <= Larger(Delay, MaxBackoff)

LEMMA SleepKeeps ==
    ASSUME TypeOK, TimesAssumption, SleepInv, [Next]_vars
    PROVE  SleepInv'
<1> USE DEF TypeOK, SleepInv, TimesAssumption
<1>1. CASE Tick
  <2>1. /\ spacing \in Nat /\ hold \in Nat /\ timer \in [Callers -> Nat] /\ CallLimit \in Nat
        /\ pc' = pc /\ spacing' = Less1(spacing) /\ hold' = Less1(hold)
        /\ \A c \in Callers : timer'[c] = Less1(timer[c])
    BY <1>1 DEF Tick
  <2> QED BY <2>1 DEF Less1, Larger
<1>2. ASSUME NEW c \in Callers, LetThrough(c) \/ Park(c), UNCHANGED hold
      PROVE  SleepInv'
  <2>1. CASE LetThrough(c)
    BY <1>2, <2>1 DEF LetThrough, Larger
  <2>2. CASE Park(c)
    BY <1>2, <2>2 DEF Park, Larger
  <2> QED BY <1>2, <2>1, <2>2
<1>3. ASSUME NEW c \in Callers, NEW how, Finish(c, how), spacing' = spacing, hold' \in Nat, hold' >= hold
      PROVE  SleepInv'
  BY <1>3 DEF Finish, Larger
<1>4. ASSUME NEW c \in Callers, RequestTooLate(c) \/ RequestEnters(c) \/ Wake(c) \/ WaitTimesOut(c)
      PROVE  SleepInv'
  <2>1. CASE RequestTooLate(c)
    BY <1>3, <2>1 DEF RequestTooLate
  <2>2. CASE RequestEnters(c) \/ Wake(c)
    BY <1>2, <2>2 DEF RequestEnters, Wake, Acquire, LetThrough, Park
  <2>3. CASE WaitTimesOut(c)
    BY <1>3, <2>3 DEF WaitTimesOut
  <2> QED BY <1>4, <2>1, <2>2, <2>3
<1>5. ASSUME NEW c \in Callers, NEW wait \in 1..MaxBackoff, Cooldown(c, wait)
      PROVE  hold' \in Nat /\ hold' >= hold
  BY <1>5 DEF Cooldown, Larger
<1>6. ASSUME NEW c \in Callers, Refused(c)
      PROVE  hold' \in Nat /\ hold' >= hold /\ spacing' = spacing
  BY <1>5, <1>6 DEF Refused
<1>7. ASSUME NEW c \in Callers, Refused(c), pc' = [pc EXCEPT ![c] = "sleeping"],
             timer' = [timer EXCEPT ![c] = Larger(spacing, hold')]
      PROVE  SleepInv'
  BY <1>6, <1>7 DEF Larger
<1>8. ASSUME NEW c \in Callers, Return(c)
      PROVE  SleepInv'
  <2>1. CASE Answered(c, "ok") \/ Answered(c, "error")
    BY <1>3, <2>1 DEF Answered
  <2>2. CASE RefusedForGood(c)
    BY <1>3, <1>6, <2>2 DEF RefusedForGood
  <2>3. CASE RefusedDirect(c)
    BY <1>7, <2>3 DEF RefusedDirect
  <2>4. CASE RefusedInContext(c)
    BY <1>3, <1>6, <1>7, <2>4 DEF RefusedInContext
  <2>5. CASE ProbeRefused(c)
    BY <1>3, <1>5, <2>5 DEF ProbeRefused
  <2> QED BY <1>8, <2>1, <2>2, <2>3, <2>4, <2>5 DEF Return
<1>9. CASE UNCHANGED vars
  BY <1>9 DEF vars
<1> QED BY <1>1, <1>4, <1>8, <1>9 DEF Next

\* No wake-up at the gate is missed: when spacing and cooldown are over, everyone who
\* sleeps in RateLimiter.acquire is due to look at it again, in whatever order
\* requests were let through and refused since it lay down.
THEOREM GateWakesAll == Spec => []NobodyOversleeps
<1>1. Init => SleepInv
  <2> SUFFICES ASSUME Init PROVE SleepInv
    OBVIOUS
  <2>1. \A c \in Callers : pc[c] = "idle"
    BY DEF Init
  <2> QED BY <2>1 DEF SleepInv
<1>2. TypeOK /\ SleepInv /\ [Next]_vars => SleepInv'
  BY TimesAssumption, SleepKeeps
<1>3. TypeOK /\ SleepInv => NobodyOversleeps
  BY TimesAssumption DEF TypeOK, SleepInv, NobodyOversleeps, Due, Larger
<1>4. QED
  BY <1>1, <1>2, <1>3, GateTypeCorrect, PTL DEF Spec

-----------------------------------------------------------------------------
\* A refusal reaches a caller only when it is earned
\* (with_s2_retry).
THEOREM RefusalsEarned == Spec => []RefusalsAreEarned
<1> USE CallersAssumption, TimesAssumption DEF RefusalsAreEarned, HasContext,
        Throttled
<1>1. Init => RefusalsAreEarned
  BY DEF Init
<1>2. TypeOK /\ RecordInv /\ RefusalsAreEarned /\ [Next]_vars
      => RefusalsAreEarned'
  <2> SUFFICES ASSUME TypeOK, RecordInv, RefusalsAreEarned, [Next]_vars
               PROVE  RefusalsAreEarned'
    OBVIOUS
  <2> USE DEF TypeOK
  <2>1. CASE Tick
    BY <2>1 DEF Tick
  <2>2. ASSUME NEW c \in Callers, RequestTooLate(c) PROVE RefusalsAreEarned'
    BY <2>2 DEF RequestTooLate, Request, Finish
  <2>3. ASSUME NEW c \in Callers, RequestEnters(c) \/ Wake(c)
        PROVE RefusalsAreEarned'
    <3>1. /\ UNCHANGED <<outcome, left>>
          /\ \A d \in Callers : d # c => attempt'[d] = attempt[d]
          /\ outcome[c] # "deadline" \/ attempt' = attempt
      BY <2>3 DEF RequestEnters, Request, Wake
    <3>2. CASE LetThrough(c)
      BY <2>3, <3>1, <3>2 DEF LetThrough
    <3>3. CASE Park(c)
      BY <2>3, <3>1, <3>3 DEF Park, Notify
    <3>4. QED
      BY <2>3, <3>2, <3>3 DEF RequestEnters, Wake, Acquire
  <2>4. ASSUME NEW c \in Callers, WaitTimesOut(c) PROVE RefusalsAreEarned'
    BY <2>4 DEF WaitTimesOut, Finish, RecordInv
  <2>5. ASSUME NEW c \in Callers, Return(c) PROVE RefusalsAreEarned'
    <3>1. ASSUME NEW how \in {"ok", "error"}, Answered(c, how)
          PROVE RefusalsAreEarned'
      BY <3>1 DEF Answered, Finish
    <3>2. CASE RefusedForGood(c)
      BY <3>2 DEF RefusedForGood, Refused, Finish
    <3>3. CASE RefusedDirect(c)
      BY <3>3 DEF RefusedDirect, Refused
    <3>4. CASE RefusedInContext(c)
      <4>1. /\ left' = left /\ attempt' = attempt /\ ContextOf[c] \in Contexts
            /\ throttled' = [x \in Contexts |-> throttled[x] \/ x = ContextOf[c]]
        BY <3>4 DEF RefusedInContext, Refused, Notify
      <4>2. \A d \in Callers : Throttled(d) => Throttled(d)'
        BY <4>1
      <4>3. \A d \in Callers : d # c => outcome'[d] = outcome[d] /\ pc'[d] = pc[d]
        BY <3>4 DEF RefusedInContext, Finish
      <4>4. ASSUME NEW d \in Callers, d # c
            PROVE  /\ outcome'[d] = "http429" /\ pc'[d] = "idle" =>
                         ~HasContext(d) /\ attempt'[d] = MaxRetries
                   /\ outcome'[d] = "deadline" => Throttled(d)' /\ left'[ContextOf[d]] <= 0
        BY <4>1, <4>2, <4>3, <4>4
      <4>5. Throttled(c)'
        BY <3>4, <4>1 DEF RefusedInContext
      <4>6. /\ outcome'[c] = "deadline" => left[ContextOf[c]] <= 0
            /\ ~(outcome'[c] = "http429" /\ pc'[c] = "idle")
        BY <3>4 DEF RefusedInContext, Finish
      <4> QED BY <4>1, <4>4, <4>5, <4>6
    <3>5. CASE ProbeRefused(c)
      BY <3>5 DEF ProbeRefused, Finish
    <3>6. QED
      BY <2>5, <3>1, <3>2, <3>3, <3>4, <3>5 DEF Return
  <2>6. CASE UNCHANGED vars
    BY <2>6 DEF vars
  <2>7. QED
    BY <2>1, <2>2, <2>3, <2>4, <2>5, <2>6 DEF Next
<1>3. QED
  BY <1>1, <1>2, RecordInductive, GateTypeCorrect, PTL DEF Spec

-----------------------------------------------------------------------------
(* Calls: no tool body is orphaned, its answer reaches its caller, and one    *)
(* call implements the promise of ToolPromise, for every soft deadline.       *)

\* The wrapper, its tasks and its job record are well typed, and where the
\* wrapper is tells what has become of the body.
THEOREM TypeAndShape == JobsSpec => [](JobsTypeOK /\ Shape)
<1> USE SoftDeadlineAssumption DEF Ended, Over
<1>1. JobsInit => JobsTypeOK /\ Shape
  <2>1. JobsInit => Shape
    BY DEF JobsInit, Shape
  <2>2. JobsInit => cancelled \in BOOLEAN /\ slowed \in BOOLEAN
    BY DEF JobsInit
  <2>3. QED
    BY <2>1, <2>2 DEF JobsInit, JobsTypeOK
<1>2. JobsTypeOK /\ Shape /\ [JobsNext]_jobVars => (JobsTypeOK /\ Shape)'
  <2> SUFFICES ASSUME JobsTypeOK, Shape, [JobsNext]_jobVars PROVE (JobsTypeOK /\ Shape)'
    OBVIOUS
  <2> USE DEF JobsTypeOK, Shape
  <2>1. CASE Wrapper
    <3>1. CASE RunNative \/ Launch
      BY <3>1 DEF RunNative, Launch
    <3>2. CASE ReturnsInline \/ HandsOver
      BY <3>2 DEF ReturnsInline, HandsOver
    <3>3. CASE JobReturned \/ Cleaned
      BY <3>3 DEF JobReturned, Cleaned
    <3>4. CASE Leaves \/ NativeEnds
      BY <3>4 DEF Leaves, NativeEnds
    <3>5. QED
      BY <2>1, <3>1, <3>2, <3>3, <3>4 DEF Wrapper
  <2>2. CASE JobCreated \/ JobRefused \/ JobSettles
    <3>1. cancelled' \in BOOLEAN
      BY <2>2 DEF JobCreated, JobRefused, JobSettles
    <3>2. CASE JobCreated \/ JobSettles
      <4>1. /\ wrapper' = wrapper /\ body' = body /\ cancelled' = cancelled /\ slowed' = slowed
            /\ signal' = signal /\ reason' = reason /\ soft' = soft
        BY <3>2 DEF JobCreated, JobSettles
      <4>2. /\ job' \in {"tracking", "completed", "failed"}
            /\ job' \in {"completed", "failed"} => body \in Ended
            /\ job # "none" \/ wrapper = "adopting"
        BY <3>2 DEF JobCreated, JobSettles
      <4>3. JobsTypeOK'
        BY <4>1, <4>2
      <4> QED BY <4>1, <4>2, <4>3
    <3>3. CASE JobRefused
      BY <3>1, <3>3 DEF JobRefused
    <3>4. QED
      BY <2>2, <3>2, <3>3
  <2>3. CASE Cancel
    BY <2>3, ZenonT(30) DEF Cancel, CancelledInside, CancelledAgain, CancelledOnTheWayOut,
                CancelledNative
  <2>4. CASE BodyThrottled \/ BodyEnds \/ SignalFires
    <3>1. slowed' \in BOOLEAN
      BY <2>4 DEF BodyThrottled, BodyEnds, SignalFires
    <3>2. CASE BodyThrottled
      BY <3>1, <3>2 DEF BodyThrottled
    <3>3. CASE BodyEnds
      BY <3>3 DEF BodyEnds
    <3>4. CASE SignalFires
      BY <3>4 DEF SignalFires
    <3>5. QED
      BY <2>4, <3>2, <3>3, <3>4
  <2>5. CASE SoftTick
    BY <2>5 DEF SoftTick
  <2>6. CASE Finished \/ UNCHANGED jobVars
    BY <2>6 DEF Finished, jobVars
  <2>7. QED
    BY <2>1, <2>2, <2>3, <2>4, <2>5, <2>6 DEF JobsNext
<1>3. QED
  BY <1>1, <1>2, PTL DEF JobsSpec

\* What is known of a call that is over.
LEMMA HandlesInductive == JobsSpec => [](NoOrphans /\ HandleMeansWork)
<1> USE DEF Ended, Over
<1>1. JobsInit => NoOrphans /\ HandleMeansWork
  BY DEF JobsInit, NoOrphans, HandleMeansWork
<1>2. /\ JobsTypeOK /\ Shape /\ NoOrphans /\ HandleMeansWork
      /\ [JobsNext]_jobVars
      => (NoOrphans /\ HandleMeansWork)'
  <2> SUFFICES ASSUME JobsTypeOK, Shape, NoOrphans, HandleMeansWork, [JobsNext]_jobVars
               PROVE  (NoOrphans /\ HandleMeansWork)'
    OBVIOUS
  <2> USE DEF JobsTypeOK, Shape, NoOrphans, HandleMeansWork
  <2>1. CASE Wrapper
    <3>1. CASE RunNative \/ Launch
      BY <3>1 DEF RunNative, Launch
    <3>2. CASE ReturnsInline \/ HandsOver
      BY <3>2 DEF ReturnsInline, HandsOver
    <3>3. CASE JobReturned \/ Cleaned
      BY <3>3 DEF JobReturned, Cleaned
    <3>4. CASE Leaves \/ NativeEnds
      BY <3>4 DEF Leaves, NativeEnds
    <3>5. QED
      BY <2>1, <3>1, <3>2, <3>3, <3>4 DEF Wrapper
  <2>2. CASE JobCreated \/ JobRefused \/ JobSettles
    BY <2>2 DEF JobCreated, JobRefused, JobSettles
  <2>3. CASE Cancel
    BY <2>3, ZenonT(30) DEF Cancel, CancelledInside, CancelledAgain, CancelledOnTheWayOut,
                CancelledNative
  <2>4. CASE BodyThrottled \/ BodyEnds \/ SignalFires
    BY <2>4 DEF BodyThrottled, BodyEnds, SignalFires
  <2>5. CASE SoftTick \/ Finished \/ UNCHANGED jobVars
    BY <2>5 DEF SoftTick, Finished, jobVars
  <2>6. QED
    BY <2>1, <2>2, <2>3, <2>4, <2>5 DEF JobsNext
<1>3. QED
  BY <1>1, <1>2, TypeAndShape, PTL DEF JobsSpec

\* No body runs without somebody who awaits it, tracks it or has stopped it.
THEOREM NoBodyIsOrphaned == JobsSpec => []NoOrphans
BY HandlesInductive, PTL

\* A handle always leads to work, an error never leaves any running.
THEOREM HandlesMeanWork == JobsSpec => []HandleMeansWork
BY HandlesInductive, PTL

\* Both of them: work is owned in every reachable state.
THEOREM AllWorkIsOwned == JobsSpec => []WorkIsOwned
BY HandlesInductive, PTL DEF WorkIsOwned

\* An answer the wrapper has not passed on is in the job's record, or was cut off
\* by a refusal of the Jobs manager.
AnswerIsKept ==
    /\ job = "failed" => body # "answered"
    /\ wrapper \in {"raising", "raised"} /\ body = "answered" => cancelled /\ job = "none"

\* The body's answer comes to its caller, inline or in the record of the handle it
\* got, unless the caller cancelled or the Jobs manager refused the call.
THEOREM AnswersReachCallers == JobsSpec => []AnswerReachesCaller
<1> USE DEF Ended, Over
<1>1. JobsInit => AnswerIsKept
  BY DEF JobsInit, AnswerIsKept
<1>2. /\ JobsTypeOK /\ Shape /\ HandleMeansWork /\ AnswerIsKept
      /\ [JobsNext]_jobVars
      => AnswerIsKept'
  <2> SUFFICES ASSUME JobsTypeOK, Shape, HandleMeansWork, AnswerIsKept, [JobsNext]_jobVars
               PROVE  AnswerIsKept'
    OBVIOUS
  <2> USE DEF JobsTypeOK, Shape, HandleMeansWork, AnswerIsKept
  <2>1. CASE Wrapper
    <3>1. CASE RunNative \/ Launch \/ HandsOver \/ JobReturned
      BY <3>1 DEF RunNative, Launch, HandsOver, JobReturned
    <3>2. CASE ReturnsInline \/ NativeEnds
      BY <3>2 DEF ReturnsInline, NativeEnds
    <3>3. CASE Cleaned
      BY <3>3 DEF Cleaned
    <3>4. CASE Leaves
      BY <3>4 DEF Leaves
    <3>5. QED
      BY <2>1, <3>1, <3>2, <3>3, <3>4 DEF Wrapper
  <2>2. CASE JobCreated \/ JobRefused \/ JobSettles
    BY <2>2 DEF JobCreated, JobRefused, JobSettles
  <2>3. CASE Cancel
    BY <2>3, ZenonT(30) DEF Cancel, CancelledInside, CancelledAgain, CancelledOnTheWayOut,
                CancelledNative
  <2>4. CASE BodyThrottled \/ BodyEnds \/ SignalFires
    BY <2>4 DEF BodyThrottled, BodyEnds, SignalFires
  <2>5. CASE SoftTick \/ Finished \/ UNCHANGED jobVars
    BY <2>5 DEF SoftTick, Finished, jobVars
  <2>6. QED
    BY <2>1, <2>2, <2>3, <2>4, <2>5 DEF JobsNext
<1>3. JobsTypeOK /\ Shape /\ HandleMeansWork /\ AnswerIsKept => AnswerReachesCaller
  BY DEF JobsTypeOK, Shape, HandleMeansWork, AnswerIsKept, AnswerReachesCaller
<1>4. QED
  BY <1>1, <1>2, <1>3, TypeAndShape, HandlesInductive, PTL DEF JobsSpec

\* What is left to happen around a call: to the wrapper, to the body and its task,
\* to the signal, to the job record and to the soft deadline.
WrapperHas(w) ==
    CASE w = "new" -> 6
      [] w = "waiting" -> 5
      [] w = "adopting" -> 4
      [] w = "cleaning" -> 3
      [] w = "cancelling" -> 2
      [] w \in {"native", "replying", "handing", "raising"} -> 1
      [] OTHER -> 0
BodyHas(b) == CASE b = "none" -> 2 [] b = "running" -> 1 [] OTHER -> 0
SignalHas(s) == CASE s = "none" -> 3 [] s = "waiting" -> 2 [] s = "set" -> 1 [] OTHER -> 0
RecordHas(j) == CASE j = "none" -> 2 [] j = "tracking" -> 1 [] OTHER -> 0
Unless(p) == IF p THEN 0 ELSE 1
CallHas ==
    WrapperHas(wrapper) + BodyHas(body) + SignalHas(signal) + RecordHas(job)
    + Unless(cancelled) + Unless(slowed) + soft

\* What happens around a call uses up what is left.
CallGoesOn == CallHas \in 0..(SoftDeadline + 15) /\ CallHas' < CallHas

\* Every call comes to rest: whatever happens to its wrapper, its body, its signal or
\* its record, however its caller cancels and whenever the deadline passes, leaves
\* less to happen, out of at most SoftDeadline + 15 (_run_s2_body turns in no circle).
THEOREM ToolCallsRunDown == JobsSpec => [][CallGoesOn]_jobVars
<1> USE DEF Ended, Over
<1>1. JobsTypeOK => CallHas \in 0..(SoftDeadline + 15)
  <2> SUFFICES ASSUME JobsTypeOK PROVE CallHas \in 0..(SoftDeadline + 15)
    OBVIOUS
  <2>1. /\ WrapperHas(wrapper) \in 0..6 /\ BodyHas(body) \in 0..2
        /\ SignalHas(signal) \in 0..3 /\ RecordHas(job) \in 0..2
    BY DEF WrapperHas, BodyHas, SignalHas, RecordHas
  <2>2. /\ Unless(cancelled) \in 0..1 /\ Unless(slowed) \in 0..1
        /\ soft \in 0..SoftDeadline
    BY DEF JobsTypeOK, Unless
  <2> QED BY <2>1, <2>2, SoftDeadlineAssumption DEF CallHas
<1>2. JobsTypeOK /\ Shape /\ JobsNext => CallHas' < CallHas \/ UNCHANGED jobVars
  <2> SUFFICES ASSUME JobsTypeOK, Shape, JobsNext
               PROVE  CallHas' < CallHas \/ UNCHANGED jobVars
    OBVIOUS
  <2> USE SoftDeadlineAssumption
      DEF JobsTypeOK, Shape, CallHas, WrapperHas, BodyHas, SignalHas, RecordHas, Unless
  <2>1. CASE Wrapper
    <3>1. CASE RunNative \/ Launch
      BY <3>1 DEF RunNative, Launch
    <3>2. CASE ReturnsInline
      BY <3>2 DEF ReturnsInline
    <3>3. CASE HandsOver
      BY <3>3 DEF HandsOver
    <3>4. CASE JobReturned
      BY <3>4 DEF JobReturned
    <3>5. CASE Cleaned
      BY <3>5 DEF Cleaned
    <3>6. CASE Leaves \/ NativeEnds
      BY <3>6 DEF Leaves, NativeEnds
    <3> QED BY <2>1, <3>1, <3>2, <3>3, <3>4, <3>5, <3>6 DEF Wrapper
  <2>2. CASE JobCreated \/ JobRefused \/ JobSettles
    BY <2>2 DEF JobCreated, JobRefused, JobSettles
  <2>3. CASE Cancel
    <3>1. CASE CancelledInside \/ CancelledAgain
      BY <3>1 DEF CancelledInside, CancelledAgain
    <3>2. CASE CancelledOnTheWayOut
      BY <3>2 DEF CancelledOnTheWayOut
    <3>3. CASE CancelledNative
      <4>1. CASE cancelled
        <5>1. cancelled' = cancelled
          BY <3>3, <4>1, Zenon DEF CancelledNative
        <5> QED BY <3>3, <5>1 DEF CancelledNative, jobVars
      <4>2. CASE ~cancelled
        BY <3>3, <4>2 DEF CancelledNative
      <4> QED BY <4>1, <4>2
    <3> QED BY <2>3, <3>1, <3>2, <3>3 DEF Cancel
  <2>4. CASE BodyThrottled
    <3>1. CASE slowed
      <4>1. slowed' = slowed
        BY <2>4, <3>1, Zenon DEF BodyThrottled
      <4> QED BY <2>4, <4>1 DEF BodyThrottled, jobVars
    <3>2. CASE ~slowed
      BY <2>4, <3>2 DEF BodyThrottled
    <3> QED BY <3>1, <3>2
  <2>5. CASE BodyEnds \/ SignalFires
    BY <2>5 DEF BodyEnds, SignalFires
  <2>6. CASE SoftTick \/ Finished
    BY <2>6 DEF SoftTick, Finished
  <2> QED BY <2>1, <2>2, <2>3, <2>4, <2>5, <2>6 DEF JobsNext
<1>3. JobsTypeOK /\ Shape /\ [JobsNext]_jobVars => [CallGoesOn]_jobVars
  BY <1>1, <1>2 DEF CallGoesOn
<1> QED BY <1>3, TypeAndShape, PTL DEF JobsSpec

------------------------------------------------------------------------------
\* _run_s2_body implements the promise of a tool call.
THEOREM PromiseIsKept == JobsSpec => KeepsPromise
<1> USE DEF Ended, Over
<1>1. JobsInit => Promise!Init
  BY DEF JobsInit, Promise!Init
<1>2. JobsTypeOK /\ Shape /\ HandleMeansWork /\ [JobsNext]_jobVars
      => [Promise!Next]_(Promise!vars)
  <2> SUFFICES ASSUME JobsTypeOK, Shape, HandleMeansWork, [JobsNext]_jobVars
               PROVE  Promise!Next \/ UNCHANGED Promise!vars
    OBVIOUS
  <2> USE DEF JobsTypeOK, Shape, HandleMeansWork, Promise!vars
  <2>1. CASE Wrapper
    <3>1. CASE RunNative \/ Launch \/ ReturnsInline \/ HandsOver
               \/ JobReturned
      BY <3>1 DEF RunNative, Launch, ReturnsInline, HandsOver, JobReturned
    <3>2. CASE Cleaned
      BY <3>2 DEF Cleaned, Promise!Next, Promise!Leave
    <3>3. CASE Leaves
      BY <3>3 DEF Leaves, Promise!Next, Promise!Answer, Promise!Handle,
                  Promise!Fail
    <3>4. CASE NativeEnds
      BY <3>4 DEF NativeEnds, Promise!Next, Promise!Answer, Promise!Fail
    <3>5. QED
      BY <2>1, <3>1, <3>2, <3>3, <3>4 DEF Wrapper
  <2>2. CASE JobCreated
    BY <2>2 DEF JobCreated, Promise!Next, Promise!Track
  <2>3. CASE JobRefused
    BY <2>3 DEF JobRefused, Promise!Next, Promise!Drop
  <2>4. CASE JobSettles
    BY <2>4 DEF JobSettles
  <2>5. CASE Cancel
    BY <2>5 DEF Cancel, CancelledInside, CancelledAgain, CancelledOnTheWayOut,
                CancelledNative, Promise!Next, Promise!Drop, Promise!Leave
  <2>6. CASE BodyThrottled \/ SignalFires
    BY <2>6 DEF BodyThrottled, SignalFires
  <2>7. CASE BodyEnds
    BY <2>7 DEF BodyEnds, Promise!Next, Promise!Settle
  <2>8. CASE SoftTick \/ Finished \/ UNCHANGED jobVars
    BY <2>8 DEF SoftTick, Finished, jobVars
  <2>9. QED
    BY <2>1, <2>2, <2>3, <2>4, <2>5, <2>6, <2>7, <2>8 DEF JobsNext
<1>3. QED
  BY <1>1, <1>2, TypeAndShape, HandlesInductive, PTL
     DEF JobsSpec, KeepsPromise, Promise!Spec

-----------------------------------------------------------------------------
(* The service: what is built is closed, in an order in which nothing is used *)
(* after that, and the log of the keepalive agrees with its status.  The      *)
(* first rests on the shape of the exit stack: it holds what is open, in the  *)
(* order it was built.                                                        *)

\* The place of a resource in the order of start.
Place(r) ==
    IF r = "s2" THEN 1 ELSE IF r = "openalex" THEN 2 ELSE IF r = "crossref" THEN 3
    ELSE IF r = "google_books" THEN 4 ELSE IF r = "openlibrary" THEN 5
    ELSE IF r = "docling" THEN 6 ELSE IF r = "epo" THEN 7 ELSE IF r = "cache" THEN 8
    ELSE IF r = "standards" THEN 9 ELSE 10

StatusOK ==
    /\ status \in [configured : BOOLEAN, failures : Streaks, answered : BOOLEAN,
                   kind : Kinds \union {"none"}]
    /\ alarms = IF status.failures >= DegradedAfter THEN 1 ELSE 0

\* Types other than those of the stack and the status.
PartsOK ==
    /\ svc \in [pc : {"off", "starting", "migrating", "up", "unwinding"},
                next : 1..(Len(Order) + 1)]
    /\ configured \subseteq Optional
    /\ task \in {"off", "created", "pinging", "resting", "retrying", "dead"}
    /\ starts \in 0..MaxStarts

\* The stack is what is open, in the order of start.
StackOK ==
    /\ cleanup \in Seq(Resources)
    /\ live = {cleanup[k] : k \in 1..Len(cleanup)}
    /\ \A i, j \in 1..Len(cleanup) : i < j => Place(cleanup[i]) < Place(cleanup[j])

\* How far a start has come.
ReachOK ==
    /\ svc.pc = "off" => cleanup = <<>>
    /\ svc.pc = "starting" =>
          /\ \A k \in 1..Len(cleanup) : Place(cleanup[k]) < svc.next
          /\ svc.next > 1 => "s2" \in live
          /\ svc.next > 8 => "cache" \in live
    /\ svc.pc = "migrating" =>
          /\ svc.next = 8
          /\ \A k \in 1..Len(cleanup) : Place(cleanup[k]) <= 8
          /\ "s2" \in live /\ "cache" \in live

ConnectionsInv == PartsOK /\ StackOK /\ ReachOK /\ UsedIsOpen

-----------------------------------------------------------------------------
\* The order in numbers.
LEMMA OrderFacts ==
    /\ Len(Order) = 10 /\ DOMAIN Order = 1..10
    /\ \A k \in 1..10 : Order[k] \in Resources /\ Place(Order[k]) = k
    /\ Place("s2") = 1 /\ Place("cache") = 8 /\ Place("standards") = 9 /\ Place("keepalive") = 10
<1>1. Len(Order) = 10 /\ DOMAIN Order = 1..10
  BY DEF Order
<1>2. \A k \in 1..10 : Order[k] \in Resources
  BY <1>1 DEF Resources
<1>3. \A k \in 1..10 : Place(Order[k]) = k
  BY DEF Place, Order
<1> QED BY <1>1, <1>2, <1>3 DEF Place

\* What is registered joins the stack above everything that is on it.
LEMMA RegisterKeeps ==
    ASSUME StackOK, NEW r \in Resources, Register(r),
           \A k \in 1..Len(cleanup) : Place(cleanup[k]) < Place(r)
    PROVE /\ StackOK' /\ live' = live \union {r}
          /\ \A k \in 1..Len(cleanup') : Place(cleanup'[k]) <= Place(r)
<1>1. /\ cleanup' \in Seq(Resources) /\ Len(cleanup') = Len(cleanup) + 1
      /\ cleanup'[Len(cleanup) + 1] = r
      /\ \A k \in 1..Len(cleanup) : cleanup'[k] = cleanup[k]
      /\ Len(cleanup) \in Nat
  BY DEF StackOK, Register
<1>2. live' = live \union {r}
  BY DEF Register
<1>3. live' = {cleanup'[k] : k \in 1..Len(cleanup')}
  <2>1. \A k \in 1..Len(cleanup') : cleanup'[k] \in live'
    BY <1>1, <1>2 DEF StackOK
  <2>2. \A x \in live' : \E k \in 1..Len(cleanup') : x = cleanup'[k]
    <3> SUFFICES ASSUME NEW x \in live' PROVE \E k \in 1..Len(cleanup') : x = cleanup'[k]
      OBVIOUS
    <3>1. CASE x = r BY <1>1, <3>1
    <3>2. CASE x \in live
      <4>1. PICK k \in 1..Len(cleanup) : x = cleanup[k]
        BY <3>2 DEF StackOK
      <4> QED BY <1>1, <4>1
    <3> QED BY <1>2, <3>1, <3>2
  <2> QED BY <2>1, <2>2
<1>4. \A k \in 1..Len(cleanup') : k \in 1..Len(cleanup) \/ k = Len(cleanup) + 1
  BY <1>1
<1>5. ASSUME NEW i \in 1..Len(cleanup'), NEW j \in 1..Len(cleanup'), i < j
      PROVE Place(cleanup'[i]) < Place(cleanup'[j])
  <2>1. i \in 1..Len(cleanup) /\ cleanup'[i] = cleanup[i]
    BY <1>1, <1>4, <1>5
  <2>2. CASE j = Len(cleanup) + 1 BY <1>1, <2>1, <2>2
  <2>3. CASE j \in 1..Len(cleanup) BY <1>1, <1>5, <2>1, <2>3 DEF StackOK
  <2> QED BY <1>4, <2>2, <2>3
<1>6. ASSUME NEW k \in 1..Len(cleanup') PROVE Place(cleanup'[k]) <= Place(r)
  <2>1. CASE k = Len(cleanup) + 1 BY <1>1, <2>1 DEF Place
  <2>2. CASE k \in 1..Len(cleanup) BY <1>1, <2>2 DEF Place
  <2> QED BY <1>4, <2>1, <2>2
<1> QED BY <1>1, <1>2, <1>3, <1>5, <1>6 DEF StackOK

\* What is closed leaves the stack; all that used it is closed already.
LEMMA CloseKeeps ==
    ASSUME ConnectionsInv, CloseNext
    PROVE ConnectionsInv'
<1> DEFINE n == Len(cleanup)
           r == cleanup[n]
<1>1. n \in Nat /\ n > 0 /\ \A k \in 1..n : cleanup[k] \in Resources
  BY DEF ConnectionsInv, StackOK, CloseNext
<1>2. /\ cleanup' \in Seq(Resources) /\ Len(cleanup') = n - 1
      /\ \A k \in 1..(n - 1) : cleanup'[k] = cleanup[k]
  <2>1. cleanup \in Seq(Resources) /\ cleanup' = SubSeq(cleanup, 1, n - 1)
    BY DEF ConnectionsInv, StackOK, CloseNext
  <2>2. n - 1 \in Nat /\ n - 1 <= n /\ \A k \in 1..(n - 1) : k \in 1..n
    BY <1>1
  <2>3. cleanup' = [k \in 1..(n - 1) |-> cleanup[k]]
    BY <2>1, <2>2, SMT
  <2>4. cleanup' \in [1..(n - 1) -> Resources]
    BY <1>1, <2>2, <2>3
  <2>5. cleanup' \in Seq(Resources) /\ Len(cleanup') = n - 1
    BY <2>2, <2>4, SMT
  <2> QED BY <2>3, <2>5
<1>3. live' = live \ {r}
  BY DEF CloseNext
<1>4. \A k \in 1..(n - 1) : Place(cleanup[k]) < Place(r) /\ cleanup[k] # r
  BY <1>1 DEF ConnectionsInv, StackOK, Place
<1>5. live' = {cleanup'[k] : k \in 1..Len(cleanup')}
  <2>1. \A k \in 1..(n - 1) : cleanup[k] \in live'
    BY <1>1, <1>3, <1>4 DEF ConnectionsInv, StackOK
  <2>2. \A x \in live' : \E k \in 1..(n - 1) : x = cleanup[k]
    BY <1>1, <1>3 DEF ConnectionsInv, StackOK
  <2> QED BY <1>2, <2>1, <2>2
<1>6. StackOK'
  <2>1. ASSUME NEW i \in 1..Len(cleanup'), NEW j \in 1..Len(cleanup'), i < j
        PROVE Place(cleanup'[i]) < Place(cleanup'[j])
    <3>1. i \in 1..(n - 1) /\ j \in 1..(n - 1) /\ i \in 1..n /\ j \in 1..n
      BY <1>1, <1>2, <2>1
    <3> QED BY <1>2, <2>1, <3>1 DEF ConnectionsInv, StackOK
  <2> QED BY <1>2, <1>5, <2>1 DEF StackOK
<1>7. \A x \in live' : Place(x) < Place(r)
  <2>1. \A x \in live' : \E k \in 1..(n - 1) : x = cleanup[k]
    BY <1>2, <1>5
  <2> QED BY <1>4, <2>1
<1>8. UsedIsOpen'
  <2>1. "standards" \in live' => "cache" \in live'
    BY <1>3, <1>7, OrderFacts DEF ConnectionsInv, UsedIsOpen, Uses
  <2>2. "keepalive" \in live' => "s2" \in live'
    BY <1>3, <1>7, OrderFacts DEF ConnectionsInv, UsedIsOpen, Uses
  <2>3. task' # "off" => "keepalive" \in live'
    BY <1>3 DEF ConnectionsInv, UsedIsOpen, CloseNext, CancelTask
  <2> QED BY <2>1, <2>2, <2>3 DEF UsedIsOpen, Uses
<1>9. PartsOK'
  BY DEF ConnectionsInv, PartsOK, CloseNext, CancelTask
<1>10. ReachOK'
  BY DEF ConnectionsInv, ReachOK, CloseNext
<1> QED BY <1>6, <1>8, <1>9, <1>10 DEF ConnectionsInv

\* A step of start that registers what is next.
LEMMA BuildKeeps ==
    ASSUME ConnectionsInv, NEW r \in Resources, Build(r)
    PROVE ConnectionsInv'
<1>1. /\ svc.pc = "starting" /\ svc.next \in 1..10 /\ Place(r) = svc.next
      /\ r # "cache" /\ r # "keepalive" /\ Order[svc.next] = r
  BY OrderFacts DEF Build, Building
<1>2. /\ svc' = [pc |-> "starting", next |-> svc.next + 1] /\ svc'.next = svc.next + 1
      /\ task' = task /\ configured' = configured /\ starts' = starts
  BY DEF Build, Onward
<1>3. \A k \in 1..Len(cleanup) : Place(cleanup[k]) < Place(r)
  BY <1>1 DEF ConnectionsInv, ReachOK
<1>4. /\ StackOK' /\ live \subseteq live' /\ live' \subseteq live \union {r}
      /\ \A k \in 1..Len(cleanup') : Place(cleanup'[k]) <= Place(r)
      /\ Wanted(r) => r \in live'
  <2>1. CASE Wanted(r)
    <3>1. Register(r) BY <2>1 DEF Build
    <3> QED BY <1>3, <3>1, RegisterKeeps DEF ConnectionsInv
  <2>2. CASE ~Wanted(r)
    <3>1. live' = live /\ cleanup' = cleanup BY <2>2 DEF Build
    <3>2. StackOK' BY <3>1 DEF ConnectionsInv, StackOK
    <3> QED BY <1>3, <2>2, <3>1, <3>2 DEF Place
  <2> QED BY <2>1, <2>2
<1>5. PartsOK'
  BY <1>1, <1>2, OrderFacts DEF ConnectionsInv, PartsOK
<1>6. Place(r) = 1 => r = "s2"
  BY OrderFacts, <1>1 DEF Order
<1>7. r = "s2" => Wanted(r)
  BY DEF Wanted
<1>8. ReachOK'
  <2>1. svc'.next > 1 => "s2" \in live'
    BY <1>1, <1>4, <1>6, <1>7 DEF ConnectionsInv, ReachOK
  <2>2. svc'.next > 8 => "cache" \in live'
    <3>1. svc.next # 8 BY <1>1 DEF Order
    <3> QED BY <1>1, <1>2, <1>4, <3>1 DEF ConnectionsInv, ReachOK
  <2>3. \A k \in 1..Len(cleanup') : Place(cleanup'[k]) < svc'.next
    BY <1>1, <1>2, <1>4 DEF Place
  <2> QED BY <1>2, <2>1, <2>2, <2>3 DEF ReachOK
<1>9. UsedIsOpen'
  <2>1. r = "standards" => "cache" \in live
    BY <1>1, OrderFacts DEF ConnectionsInv, ReachOK
  <2> QED BY <1>1, <1>2, <1>4, <2>1 DEF ConnectionsInv, UsedIsOpen, Uses
<1> QED BY <1>4, <1>5, <1>8, <1>9 DEF ConnectionsInv

\* The cache's close is on the stack before it connects.
LEMMA CacheKeeps ==
    ASSUME ConnectionsInv, ConnectCache
    PROVE ConnectionsInv'
<1>1. svc.pc = "starting" /\ svc.next = 8 /\ "cache" \in Resources
  BY OrderFacts DEF ConnectCache, Building, Order
<1>2. /\ svc'.pc = "migrating" /\ svc'.next = 8 /\ PartsOK' /\ task' = task
  BY <1>1 DEF ConnectionsInv, PartsOK, ConnectCache
<1>3. /\ StackOK' /\ live' = live \union {"cache"}
      /\ \A k \in 1..Len(cleanup') : Place(cleanup'[k]) <= Place("cache")
  BY <1>1, OrderFacts, RegisterKeeps DEF ConnectionsInv, ReachOK, ConnectCache
<1>4. ReachOK'
  BY <1>1, <1>2, <1>3, OrderFacts DEF ConnectionsInv, ReachOK
<1>5. UsedIsOpen'
  BY <1>2, <1>3 DEF ConnectionsInv, UsedIsOpen, Uses
<1> QED BY <1>2, <1>3, <1>4, <1>5 DEF ConnectionsInv

\* The keepalive is the last, and its client is open.
LEMMA KeepaliveKeeps ==
    ASSUME ConnectionsInv, StartKeepalive
    PROVE ConnectionsInv'
<1>1. svc.pc = "starting" /\ svc.next = 10 /\ "keepalive" \in Resources
  BY OrderFacts DEF StartKeepalive, Building, Order
<1>2. /\ svc'.pc = "starting" /\ svc'.next = 11 /\ PartsOK'
  BY <1>1, OrderFacts DEF ConnectionsInv, PartsOK, StartKeepalive, Onward
<1>3. "s2" \in live /\ "cache" \in live
  BY <1>1 DEF ConnectionsInv, ReachOK
<1>4. CASE Wanted("keepalive")
  <2>1. /\ StackOK' /\ live' = live \union {"keepalive"}
        /\ \A k \in 1..Len(cleanup') : Place(cleanup'[k]) <= Place("keepalive")
    BY <1>1, <1>4, OrderFacts, RegisterKeeps DEF ConnectionsInv, ReachOK, StartKeepalive
  <2>2. ReachOK'
    BY <1>2, <1>3, <2>1, OrderFacts DEF ReachOK, Place
  <2>3. UsedIsOpen'
    BY <1>3, <2>1 DEF ConnectionsInv, UsedIsOpen, Uses
  <2> QED BY <1>2, <2>1, <2>2, <2>3 DEF ConnectionsInv
<1>5. CASE ~Wanted("keepalive")
  <2>1. live' = live /\ cleanup' = cleanup /\ task' = task
    BY <1>5 DEF StartKeepalive
  <2>2. StackOK' /\ UsedIsOpen'
    BY <2>1 DEF ConnectionsInv, StackOK, UsedIsOpen
  <2>3. ReachOK'
    BY <1>1, <1>2, <1>3, <2>1 DEF ConnectionsInv, ReachOK, Place
  <2> QED BY <1>2, <2>2, <2>3 DEF ConnectionsInv
<1> QED BY <1>4, <1>5

\* Steps that leave the stack alone.
LEMMA StackStandsStill ==
    ASSUME ConnectionsInv, UNCHANGED <<cleanup, live>>, PartsOK', ReachOK',
           task' # "off" => task # "off"
    PROVE ConnectionsInv'
<1>1. StackOK' BY DEF ConnectionsInv, StackOK
<1>2. UsedIsOpen' BY DEF ConnectionsInv, UsedIsOpen
<1> QED BY <1>1, <1>2 DEF ConnectionsInv

\* Every step keeps the stack in order.
LEMMA ConnectionsStep ==
    ASSUME ConnectionsInv, [ServiceNext]_serviceVars
    PROVE ConnectionsInv'
<1> USE OrderFacts
<1>1. ASSUME NEW settings \in SUBSET Optional, Start(settings) PROVE ConnectionsInv'
  <2>1. PartsOK' BY <1>1, ServiceAssumption DEF ConnectionsInv, PartsOK, Start, ServiceAssumption
  <2>2. ReachOK' BY <1>1 DEF ConnectionsInv, ReachOK, Start
  <2> QED BY <1>1, <2>1, <2>2, StackStandsStill DEF Start
<1>2. CASE Migrated
  <2>1. svc.pc = "migrating" /\ svc.next = 8 /\ svc'.pc = "starting" /\ svc'.next = 9
    BY <1>2 DEF ConnectionsInv, ReachOK, Migrated, Onward
  <2>2. PartsOK' BY <1>2, <2>1 DEF ConnectionsInv, PartsOK, Migrated, Onward
  <2>3. ReachOK' BY <1>2, <2>1 DEF ConnectionsInv, ReachOK, Migrated, Place
  <2> QED BY <1>2, <2>2, <2>3, StackStandsStill DEF Migrated
<1>3. CASE Started \/ StartFails \/ Stop \/ Stopped
  <2>1. PartsOK' BY <1>3 DEF ConnectionsInv, PartsOK, Started, StartFails, Stop, Stopped
  <2>2. ReachOK' BY <1>3 DEF ConnectionsInv, PartsOK, ReachOK, Started, StartFails, Stop, Stopped
  <2> QED BY <1>3, <2>1, <2>2, StackStandsStill DEF Started, StartFails, Stop, Stopped
<1>4. CASE Keepalive
  <2>1. /\ UNCHANGED <<svc, configured, cleanup, live, starts>> /\ task # "off"
        /\ task' \in {"pinging", "resting", "retrying", "dead"}
    BY <1>4 DEF Keepalive, PingEnds, FirstPing, PingAnswered, PingMalformed, PingRefused, WakePing
  <2>2. PartsOK' /\ ReachOK' BY <2>1 DEF ConnectionsInv, PartsOK, ReachOK
  <2> QED BY <2>1, <2>2, StackStandsStill
<1>5. CASE UNCHANGED serviceVars
  <2>1. PartsOK' /\ ReachOK' BY <1>5 DEF serviceVars, ConnectionsInv, PartsOK, ReachOK
  <2> QED BY <1>5, <2>1, StackStandsStill DEF serviceVars
<1>6. CASE \E r \in Resources : Build(r) BY <1>6, BuildKeeps
<1>7. CASE ConnectCache BY <1>7, CacheKeeps
<1>8. CASE StartKeepalive BY <1>8, KeepaliveKeeps
<1>9. CASE CloseNext BY <1>9, CloseKeeps
<1> QED BY <1>1, <1>2, <1>3, <1>4, <1>5, <1>6, <1>7, <1>8, <1>9 DEF ServiceNext, Lifespan

\* At the start nothing is open.
LEMMA ConnectionsStart == ServiceInit => ConnectionsInv
<1> SUFFICES ASSUME ServiceInit PROVE ConnectionsInv
  OBVIOUS
<1>1. PartsOK
  BY OrderFacts, ServiceAssumption DEF ServiceInit, PartsOK, ServiceAssumption
<1>2. cleanup = <<>> /\ Len(cleanup) = 0 /\ live = {} /\ task = "off" /\ svc.pc = "off"
  BY DEF ServiceInit
<1>3. StackOK BY <1>2 DEF StackOK
<1>4. ReachOK /\ UsedIsOpen BY <1>2 DEF ReachOK, UsedIsOpen, Uses
<1> QED BY <1>1, <1>3, <1>4 DEF ConnectionsInv

-----------------------------------------------------------------------------
\* A refusal reaches the threshold once; everything else leaves the streak or
\* ends it together with the alarm.
LEMMA StatusStep ==
    ASSUME StatusOK, [ServiceNext]_serviceVars
    PROVE StatusOK'
<1> USE ServiceAssumption DEF ServiceAssumption
<1>1. CASE UNCHANGED <<status, alarms>>
  BY <1>1 DEF StatusOK
<1>2. CASE FirstPing
  BY <1>2 DEF StatusOK, FirstPing, MarkConfigured
<1>3. CASE StartKeepalive
  BY <1>3 DEF StatusOK, StartKeepalive, MarkNotConfigured
<1>4. CASE PingAnswered
  <2>1. status.failures \in Nat /\ alarms = IF status.failures >= DegradedAfter THEN 1 ELSE 0
    BY DEF StatusOK, Streaks
  <2>2. status' = [status EXCEPT !.failures = 0, !.answered = TRUE]
    BY <1>4 DEF PingAnswered, RecordSuccess
  <2>3. status'.failures = 0 /\ 0 \in Streaks
    BY <2>2 DEF StatusOK, Streaks
  <2>4. alarms' = 0
    BY <1>4, <2>1 DEF PingAnswered, Degraded
  <2>5. status' \in [configured : BOOLEAN, failures : Streaks, answered : BOOLEAN,
                     kind : Kinds \union {"none"}]
    BY <2>2, <2>3 DEF StatusOK
  <2> QED BY <2>3, <2>4, <2>5 DEF StatusOK
<1>5. ASSUME NEW kind \in Kinds, PingRefused(kind) PROVE StatusOK'
  <2>1. status.failures \in 0..(DegradedAfter + 1)
    BY DEF StatusOK, Streaks
  <2>2. /\ status'.failures = IF status.failures > DegradedAfter THEN status.failures
                              ELSE status.failures + 1
        /\ alarms' = IF status'.failures = DegradedAfter THEN alarms + 1 ELSE alarms
    BY <1>5 DEF StatusOK, PingRefused, RecordFailure
  <2>3. alarms' = IF status'.failures >= DegradedAfter THEN 1 ELSE 0
    BY <2>1, <2>2 DEF StatusOK
  <2>4. status'.failures \in Streaks
    BY <2>1, <2>2 DEF Streaks
  <2>5. status' \in [configured : BOOLEAN, failures : Streaks, answered : BOOLEAN,
                     kind : Kinds \union {"none"}]
    BY <1>5, <2>2, <2>4 DEF StatusOK, PingRefused, RecordFailure
  <2> QED BY <2>3, <2>5 DEF StatusOK
<1>6. CASE PingMalformed \/ WakePing BY <1>1, <1>6 DEF PingMalformed, WakePing
<1>7. CASE \E r \in Resources : Build(r) BY <1>1, <1>7 DEF Build
<1>8. CASE ConnectCache \/ Migrated \/ Started \/ StartFails \/ CloseNext \/ Stopped \/ Stop
  BY <1>1, <1>8 DEF ConnectCache, Migrated, Started, StartFails, CloseNext, Stopped, Stop
<1>9. CASE \E settings \in SUBSET Optional : Start(settings) BY <1>1, <1>9 DEF Start
<1>10. CASE UNCHANGED serviceVars BY <1>1, <1>10 DEF serviceVars
<1> QED BY <1>2, <1>3, <1>4, <1>5, <1>6, <1>7, <1>8, <1>9, <1>10
        DEF ServiceNext, Lifespan, Keepalive, PingEnds

\* No failure, no alarm.
LEMMA StatusStarts == ServiceInit => StatusOK
BY ServiceAssumption DEF ServiceAssumption, ServiceInit, StatusOK, Streaks

\* The log says degraded exactly while the streak is that long, whatever the
\* threshold, however often the service is started again.
THEOREM LogAgrees == ServiceSpec => []LogMatchesStatus
<1>1. StatusOK => LogMatchesStatus
  BY DEF StatusOK, LogMatchesStatus, Degraded, KeyStatus
<1> QED BY <1>1, StatusStarts, StatusStep, PTL DEF ServiceSpec

\* Whatever step of a start fails, all that was built is closed, the cache after
\* its user and the client of Semantic Scholar after the keepalive.
THEOREM ConnectionsSound == ServiceSpec => []ConnectionsAreSound
<1>1. ServiceSpec => []ConnectionsInv
  BY ConnectionsStart, ConnectionsStep, PTL DEF ServiceSpec
<1>2. ServiceSpec => []StatusOK
  BY StatusStarts, StatusStep, PTL DEF ServiceSpec
<1>3. ConnectionsInv /\ StatusOK => ConnectionsAreSound
  <2> SUFFICES ASSUME ConnectionsInv, StatusOK PROVE ConnectionsAreSound
    OBVIOUS
  <2>1. live \subseteq Resources
    BY DEF ConnectionsInv, StackOK
  <2>2. alarms \in {0, 1}
    BY DEF StatusOK
  <2>3. ServiceTypeOK
    BY <2>1, <2>2 DEF ServiceTypeOK, ConnectionsInv, PartsOK, StackOK, StatusOK
  <2>4. NothingLeftOpen
    <3> SUFFICES ASSUME svc.pc = "off" PROVE live = {} /\ task = "off"
      BY DEF NothingLeftOpen
    <3>1. Len(cleanup) = 0 BY DEF ConnectionsInv, ReachOK
    <3>2. live = {} BY <3>1 DEF ConnectionsInv, StackOK
    <3> QED BY <3>2 DEF ConnectionsInv, UsedIsOpen
  <2> QED BY <2>3, <2>4 DEF ConnectionsAreSound, ConnectionsInv
<1> QED BY <1>1, <1>2, <1>3, PTL
=============================================================================
