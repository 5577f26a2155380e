-------------------------- MODULE HealthCheckProofs --------------------------
(***************************************************************************)
(* Theorems about HealthCheck, for every period, timeout, initial delay,   *)
(* duration of a check and delay of the goroutine.                         *)
(***************************************************************************)
EXTENDS HealthCheck, TLAPS

-----------------------------------------------------------------------------
(* Types                                                                   *)

\* Code that runs keeps the types.
LEMMA TypesOfCode ==
    ASSUME TypeOK, Code
    PROVE  TypeOK'
<1>1. CASE NothingToCheck
  BY <1>1, TimingAssumption DEF TypeOK, NothingToCheck, Return, Goto
<1>2. CASE Begin
  <2>1. pc' \in {"delay", "loop"} /\ waited' = 0
        /\ UNCHANGED <<aware, delay, left, next, tick, busy, cause, result, up, sawUp>>
    BY <1>2 DEF Begin, Goto
  <2>2. QED
    BY <2>1, TimingAssumption DEF TypeOK
<1>3. CASE DelayOver
  BY <1>3, TimingAssumption DEF TypeOK, DelayOver, Goto
<1>4. CASE DelayEnded
  BY <1>4, TimingAssumption DEF TypeOK, DelayEnded, Return, Goto, Causes
<1>5. CASE Check
  BY <1>5, TimingAssumption DEF TypeOK, Check, Goto
<1>6. CASE CheckPasses
  BY <1>6, TimingAssumption DEF TypeOK, CheckPasses, Return, Goto
<1>7. CASE CheckFails
  BY <1>7, TimingAssumption DEF TypeOK, CheckFails, Goto
<1>8. CASE Done
  BY <1>8, TimingAssumption DEF TypeOK, Done, Return, Goto
<1>9. CASE Again
  <2>1. /\ pc' = "loop" /\ waited' = 0 /\ tick' = FALSE
        /\ UNCHANGED <<aware, delay, left, next, busy, cause, result, up, sawUp>>
    BY <1>9 DEF Again, Goto
  <2>2. tick' \in BOOLEAN
    BY <2>1
  <2>3. QED
    BY <2>1, <2>2, TimingAssumption DEF TypeOK
<1>10. QED
  BY <1>1, <1>2, <1>3, <1>4, <1>5, <1>6, <1>7, <1>8, <1>9 DEF Code

\* So does time that passes, which never takes a timer below zero.
LEMMA TypesOfTime ==
    ASSUME TypeOK, Time
    PROVE  TypeOK'
<1>1. CASE TimeInDelay
  BY <1>1, TimingAssumption DEF TypeOK, TimeInDelay
<1>2. CASE TimeInChecks
  <2>1. left' \in 0 .. Timeout /\ busy' \in 0 .. Longest
    BY <1>2, TimingAssumption DEF TypeOK, TimeInChecks, Less
  <2>2. next' \in 1 .. Interval
    BY <1>2, TimingAssumption DEF TypeOK, TimeInChecks
  <2>3. tick' \in BOOLEAN
    BY <1>2 DEF TypeOK, TimeInChecks, Sent
  <2>4. cause' \in Causes
    BY <1>2 DEF TypeOK, TimeInChecks, Causes
  <2>5. Enough \in Nat
    BY TimingAssumption DEF Enough, Gap, Span
  <2>6. up' \in -1 .. Enough
    BY <1>2, <2>5 DEF TypeOK, TimeInChecks
  <2>7. waited' \in 0 .. Lag
    BY <1>2, TimingAssumption DEF TypeOK, TimeInChecks
  <2>8. QED
    BY <1>2, <2>1, <2>2, <2>3, <2>4, <2>6, <2>7 DEF TypeOK, TimeInChecks
<1>3. QED
  BY <1>1, <1>2 DEF Time

\* So do the application and the parent context.
LEMMA TypesOfWorld ==
    ASSUME TypeOK, ComesUp \/ ParentDone
    PROVE  TypeOK'
<1>1. Enough \in Nat
  BY TimingAssumption DEF Enough, Gap, Span
<1>2. CASE ComesUp
  BY <1>1, <1>2 DEF TypeOK, ComesUp
<1>3. CASE ParentDone
  BY <1>3, TimingAssumption DEF TypeOK, ParentDone, Causes
<1>4. QED
  BY <1>2, <1>3

\* The types hold at first.
LEMMA InitTypes == Init => TypeOK
<1> SUFFICES ASSUME Init PROVE TypeOK
  OBVIOUS
<1>1. Enough \in Nat
  BY TimingAssumption DEF Enough, Gap, Span
<1>2. up \in -1 .. Enough
  BY <1>1 DEF Init
<1>3. /\ left \in 0 .. Timeout /\ next \in 1 .. Interval
      /\ busy \in 0 .. Longest /\ waited \in 0 .. Lag
  BY TimingAssumption DEF Init
<1>4. pc = "start" /\ delay \in 0 .. MaxDelay /\ result = "none" /\ cause \in Causes
  BY DEF Init, Causes
<1>5. aware \in BOOLEAN /\ tick \in BOOLEAN /\ sawUp \in BOOLEAN
  BY DEF Init
<1>6. QED
  BY <1>2, <1>3, <1>4, <1>5 DEF TypeOK

(***************************************************************************)
(* Every variable keeps its type; in particular every timer stays within   *)
(* the range it was set in, whatever the context does (health.go:17-50).   *)
(***************************************************************************)
THEOREM TypeCorrect == Spec => []TypeOK
<1>1. TypeOK /\ [Next]_vars => TypeOK'
  BY TypesOfCode, TypesOfTime, TypesOfWorld DEF Next, TypeOK, vars
<1>2. QED
  BY <1>1, InitTypes, PTL DEF Spec

-----------------------------------------------------------------------------
(* How long an application can be healthy without being noticed            *)

\* The longest way from the start of a check to the tick that lets the next one begin.
Wait == IF Span > Interval THEN Span ELSE Interval

(***************************************************************************)
(* While the context goes on, a check that does not see the application    *)
(* healthy began before it was, and the next one follows the next tick.    *)
(***************************************************************************)
Timed ==
    /\ pc \in {"start", "delay"} => up <= 0 /\ ~tick
    /\ cause = "none" => left > 0
    /\ cause = "none" /\ ~Turn => waited = 0
    /\ cause = "none" /\ pc = "loop" => up <= Wait + Lag + waited
    /\ cause = "none" /\ pc = "check" /\ sawUp => up <= Gap + (Longest - busy) + waited
    /\ cause = "none" /\ pc = "check" /\ ~sawUp =>
          /\ up <= (Longest - busy) + waited
          /\ ~tick => up <= Interval - next
    /\ cause = "none" /\ pc = "select" =>
          /\ up <= Wait + waited
          /\ ~tick => up <= Interval - next

\* When the timeout ends, the application has not been healthy for long.
Brief ==
    /\ cause = "timeout" => left = 0 /\ up < Enough
    /\ result = "timeout" => pc = "returned"

NInv == TypeOK /\ Timed /\ Brief

\* How the spans relate to the durations they are made of.
LEMMA SpanFacts ==
    /\ Wait \in Nat /\ Wait >= Longest + Lag /\ Wait >= Interval
    /\ Gap = Wait + Lag + Lag
    /\ Enough = Gap + Longest + Lag + 1
    /\ Enough \in Nat /\ Gap \in Nat
BY TimingAssumption DEF Wait, Span, Gap, Enough

\* The countdowns are numbers in their ranges.
LEMMA TimerFacts ==
    ASSUME TypeOK
    PROVE  /\ up \in Int /\ up >= -1
           /\ busy \in Int /\ 0 <= busy /\ busy <= Longest
           /\ waited \in Int /\ 0 <= waited /\ waited <= Lag
           /\ next \in Int /\ 1 <= next /\ next <= Interval
           /\ left \in Int /\ 0 <= left
           /\ Longest \in Int /\ Interval \in Int /\ Lag \in Int
           /\ Gap \in Int /\ Wait \in Int
BY TimingAssumption, SpanFacts DEF TypeOK

\* No step of the code delays the next check beyond its time.
LEMMA NoticedByCode ==
    ASSUME NInv, Code
    PROVE  Timed' /\ Brief'
<1>1. TypeOK /\ Timed /\ Brief
  BY DEF NInv
<1>2. CASE NothingToCheck \/ DelayEnded \/ CheckPasses \/ Done
  <2>1. pc' = "returned" /\ waited' = 0 /\ UNCHANGED <<left, cause, up>>
    BY <1>2 DEF NothingToCheck, DelayEnded, CheckPasses, Done, Return, Goto
  <2>2. QED
    BY <1>1, <2>1 DEF Timed, Brief, TypeOK
<1>3. CASE Begin \/ DelayOver
  <2>1. /\ pc \in {"start", "delay"} /\ pc' \in {"delay", "loop"} /\ waited' = 0
        /\ UNCHANGED <<left, tick, cause, result, up>>
    BY <1>3 DEF Begin, DelayOver, Goto
  <2>2. up \in Int /\ up <= 0 /\ ~tick /\ (cause = "none" => left > 0)
    BY <1>1, <2>1, TimerFacts DEF Timed
  <2>3. up' <= Wait + Lag + waited'
    BY <2>1, <2>2, SpanFacts, TimingAssumption
  <2>4. Timed'
    BY <2>1, <2>2, <2>3 DEF Timed
  <2>5. QED
    BY <1>1, <2>1, <2>4 DEF Brief
<1>4. CASE Check
  <2>1. /\ pc = "loop" /\ pc' = "check" /\ waited' = 0
        /\ busy' \in 0 .. Longest /\ sawUp' = (up >= 0)
        /\ UNCHANGED <<left, next, tick, cause, result, up>>
    BY <1>4 DEF Check, Goto
  <2>2. cause = "none" => left > 0 /\ up <= Wait + Lag + waited
    BY <1>1, <2>1 DEF Timed
  <2>3. cause = "none" => up <= Gap + (Longest - busy') + waited'
    BY <1>1, <2>1, <2>2, TimerFacts, SpanFacts
  <2>4. ~(up >= 0) => up <= (Longest - busy') + waited' /\ up <= Interval - next
    BY <1>1, <2>1, TimerFacts
  <2>5. Timed'
    BY <2>1, <2>2, <2>3, <2>4 DEF Timed
  <2>6. QED
    BY <1>1, <2>1, <2>5 DEF Brief
<1>5. CASE CheckFails
  <2>1. /\ pc = "check" /\ pc' = "select" /\ waited' = 0
        /\ UNCHANGED <<left, next, tick, cause, result, up>>
        /\ (cause = "none" => ~sawUp /\ busy = 0)
    BY <1>5 DEF CheckFails, Fails, Expired, Goto
  <2>2. cause = "none" => /\ left > 0 /\ up <= Longest + waited
                          /\ ~tick => up <= Interval - next
    BY <1>1, <2>1, TimerFacts DEF Timed
  <2>3. cause = "none" => up <= Wait + waited'
    BY <1>1, <2>1, <2>2, TimerFacts, SpanFacts
  <2>4. Timed'
    BY <2>1, <2>2, <2>3 DEF Timed
  <2>5. QED
    BY <1>1, <2>1, <2>4 DEF Brief
<1>6. CASE Again
  <2>1. /\ pc = "select" /\ pc' = "loop" /\ waited' = 0
        /\ UNCHANGED <<left, cause, result, up>>
    BY <1>6 DEF Again, Goto
  <2>2. cause = "none" => left > 0 /\ up <= Wait + waited
    BY <1>1, <2>1 DEF Timed
  <2>3. cause = "none" => up <= Wait + Lag + waited'
    BY <1>1, <2>1, <2>2, TimerFacts
  <2>4. Timed'
    BY <2>1, <2>2, <2>3 DEF Timed
  <2>5. QED
    BY <1>1, <2>1, <2>4 DEF Brief
<1>7. QED
  BY <1>2, <1>3, <1>4, <1>5, <1>6 DEF Code

\* While the context goes on the goroutine is not kept waiting for longer than Lag.
LEMMA TimeStep ==
    ASSUME TypeOK, TimeInChecks, Timed, cause = "none"
    PROVE  /\ left > 0 /\ left' = left - 1
           /\ up' \in Int /\ up' <= up + 1 /\ (up < 0 => up' = up)
           /\ ~tick' => ~tick /\ next' = next - 1
           /\ Turn => waited < Lag /\ waited' = waited + 1
           /\ ~Turn => waited = 0 /\ waited' = 0
           /\ cause' = "none" \/ (cause' = "timeout" /\ left' = 0)
<1>1. left > 0 /\ (~Turn => waited = 0)
  BY DEF Timed
<1>2. left' = left - 1
  BY <1>1, TimerFacts DEF TimeInChecks, Less
<1>3. up' \in Int /\ up' <= up + 1 /\ (up < 0 => up' = up)
  BY TimerFacts DEF TimeInChecks
<1>4. ~tick' => ~tick /\ next' = next - 1
  BY DEF TimeInChecks, Sent
<1>5. /\ Turn => waited < Lag /\ waited' = waited + 1
      /\ ~Turn => waited' = 0
  BY DEF TimeInChecks
<1>6. cause' = "none" \/ (cause' = "timeout" /\ left' = 0)
  BY <1>1, <1>2, TimerFacts DEF TimeInChecks
<1>7. QED
  BY <1>1, <1>2, <1>3, <1>4, <1>5, <1>6

\* Time that passes brings the next check, or the end of this one, nearer.
LEMMA NoticedByTime ==
    ASSUME NInv, Time
    PROVE  Timed' /\ Brief'
<1>1. TypeOK /\ Timed /\ Brief
  BY DEF NInv
<1>2. CASE TimeInDelay
  BY <1>1, <1>2 DEF TimeInDelay, Timed, Brief, Turn
<1>3. CASE TimeInChecks
  <2>1. /\ pc \in {"loop", "check", "select"} /\ UNCHANGED <<pc, aware, result, sawUp>>
        /\ left' = Less(left) /\ busy' = Less(busy)
        /\ cause' = IF cause = "none" /\ left = 1 THEN "timeout" ELSE cause
        /\ up' = IF up >= 0 /\ left > 0 /\ up < Enough THEN up + 1 ELSE up
    BY <1>3 DEF TimeInChecks
  <2>2. CASE cause # "none"
    <3>1. cause' = cause /\ (left = 0 => left' = 0 /\ up' = up)
      BY <2>1, <2>2 DEF Less
    <3>2. QED
      BY <1>1, <2>1, <2>2, <3>1 DEF Timed, Brief
  <2>3. CASE cause = "none"
    <3>1. /\ left > 0 /\ left' = left - 1
          /\ up' \in Int /\ up' <= up + 1 /\ (up < 0 => up' = up)
          /\ ~tick' => ~tick /\ next' = next - 1
          /\ Turn => waited < Lag /\ waited' = waited + 1
          /\ ~Turn => waited = 0 /\ waited' = 0
          /\ cause' = "none" \/ (cause' = "timeout" /\ left' = 0)
      BY <1>1, <1>3, <2>3, TimeStep
    <3>2. cause' = "none" => left' > 0 /\ (~Turn' => waited' = 0)
      BY <1>1, <2>1, <2>3, <3>1, TimerFacts DEF Turn, Expired, TimeInChecks, Sent, Less
    <3>3. CASE pc = "loop"
      <4>1. Turn /\ up <= Wait + Lag + waited
        BY <1>1, <2>3, <3>3 DEF Timed, Turn
      <4>2. up' <= Wait + Lag + waited' /\ up' < Enough
        BY <1>1, <3>1, <4>1, TimerFacts, SpanFacts
      <4>3. Timed'
        BY <2>1, <3>2, <3>3, <4>2 DEF Timed
      <4>4. QED
        BY <1>1, <2>1, <2>3, <3>1, <4>2, <4>3 DEF Brief
    <3>4. CASE pc = "check"
      <4>1. /\ Turn <=> busy = 0
            /\ busy' = IF busy > 0 THEN busy - 1 ELSE 0
        BY <2>1, <2>3, <3>4 DEF Turn, Expired, Less
      <4>2. /\ sawUp => up <= Gap + (Longest - busy) + waited
            /\ ~sawUp => /\ up <= (Longest - busy) + waited
                         /\ ~tick => up <= Interval - next
        BY <1>1, <2>3, <3>4 DEF Timed
      <4>3. (Longest - busy') + waited' = (Longest - busy) + waited + 1
        BY <1>1, <3>1, <4>1, TimerFacts
      <4>4. busy' \in Int /\ busy' >= 0 /\ waited' \in Int /\ waited' <= Lag
        BY <1>1, <3>1, <4>1, TimerFacts
      <4>5. sawUp => up' <= Gap + (Longest - busy') + waited'
        BY <1>1, <3>1, <4>2, <4>3, <4>4, TimerFacts
      <4>6. ~sawUp => up' <= (Longest - busy') + waited'
        BY <1>1, <3>1, <4>2, <4>3, <4>4, TimerFacts
      <4>7. ~sawUp /\ ~tick' => up' <= Interval - next'
        BY <1>1, <3>1, <4>2, TimerFacts
      <4>8. up' < Enough
        BY <1>1, <3>1, <4>4, <4>5, <4>6, TimerFacts, SpanFacts
      <4>9. Timed'
        BY <2>1, <3>2, <3>4, <4>5, <4>6, <4>7 DEF Timed
      <4>10. QED
        BY <1>1, <2>1, <2>3, <3>1, <4>8, <4>9 DEF Brief
    <3>5. CASE pc = "select"
      <4>1. /\ Turn <=> tick
            /\ up <= Wait + waited
            /\ ~tick => up <= Interval - next
        BY <1>1, <2>3, <3>5 DEF Timed, Turn, Expired
      <4>2. up' <= Wait + waited'
        BY <1>1, <3>1, <4>1, TimerFacts, SpanFacts
      <4>3. ~tick' => up' <= Interval - next'
        BY <1>1, <3>1, <4>1, TimerFacts
      <4>4. up' < Enough
        BY <1>1, <3>1, <4>1, <4>2, TimerFacts, SpanFacts
      <4>5. Timed'
        BY <2>1, <3>2, <3>5, <4>2, <4>3 DEF Timed
      <4>6. QED
        BY <1>1, <2>1, <2>3, <3>1, <4>4, <4>5 DEF Brief
    <3>6. QED
      BY <2>1, <3>3, <3>4, <3>5
  <2>4. QED
    BY <2>2, <2>3
<1>4. QED
  BY <1>2, <1>3 DEF Time

\* No step breaks the invariant about the time since the application is up.
LEMMA NInvInductive == NInv /\ [Next]_vars => NInv'
<1> SUFFICES ASSUME NInv, [Next]_vars PROVE NInv'
  OBVIOUS
<1>1. TypeOK'
  BY TypesOfCode, TypesOfTime, TypesOfWorld DEF NInv, Next, TypeOK, vars
<1>2. CASE Code
  BY <1>1, <1>2, NoticedByCode DEF NInv
<1>3. CASE Time
  BY <1>1, <1>3, NoticedByTime DEF NInv
<1>4. CASE ComesUp
  <2>1. /\ up = -1 /\ up' = 0 /\ pc # "returned"
        /\ UNCHANGED <<aware, pc, delay, left, next, tick, busy, waited, cause, result, sawUp>>
    BY <1>4 DEF ComesUp
  <2>2. Enough > 0
    BY SpanFacts, TimingAssumption
  <2>3. /\ 0 <= Wait + Lag + waited
        /\ 0 <= Gap + (Longest - busy) + waited
        /\ 0 <= (Longest - busy) + waited
        /\ 0 <= Wait + waited
        /\ 0 <= Interval - next
    BY TimerFacts, SpanFacts DEF NInv
  <2>4. Timed'
    BY <2>1, <2>3 DEF NInv, Timed, Turn, Expired
  <2>5. Brief'
    BY <2>1, <2>2 DEF NInv, Brief
  <2>6. QED
    BY <1>1, <2>4, <2>5 DEF NInv
<1>5. CASE ParentDone
  <2>1. cause' # "none" /\ cause' # "timeout" /\ UNCHANGED <<pc, tick, up, result>>
    BY <1>5, TimingAssumption DEF ParentDone
  <2>2. QED
    BY <1>1, <2>1 DEF NInv, Timed, Brief
<1>6. CASE UNCHANGED vars
  BY <1>1, <1>6 DEF NInv, Timed, Brief, Turn, Expired, vars
<1>7. QED
  BY <1>2, <1>3, <1>4, <1>5, <1>6 DEF Next

(***************************************************************************)
(* Whatever the period, the timeout, the duration of the checks and the    *)
(* delays of the goroutine are, an operation is not rolled back for the    *)
(* health of an application that was healthy long enough before the timeout*)
(* for a check to be made of it (the loop of health.go:33-50).             *)
(***************************************************************************)
THEOREM HealthIsNoticed == Spec => []HealthNoticed
<1>1. Init => NInv
  BY InitTypes, TimingAssumption DEF Init, NInv, Timed, Turn, Brief
<1>2. NInv => HealthNoticed
  BY DEF NInv, Brief, HealthNoticed
<1>3. QED
  BY <1>1, <1>2, NInvInductive, PTL DEF Spec

=============================================================================
