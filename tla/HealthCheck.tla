----------------------------- MODULE HealthCheck -----------------------------
(***************************************************************************)
(* runHealthCheck (health.go): after the service was started its health is *)
(* checked again and again, at the pace of a ticker, until a check passes  *)
(* or a context ends.                                                      *)
(*                                                                         *)
(* Time passes in units; every timer is a countdown, so the state space is *)
(* finite however long the loop runs.  The goroutine may wait for its turn *)
(* before each of its steps, up to Lag units: meanwhile timers run out and *)
(* ticks arrive.  When several channels are ready the select statement may *)
(* take any of them.                                                       *)
(***************************************************************************)
EXTENDS Integers

CONSTANTS
    Interval,   \* period of the ticker, 250 ms
    Timeout,    \* HealthCheck.Timeout, or its default of 15 s
    MaxDelay,   \* longest HealthCheck.InitialDelay tried (a bound of the model)
    Longest,    \* no check takes longer (3 s for the HTTP client)
    Lag,        \* the goroutine waits no longer than that for its turn
    ParentEnds  \* how the caller's context may end: "canceled", "parent" (its deadline)

ASSUME TimingAssumption ==
    /\ Interval \in Nat \ {0}
    /\ Timeout \in Nat \ {0}
    /\ MaxDelay \in Nat
    /\ Longest \in Nat
    /\ Lag \in Nat
    /\ ParentEnds \subseteq {"canceled", "parent"}

VARIABLES
    aware,    \* checks return at once when their context ends, as HTTP requests do
    pc,       \* "start", "delay", "loop" (its beginning), "check" (one is running),
              \* "select", "returned"
    delay,    \* time left of the initial delay
    left,     \* time left of the timeout
    next,     \* time to the next tick
    tick,     \* the channel of the ticker holds a tick
    busy,     \* time left of the running check
    waited,   \* how long the goroutine has been waiting for its turn
    cause,    \* why the context of the checks ended, "none" while it has not
    result,   \* what is returned
    up,       \* how long the application is healthy, -1 while it is not;
              \* counted up to Enough and until the timeout
    sawUp     \* the application was healthy when the running check began

vars == <<aware, pc, delay, left, next, tick, busy, waited, cause, result, up, sawUp>>

\* The longest way of the code through a check, and from the start of one that was too
\* early to the start of the next: through the check or to the next tick, then out of
\* the select and into the check.
Span == Longest + Lag
Gap == (IF Span > Interval THEN Span ELSE Interval) + Lag + Lag

\* An application healthy for that long before the timeout was noticed.
Enough == Gap + Span + 1

Causes == {"none", "timeout", "canceled", "parent"}

\* Mutant of Expired.
Expired_ParentOnly == cause \in {"canceled", "parent"}

\* The channel checkCtx.Done() is ready.
Expired == cause # "none"

Init ==
    /\ aware \in BOOLEAN
    /\ pc = "start"
    /\ delay \in 0 .. MaxDelay
    /\ left = Timeout
    /\ next = Interval
    /\ tick = FALSE
    /\ busy = 0
    /\ waited = 0
    /\ cause = "none"
    /\ result = "none"
    /\ up = -1
    /\ sawUp = FALSE

\* The goroutine goes on; the next time it may wait again.
Goto(step) == pc' = step /\ waited' = 0

Return(answer) == Goto("returned") /\ result' = answer

\* Neither Check nor URL is set.
NothingToCheck ==
    /\ pc = "start"
    /\ Return("healthy")
    /\ UNCHANGED <<aware, delay, left, next, tick, busy, cause, up, sawUp>>

\* The initial delay, or none: then timeout and ticker are set at once.
Begin ==
    /\ pc = "start"
    /\ Goto(IF delay > 0 THEN "delay" ELSE "loop")
    /\ UNCHANGED <<aware, delay, left, next, tick, busy, cause, result, up, sawUp>>

\* The initial delay is over: the timeout and the ticker are set.
DelayOver ==
    /\ pc = "delay"
    /\ delay = 0
    /\ Goto("loop")
    /\ UNCHANGED <<aware, delay, left, next, tick, busy, cause, result, up, sawUp>>

\* A check is begun.
Check ==
    /\ pc = "loop"
    /\ Goto("check")
    /\ busy' \in 0 .. Longest
    /\ sawUp' = (up >= 0)
    /\ UNCHANGED <<aware, delay, left, next, tick, cause, result, up>>

\* The caller's context ended during the initial delay: ctx.Err().
DelayEnded ==
    /\ pc = "delay"
    /\ Expired
    /\ Return(cause)
    /\ UNCHANGED <<aware, delay, left, next, tick, busy, cause, up, sawUp>>

\* A check begun on a healthy application passes unless its context cuts it short.
Fails == ~sawUp \/ (aware /\ Expired)

CheckPasses ==
    /\ pc = "check"
    /\ busy = 0
    /\ up >= 0
    /\ Return("healthy")
    /\ UNCHANGED <<aware, delay, left, next, tick, busy, cause, up, sawUp>>

CheckFails ==
    /\ pc = "check"
    /\ busy = 0 \/ (aware /\ Expired)
    /\ Fails
    /\ Goto("select")
    /\ busy' = 0
    /\ UNCHANGED <<aware, delay, left, next, tick, cause, result, up, sawUp>>

\* <-checkCtx.Done(): "health check timed out" is also said of the caller's deadline.
Done ==
    /\ pc = "select"
    /\ Expired
    /\ Return(IF cause = "canceled" THEN "canceled" ELSE "timeout")
    /\ UNCHANGED <<aware, delay, left, next, tick, busy, cause, up, sawUp>>

\* <-ticker.C
Again ==
    /\ pc = "select"
    /\ tick
    /\ tick' = FALSE
    /\ Goto("loop")
    /\ UNCHANGED <<aware, delay, left, next, busy, cause, result, up, sawUp>>

-----------------------------------------------------------------------------

\* Mutant of Less.
Less_Unbounded(n) == n - 1

\* A countdown; one that is over stays over.
Less(n) == IF n > 0 THEN n - 1 ELSE 0

\* Mutant of Sent.
Sent_Dropped == next = 1 /\ pc = "select"

\* The ticker sends; its channel has room for one tick and keeps it.
Sent == tick \/ next = 1

\* The goroutine can go on.
Turn ==
    \/ pc = "loop"
    \/ pc = "check" /\ (busy = 0 \/ (aware /\ Expired))
    \/ pc = "select" /\ (tick \/ Expired)

\* Time of the initial delay; no other timer is set yet.
TimeInDelay ==
    /\ pc = "delay" /\ delay > 0 /\ ~Expired
    /\ delay' = delay - 1
    /\ UNCHANGED <<aware, pc, left, next, tick, busy, waited, cause, result, up, sawUp>>

\* Time of the checks.
TimeInChecks ==
    /\ pc \in {"loop", "check", "select"}
    /\ Turn => waited < Lag
    /\ waited' = IF Turn THEN waited + 1 ELSE 0
    /\ left' = Less(left)
    /\ cause' = IF cause = "none" /\ left = 1 THEN "timeout" ELSE cause
    /\ next' = IF next = 1 THEN Interval ELSE next - 1
    /\ tick' = Sent
    /\ busy' = Less(busy)
    /\ up' = IF up >= 0 /\ left > 0 /\ up < Enough THEN up + 1 ELSE up
    /\ UNCHANGED <<aware, pc, delay, result, sawUp>>

\* The application becomes healthy.
ComesUp ==
    /\ up = -1
    /\ pc # "returned"
    /\ up' = 0
    /\ UNCHANGED <<aware, pc, delay, left, next, tick, busy, waited, cause, result, sawUp>>

\* The context of the caller ends.
ParentDone ==
    /\ pc # "returned"
    /\ cause = "none"
    /\ cause' \in ParentEnds
    /\ UNCHANGED <<aware, pc, delay, left, next, tick, busy, waited, result, up, sawUp>>

Code == NothingToCheck \/ Begin \/ DelayOver \/ DelayEnded \/ Check
            \/ CheckPasses \/ CheckFails \/ Done \/ Again

Time == TimeInDelay \/ TimeInChecks

Next == Code \/ Time \/ ComesUp \/ ParentDone

Spec == Init /\ [][Next]_vars

(***************************************************************************)
(* The code runs, time passes, and a select that finds the context ended   *)
(* again and again takes that case some time: it chooses at random.        *)
(***************************************************************************)
FairSpec == Spec /\ WF_vars(Code) /\ WF_vars(Time) /\ SF_vars(Done)

-----------------------------------------------------------------------------

\* Every variable has its type.
TypeOK ==
    /\ aware \in BOOLEAN
    /\ pc \in {"start", "delay", "loop", "check", "select", "returned"}
    /\ delay \in 0 .. MaxDelay
    /\ left \in 0 .. Timeout
    /\ next \in 1 .. Interval
    /\ tick \in BOOLEAN
    /\ busy \in 0 .. Longest
    /\ waited \in 0 .. Lag
    /\ cause \in Causes
    /\ result \in {"none", "healthy", "timeout", "canceled", "parent"}
    /\ up \in -1 .. Enough
    /\ sawUp \in BOOLEAN

(***************************************************************************)
(* An upgrade is not rolled back for the health of an application that is  *)
(* well: if the application is healthy long enough before the timeout for a*)
(* running check to end, for the next tick to come and for one more check, *)
(* that check sees it and the timeout is not reported, whatever ticks were *)
(* missed and however the goroutine was scheduled (health.go:33-50).       *)
(***************************************************************************)
HealthNoticed == result = "timeout" /\ cause = "timeout" => up < Enough

\* A transaction does not wait for its health check for ever (health.go:33-50).
Returns == <>(pc = "returned")

=============================================================================
