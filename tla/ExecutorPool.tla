----------------------------- MODULE ExecutorPool -----------------------------
(***************************************************************************)
(* The executor pool of packages/asynctools for one tool: its circuit      *)
(* breaker, its sliding-window rate limiter, its concurrency limit with a  *)
(* FIFO queue, and the retry loop.  The pool keeps all of this per tool, so*)
(* tools do not meet.  A call is one invocation of execute().  Code between*)
(* two awaits is one action; time is counted in ticks.  A tool without a   *)
(* rate limit (breaker) is one whose limit (threshold) is out of reach.    *)
(***************************************************************************)
EXTENDS Integers, Sequences, FiniteSets

CONSTANTS
    Calls,          \* invocations of execute() for the tool
    MaxConcurrent,  \* toolDef.max_concurrent
    MaxAttempts,    \* toolDef.retry.max_attempts
    MaxRps,         \* toolDef.rate_limit.requests_per_second
    Window,         \* the limiter's window, in ticks
    Threshold,      \* toolDef.circuit_breaker.failure_threshold
    ResetTimeout,   \* toolDef.circuit_breaker.reset_timeout_ms, in ticks
    MaxTime,        \* bound on the clock
    MaxThrows       \* bound on the exceptions of onOpen and onClose

ASSUME PoolAssumption ==
    /\ IsFiniteSet(Calls)
    /\ {MaxConcurrent, MaxAttempts, MaxRps, Window, Threshold} \subseteq Nat \ {0}
    /\ {ResetTimeout, MaxTime, MaxThrows} \subseteq Nat
    /\ ResetTimeout >= Window   \* the schema's minimum is the limiter's 1000 ms

VARIABLES
    cb,         \* the breaker: state, consecutiveFailures, openedAt, probeInflight
    stamped,    \* SUBSET Calls: whose timestamps the limiter holds
    at,         \* [Calls -> Int]: when tryAcquire let it through, or Never
    executing,  \* stats.executing
    queued,     \* stats.queued
    queue,      \* Seq(Calls): the tool's queue
    pc,         \* [Calls -> Places]
    tries,      \* [Calls -> Nat]: attempts begun
    outcome,    \* [Calls -> Outcomes]: the status returned
    now,        \* the clock
    throws      \* exceptions of the callbacks so far

slots == <<executing, queued, queue>>
vars == <<cb, stamped, at, executing, queued, queue, pc, tries, outcome, now, throws>>

Never == -1
Places == {"new", "queued", "attempt", "backoff", "won", "lost", "done"}
Outcomes == {"none", "completed", "failed", "circuit_open", "rate_limited"}
Breakers == [state : {"CLOSED", "OPEN", "HALF_OPEN"}, failures : Nat,
             openedAt : Nat, probing : BOOLEAN]
Busy == {c \in Calls : pc[c] \in {"attempt", "backoff", "won", "lost"}}

\* openedAt is null in the code until the breaker opens; no one reads it then.
Init ==
    /\ cb = [state |-> "CLOSED", failures |-> 0, openedAt |-> 0, probing |-> FALSE]
    /\ stamped = {}
    /\ at = [c \in Calls |-> Never]
    /\ executing = 0
    /\ queued = 0
    /\ queue = <<>>
    /\ pc = [c \in Calls |-> "new"]
    /\ tries = [c \in Calls |-> 0]
    /\ outcome = [c \in Calls |-> "none"]
    /\ now = 0
    /\ throws = 0

-----------------------------------------------------------------------------
(* The breaker *)

Allows ==
    \/ cb.state = "CLOSED"
    \/ cb.state = "OPEN" /\ now - cb.openedAt >= ResetTimeout
    \/ cb.state = "HALF_OPEN" /\ ~cb.probing

\* Mutant: the probe is let through but not remembered.
ForgetsProbe == IF cb.state = "CLOSED" THEN cb ELSE [cb EXCEPT !.state = "HALF_OPEN"]

\* allowRequest has let a call through.
AfterAllow ==
    IF cb.state = "CLOSED" THEN cb
    ELSE [cb EXCEPT !.state = "HALF_OPEN", !.probing = TRUE]

\* Mutant: any success closes the breaker.
ClosesAlways(b) == [b EXCEPT !.state = "CLOSED", !.failures = 0, !.probing = FALSE]

AfterSuccess(b) ==
    IF b.state = "HALF_OPEN"
    THEN [b EXCEPT !.state = "CLOSED", !.failures = 0, !.openedAt = 0, !.probing = FALSE]
    ELSE [b EXCEPT !.failures = 0]

\* Mutant: one failure more than the threshold.
TripsLate(b) == b.state = "HALF_OPEN" \/ (b.state = "CLOSED" /\ b.failures >= Threshold)

\* Whether a failure opens the breaker: a failed probe, or one too many.
Trips(b) == b.state = "HALF_OPEN" \/ (b.state = "CLOSED" /\ b.failures + 1 >= Threshold)

AfterFailure(b) ==
    IF Trips(b)
    THEN [state |-> "OPEN", failures |-> b.failures + 1, openedAt |-> now, probing |-> FALSE]
    ELSE [b EXCEPT !.failures = b.failures + 1]

-----------------------------------------------------------------------------
(* execute: the guards, then a slot or the queue *)

\* Mutant: the window is a tick shorter at its far end.
RecentShort == {c \in stamped : at[c] > now - Window + 1}

\* Mutant: a timestamp as old as the window is kept.
RecentLong == {c \in stamped : at[c] >= now - Window}

\* tryAcquire keeps the timestamps inside the window.
Recent == {c \in stamped : at[c] > now - Window}
Acquires == Cardinality(Recent) < MaxRps

Refused(c) ==
    /\ pc[c] = "new"
    /\ ~Allows
    /\ pc' = [pc EXCEPT ![c] = "done"]
    /\ outcome' = [outcome EXCEPT ![c] = "circuit_open"]
    /\ UNCHANGED <<cb, stamped, at, slots, tries, now, throws>>

\* The breaker has already counted the call, as a probe if it is one.
RateLimited(c) ==
    /\ pc[c] = "new"
    /\ Allows /\ ~Acquires
    /\ cb' = AfterAllow
    /\ stamped' = Recent
    /\ pc' = [pc EXCEPT ![c] = "done"]
    /\ outcome' = [outcome EXCEPT ![c] = "rate_limited"]
    /\ UNCHANGED <<at, slots, tries, now, throws>>

Admit(c) ==
    /\ pc[c] = "new"
    /\ Allows /\ Acquires
    /\ cb' = AfterAllow
    /\ stamped' = Recent \cup {c}
    /\ at' = [at EXCEPT ![c] = now]

StartNow(c) ==
    /\ Admit(c)
    /\ executing < MaxConcurrent
    /\ executing' = executing + 1
    /\ pc' = [pc EXCEPT ![c] = "attempt"]
    /\ tries' = [tries EXCEPT ![c] = 1]
    /\ UNCHANGED <<queued, queue, outcome, now, throws>>

Enqueue(c) ==
    /\ Admit(c)
    /\ executing >= MaxConcurrent
    /\ queue' = Append(queue, c)
    /\ queued' = queued + 1
    /\ pc' = [pc EXCEPT ![c] = "queued"]
    /\ UNCHANGED <<executing, tries, outcome, now, throws>>

-----------------------------------------------------------------------------
(* executeWithRetry *)

\* The attempt returned a result.  An exception of onClose lands in the catch
\* of the attempt, which counts it as a failed one.
AttemptSucceeds(c) ==
    /\ pc[c] = "attempt"
    /\ cb' = AfterSuccess(cb)
    /\ pc' = [pc EXCEPT ![c] = "won"]
    /\ UNCHANGED <<stamped, at, slots, tries, outcome, now, throws>>

\* The next attempt after a pause, or the loop ends.
NextAttempt(c) ==
    pc' = [pc EXCEPT ![c] = IF tries[c] < MaxAttempts THEN "backoff" ELSE "lost"]

AttemptFails(c) ==
    /\ pc[c] = "attempt"
    /\ cb' = AfterFailure(cb)
    /\ NextAttempt(c)
    /\ UNCHANGED <<stamped, at, slots, tries, outcome, now, throws>>

\* onOpen throws: the exception leaves the loop whatever attempts are left.
OnOpenThrows(c) ==
    /\ pc[c] = "attempt"
    /\ throws < MaxThrows
    /\ Trips(cb)
    /\ throws' = throws + 1
    /\ cb' = AfterFailure(cb)
    /\ pc' = [pc EXCEPT ![c] = "lost"]
    /\ UNCHANGED <<stamped, at, slots, tries, outcome, now>>

OnCloseThrows(c) ==
    /\ pc[c] = "attempt"
    /\ throws < MaxThrows
    /\ cb.state = "HALF_OPEN"
    /\ throws' = throws + 1
    /\ cb' = AfterFailure(AfterSuccess(cb))
    /\ NextAttempt(c)
    /\ UNCHANGED <<stamped, at, slots, tries, outcome, now>>

\* The back-off is over; neither guard is asked again.
Retry(c) ==
    /\ pc[c] = "backoff"
    /\ pc' = [pc EXCEPT ![c] = "attempt"]
    /\ tries' = [tries EXCEPT ![c] = tries[c] + 1]
    /\ UNCHANGED <<cb, stamped, at, slots, outcome, now, throws>>

-----------------------------------------------------------------------------
(* executeNow's end: the slot is given back and the queue drained *)

\* Mutant: the queue is left to the next call.
StartsNone(free) == 0

\* How many queued calls start when free slots are available.
Starts(free) == IF Len(queue) < free THEN Len(queue) ELSE free

Finish(c) ==
    /\ pc[c] \in {"won", "lost"}
    /\ LET n     == Starts(MaxConcurrent - (executing - 1))
           first == {queue[i] : i \in 1 .. n}
       IN  /\ executing' = executing - 1 + n
           /\ queued' = queued - n
           /\ queue' = SubSeq(queue, n + 1, Len(queue))
           /\ pc' = [d \in Calls |-> IF d = c THEN "done"
                                     ELSE IF d \in first THEN "attempt" ELSE pc[d]]
           /\ tries' = [d \in Calls |-> IF d \in first THEN 1 ELSE tries[d]]
    /\ outcome' = [outcome EXCEPT ![c] = IF pc[c] = "won" THEN "completed" ELSE "failed"]
    /\ UNCHANGED <<cb, stamped, at, now, throws>>

\* Time passes when no promise callback is left to run.
Tick ==
    /\ now < MaxTime
    /\ \A c \in Calls : pc[c] \notin {"won", "lost"}
    /\ now' = now + 1
    /\ UNCHANGED <<cb, stamped, at, slots, pc, tries, outcome, throws>>

-----------------------------------------------------------------------------

Execute(c) == Refused(c) \/ RateLimited(c) \/ StartNow(c) \/ Enqueue(c)
AttemptEnds(c) == AttemptSucceeds(c) \/ AttemptFails(c) \/ OnOpenThrows(c) \/ OnCloseThrows(c)

Next ==
    \/ \E c \in Calls : Execute(c) \/ AttemptEnds(c) \/ Retry(c) \/ Finish(c)
    \/ Tick

\* Attempts end, by themselves or because the timeout aborts the request or the
\* subprocess; sleeps end; the event loop runs what is ready.
Fairness == \A c \in Calls : WF_vars(AttemptEnds(c)) /\ WF_vars(Retry(c)) /\ WF_vars(Finish(c))

Spec == Init /\ [][Next]_vars
LiveSpec == Spec /\ Fairness

-----------------------------------------------------------------------------
(* Properties *)

TypeOK ==
    /\ cb \in Breakers
    /\ stamped \subseteq Calls
    /\ at \in [Calls -> Int]
    /\ executing \in Nat
    /\ queued \in Nat
    /\ queue \in Seq(Calls)
    /\ pc \in [Calls -> Places]
    /\ tries \in [Calls -> Nat]
    /\ outcome \in [Calls -> Outcomes]
    /\ now \in Nat
    /\ throws \in Nat

\* The statistics that decide who may run agree with what runs and waits, no
\* more than max_concurrent calls run, and none waits next to a free slot.
SlotsAccounted ==
    /\ executing = Cardinality(Busy)
    /\ executing <= MaxConcurrent
    /\ queued = Len(queue)
    /\ queue # <<>> => executing = MaxConcurrent

\* The limiter holds over every window of time, wherever it begins, and not
\* only over the one that ended at some call.
RateBounded ==
    \A t \in 0 .. now :
        Cardinality({c \in Calls : at[c] \in t .. t + Window - 1}) <= MaxRps

\* A breaker that lets everything through has seen fewer consecutive failures
\* than the threshold, late results of earlier calls included.
FailuresTrip == cb.state = "CLOSED" => cb.failures < Threshold

\* An open breaker is left through HALF_OPEN, after the reset timeout: the late
\* success of a call admitted earlier does not close it.
OpenUntilProbe ==
    [][cb.state = "OPEN" /\ cb'.state # "OPEN" =>
          cb'.state = "HALF_OPEN" /\ now - cb.openedAt >= ResetTimeout]_vars

\* While the breaker stays half open, no second call is let through.
OneProbe ==
    [][cb.state = "HALF_OPEN" /\ cb'.state = "HALF_OPEN" =>
          \A c \in Calls : pc[c] = "new" /\ pc'[c] # "new" => outcome'[c] = "circuit_open"]_vars

\* A call that was let through returns, whatever fails and is retried.
CallReturns ==
    \A c \in Calls : pc[c] \notin {"new", "done"} ~> pc[c] = "done"

\* The rate limiter never refuses a probe, which would leave the breaker half
\* open for good: the reset timeout outlasts the window.
ProbeAcquires == Allows /\ cb.state # "CLOSED" => Acquires

\* A breaker does not stay half open.
ProbeDecided == cb.state = "HALF_OPEN" ~> cb.state # "HALF_OPEN"
=============================================================================
